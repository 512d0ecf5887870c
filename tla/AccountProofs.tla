----------------------------- MODULE AccountProofs -----------------------------
(***************************************************************************)
(* The customer's side: tickets and chat, the end of an account, and what  *)
(* an invitation pays.                                                     *)
(*                                                                         *)
(* Rows are read, thought about and saved later, so the invariants speak   *)
(* of what the readers hold.  Tickets: what counted forms will still open. *)
(* The chat: a badge may be counted down only by a poll that shows *)
(* it.  Closing: what a session, a row and the list of a deletion say of   *)
(* each other.  Invitations: who will see that a payout is due, and what   *)
(* the draft of each worker will be explained by.                          *)
(***************************************************************************)
EXTENDS Desk, Tickets, Closing, Referral, FiniteSetTheorems, WellFoundedInduction, TLAPS

-----------------------------------------------------------------------------
(* Tickets.                                                                *)

LEMMA TicketChosen == (CHOOSE k \in Tickets : TRUE) \in Tickets
BY TicketsAssumption

LEMMA TicketsTypedInit == TicketInit => TicketTypeOK
BY TicketChosen, TicketsAssumption
DEF TicketInit, TicketTypeOK, Waiting, NoPage

LEMMA TicketsTypedStep ==
  ASSUME TicketTypeOK, [TicketNext]_ticketVars
  PROVE  TicketTypeOK'
<1>1. ASSUME NEW f \in Forms, CountOpen(f) \/ Reopen(f) PROVE TicketTypeOK'
  BY <1>1, TicketChosen DEF CountOpen, Reopen, TicketTypeOK, Waiting
<1>2. ASSUME NEW f \in Forms, NEW k \in Tickets, Create(f, k) \/ AddNote(f, k) PROVE TicketTypeOK'
  <2>1. Outdated(k) \in [Pages -> [open : BOOLEAN, ticket : Tickets,
                                   view : {"list", "thread", "outdated"},
                                   shown : {"none", "open", "answered", "closed"}]]
    BY DEF Outdated, TicketTypeOK
  <2>2. notes' \in 0..MaxNotes
    BY <1>2, TicketsAssumption DEF Create, AddNote, TicketTypeOK
  <2>3. CASE Create(f, k)
    BY <2>2, <2>3, TicketChosen DEF Create, TicketTypeOK, Waiting
  <2>4. CASE AddNote(f, k)
    BY <2>1, <2>2, <2>4 DEF AddNote, TicketTypeOK
  <2>5. QED
    BY <1>2, <2>3, <2>4
<1>3. ASSUME NEW f \in Forms, NEW k \in Tickets, CloseTicket(f, k) PROVE TicketTypeOK'
  BY <1>3 DEF CloseTicket, TicketTypeOK
<1>4. ASSUME NEW o \in Pages, NEW k \in Tickets, NEW view \in {"list", "thread"},
             OpenPage(o, k, view)
      PROVE  TicketTypeOK'
  BY <1>4 DEF OpenPage, TicketTypeOK
<1>5. ASSUME NEW o \in Pages, NEW choice \in {"open", "answered", "closed"}, NEW replies \in BOOLEAN,
             SavePage(o, choice, replies)
      PROVE  TicketTypeOK'
  <2>1. PICK k \in Tickets : k = page[o].ticket
    BY DEF TicketTypeOK
  <2>2. Saved(state[k], choice, replies) \in {"open", "answered", "closed"}
    BY DEF Saved
  <2>3. NoPage \in [open : BOOLEAN, ticket : Tickets, view : {"list", "thread", "outdated"},
                    shown : {"none", "open", "answered", "closed"}]
    BY TicketChosen DEF NoPage
  <2>4. QED
    BY <1>5, <2>1, <2>2, <2>3 DEF SavePage, TicketTypeOK
<1>6. ASSUME NEW f \in Forms, Die(f) PROVE TicketTypeOK'
  <2>1. deaths' \in 0..MaxDeaths
    BY <1>6, TicketsAssumption DEF Die, TicketTypeOK
  <2>2. UNCHANGED <<state, unread, page, reopened, notes>> /\ form' = [form EXCEPT ![f] = Waiting]
    BY <1>6 DEF Die
  <2>3. QED
    BY <2>1, <2>2, TicketChosen DEF TicketTypeOK, Waiting
<1>7. CASE UNCHANGED ticketVars
  BY <1>7 DEF ticketVars, TicketTypeOK
<1>8. QED
  BY <1>1, <1>2, <1>3, <1>4, <1>5, <1>6, <1>7 DEF TicketNext

\* Requests that were counted and have not created their ticket yet.
Counted == {f \in Forms : form[f].pc = "create"}

\* What was opened and what is about to be; only tickets that exist are talked about.
CapInv ==
    /\ TicketTypeOK
    /\ \A f \in Forms : form[f].pc = "said" => state[form[f].ticket] # "none"
    /\ \A o \in Pages : page[o].open => state[page[o].ticket] # "none"
    /\ Cardinality(OpenTickets \ reopened) + Cardinality(Counted)
          <= MAX_OPEN_TICKETS + Cardinality(Forms) - 1

LEMMA CapFinite ==
  ASSUME NEW all \in SUBSET Tickets, NEW some \in SUBSET all, NEW counted \in SUBSET Forms
  PROVE  /\ IsFiniteSet(all) /\ IsFiniteSet(some) /\ IsFiniteSet(counted)
         /\ Cardinality(all) \in Nat /\ Cardinality(some) \in Nat
         /\ Cardinality(counted) \in Nat /\ Cardinality(Forms) \in Nat
         /\ Cardinality(some) <= Cardinality(all)
         /\ Cardinality(counted) <= Cardinality(Forms)
<1>1. IsFiniteSet(Tickets) /\ IsFiniteSet(Forms)
  BY TicketsAssumption
<1>2. IsFiniteSet(all) /\ IsFiniteSet(counted) /\ Cardinality(counted) <= Cardinality(Forms)
  BY <1>1, FS_Subset
<1>3. IsFiniteSet(some) /\ Cardinality(some) <= Cardinality(all)
  BY <1>2, FS_Subset
<1>4. QED
  BY <1>1, <1>2, <1>3, FS_CardinalityType

\* The sets that are counted, now and after a step.
LEMMA CapSets ==
  /\ OpenTickets \in SUBSET Tickets /\ OpenTickets \ reopened \in SUBSET OpenTickets
  /\ Counted \in SUBSET Forms
  /\ OpenTickets' \in SUBSET Tickets /\ OpenTickets' \ reopened' \in SUBSET OpenTickets'
  /\ Counted' \in SUBSET Forms
  /\ MAX_OPEN_TICKETS \in Nat \ {0}
BY TicketsAssumption DEF OpenTickets, Counted

\* A step that counts nobody and opens nothing but what was closed.
LEMMA CapKept ==
  ASSUME CapInv, TicketTypeOK', OpenTickets' \ reopened' \subseteq OpenTickets \ reopened,
         Counted' \subseteq Counted,
         \A f \in Forms : form[f].pc = "said" => state[form[f].ticket] # "none",
         \A f \in Forms : form'[f].pc = "said" => state'[form'[f].ticket] # "none",
         \A o \in Pages : page'[o].open => state'[page'[o].ticket] # "none"
  PROVE  CapInv'
<1>1. TicketTypeOK
  BY DEF CapInv
<1>2. /\ Cardinality(OpenTickets' \ reopened') <= Cardinality(OpenTickets \ reopened)
      /\ Cardinality(Counted') <= Cardinality(Counted)
  BY <1>1, CapFinite, CapSets, FS_Subset
<1>3. /\ Cardinality(OpenTickets' \ reopened') \in Nat /\ Cardinality(Counted') \in Nat
  BY CapFinite, CapSets
<1>4. Cardinality(OpenTickets' \ reopened') + Cardinality(Counted')
          <= MAX_OPEN_TICKETS + Cardinality(Forms) - 1
  BY <1>1, <1>2, <1>3, CapFinite, CapSets DEF CapInv
<1>5. QED
  BY <1>4 DEF CapInv

LEMMA CapStart == TicketInit => CapInv
<1> SUFFICES ASSUME TicketInit PROVE CapInv
  OBVIOUS
<1>1. TicketTypeOK
  BY TicketsTypedInit
<1>2. OpenTickets \ reopened = {} /\ Counted = {}
  BY DEF TicketInit, OpenTickets, Counted, Waiting
<1>3. Cardinality(OpenTickets \ reopened) = 0 /\ Cardinality(Counted) = 0
  BY <1>2, FS_EmptySet
<1>4. QED
  BY <1>1, <1>3, CapFinite, CapSets DEF CapInv, TicketInit, Waiting, NoPage

LEMMA CapStep ==
  ASSUME CapInv, [TicketNext]_ticketVars
  PROVE  CapInv'
<1>1. /\ TicketTypeOK /\ TicketTypeOK'
      /\ \A f \in Forms : form[f].pc = "said" => state[form[f].ticket] # "none"
      /\ \A o \in Pages : page[o].open => state[page[o].ticket] # "none"
  BY TicketsTypedStep DEF CapInv
<1>2. ASSUME NEW f \in Forms, CountOpen(f) PROVE CapInv'
  <2>1. OpenTickets' = OpenTickets /\ UNCHANGED <<state, reopened, page>>
    BY <1>2 DEF CountOpen, OpenTickets
  <2>2. Cardinality(OpenTickets) < MAX_OPEN_TICKETS
    BY <1>2 DEF CountOpen
  <2>3. Cardinality(OpenTickets' \ reopened') + Cardinality(Counted')
          <= MAX_OPEN_TICKETS + Cardinality(Forms) - 1
    <3>1. /\ Cardinality(OpenTickets') = Cardinality(OpenTickets) /\ Cardinality(OpenTickets) \in Nat
          /\ Cardinality(OpenTickets' \ reopened') \in Nat
          /\ Cardinality(OpenTickets' \ reopened') <= Cardinality(OpenTickets')
          /\ Cardinality(Counted') \in Nat /\ Cardinality(Counted') <= Cardinality(Forms)
          /\ Cardinality(Forms) \in Nat /\ MAX_OPEN_TICKETS \in Nat
      BY <1>1, <2>1, CapFinite, CapSets
    <3>2. QED
      BY <2>2, <3>1
  <2>4. \A g \in Forms : form'[g].pc = "said" => form'[g] = form[g]
    BY <1>1, <1>2 DEF CountOpen, TicketTypeOK
  <2>5. QED
    BY <1>1, <2>1, <2>3, <2>4 DEF CapInv
<1>3. ASSUME NEW f \in Forms, NEW k \in Tickets, Create(f, k) PROVE CapInv'
  <2>1. /\ state[k] = "none" /\ state'[k] = "open" /\ \A j \in Tickets : j # k => state'[j] = state[j]
        /\ form[f].pc = "create" /\ form'[f].pc = "idle" /\ \A g \in Forms : g # f => form'[g] = form[g]
        /\ UNCHANGED <<page, reopened>>
    BY <1>1, <1>3 DEF Create, Waiting, TicketTypeOK
  <2>2. OpenTickets' \ reopened' \subseteq (OpenTickets \ reopened) \union {k}
    BY <2>1 DEF OpenTickets
  <2>3. Counted = Counted' \union {f} /\ f \notin Counted'
    BY <2>1 DEF Counted
  <2>4. Cardinality(Counted) = Cardinality(Counted') + 1
    BY <1>1, <2>3, CapFinite, CapSets, FS_AddElement
  <2>5. Cardinality(OpenTickets' \ reopened') <= Cardinality(OpenTickets \ reopened) + 1
    <3>1. k \notin OpenTickets \ reopened
      BY <2>1 DEF OpenTickets
    <3>2. IsFiniteSet((OpenTickets \ reopened) \union {k})
          /\ Cardinality((OpenTickets \ reopened) \union {k}) = Cardinality(OpenTickets \ reopened) + 1
      BY <1>1, <3>1, CapFinite, CapSets, FS_AddElement
    <3>3. QED
      BY <2>2, <3>2, FS_Subset
  <2>6. Cardinality(OpenTickets' \ reopened') + Cardinality(Counted')
          <= MAX_OPEN_TICKETS + Cardinality(Forms) - 1
    <3>1. /\ Cardinality(OpenTickets' \ reopened') \in Nat /\ Cardinality(Counted') \in Nat
          /\ Cardinality(OpenTickets \ reopened) \in Nat /\ Cardinality(Counted) \in Nat
          /\ Cardinality(Forms) \in Nat /\ MAX_OPEN_TICKETS \in Nat
      BY <1>1, CapFinite, CapSets
    <3>2. Cardinality(OpenTickets \ reopened) + Cardinality(Counted)
            <= MAX_OPEN_TICKETS + Cardinality(Forms) - 1
      BY DEF CapInv
    <3>3. QED
      BY <2>4, <2>5, <3>1, <3>2
  <2>7. \A j \in Tickets : state[j] # "none" => state'[j] # "none"
    BY <2>1
  <2>8. \A g \in Forms : form'[g].pc = "said" => state'[form'[g].ticket] # "none"
    <3>1. \A g \in Forms : form[g].ticket \in Tickets
      BY <1>1 DEF TicketTypeOK
    <3>2. QED
      BY <1>1, <2>1, <2>7, <3>1
  <2>9. \A o \in Pages : page'[o].open => state'[page'[o].ticket] # "none"
    <3>1. \A o \in Pages : page[o].ticket \in Tickets
      BY <1>1 DEF TicketTypeOK
    <3>2. QED
      BY <1>1, <2>1, <2>7, <3>1
  <2>10. QED
    BY <1>1, <2>6, <2>8, <2>9 DEF CapInv
<1>4. ASSUME NEW f \in Forms, NEW k \in Tickets, AddNote(f, k) PROVE CapInv'
  <2>1. UNCHANGED <<state, reopened>> /\ state[k] # "none"
        /\ form' = [form EXCEPT ![f] = [pc |-> "said", ticket |-> k]]
    BY <1>4 DEF AddNote
  <2>2. \A o \in Pages : page'[o].open = page[o].open /\ page'[o].ticket = page[o].ticket
    BY <1>1, <1>4 DEF AddNote, Outdated, TicketTypeOK
  <2>3. /\ \A g \in Forms : form'[g].pc = "said" => state'[form'[g].ticket] # "none"
        /\ \A o \in Pages : page'[o].open => state'[page'[o].ticket] # "none"
    BY <1>1, <2>1, <2>2 DEF TicketTypeOK
  <2>4. OpenTickets' = OpenTickets /\ Counted' \subseteq Counted
    BY <1>1, <2>1 DEF OpenTickets, Counted, TicketTypeOK
  <2>5. QED
    BY <1>1, <2>1, <2>3, <2>4, CapKept
<1>5. ASSUME NEW f \in Forms, Reopen(f) PROVE CapInv'
  <2>1. PICK k \in Tickets : k = form[f].ticket
    BY <1>1 DEF TicketTypeOK
  <2>2. /\ form[f].pc = "said" /\ form' = [form EXCEPT ![f] = Waiting]
        /\ reopened' = (IF state[k] = "closed" THEN reopened \union {k} ELSE reopened)
        /\ \A j \in Tickets : state'[j] = IF j = k THEN "open" ELSE state[j]
        /\ UNCHANGED page
    BY <1>1, <1>5, <2>1 DEF Reopen, TicketTypeOK
  <2>3. state[k] \in {"open", "answered", "closed"}
    BY <1>1, <2>1, <2>2 DEF TicketTypeOK
  <2>4. OpenTickets' \ reopened' \subseteq OpenTickets \ reopened
    BY <2>2, <2>3 DEF OpenTickets
  <2>5. Counted' \subseteq Counted
    BY <1>1, <2>2 DEF Counted, Waiting, TicketTypeOK
  <2>6. /\ \A g \in Forms : form'[g].pc = "said" => state'[form'[g].ticket] # "none"
        /\ \A o \in Pages : page'[o].open => state'[page'[o].ticket] # "none"
    BY <1>1, <2>2 DEF Waiting, TicketTypeOK
  <2>7. QED
    BY <1>1, <2>4, <2>5, <2>6, CapKept
<1>6. ASSUME NEW f \in Forms, NEW k \in Tickets, CloseTicket(f, k) PROVE CapInv'
  <2>1. /\ UNCHANGED <<form, page>> /\ reopened' = reopened \ {k}
        /\ \A j \in Tickets : state'[j] = IF j = k THEN "closed" ELSE state[j]
    BY <1>1, <1>6 DEF CloseTicket, TicketTypeOK
  <2>2. OpenTickets' \ reopened' \subseteq OpenTickets \ reopened /\ Counted' = Counted
    BY <2>1 DEF OpenTickets, Counted
  <2>3. /\ \A g \in Forms : form'[g].pc = "said" => state'[form'[g].ticket] # "none"
        /\ \A o \in Pages : page'[o].open => state'[page'[o].ticket] # "none"
    BY <1>1, <2>1 DEF TicketTypeOK
  <2>4. QED
    BY <1>1, <2>2, <2>3, CapKept
<1>7. ASSUME NEW o \in Pages, NEW k \in Tickets, NEW view \in {"list", "thread"}, OpenPage(o, k, view)
      PROVE  CapInv'
  <2>1. /\ UNCHANGED <<state, form, reopened>> /\ state[k] # "none"
        /\ \A p \in Pages : p # o => page'[p] = page[p]
        /\ page'[o].ticket = k
    BY <1>1, <1>7 DEF OpenPage, TicketTypeOK
  <2>2. OpenTickets' = OpenTickets /\ Counted' = Counted
    BY <2>1 DEF OpenTickets, Counted
  <2>3. \A p \in Pages : page'[p].open => state'[page'[p].ticket] # "none"
    BY <1>1, <2>1
  <2>4. QED
    BY <1>1, <2>1, <2>2, <2>3, CapKept
<1>8. ASSUME NEW o \in Pages, NEW choice \in {"open", "answered", "closed"}, NEW replies \in BOOLEAN,
             SavePage(o, choice, replies)
      PROVE  CapInv'
  <2>1. PICK k \in Tickets : k = page[o].ticket
    BY <1>1 DEF TicketTypeOK
  <2>2. /\ page[o].open /\ UNCHANGED form /\ page' = [page EXCEPT ![o] = NoPage]
        /\ reopened' = (IF state[k] = "closed" /\ choice # "closed" THEN reopened \union {k} ELSE reopened)
        /\ \A j \in Tickets : state'[j] = IF j = k THEN Saved(state[k], choice, replies) ELSE state[j]
    BY <1>1, <1>8, <2>1 DEF SavePage, TicketTypeOK
  <2>3. state[k] \in {"open", "answered", "closed"}
    BY <1>1, <2>1, <2>2 DEF TicketTypeOK
  <2>4. /\ Saved(state[k], choice, replies) \in {"open", "answered", "closed"}
        /\ choice = "closed" => Saved(state[k], choice, replies) = "closed"
    BY DEF Saved
  <2>5. OpenTickets' \ reopened' \subseteq OpenTickets \ reopened
    BY <2>2, <2>3, <2>4 DEF OpenTickets
  <2>6. Counted' = Counted
    BY <2>2 DEF Counted
  <2>7. /\ \A g \in Forms : form'[g].pc = "said" => state'[form'[g].ticket] # "none"
        /\ \A p \in Pages : page'[p].open => state'[page'[p].ticket] # "none"
    BY <1>1, <2>2, <2>4 DEF NoPage, TicketTypeOK
  <2>8. QED
    BY <1>1, <2>5, <2>6, <2>7, CapKept
<1>9. ASSUME NEW f \in Forms, Die(f) PROVE CapInv'
  <2>1. UNCHANGED <<state, reopened, page>> /\ form' = [form EXCEPT ![f] = Waiting]
    BY <1>9 DEF Die
  <2>2. OpenTickets' = OpenTickets /\ Counted' \subseteq Counted
    BY <1>1, <2>1 DEF OpenTickets, Counted, Waiting, TicketTypeOK
  <2>3. \A g \in Forms : form'[g].pc = "said" => state'[form'[g].ticket] # "none"
    BY <1>1, <2>1 DEF Waiting, TicketTypeOK
  <2>4. QED
    BY <1>1, <2>1, <2>2, <2>3, CapKept
<1>10. CASE UNCHANGED ticketVars
  <2>1. OpenTickets' = OpenTickets /\ Counted' = Counted /\ UNCHANGED <<state, reopened, form, page>>
    BY <1>10 DEF ticketVars, OpenTickets, Counted
  <2>2. QED
    BY <1>1, <2>1, CapKept
<1>11. QED
  BY <1>2, <1>3, <1>4, <1>5, <1>6, <1>7, <1>8, <1>9, <1>10 DEF TicketNext

\* However many tabs are counted together, a customer is over the limit by at most one
\* ticket for each but one, apart from those a reply or an operator took out of closed
\* (support/views.py, ticket_new).
THEOREM TicketCapHolds == TicketSpec => []OpenCap
<1>1. CapInv => OpenCap
  <2>1. SUFFICES ASSUME CapInv PROVE OpenCap
    OBVIOUS
  <2>2. QED
    BY <2>1, CapFinite, CapSets DEF CapInv, OpenCap
<1>2. QED
  BY <1>1, CapStart, CapStep, PTL DEF TicketSpec
-----------------------------------------------------------------------------
(* The support chat.                                                       *)

LEMMA CopiesTyped ==
  /\ NoCopy \in Copies /\ NewConv \in Copies
  /\ \A copy \in Copies : Count(copy) \in Copies
  /\ \A copy \in Copies, verb \in Verbs : Kept(copy, verb) \in Copies
  /\ \A saved, copy \in Copies, kind \in Intents : Named(saved, copy, kind) \in Copies
  /\ \A saved, copy \in Copies : \A step \in {"take", "close", "replied", "resumed", "toggle"} :
        Written(saved, copy, step) \in Copies
<1>1. NoCopy \in Copies /\ NewConv \in Copies
  BY DEF NoCopy, NewConv, Copies
<1>2. \A copy \in Copies : Count(copy) \in Copies
  BY DEF NoCopy, NewConv, Copies, Count
<1>3. ASSUME NEW copy \in Copies, NEW verb \in Verbs PROVE Kept(copy, verb) \in Copies
  <2>1. [NoCopy EXCEPT !.joined = copy.joined] \in Copies
    BY <1>1 DEF Copies
  <2>2. QED
    BY <1>1, <1>2, <2>1 DEF Kept, Verbs
<1>4. \A saved, copy \in Copies, kind \in Intents : Named(saved, copy, kind) \in Copies
  BY DEF Named, Raised, Copies
<1>5. ASSUME NEW saved \in Copies, NEW copy \in Copies,
             NEW step \in {"take", "close", "replied", "resumed", "toggle"}
      PROVE  Written(saved, copy, step) \in Copies
  <2>0. PICK n \in Nat : n = copy.unread + 1
    BY DEF Copies
  <2>1. [saved EXCEPT !.joined = TRUE, !.notified = TRUE] \in Copies
    BY DEF Copies
  <2>2. [saved EXCEPT !.status = "closed"] \in Copies
    BY DEF Copies
  <2>3. [saved EXCEPT !.joined = TRUE, !.notified = TRUE, !.unread = n] \in Copies
    BY DEF Copies
  <2>4. [saved EXCEPT !.joined = FALSE, !.notified = TRUE, !.status = "open", !.unread = n] \in Copies
    <3>1. PICK silent \in Copies : silent = [saved EXCEPT !.joined = FALSE, !.notified = TRUE]
      BY DEF Copies
    <3>2. [silent EXCEPT !.status = "open", !.unread = n] \in Copies
      BY DEF Copies
    <3>3. QED
      BY <3>1, <3>2 DEF Copies
  <2>5. [saved EXCEPT !.joined = ~copy.joined] \in Copies
    BY DEF Copies
  <2>6. QED
    BY <2>0, <2>1, <2>2, <2>3, <2>4, <2>5 DEF Written
<1>6. QED
  BY <1>1, <1>2, <1>3, <1>4, <1>5

LEMMA IdleTyped == AnyConv \in Convs /\ \A c \in Convs : Idle(c) \in Requests
<1>1. AnyConv \in Convs
  BY DeskAssumption DEF AnyConv
<1>2. NoCopy \in Copies
  BY CopiesTyped
<1>3. QED
  BY <1>1, <1>2 DEF Idle, Steps, Requests, Intents

LEMMA RequestTyped ==
  ASSUME NEW step \in Steps, NEW c \in Convs, NEW copy \in Copies, NEW kind \in Intents,
         NEW seen \in BOOLEAN
  PROVE  [pc |-> step, conv |-> c, copy |-> copy, kind |-> kind, seen |-> seen] \in Requests
BY DEF Requests, Steps

\* A request with another step, copy or kind.
LEMMA RequestMoved ==
  ASSUME NEW x \in Requests, NEW step \in Steps, NEW copy \in Copies, NEW kind \in Intents
  PROVE  /\ x.pc \in Steps /\ x.conv \in Convs /\ x.copy \in Copies /\ x.kind \in Intents
         /\ x.seen \in BOOLEAN
         /\ [x EXCEPT !.pc = step] \in Requests
         /\ [x EXCEPT !.pc = step, !.kind = kind] \in Requests
         /\ [x EXCEPT !.pc = step, !.copy = copy, !.kind = kind] \in Requests
         /\ [x EXCEPT !.copy = copy, !.pc = step] \in Requests
BY DEF Requests, Steps

LEMMA StepNames ==
  \A seen, copy, kind : Serialize(seen, copy) \in Steps /\ NextAfter(copy, kind) \in Steps
BY DEF Serialize, NextAfter, Steps

LEMMA DeskTypesInit == DeskInit => DeskTypeOK
<1> SUFFICES ASSUME DeskInit PROVE DeskTypeOK
  OBVIOUS
<1>1. posts \in 0..MaxPosts /\ words \in 0..MaxWords
  BY DeskAssumption DEF DeskInit
<1>2. QED
  BY <1>1, CopiesTyped, IdleTyped DEF DeskInit, DeskTypeOK

LEMMA CustomerTypes ==
  ASSUME DeskTypeOK, NEW t \in Tabs, CustomerStep(t)
  PROVE  DeskTypeOK'
<1> DEFINE c == tab[t].conv
<1>0. /\ conv \in [Convs -> Copies] /\ unseen \in [Convs -> Nat]
      /\ notices \in [Convs -> [Tabs -> Nat]]
      /\ tab \in [Tabs -> Requests] /\ desk \in [Staff -> Requests] /\ label \in [Convs -> Requests]
      /\ posts \in 0..MaxPosts /\ words \in 0..MaxWords
  BY DEF DeskTypeOK
<1>1. tab[t] \in Requests /\ c \in Convs /\ tab[t].copy \in Copies /\ conv[c] \in Copies
  BY <1>0 DEF Requests, Steps, Copies
<1>2. ASSUME NEW d \in Convs, NEW seen \in BOOLEAN, NEW over \in BOOLEAN, Poll(t, d, seen, over)
      PROVE  DeskTypeOK'
  <2>1. PICK step \in Steps :
          step = IF over /\ NoticeDue(conv[d]) THEN "notice" ELSE Serialize(seen, conv[d])
    BY StepNames DEF Steps
  <2>2. tab' = [tab EXCEPT ![t] = [pc |-> step, conv |-> d, copy |-> Count(conv[d]),
                                   kind |-> "plain", seen |-> seen]]
    BY <1>2, <2>1 DEF Poll
  <2>3. Count(conv[d]) \in Copies
    BY <1>0, CopiesTyped
  <2>4. [pc |-> step, conv |-> d, copy |-> Count(conv[d]), kind |-> "plain", seen |-> seen]
          \in Requests
    BY <2>3, RequestTyped DEF Intents
  <2>5. tab' \in [Tabs -> Requests]
    BY <1>0, <2>2, <2>4
  <2>6. UNCHANGED <<conv, unseen, desk, label, notices, posts, words>>
    BY <1>2 DEF Poll
  <2>7. QED
    BY <1>0, <2>5, <2>6 DEF DeskTypeOK
<1>3. ASSUME SayNotice(t) PROVE DeskTypeOK'
  <2>1. [tab[t] EXCEPT !.pc = "noted"] \in Requests
    BY <1>1 DEF Requests, Steps
  <2>2. tab' \in [Tabs -> Requests]
    BY <1>0, <1>3, <2>1 DEF SayNotice
  <2>3. unseen' \in [Convs -> Nat] /\ notices' \in [Convs -> [Tabs -> Nat]]
    BY <1>0, <1>1, <1>3 DEF SayNotice
  <2>4. QED
    BY <1>0, <1>3, <2>2, <2>3 DEF SayNotice, DeskTypeOK
<1>4. ASSUME SaveNotice(t) PROVE DeskTypeOK'
  <2>1. [conv[c] EXCEPT !.notified = TRUE, !.unread = tab[t].copy.unread + 1] \in Copies
    <3>1. PICK n \in Nat : n = tab[t].copy.unread + 1
      BY <1>1 DEF Copies
    <3>2. [conv[c] EXCEPT !.notified = TRUE, !.unread = n] \in Copies
      BY <1>1 DEF Copies
    <3>3. QED
      BY <3>1, <3>2
  <2>2. Recount(tab[t]) \in Requests
    <3>1. [tab[t].copy EXCEPT !.unread = @ + 1] \in Copies
      BY <1>1 DEF Copies
    <3>2. QED
      BY <1>1, <3>1 DEF Recount, Requests, Steps
  <2>3. conv' \in [Convs -> Copies]
    BY <1>0, <1>1, <1>4, <2>1 DEF SaveNotice
  <2>4. tab' \in [Tabs -> Requests]
    <3>1. PICK x \in Requests :
            x = IF tab[t].seen THEN Recount(tab[t]) ELSE Idle(AnyConv)
      BY <2>2, IdleTyped
    <3>2. tab' = [tab EXCEPT ![t] = x]
      BY <1>0, <1>4, <3>1 DEF SaveNotice
    <3>3. QED
      BY <1>0, <3>2
  <2>5. QED
    BY <1>0, <1>4, <2>3, <2>4 DEF SaveNotice, DeskTypeOK
<1>5. ASSUME NEW d \in Convs, NEW kind \in Intents, Post(t, d, kind) PROVE DeskTypeOK'
  <2>1. [conv[d] EXCEPT !.made = TRUE] \in Copies
    BY <1>0 DEF Copies
  <2>2. [pc |-> "said", conv |-> d, kind |-> kind, seen |-> TRUE,
         copy |-> [conv[d] EXCEPT !.made = TRUE]] \in Requests
    BY <2>1 DEF Requests, Steps
  <2>3. conv' \in [Convs -> Copies] /\ tab' \in [Tabs -> Requests]
    BY <1>0, <1>5, <2>1, <2>2 DEF Post
  <2>4. posts' \in 0..MaxPosts
    BY <1>0, <1>5, DeskAssumption DEF Post
  <2>5. QED
    BY <1>0, <1>5, <2>3, <2>4 DEF Post, DeskTypeOK
<1>6. ASSUME SavePost(t) PROVE DeskTypeOK'
  <2>1. PICK step \in Steps : step = NextAfter(tab[t].copy, tab[t].kind)
    BY StepNames
  <2>2. Count(tab[t].copy) \in Copies /\ Named(conv[c], tab[t].copy, tab[t].kind) \in Copies
    BY <1>1, CopiesTyped DEF Requests, Steps
  <2>3. [tab[t] EXCEPT !.copy = Count(@), !.pc = step] \in Requests
    BY <1>1, <2>2, RequestMoved DEF Requests, Steps
  <2>4. conv' \in [Convs -> Copies] /\ tab' \in [Tabs -> Requests]
    BY <1>0, <1>1, <1>6, <2>1, <2>2, <2>3 DEF SavePost
  <2>5. QED
    BY <1>0, <1>6, <2>4 DEF SavePost, DeskTypeOK
<1>7. ASSUME Answer(t) PROVE DeskTypeOK'
  <2>1. PICK step \in Steps : step = Serialize(TRUE, tab[t].copy)
    BY StepNames
  <2>2. [tab[t] EXCEPT !.pc = step, !.kind = "plain"] \in Requests
    BY <1>1 DEF Requests, Steps, Intents
  <2>3. tab' \in [Tabs -> Requests]
    BY <1>0, <1>7, <2>1, <2>2 DEF Answer
  <2>4. PICK next \in Steps :
          next = IF tab[t].kind = "plain" /\ label[c].pc = "idle" THEN "asked" ELSE label[c].pc
    <3>1. "asked" \in Steps /\ label[c].pc \in Steps
      BY <1>0, <1>1 DEF Requests, Steps
    <3>2. QED
      BY <3>1
  <2>5. label' = [label EXCEPT ![c] = [@ EXCEPT !.pc = next]]
    BY <1>0, <1>1, <1>7, <2>4 DEF Answer
  <2>6. [label[c] EXCEPT !.pc = next] \in Requests
    BY <1>0, <1>1 DEF Requests, Steps
  <2>7. label' \in [Convs -> Requests]
    BY <1>0, <2>5, <2>6
  <2>8. QED
    BY <1>0, <1>7, <2>3, <2>7 DEF Answer, DeskTypeOK
<1>8. ASSUME Clear(t) PROVE DeskTypeOK'
  <2>1. PICK n \in Nat : n = IF conv[c].unread <= tab[t].copy.unread THEN 0 ELSE conv[c].unread
    BY <1>1 DEF Copies
  <2>2. conv' = [conv EXCEPT ![c] = [@ EXCEPT !.unread = n]]
    BY <1>0, <1>1, <1>8, <2>1 DEF Clear
  <2>3. [conv[c] EXCEPT !.unread = n] \in Copies
    BY <1>1 DEF Copies
  <2>4. [tab[t] EXCEPT !.pc = "show", !.copy = NoCopy, !.kind = "plain"] \in Requests
    BY <1>1, CopiesTyped DEF Requests, Steps, Intents
  <2>5. conv' \in [Convs -> Copies] /\ tab' \in [Tabs -> Requests]
    BY <1>0, <1>8, <2>2, <2>3, <2>4 DEF Clear
  <2>6. QED
    BY <1>0, <1>8, <2>5 DEF Clear, DeskTypeOK
<1>9. ASSUME Show(t) PROVE DeskTypeOK'
  <2>1. tab' \in [Tabs -> Requests] /\ unseen' \in [Convs -> Nat]
    BY <1>0, <1>9, IdleTyped DEF Show
  <2>2. QED
    BY <1>0, <1>9, <2>1 DEF Show, DeskTypeOK
<1>10. QED
  BY <1>2, <1>3, <1>4, <1>5, <1>6, <1>7, <1>8, <1>9 DEF CustomerStep

LEMMA SecondLookTypes ==
  ASSUME DeskTypeOK, NEW c \in Convs, SecondLook(c)
  PROVE  DeskTypeOK'
<1>0. conv[c] \in Copies /\ label[c] \in Requests
  BY DEF DeskTypeOK
<1>1. ASSUME NEW fresh \in BOOLEAN, LabelRead(c, fresh) PROVE DeskTypeOK'
  <2>1. [label[c].copy EXCEPT !.status = conv[c].status] \in Copies
    BY <1>0 DEF Requests, Copies
  <2>2. PICK x \in Requests :
          x = IF fresh THEN [label[c] EXCEPT !.pc = "read", !.copy.status = conv[c].status]
              ELSE Idle(c)
    BY <1>0, <2>1, IdleTyped DEF Requests, Steps
  <2>3. label' = [label EXCEPT ![c] = x]
    BY <1>1, <2>2 DEF LabelRead, DeskTypeOK
  <2>4. label' \in [Convs -> Requests]
    BY <2>3 DEF DeskTypeOK
  <2>5. QED
    BY <1>1, <2>4 DEF LabelRead, DeskTypeOK
<1>2. ASSUME LabelSave(c) PROVE DeskTypeOK'
  <2>1. PICK raised \in {"open", "escalated", "closed"} :
          raised = IF label[c].copy.status = "open" THEN "escalated" ELSE conv[c].status
    BY <1>0 DEF Copies
  <2>2. [conv[c] EXCEPT !.status = raised] \in Copies
    BY <1>0 DEF Copies
  <2>3. conv' = [conv EXCEPT ![c] = [@ EXCEPT !.status = raised]]
    BY <1>2, <2>1 DEF LabelSave, DeskTypeOK
  <2>4. conv' \in [Convs -> Copies] /\ label' \in [Convs -> Requests]
    BY <1>2, <2>2, <2>3, IdleTyped DEF LabelSave, DeskTypeOK
  <2>5. QED
    BY <1>2, <2>4 DEF LabelSave, DeskTypeOK
<1>3. QED
  BY <1>1, <1>2 DEF SecondLook

LEMMA StaffTypes ==
  ASSUME DeskTypeOK, NEW o \in Staff, StaffStep(o)
  PROVE  DeskTypeOK'
<1> DEFINE d == desk[o].conv
<1>0. /\ desk[o] \in Requests /\ d \in Convs /\ desk[o].copy \in Copies /\ conv[d] \in Copies
      /\ conv \in [Convs -> Copies] /\ desk \in [Staff -> Requests] /\ unseen \in [Convs -> Nat]
      /\ words \in 0..MaxWords
  BY DEF DeskTypeOK, Requests
<1>1. ASSUME NEW c \in Convs, NEW verb \in Verbs, Read(o, c, verb) PROVE DeskTypeOK'
  <2>1. PICK copy \in Copies : copy = Kept(conv[c], verb)
    BY <1>0, CopiesTyped
  <2>2. [pc |-> verb, conv |-> c, copy |-> copy, kind |-> "plain", seen |-> FALSE] \in Requests
    BY RequestTyped DEF Steps, Intents
  <2>3. desk' \in [Staff -> Requests]
    BY <1>0, <1>1, <2>1, <2>2 DEF Read
  <2>4. words' \in 0..MaxWords
    BY <1>0, <1>1, DeskAssumption DEF Read
  <2>5. QED
    BY <1>1, <2>3, <2>4 DEF Read, DeskTypeOK
<1>2. ASSUME Say(o) PROVE DeskTypeOK'
  <2>1. PICK step \in Steps : step = IF desk[o].pc = "reply" THEN "replied" ELSE "resumed"
    BY DEF Steps
  <2>2. [desk[o] EXCEPT !.pc = step] \in Requests
    BY <1>0 DEF Requests
  <2>3. desk' = [desk EXCEPT ![o] = [@ EXCEPT !.pc = step]]
    BY <1>0, <1>2, <2>1 DEF Say
  <2>4. desk' \in [Staff -> Requests] /\ unseen' \in [Convs -> Nat]
    BY <1>0, <1>2, <2>2, <2>3 DEF Say
  <2>5. QED
    BY <1>2, <2>4 DEF Say, DeskTypeOK
<1>3. ASSUME Save(o) PROVE DeskTypeOK'
  <2>1. Written(conv[d], desk[o].copy, desk[o].pc) \in Copies
    BY <1>0, <1>3, CopiesTyped DEF Save
  <2>2. conv' \in [Convs -> Copies] /\ desk' \in [Staff -> Requests]
    BY <1>0, <1>3, <2>1, IdleTyped DEF Save
  <2>3. QED
    BY <1>3, <2>2 DEF Save, DeskTypeOK
<1>4. ASSUME NEW c \in Convs, OpenForm(o, c) PROVE DeskTypeOK'
  <2>1. [pc |-> "form", conv |-> c, copy |-> conv[c], kind |-> "plain", seen |-> FALSE] \in Requests
    BY <1>0, RequestTyped DEF Steps, Intents
  <2>2. desk' \in [Staff -> Requests] /\ words' \in 0..MaxWords
    BY <1>0, <1>4, <2>1, DeskAssumption DEF OpenForm
  <2>3. QED
    BY <1>4, <2>2 DEF OpenForm, DeskTypeOK
<1>5. ASSUME NEW replies \in BOOLEAN, SaveForm(o, replies) PROVE DeskTypeOK'
  <2>1. PICK joined \in BOOLEAN, n \in Nat :
          /\ joined = (desk[o].copy.joined \/ replies)
          /\ n = IF replies THEN desk[o].copy.unread + 1 ELSE desk[o].copy.unread
    BY <1>0 DEF Copies
  <2>2. [desk[o].copy EXCEPT !.joined = joined, !.unread = n] \in Copies
    BY <1>0 DEF Copies
  <2>3. conv' = [conv EXCEPT ![d] = [desk[o].copy EXCEPT !.joined = joined, !.unread = n]]
    BY <1>0, <1>5, <2>1 DEF SaveForm
  <2>4. /\ conv' \in [Convs -> Copies] /\ desk' \in [Staff -> Requests]
        /\ unseen' \in [Convs -> Nat]
    BY <1>0, <1>5, <2>2, <2>3, IdleTyped DEF SaveForm
  <2>5. QED
    BY <1>5, <2>4 DEF SaveForm, DeskTypeOK
<1>6. QED
  BY <1>1, <1>2, <1>3, <1>4, <1>5 DEF StaffStep

LEMMA DeskTypesStep ==
  ASSUME DeskTypeOK, [DeskNext]_deskVars
  PROVE  DeskTypeOK'
<1>1. ASSUME NEW cs \in SUBSET Convs, CloseMany(cs) PROVE DeskTypeOK'
  <2>1. \A c \in Convs : [conv[c] EXCEPT !.status = "closed"] \in Copies
    BY DEF DeskTypeOK, Copies
  <2>2. conv' \in [Convs -> Copies]
    BY <1>1, <2>1 DEF CloseMany, DeskTypeOK
  <2>3. QED
    BY <1>1, <2>2 DEF CloseMany, DeskTypeOK
<1>2. CASE UNCHANGED deskVars
  BY <1>2 DEF deskVars, DeskTypeOK
<1>3. QED
  BY <1>1, <1>2, CustomerTypes, SecondLookTypes, StaffTypes DEF DeskNext
-----------------------------------------------------------------------------
\* A message of conversation c that is not counted or shown yet.
OperatorOn(o, c) == desk[o].conv = c /\ desk[o].pc \in {"replied", "resumed"}
CustomerOn(t, c) == tab[t].conv = c /\ tab[t].pc \in {"noted", "show"}

BadgeFor(c) ==
    unseen[c] > 0 => \/ conv[c].unread > 0
                     \/ \E o \in Staff : OperatorOn(o, c)
                     \/ \E t \in Tabs : CustomerOn(t, c)

DeskInv == DeskTypeOK /\ \A c \in Convs : BadgeFor(c)

LEMMA BadgesAre == DeskInv => BadgeForUnseen
BY DEF DeskInv, BadgeFor, BadgeForUnseen, CountPending, OperatorOn, CustomerOn

LEMMA DeskInvInit == DeskInit => DeskInv
BY DeskTypesInit DEF DeskInit, DeskInv, BadgeFor

\* Nothing happened to the badge of a conversation.
LEMMA BadgeStays ==
  ASSUME NEW c \in Convs, BadgeFor(c), conv[c] \in Copies, conv'[c] \in Copies, unseen[c] \in Nat,
         unseen'[c] = unseen[c], conv'[c].unread >= conv[c].unread,
         \A o \in Staff : OperatorOn(o, c) => OperatorOn(o, c)',
         \A t \in Tabs : CustomerOn(t, c) => CustomerOn(t, c)'
  PROVE  BadgeFor(c)'
BY DEF BadgeFor, Copies

LEMMA BadgeShown ==
  ASSUME NEW c \in Convs, conv'[c] \in Copies,
         \/ unseen'[c] = 0
         \/ conv'[c].unread > 0
         \/ \E o \in Staff : OperatorOn(o, c)'
         \/ \E t \in Tabs : CustomerOn(t, c)'
  PROVE  BadgeFor(c)'
BY DEF BadgeFor

LEMMA CustomerBadge ==
  ASSUME DeskInv, DeskTypeOK', NEW t \in Tabs, CustomerStep(t), NEW x \in Convs
  PROVE  BadgeFor(x)'
<1> DEFINE c == tab[t].conv
<1>0. /\ tab \in [Tabs -> Requests] /\ conv \in [Convs -> Copies] /\ unseen \in [Convs -> Nat]
      /\ c \in Convs /\ conv'[x] \in Copies /\ conv[x] \in Copies /\ unseen[x] \in Nat
      /\ BadgeFor(x) /\ tab[t].copy \in Copies
  BY DEF DeskInv, DeskTypeOK, Requests
\* Another tab is where it was, and so is an operator.
<1>1. desk' = desk /\ \A s \in Tabs : s # t => tab'[s] = tab[s]
  BY <1>0 DEF CustomerStep, Poll, Post, SayNotice, SaveNotice, SavePost, Answer, Clear, Show
<1>2. ASSUME unseen'[x] = unseen[x], conv'[x].unread >= conv[x].unread, ~CustomerOn(t, x)
      PROVE  BadgeFor(x)'
  <2>1. \A s \in Tabs : CustomerOn(s, x) => CustomerOn(s, x)'
    BY <1>1, <1>2 DEF CustomerOn
  <2>2. \A o \in Staff : OperatorOn(o, x) => OperatorOn(o, x)'
    BY <1>1 DEF OperatorOn
  <2>3. QED
    BY <1>0, <1>2, <2>1, <2>2, BadgeStays
<1>3. ASSUME NEW d \in Convs, NEW seen \in BOOLEAN, NEW over \in BOOLEAN, Poll(t, d, seen, over)
      PROVE  BadgeFor(x)'
  BY <1>0, <1>2, <1>3 DEF Poll, CustomerOn, Copies
<1>4. ASSUME NEW d \in Convs, NEW kind \in Intents, Post(t, d, kind) PROVE BadgeFor(x)'
  <2>1. conv'[x].unread = conv[x].unread
    BY <1>0, <1>4 DEF Post, Copies
  <2>2. conv[x].unread \in Nat /\ unseen'[x] = unseen[x] /\ ~CustomerOn(t, x)
    BY <1>0, <1>4 DEF Post, CustomerOn, Copies
  <2>3. QED
    BY <1>2, <2>1, <2>2
<1>5. ASSUME SavePost(t) PROVE BadgeFor(x)'
  <2>1. conv'[x].unread = conv[x].unread
    <3>1. Named(conv[c], tab[t].copy, tab[t].kind).unread = conv[c].unread
      BY <1>0 DEF Named, Copies
    <3>2. QED
      BY <1>0, <1>5, <3>1 DEF SavePost
  <2>2. conv[x].unread \in Nat /\ unseen'[x] = unseen[x] /\ ~CustomerOn(t, x)
    BY <1>0, <1>5 DEF SavePost, CustomerOn, Copies
  <2>3. QED
    BY <1>2, <2>1, <2>2
<1>6. ASSUME Answer(t) PROVE BadgeFor(x)'
  BY <1>0, <1>2, <1>6 DEF Answer, CustomerOn, Copies
<1>7. ASSUME SayNotice(t) PROVE BadgeFor(x)'
  <2>1. CASE x = c
    <3>1. CustomerOn(t, x)'
      BY <1>0, <1>7, <2>1 DEF SayNotice, CustomerOn, Requests
    <3>2. QED
      BY <1>0, <3>1, BadgeShown
  <2>2. CASE x # c
    BY <1>0, <1>2, <1>7, <2>2 DEF SayNotice, CustomerOn, Copies
  <2>3. QED
    BY <2>1, <2>2
<1>8. ASSUME SaveNotice(t) PROVE BadgeFor(x)'
  <2>1. CASE x = c
    <3>1. conv'[x].unread > 0
      BY <1>0, <1>8, <2>1 DEF SaveNotice, Copies
    <3>2. QED
      BY <1>0, <3>1, BadgeShown
  <2>2. CASE x # c
    BY <1>0, <1>2, <1>8, <2>2 DEF SaveNotice, CustomerOn, Copies
  <2>3. QED
    BY <2>1, <2>2
<1>9. ASSUME Clear(t) PROVE BadgeFor(x)'
  <2>1. CASE x = c
    <3>1. CustomerOn(t, x)'
      BY <1>0, <1>9, <2>1 DEF Clear, CustomerOn, Requests
    <3>2. QED
      BY <1>0, <3>1, BadgeShown
  <2>2. CASE x # c
    BY <1>0, <1>2, <1>9, <2>2 DEF Clear, CustomerOn, Copies
  <2>3. QED
    BY <2>1, <2>2
<1>10. ASSUME Show(t) PROVE BadgeFor(x)'
  <2>1. CASE x = c
    <3>1. unseen'[x] = 0
      BY <1>0, <1>10, <2>1 DEF Show
    <3>2. QED
      BY <1>0, <3>1, BadgeShown
  <2>2. CASE x # c
    BY <1>0, <1>2, <1>10, <2>2 DEF Show, CustomerOn, Copies
  <2>3. QED
    BY <2>1, <2>2
<1>11. QED
  BY <1>3, <1>4, <1>5, <1>6, <1>7, <1>8, <1>9, <1>10 DEF CustomerStep

\* What an operator saves, unless a page as old as the customer's last look.
LEMMA StaffBadge ==
  ASSUME ~StalePages, DeskInv, DeskTypeOK', NEW o \in Staff, StaffStep(o), NEW x \in Convs
  PROVE  BadgeFor(x)'
<1> DEFINE d == desk[o].conv
<1>0. /\ desk \in [Staff -> Requests] /\ conv \in [Convs -> Copies] /\ unseen \in [Convs -> Nat]
      /\ d \in Convs /\ conv'[x] \in Copies /\ conv[x] \in Copies /\ unseen[x] \in Nat
      /\ BadgeFor(x) /\ desk[o].copy \in Copies
  BY DEF DeskInv, DeskTypeOK, Requests
<1>1. tab' = tab /\ \A s \in Staff : s # o => desk'[s] = desk[s]
  BY <1>0 DEF StaffStep, Read, Say, Save, OpenForm, SaveForm
<1>2. ASSUME unseen'[x] = unseen[x], conv'[x].unread >= conv[x].unread, ~OperatorOn(o, x)
      PROVE  BadgeFor(x)'
  <2>1. \A s \in Staff : OperatorOn(s, x) => OperatorOn(s, x)'
    BY <1>1, <1>2 DEF OperatorOn
  <2>2. \A t \in Tabs : CustomerOn(t, x) => CustomerOn(t, x)'
    BY <1>1 DEF CustomerOn
  <2>3. QED
    BY <1>0, <1>2, <2>1, <2>2, BadgeStays
<1>3. ASSUME NEW c \in Convs, NEW verb \in Verbs, Read(o, c, verb) PROVE BadgeFor(x)'
  BY <1>0, <1>2, <1>3 DEF Read, OperatorOn, Copies
<1>4. ASSUME Say(o) PROVE BadgeFor(x)'
  <2>1. CASE x = d
    <3>1. OperatorOn(o, x)'
      BY <1>0, <1>4, <2>1 DEF Say, OperatorOn, Requests
    <3>2. QED
      BY <1>0, <3>1, BadgeShown
  <2>2. CASE x # d
    BY <1>0, <1>2, <1>4, <2>2 DEF Say, OperatorOn, Copies
  <2>3. QED
    BY <2>1, <2>2
<1>5. ASSUME Save(o) PROVE BadgeFor(x)'
  <2>1. CASE x = d /\ desk[o].pc \in {"replied", "resumed"}
    <3>1. Written(conv[d], desk[o].copy, desk[o].pc).unread > 0
      BY <1>0, <2>1 DEF Written, Copies
    <3>2. conv'[x].unread > 0
      BY <1>0, <1>5, <2>1, <3>1 DEF Save
    <3>3. QED
      BY <1>0, <3>2, BadgeShown
  <2>2. CASE x = d /\ desk[o].pc \in {"take", "close", "toggle"}
    <3>1. Written(conv[d], desk[o].copy, desk[o].pc).unread = conv[d].unread
      BY <1>0, <2>2 DEF Written, Copies
    <3>2. conv'[x].unread = conv[x].unread /\ conv[x].unread \in Nat
      BY <1>0, <1>5, <2>2, <3>1 DEF Save, Copies
    <3>3. unseen'[x] = unseen[x] /\ ~OperatorOn(o, x)
      BY <1>5, <2>2 DEF Save, OperatorOn
    <3>4. QED
      BY <1>2, <3>2, <3>3
  <2>3. CASE x # d
    BY <1>0, <1>2, <1>5, <2>3 DEF Save, OperatorOn, Copies
  <2>4. QED
    BY <1>5, <2>1, <2>2, <2>3 DEF Save
<1>6. ASSUME NEW c \in Convs, OpenForm(o, c) PROVE BadgeFor(x)'
  BY <1>0, <1>2, <1>6 DEF OpenForm, OperatorOn, Copies
<1>7. ASSUME NEW replies \in BOOLEAN, SaveForm(o, replies) PROVE BadgeFor(x)'
  <2>1. desk[o].copy = conv[d]
    BY <1>7 DEF SaveForm
  <2>2. CASE x # d
    BY <1>0, <1>2, <1>7, <2>2 DEF SaveForm, OperatorOn, Copies
  <2>3. CASE x = d /\ replies
    <3>1. conv'[x].unread > 0
      BY <1>0, <1>7, <2>1, <2>3 DEF SaveForm, Copies
    <3>2. QED
      BY <1>0, <3>1, BadgeShown
  <2>4. CASE x = d /\ ~replies
    <3>1. conv'[x].unread = conv[x].unread /\ conv[x].unread \in Nat
      BY <1>0, <1>7, <2>1, <2>4 DEF SaveForm, Copies
    <3>2. unseen'[x] = unseen[x] /\ ~OperatorOn(o, x)
      BY <1>0, <1>7, <2>4 DEF SaveForm, OperatorOn
    <3>3. QED
      BY <1>2, <3>1, <3>2
  <2>5. QED
    BY <2>2, <2>3, <2>4
<1>8. QED
  BY <1>3, <1>4, <1>5, <1>6, <1>7 DEF StaffStep

LEMMA DeskInvStep ==
  ASSUME ~StalePages, DeskInv, [DeskNext]_deskVars
  PROVE  DeskInv'
<1>1. DeskTypeOK'
  BY DeskTypesStep DEF DeskInv
<1>2. ASSUME NEW x \in Convs PROVE BadgeFor(x)'
  <2>0. /\ conv \in [Convs -> Copies] /\ conv'[x] \in Copies /\ conv[x] \in Copies
        /\ unseen[x] \in Nat /\ BadgeFor(x) /\ label \in [Convs -> Requests]
    BY <1>1 DEF DeskInv, DeskTypeOK
  <2>1. ASSUME UNCHANGED <<unseen, tab, desk>>, conv'[x].unread = conv[x].unread PROVE BadgeFor(x)'
    <3>1. /\ \A o \in Staff : OperatorOn(o, x) => OperatorOn(o, x)'
          /\ \A t \in Tabs : CustomerOn(t, x) => CustomerOn(t, x)'
      BY <2>1 DEF OperatorOn, CustomerOn
    <3>2. unseen'[x] = unseen[x] /\ conv'[x].unread >= conv[x].unread
      BY <2>0, <2>1 DEF Copies
    <3>3. QED
      BY <2>0, <3>1, <3>2, BadgeStays
  <2>2. ASSUME NEW c \in Convs, SecondLook(c) PROVE BadgeFor(x)'
    <3>1. UNCHANGED <<unseen, tab, desk>>
      BY <2>2 DEF SecondLook, LabelRead, LabelSave
    <3>2. conv'[x].unread = conv[x].unread
      BY <2>0, <2>2 DEF SecondLook, LabelRead, LabelSave, Copies
    <3>3. QED
      BY <2>1, <3>1, <3>2
  <2>3. ASSUME NEW cs \in SUBSET Convs, CloseMany(cs) PROVE BadgeFor(x)'
    <3>1. conv'[x].unread = conv[x].unread
      BY <2>0, <2>3 DEF CloseMany, Copies
    <3>2. QED
      BY <2>1, <2>3, <3>1 DEF CloseMany
  <2>4. CASE UNCHANGED deskVars
    BY <2>1, <2>4 DEF deskVars
  <2>5. QED
    BY <1>1, <2>2, <2>3, <2>4, CustomerBadge, StaffBadge DEF DeskNext
<1>3. QED
  BY <1>1, <1>2 DEF DeskInv

\* Whatever counts, polls and posts interleave, a message the customer has not seen
\* has a badge, provided no admin page saves an outdated one (support/views.py, _serialize).
THEOREM UnseenHasItsBadge ==
  ASSUME ~StalePages
  PROVE  DeskSpec => []BadgeForUnseen
<1>1. DeskInv /\ [DeskNext]_deskVars => DeskInv'
  BY DeskInvStep
<1>2. QED
  BY <1>1, DeskInvInit, BadgesAre, PTL DEF DeskSpec

LEMMA TakenStep ==
  ASSUME ~StalePages, DeskTypeOK, [DeskNext]_deskVars, NEW x \in Convs,
         conv[x].joined, ~conv'[x].joined
  PROVE  \E o \in Staff : desk[o].conv = x /\ desk[o].pc \in {"resumed", "toggle"} /\ Save(o)
<1>0. /\ conv \in [Convs -> Copies] /\ conv[x] \in Copies
      /\ tab \in [Tabs -> Requests] /\ desk \in [Staff -> Requests] /\ label \in [Convs -> Requests]
  BY DEF DeskTypeOK
<1>1. ~UNCHANGED deskVars
  BY DEF deskVars
<1>2. ASSUME NEW t \in Tabs, CustomerStep(t) PROVE FALSE
  <2>1. \A saved, copy, kind : saved \in Copies => Named(saved, copy, kind).joined = saved.joined
    BY DEF Named, Copies
  <2>2. tab[t].conv \in Convs /\ tab[t].copy \in Copies
    BY <1>0 DEF Requests
  <2>3. CASE SavePost(t)
    BY <1>0, <2>1, <2>2, <2>3 DEF SavePost
  <2>4. CASE \E c \in Convs, kind \in Intents : Post(t, c, kind)
    BY <1>0, <2>4 DEF Post, Copies
  <2>5. CASE SaveNotice(t) \/ Clear(t)
    BY <1>0, <2>2, <2>5 DEF SaveNotice, Clear, Copies
  <2>6. CASE UNCHANGED conv
    BY <2>6
  <2>7. QED
    BY <1>2, <2>3, <2>4, <2>5, <2>6 DEF CustomerStep, Poll, SayNotice, Answer, Show
<1>3. ASSUME NEW c \in Convs, SecondLook(c) PROVE FALSE
  BY <1>0, <1>3 DEF SecondLook, LabelRead, LabelSave, Copies
<1>4. ASSUME NEW cs \in SUBSET Convs, CloseMany(cs) PROVE FALSE
  BY <1>0, <1>4 DEF CloseMany, Copies
<1>5. PICK o \in Staff : StaffStep(o)
  BY <1>1, <1>2, <1>3, <1>4 DEF DeskNext
<1>6. desk[o].conv \in Convs /\ desk[o].copy \in Copies
  BY <1>0 DEF Requests
<1>7. ASSUME NEW replies \in BOOLEAN, SaveForm(o, replies) PROVE FALSE
  <2>1. desk[o].copy = conv[desk[o].conv]
    BY <1>7 DEF SaveForm
  <2>2. x = desk[o].conv
    BY <1>0, <1>6, <1>7 DEF SaveForm
  <2>3. conv[x].joined => conv'[x].joined
    BY <1>0, <1>6, <1>7, <2>1, <2>2 DEF SaveForm, Copies
  <2>4. QED
    BY <2>3
<1>8. Save(o)
  BY <1>5, <1>7 DEF StaffStep, Read, Say, OpenForm
<1>9. x = desk[o].conv
  BY <1>0, <1>6, <1>8 DEF Save
<1>10. conv'[x] = Written(conv[x], desk[o].copy, desk[o].pc)
  BY <1>0, <1>8, <1>9 DEF Save
<1>11. desk[o].pc \in {"resumed", "toggle"}
  BY <1>0, <1>8, <1>10 DEF Save, Written, Copies
<1>12. QED
  BY <1>8, <1>9, <1>11

\* No copy that a customer's request or the classifier holds takes a conversation back
\* from the operators (support/admin_views.py).
THEOREM OnlyOperatorsGiveBack ==
  ASSUME ~StalePages
  PROVE  DeskSpec => TakenStaysTaken
<1>1. DeskTypeOK /\ [DeskNext]_deskVars => DeskTypeOK'
  BY DeskTypesStep
<1>2. DeskTypeOK /\ [DeskNext]_deskVars =>
        [\A c \in Convs : conv[c].joined /\ ~conv'[c].joined =>
           \E o \in Staff : desk[o].conv = c /\ desk[o].pc \in {"resumed", "toggle"} /\ Save(o)]_deskVars
  BY TakenStep
<1>3. QED
  BY <1>1, <1>2, DeskTypesInit, PTL DEF DeskSpec, TakenStaysTaken

\* Who has said the notice is told by the row, or will tell it, and says nothing more.
SaidOnce(c, t) ==
    notices[c][t] > 0 =>
        /\ notices[c][t] = 1
        /\ conv[c].notified \/ (tab[t].conv = c /\ tab[t].pc = "noted")
        /\ ~(tab[t].conv = c /\ tab[t].pc = "notice")

NoticeInv == DeskTypeOK /\ \A c \in Convs, t \in Tabs : SaidOnce(c, t)

\* A row that says the notice was said goes on to say so.
LEMMA NotifiedStays ==
  ASSUME ~StalePages, DeskTypeOK, [DeskNext]_deskVars, NEW x \in Convs, conv[x].notified
  PROVE  conv'[x].notified
<1>0. /\ conv \in [Convs -> Copies] /\ conv[x] \in Copies
      /\ tab \in [Tabs -> Requests] /\ desk \in [Staff -> Requests] /\ label \in [Convs -> Requests]
  BY DEF DeskTypeOK
<1>1. CASE UNCHANGED conv
  BY <1>1
<1>2. ASSUME NEW t \in Tabs, CustomerStep(t) PROVE conv'[x].notified
  <2>1. tab[t].conv \in Convs /\ tab[t].copy \in Copies
    BY <1>0 DEF Requests
  <2>2. \A saved, copy, kind : saved \in Copies => Named(saved, copy, kind).notified = saved.notified
    BY DEF Named, Copies
  <2>3. CASE SavePost(t)
    BY <1>0, <2>1, <2>2, <2>3 DEF SavePost
  <2>4. CASE \E c \in Convs, kind \in Intents : Post(t, c, kind)
    BY <1>0, <2>4 DEF Post, Copies
  <2>5. CASE SaveNotice(t)
    <3>1. conv' = [conv EXCEPT ![tab[t].conv].notified = TRUE,
                               ![tab[t].conv].unread = tab[t].copy.unread + 1]
      BY <2>5 DEF SaveNotice
    <3>2. QED
      BY <1>0, <2>1, <3>1 DEF Copies
  <2>6. CASE Clear(t)
    BY <1>0, <2>1, <2>6 DEF Clear, Copies
  <2>7. QED
    BY <1>1, <1>2, <2>3, <2>4, <2>5, <2>6 DEF CustomerStep, Poll, SayNotice, Answer, Show
<1>3. ASSUME NEW c \in Convs, SecondLook(c) PROVE conv'[x].notified
  BY <1>0, <1>3 DEF SecondLook, LabelRead, LabelSave, Copies
<1>4. ASSUME NEW cs \in SUBSET Convs, CloseMany(cs) PROVE conv'[x].notified
  BY <1>0, <1>4 DEF CloseMany, Copies
<1>5. ASSUME NEW o \in Staff, StaffStep(o) PROVE conv'[x].notified
  <2>1. desk[o].conv \in Convs /\ desk[o].copy \in Copies
    BY <1>0 DEF Requests
  <2>2. ASSUME NEW replies \in BOOLEAN, SaveForm(o, replies) PROVE conv'[x].notified
    <3>1. desk[o].copy = conv[desk[o].conv]
      BY <2>2 DEF SaveForm
    <3>2. QED
      BY <1>0, <2>1, <2>2, <3>1 DEF SaveForm, Copies
  <2>3. CASE Save(o)
    <3>1. conv'[x] = IF x = desk[o].conv THEN Written(conv[x], desk[o].copy, desk[o].pc) ELSE conv[x]
      BY <1>0, <2>1, <2>3 DEF Save
    <3>2. Written(conv[x], desk[o].copy, desk[o].pc).notified
      BY <1>0, <2>1, <2>3 DEF Save, Written, Copies
    <3>3. QED
      BY <3>1, <3>2
  <2>4. QED
    BY <1>1, <1>5, <2>2, <2>3 DEF StaffStep, Read, Say, OpenForm
<1>6. QED
  BY <1>1, <1>2, <1>3, <1>4, <1>5 DEF DeskNext, deskVars

LEMMA NoticeStep ==
  ASSUME ~StalePages, NoticeInv, [DeskNext]_deskVars
  PROVE  NoticeInv'
<1>1. DeskTypeOK /\ DeskTypeOK'
  BY DeskTypesStep DEF NoticeInv
<1>2. /\ conv \in [Convs -> Copies] /\ conv' \in [Convs -> Copies]
      /\ notices \in [Convs -> [Tabs -> Nat]] /\ tab \in [Tabs -> Requests]
      /\ \A c \in Convs : conv[c].notified => conv'[c].notified
  BY <1>1, NotifiedStays DEF DeskTypeOK
<1> SUFFICES ASSUME NEW c \in Convs, NEW t \in Tabs PROVE SaidOnce(c, t)'
  BY <1>1 DEF NoticeInv
<1>3. SaidOnce(c, t) /\ notices[c][t] \in Nat
  BY <1>2 DEF NoticeInv
<1>4. ASSUME notices'[c][t] = notices[c][t], tab'[t] = tab[t]
      PROVE  SaidOnce(c, t)'
  BY <1>2, <1>3, <1>4 DEF SaidOnce
\* A tab at another step says no more than it has said.
<1>5. ASSUME notices' = notices, tab[t].pc # "noted", tab'[t].pc # "notice"
      PROVE  SaidOnce(c, t)'
  BY <1>2, <1>3, <1>5 DEF SaidOnce
<1>6. ASSUME NEW d \in Convs, NEW seen \in BOOLEAN, NEW over \in BOOLEAN, Poll(t, d, seen, over)
      PROVE  SaidOnce(c, t)'
  <2>1. /\ tab[t].pc = "idle" /\ notices' = notices /\ tab'[t].conv = d
        /\ tab'[t].pc = (IF over /\ NoticeDue(conv[d]) THEN "notice" ELSE Serialize(seen, conv[d]))
    BY <1>2, <1>6 DEF Poll
  <2>2. tab'[t].pc = "notice" => ~conv[d].notified
    BY <2>1 DEF NoticeDue, Serialize
  <2>3. QED
    BY <1>2, <1>3, <2>1, <2>2 DEF SaidOnce
<1>7. CASE SayNotice(t)
  <2>1. PICK d \in Convs : d = tab[t].conv
    BY <1>2 DEF Requests
  <2>2. /\ tab[t].pc = "notice" /\ tab'[t].conv = d /\ tab'[t].pc = "noted"
        /\ notices' = [notices EXCEPT ![d][t] = @ + 1]
    BY <1>2, <1>7, <2>1 DEF SayNotice, Requests
  <2>3. CASE c = d
    <3>1. ~(notices[c][t] > 0)
      BY <1>3, <2>1, <2>2, <2>3 DEF SaidOnce
    <3>2. notices'[c][t] = notices[c][t] + 1
      BY <1>2, <2>2, <2>3
    <3>3. QED
      BY <1>3, <2>2, <2>3, <3>1, <3>2 DEF SaidOnce
  <2>4. CASE c # d
    <3>1. notices'[c][t] = notices[c][t]
      BY <1>2, <2>2, <2>4
    <3>2. QED
      BY <1>2, <1>3, <2>1, <2>2, <2>4, <3>1 DEF SaidOnce
  <2>5. QED
    BY <2>3, <2>4
<1>8. CASE SaveNotice(t)
  <2>1. PICK d \in Convs : d = tab[t].conv
    BY <1>2 DEF Requests
  <2>2. /\ conv'[d].notified /\ notices' = notices
        /\ tab'[t] = (IF tab[t].seen THEN Recount(tab[t]) ELSE Idle(AnyConv))
    BY <1>2, <1>8, <2>1 DEF SaveNotice, Copies
  <2>3. tab'[t].pc \in {"clear", "idle"}
    BY <1>2, <2>2 DEF Recount, Idle, Requests
  <2>4. QED
    BY <1>2, <1>3, <2>1, <2>2, <2>3 DEF SaidOnce
<1>9. ASSUME NEW d \in Convs, NEW kind \in Intents, Post(t, d, kind)
      PROVE  SaidOnce(c, t)'
  <2>1. tab[t].pc = "idle" /\ notices' = notices /\ tab'[t].pc = "said"
    BY <1>2, <1>9 DEF Post
  <2>2. QED
    BY <1>5, <2>1
<1>10. CASE SavePost(t) \/ Answer(t) \/ Clear(t) \/ Show(t)
  <2>1. tab[t].pc \in {"said", "answer", "clear", "show"} /\ notices' = notices
    BY <1>10 DEF SavePost, Answer, Clear, Show
  <2>2. tab'[t].pc # "notice"
    BY <1>2, <1>10 DEF SavePost, Answer, Clear, Show, Requests, NextAfter, Serialize, Idle
  <2>3. QED
    BY <1>5, <2>1, <2>2
<1>11. ASSUME NEW s \in Tabs, CustomerStep(s)
       PROVE  SaidOnce(c, t)'
  <2>1. CASE s = t
    BY <1>6, <1>7, <1>8, <1>9, <1>10, <1>11, <2>1 DEF CustomerStep
  <2>2. CASE s # t
    <3>1. tab'[t] = tab[t]
      BY <1>2, <1>11, <2>2
      DEF CustomerStep, Poll, SayNotice, SaveNotice, Post, SavePost, Answer, Clear, Show
    <3>2. CASE SayNotice(s)
      <4>1. PICK d \in Convs : d = tab[s].conv
        BY <1>2 DEF Requests
      <4>2. notices' = [notices EXCEPT ![d][s] = @ + 1]
        BY <3>2, <4>1 DEF SayNotice
      <4>3. notices'[c][t] = notices[c][t]
        BY <1>2, <2>2, <4>2
      <4>4. QED
        BY <1>4, <3>1, <4>3
    <3>3. CASE notices' = notices
      BY <1>4, <3>1, <3>3
    <3>4. QED
      BY <1>11, <3>2, <3>3 DEF CustomerStep, Poll, SaveNotice, Post, SavePost, Answer, Clear, Show
  <2>3. QED
    BY <2>1, <2>2
<1>12. CASE UNCHANGED <<tab, notices>>
  BY <1>4, <1>12
<1>13. QED
  BY <1>11, <1>12
  DEF DeskNext, deskVars, SecondLook, LabelRead, LabelSave, StaffStep, Read, Say, Save, OpenForm,
      SaveForm, CloseMany

\* No tab's polls say twice that nobody is free, provided no admin page saves an
\* outdated conversation (support/views.py, _maybe_waiting_notice).
THEOREM NoticesAreSaidOnce ==
  ASSUME ~StalePages
  PROVE  DeskSpec => []NoticeOncePerTab
<1>1. DeskInit => NoticeInv
  BY DeskTypesInit DEF DeskInit, NoticeInv, SaidOnce
<1>2. NoticeInv /\ [DeskNext]_deskVars => NoticeInv'
  BY NoticeStep
<1>3. NoticeInv => NoticeOncePerTab
  BY DEF NoticeInv, SaidOnce, NoticeOncePerTab, DeskTypeOK
<1>4. QED
  BY <1>1, <1>2, <1>3, PTL DEF DeskSpec
-----------------------------------------------------------------------------
(* From "subscribe" to a deleted account.                                  *)

\* What is known of a session: a paid one has a mandate, and its row stands.
SessionInv(s) ==
    /\ session[s] = "paid" <=> mandate[s] # "none"
    /\ due[s] # {} => session[s] = "paid"
    /\ session[s] = "none" <=> of[s] = Nothing
    /\ session[s] = "open" => age[of[s]] \in {"fresh", "open"}
    /\ session[s] \in {"open", "paid"} => sub[of[s]] # "deleted"
    /\ of[s] # Nothing => sub[of[s]] # "none"
    /\ mandate[s] # "none" /\ "completed" \notin due[s] => sid[of[s]] # Nothing

\* Of a row: the id it has is that of a paid session which refers to it, and
\* what the pruning command has listed nobody can pay for any more.
RowInv(r) ==
    /\ sub[r] = "none" => age[r] = "fresh"
    /\ sid[r] # Nothing => of[sid[r]] = r /\ mandate[sid[r]] # "none"
    /\ held[r] # Nothing => mandate[held[r]] # "none"
    /\ age[r] = "stale" => \A s \in Sessions : of[s] = r => "completed" \notin due[s]
    /\ r \in picked => age[r] = "stale" /\ \A s \in Sessions : of[s] = r => session[s] = "expired"

\* A mandate that the deletion has listed has ended, or its turn will come.
KnownInv ==
    /\ stage # "open" => \A s \in known : mandate[s] = "dead" \/ \E r \in todo : held[r] = s
    /\ stage = "closed" => todo = {}

\* The end of a mandate that was told and not contradicted is what its row shows.
Ended(s) ==
    mandate[s] = "dead" /\ s \notin misled /\ Alone(s) /\ "deleted" \notin due[s]
        => sub[of[s]] \notin Live

ClosingInv ==
    /\ ClosingTypeOK
    /\ \A s \in Sessions : SessionInv(s) /\ Ended(s)
    /\ \A r \in Rows : RowInv(r)
    /\ KnownInv

LEMMA ClosingInvInit == ClosingInit => ClosingInv
<1> SUFFICES ASSUME ClosingInit PROVE ClosingInv
  OBVIOUS
<1>1. ClosingTypeOK
  BY ClosingAssumption DEF ClosingInit, ClosingTypeOK, Status
<1>2. \A s \in Sessions : SessionInv(s) /\ Ended(s)
  BY DEF ClosingInit, SessionInv, Ended
<1>3. \A r \in Rows : RowInv(r)
  BY DEF ClosingInit, RowInv
<1>4. KnownInv
  BY DEF ClosingInit, KnownInv
<1>5. QED
  BY <1>1, <1>2, <1>3, <1>4 DEF ClosingInv

LEMMA ClosingTypesStep ==
  ASSUME ClosingTypeOK, [ClosingNext]_closingVars
  PROVE  ClosingTypeOK'
<1>0. DOMAIN Says = {"paid", "failed", "updated", "deleted"} /\ \A e \in DOMAIN Says : Says[e] \in Status
  BY DEF Says, Status, Live
<1>1. ASSUME NEW s \in Sessions, Subscribe(s) PROVE ClosingTypeOK'
  BY <1>1, ClosingAssumption DEF Subscribe, Reusable, closing, ClosingTypeOK, Status
<1>2. ASSUME NEW s \in Sessions, Pay(s) PROVE ClosingTypeOK'
  BY <1>0, <1>2 DEF Pay, closing, ClosingTypeOK
<1>3. ASSUME NEW s \in Sessions, Bill(s) PROVE ClosingTypeOK'
  BY <1>0, <1>3, ClosingAssumption DEF Bill, closing, ClosingTypeOK
<1>4. ASSUME NEW s \in Sessions, OnCompleted(s) PROVE ClosingTypeOK'
  <2>1. Remote(s) \in Status /\ "active" \in Status
    BY DEF Remote, Status, Live
  <2>2. sub' \in [Rows -> Status] /\ sid' \in [Rows -> Sessions \union {Nothing}]
    BY <1>4, <2>1 DEF OnCompleted, ClosingTypeOK
  <2>3. faults' \in 0..MaxFaults /\ misled' \subseteq Sessions
    BY <1>4, ClosingAssumption DEF OnCompleted, ClosingTypeOK
  <2>4. QED
    BY <1>4, <2>2, <2>3 DEF OnCompleted, closing, ClosingTypeOK
<1>5. ASSUME NEW s \in Sessions, NEW e \in DOMAIN Says, OnEvent(s, e) PROVE ClosingTypeOK'
  <2>1. sub' \in [Rows -> Status] /\ sid' \in [Rows -> Sessions \union {Nothing}]
    BY <1>0, <1>5 DEF OnEvent, ClosingTypeOK
  <2>2. QED
    BY <1>5, <2>1 DEF OnEvent, MisledBy, closing, ClosingTypeOK
<1>6. ASSUME NEW r \in Rows, Older(r) PROVE ClosingTypeOK'
  BY <1>6 DEF Older, closing, ClosingTypeOK
<1>7. ASSUME NEW r \in Rows, CancelNext(r) PROVE ClosingTypeOK'
  <2>1. held[r] \in Sessions \union {Nothing} /\ "deleted" \in DOMAIN Says
    BY <1>0 DEF ClosingTypeOK
  <2>2. mandate' \in [Sessions -> {"none", "live", "dead"}]
    BY <1>7, <2>1 DEF CancelNext, Cancelled, ClosingTypeOK
  <2>3. due' \in [Sessions -> SUBSET ({"completed"} \union DOMAIN Says)]
    BY <1>7, <2>1 DEF CancelNext, Cancelled, ClosingTypeOK
  <2>4. faults' \in 0..MaxFaults
    BY <1>7, ClosingAssumption DEF CancelNext, ClosingTypeOK
  <2>5. QED
    BY <1>7, <2>2, <2>3, <2>4 DEF CancelNext, StripeRefuses, GivenUp, Deletion, ClosingTypeOK
<1>8. ASSUME PruneList \/ PruneDelete PROVE ClosingTypeOK'
  BY <1>8 DEF PruneList, PruneDelete, closing, ClosingTypeOK, Status
<1>9. ASSUME CloseBegin PROVE ClosingTypeOK'
  BY <1>9 DEF CloseBegin, Deletion, ClosingTypeOK
<1>10. ASSUME SaveCanceled PROVE ClosingTypeOK'
  BY <1>10 DEF SaveCanceled, GivenUp, Deletion, ClosingTypeOK, Status
<1>11. ASSUME Erase \/ DeletionDies PROVE ClosingTypeOK'
  BY <1>11, ClosingAssumption DEF Erase, DeletionDies, GivenUp, Deletion, ClosingTypeOK
<1>12. CASE UNCHANGED closingVars
  BY <1>12 DEF closingVars, ClosingTypeOK
<1>13. QED
  BY <1>1, <1>2, <1>3, <1>4, <1>5, <1>6, <1>7, <1>8, <1>9, <1>10, <1>11, <1>12 DEF ClosingNext

\* An event finds the row its session refers to, and no other.
LEMMA FoundIsTheRow ==
  ASSUME ClosingInv, NEW s \in Sessions, due[s] # {}
  PROVE  /\ of[s] \in Rows /\ Found(s) = {of[s]}
         /\ sub[of[s]] \notin {"none", "deleted"} /\ mandate[s] # "none"
<1>1. session[s] = "paid" /\ mandate[s] # "none" /\ of[s] # Nothing
  BY DEF ClosingInv, SessionInv
<1>2. of[s] \in Rows /\ sub[of[s]] \notin {"none", "deleted"}
  BY <1>1 DEF ClosingInv, SessionInv, ClosingTypeOK
<1>3. NamedBy(s) \subseteq {of[s]}
  BY ClosingAssumption DEF ClosingInv, RowInv, NamedBy
<1>4. Referred(s) = {of[s]}
  BY <1>2 DEF Referred
<1>5. QED
  BY <1>1, <1>2, <1>3, <1>4 DEF Found

\* A session that was alone before stays so while it is alone.
LEMMA StillAlone ==
  ASSUME NEW x \in Sessions, Alone(x)', of'[x] = of[x],
         \A t \in Sessions : mandate[t] = "none" \/ (of'[t] = of[t] /\ mandate'[t] # "none")
  PROVE  Alone(x)
BY DEF Alone

\* What every step works with.
LEMMA ClosingFacts ==
  ASSUME ClosingInv
  PROVE  /\ sub \in [Rows -> Status] /\ sid \in [Rows -> Sessions \union {Nothing}]
         /\ age \in [Rows -> {"fresh", "open", "settling", "stale"}]
         /\ session \in [Sessions -> {"none", "open", "paid", "expired"}]
         /\ of \in [Sessions -> Rows \union {Nothing}]
         /\ mandate \in [Sessions -> {"none", "live", "dead"}]
         /\ due \in [Sessions -> SUBSET ({"completed"} \union DOMAIN Says)]
         /\ held \in [Rows -> Sessions \union {Nothing}]
         /\ \A s \in Sessions : SessionInv(s) /\ Ended(s)
         /\ \A r \in Rows : RowInv(r)
         /\ KnownInv
         /\ Nothing \notin Rows /\ Nothing \notin Sessions
BY ClosingAssumption DEF ClosingInv, ClosingTypeOK

LEMMA SubscribeKeeps ==
  ASSUME ClosingInv, NEW s \in Sessions, Subscribe(s)
  PROVE  /\ \A x \in Sessions : SessionInv(x)' /\ Ended(x)'
         /\ \A q \in Rows : RowInv(q)'
         /\ KnownInv'
<1> USE ClosingFacts
<1>1. PICK r \in Rows :
        /\ sub' = [sub EXCEPT ![r] = "incomplete"]
        /\ age[r] = "fresh"
        /\ \/ session' = session /\ of' = of
           \/ session' = [session EXCEPT ![s] = "open"] /\ of' = [of EXCEPT ![s] = r]
  BY DEF Subscribe, Reusable, RowInv
<1>2. session[s] = "none" /\ mandate[s] = "none" /\ due[s] = {} /\ of[s] = Nothing
  BY DEF Subscribe, SessionInv
<1>3. UNCHANGED <<sid, age, mandate, due, stage, todo, held, known, picked, misled>>
  BY DEF Subscribe, closing
<1>4. ASSUME NEW x \in Sessions PROVE SessionInv(x)'
  <2>1. SessionInv(x)
    OBVIOUS
  <2>2. CASE of'[x] = of[x] /\ session'[x] = session[x]
    <3>1. of[x] \in Rows => sub'[of[x]] \in {sub[of[x]], "incomplete"}
      BY <1>1
    <3>2. QED
      BY <1>3, <2>1, <2>2, <3>1 DEF SessionInv
  <2>3. CASE x = s /\ session'[x] = "open" /\ of'[x] = r
    BY <1>1, <1>2, <1>3, <2>3 DEF SessionInv
  <2>4. QED
    BY <1>1, <2>2, <2>3
<1>5. ASSUME NEW x \in Sessions PROVE Ended(x)'
  <2>1. SUFFICES ASSUME mandate[x] = "dead", x \notin misled, Alone(x)', "deleted" \notin due[x]
                 PROVE  sub'[of'[x]] \notin Live
    BY <1>3 DEF Ended
  <2>2. x # s /\ of'[x] = of[x] /\ of[x] \in Rows
    BY <1>1, <1>2, <2>1 DEF SessionInv
  <2>3. Alone(x)
    BY <1>1, <1>2, <1>3, <2>1, <2>2, StillAlone
  <2>4. sub[of[x]] \notin Live /\ "incomplete" \notin Live
    BY <2>1, <2>3 DEF Ended, Live
  <2>5. QED
    BY <1>1, <2>2, <2>4
<1>6. ASSUME NEW q \in Rows PROVE RowInv(q)'
  <2>1. RowInv(q)
    OBVIOUS
  <2>2. sub'[q] = "none" => sub[q] = "none"
    BY <1>1
  <2>3. sid[q] # Nothing => of'[sid[q]] = of[sid[q]]
    BY <1>1, <1>2, <2>1 DEF RowInv
  <2>4. \A x \in Sessions : of'[x] = q /\ age[q] = "stale" => of[x] = q /\ session'[x] = session[x]
    BY <1>1
  <2>5. QED
    BY <1>3, <2>1, <2>2, <2>3, <2>4 DEF RowInv
<1>7. KnownInv'
  BY <1>3 DEF KnownInv
<1>8. QED
  BY <1>4, <1>5, <1>6, <1>7

\* Stripe opens a mandate, reports on it or ends it.
LEMMA StripeKeeps ==
  ASSUME ClosingInv, NEW s \in Sessions, Pay(s) \/ Bill(s)
  PROVE  /\ \A x \in Sessions : SessionInv(x)' /\ Ended(x)'
         /\ \A q \in Rows : RowInv(q)'
         /\ KnownInv'
<1> USE ClosingFacts
<1>1. UNCHANGED <<sub, sid, age, of, stage, todo, held, known, picked, misled>>
  BY DEF Pay, Bill, closing
<1>2. /\ session[s] \in {"open", "paid"} /\ session'[s] = "paid"
      /\ mandate[s] \in {"none", "live"} /\ mandate'[s] # "none"
      /\ mandate'[s] = "dead" => "deleted" \in due'[s]
  BY DEF Pay, Bill, SessionInv
<1>3. \A x \in Sessions : x # s =>
        session'[x] = session[x] /\ mandate'[x] = mandate[x] /\ due'[x] = due[x]
  BY DEF Pay, Bill
<1>4. session[s] = "paid" => ("completed" \in due'[s] <=> "completed" \in due[s])
  BY DEF Pay, Bill
<1>5. session[s] = "open" => "completed" \in due'[s]
  BY DEF Pay, Bill, SessionInv
<1>6. ASSUME NEW x \in Sessions PROVE SessionInv(x)'
  <2>1. SessionInv(x)
    OBVIOUS
  <2>2. CASE x = s
    BY <1>1, <1>2, <1>4, <1>5, <2>1, <2>2 DEF SessionInv
  <2>3. CASE x # s
    BY <1>1, <1>3, <2>1, <2>3 DEF SessionInv
  <2>4. QED
    BY <2>2, <2>3
<1>7. ASSUME NEW x \in Sessions PROVE Ended(x)'
  <2>1. SUFFICES ASSUME mandate'[x] = "dead", x \notin misled, Alone(x)', "deleted" \notin due'[x]
                 PROVE  sub[of[x]] \notin Live
    BY <1>1 DEF Ended
  <2>2. x # s
    BY <1>2, <2>1
  <2>3. Alone(x)
    BY <1>1, <1>2, <1>3, <2>1, StillAlone
  <2>4. QED
    BY <1>3, <2>1, <2>2, <2>3 DEF Ended
<1>8. ASSUME NEW q \in Rows PROVE RowInv(q)'
  <2>1. RowInv(q)
    OBVIOUS
  <2>2. \A x \in Sessions : mandate[x] # "none" => mandate'[x] # "none"
    BY <1>2, <1>3
  <2>3. age[q] = "stale" => \A x \in Sessions : of[x] = q => "completed" \notin due'[x]
    <3>1. age[q] = "stale" /\ of[s] = q => session[s] = "paid"
      BY <1>2 DEF SessionInv
    <3>2. QED
      BY <1>3, <1>4, <2>1, <3>1 DEF RowInv
  <2>4. q \in picked => \A x \in Sessions : of[x] = q => session'[x] = "expired"
    BY <1>2, <1>3, <2>1 DEF RowInv
  <2>5. QED
    BY <1>1, <2>1, <2>2, <2>3, <2>4 DEF RowInv
<1>9. KnownInv'
  <2>1. \A x \in Sessions : mandate[x] = "dead" => mandate'[x] = "dead"
    BY <1>2, <1>3
  <2>2. known \subseteq Sessions
    BY DEF ClosingInv, ClosingTypeOK
  <2>3. QED
    BY <1>1, <2>1, <2>2 DEF KnownInv
<1>10. QED
  BY <1>6, <1>7, <1>8, <1>9

LEMMA OlderKeeps ==
  ASSUME ClosingInv, NEW r \in Rows, Older(r)
  PROVE  /\ \A x \in Sessions : SessionInv(x)' /\ Ended(x)'
         /\ \A q \in Rows : RowInv(q)'
         /\ KnownInv'
<1> USE ClosingFacts
<1>1. UNCHANGED <<sub, sid, of, mandate, due, stage, todo, held, known, picked, misled>>
  BY DEF Older, closing
<1>2. sub[r] # "none" /\ age[r] # "stale" /\ \A q \in Rows : q # r => age'[q] = age[q]
  BY DEF Older
<1>3. age'[r] = "stale" => \A x \in Sessions : of[x] = r => due[x] = {}
  BY DEF Older
<1>4. \A x \in Sessions :
        /\ session[x] # "open" => session'[x] = session[x]
        /\ session[x] = "open" => session'[x] \in {"open", "expired"}
  BY DEF Older
<1>5. \A x \in Sessions : session'[x] = "open" /\ of[x] = r => age'[r] \in {"fresh", "open"}
  BY DEF Older, SessionInv
<1>6. ASSUME NEW x \in Sessions PROVE SessionInv(x)'
  <2>1. SessionInv(x) /\ of[x] \in Rows \union {Nothing}
    OBVIOUS
  <2>2. session'[x] = "open" => age'[of[x]] \in {"fresh", "open"}
    BY <1>2, <1>4, <1>5, <2>1 DEF SessionInv
  <2>3. QED
    BY <1>1, <1>4, <2>1, <2>2 DEF SessionInv
<1>7. ASSUME NEW x \in Sessions PROVE Ended(x)'
  BY <1>1 DEF Ended, Alone
<1>8. ASSUME NEW q \in Rows PROVE RowInv(q)'
  <2>1. RowInv(q)
    OBVIOUS
  <2>2. QED
    BY <1>1, <1>2, <1>3, <1>4, <2>1 DEF RowInv
<1>9. KnownInv'
  BY <1>1 DEF KnownInv
<1>10. QED
  BY <1>6, <1>7, <1>8, <1>9

\* An event of session s is handled: its row has a new status and perhaps the id.
LEMMA EventKeeps ==
  ASSUME ClosingInv, NEW s \in Sessions, OnCompleted(s) \/ \E e \in DOMAIN Says : OnEvent(s, e)
  PROVE  /\ \A x \in Sessions : SessionInv(x)' /\ Ended(x)'
         /\ \A q \in Rows : RowInv(q)'
         /\ KnownInv'
<1> USE ClosingFacts
<1>0. due[s] # {}
  BY DEF OnCompleted, OnEvent
<1>1. PICK r \in Rows : r = of[s] /\ Found(s) = {r} /\ sub[r] \notin {"none", "deleted"}
  BY <1>0, FoundIsTheRow
<1>2. mandate[s] # "none" /\ session[s] = "paid"
  BY <1>0, FoundIsTheRow DEF SessionInv
<1>3. UNCHANGED <<age, session, of, mandate, stage, todo, held, known, picked>>
  BY DEF OnCompleted, OnEvent, closing
<1>4. \A q \in Rows : q # r => sub'[q] = sub[q] /\ sid'[q] = sid[q]
  BY <1>1 DEF OnCompleted, OnEvent
<1>5. sub'[r] \in Status \ {"none", "deleted", "incomplete"} /\ sid'[r] \in {sid[r], s}
  BY <1>1 DEF OnCompleted, OnEvent, Remote, Says, Status, Live
<1>6. OnCompleted(s) => sid'[r] = s
  BY <1>1 DEF OnCompleted
<1>7. /\ \A x \in Sessions : x # s => due'[x] = due[x]
      /\ due'[s] \subseteq due[s]
      /\ ~OnCompleted(s) => ("completed" \in due[s] => "completed" \in due'[s])
  BY DEF OnCompleted, OnEvent, Says
<1>8. \A x \in Sessions : x # s => (x \in misled' <=> x \in misled)
  BY DEF OnCompleted, OnEvent, MisledBy
<1>9. ASSUME NEW x \in Sessions PROVE SessionInv(x)'
  <2>1. SessionInv(x) /\ of[x] \in Rows \union {Nothing}
    OBVIOUS
  <2>2. of[x] \in Rows => /\ sub[of[x]] # "deleted" => sub'[of[x]] # "deleted"
                          /\ sub[of[x]] # "none" => sub'[of[x]] # "none"
                          /\ sid[of[x]] # Nothing => sid'[of[x]] # Nothing
    BY <1>4, <1>5
  <2>3. "completed" \notin due'[x] => "completed" \notin due[x] \/ (x = s /\ sid'[of[x]] = s)
    BY <1>1, <1>6, <1>7
  <2>4. due'[x] # {} => due[x] # {}
    BY <1>7
  <2>5. mandate[x] # "none" => of[x] # Nothing
    BY <2>1 DEF SessionInv
  <2>6. QED
    BY <1>3, <2>1, <2>2, <2>3, <2>4, <2>5 DEF SessionInv
<1>10. ASSUME NEW x \in Sessions PROVE Ended(x)'
  <2>1. SUFFICES ASSUME mandate[x] = "dead", x \notin misled', Alone(x)', "deleted" \notin due'[x]
                 PROVE  sub'[of[x]] \notin Live
    BY <1>3 DEF Ended
  <2>2. Alone(x) /\ of[x] \in Rows
    BY <1>3, <2>1 DEF Alone, SessionInv
  <2>3. CASE x = s
    <3>1. CASE OnCompleted(s)
      BY <1>1, <2>1, <2>3, <3>1 DEF OnCompleted, Remote, Live
    <3>2. CASE \E e \in DOMAIN Says : OnEvent(s, e)
      BY <1>1, <2>1, <2>3, <3>2 DEF OnEvent, MisledBy, Says, Live
    <3>3. QED
      BY <3>1, <3>2
  <2>4. CASE x # s
    <3>1. of[x] # r
      BY <1>1, <1>2, <2>2, <2>4 DEF Alone
    <3>2. QED
      BY <1>4, <1>7, <1>8, <2>1, <2>2, <2>4, <3>1 DEF Ended
  <2>5. QED
    BY <2>3, <2>4
<1>11. ASSUME NEW q \in Rows PROVE RowInv(q)'
  <2>1. RowInv(q)
    OBVIOUS
  <2>2. sub'[q] = "none" => sub[q] = "none"
    BY <1>4, <1>5
  <2>3. sid'[q] # Nothing => of[sid'[q]] = q /\ mandate[sid'[q]] # "none"
    BY <1>1, <1>2, <1>4, <1>5, <2>1 DEF RowInv
  <2>4. \A x \in Sessions : "completed" \notin due[x] => "completed" \notin due'[x]
    BY <1>7
  <2>5. QED
    BY <1>3, <2>1, <2>2, <2>3, <2>4 DEF RowInv
<1>12. KnownInv'
  BY <1>3 DEF KnownInv
<1>13. QED
  BY <1>9, <1>10, <1>11, <1>12

LEMMA PruneKeeps ==
  ASSUME ClosingInv, PruneList \/ PruneDelete
  PROVE  /\ \A x \in Sessions : SessionInv(x)' /\ Ended(x)'
         /\ \A q \in Rows : RowInv(q)'
         /\ KnownInv'
<1> USE ClosingFacts
<1>1. UNCHANGED <<sid, age, session, of, mandate, due, stage, todo, held, known, misled>>
  BY DEF PruneList, PruneDelete, closing
<1>2. \A q \in Rows : sub'[q] = sub[q] \/ (q \in picked /\ sub'[q] = "deleted")
  BY DEF PruneList, PruneDelete
<1>3. ASSUME NEW x \in Sessions PROVE SessionInv(x)'
  <2>1. SessionInv(x) /\ of[x] \in Rows \union {Nothing}
    OBVIOUS
  <2>2. of[x] \in picked => session[x] = "expired"
    BY DEF RowInv, ClosingInv, ClosingTypeOK
  <2>3. QED
    BY <1>1, <1>2, <2>1, <2>2 DEF SessionInv
<1>4. ASSUME NEW x \in Sessions PROVE Ended(x)'
  <2>1. mandate[x] = "dead" => of[x] \in Rows
    BY DEF SessionInv
  <2>2. Alone(x)' => Alone(x)
    BY <1>1 DEF Alone
  <2>3. QED
    BY <1>1, <1>2, <2>1, <2>2 DEF Ended, Live
<1>5. ASSUME NEW q \in Rows PROVE RowInv(q)'
  <2>1. RowInv(q)
    OBVIOUS
  <2>2. sub'[q] = "none" => sub[q] = "none"
    BY <1>2
  <2>3. q \in picked' => age[q] = "stale" /\ \A x \in Sessions : of[x] = q => session[x] = "expired"
    <3>1. CASE PruneDelete
      BY <3>1 DEF PruneDelete
    <3>2. CASE PruneList
      <4>1. SUFFICES ASSUME sid[q] = Nothing, age[q] = "stale", NEW x \in Sessions, of[x] = q
                     PROVE  session[x] = "expired"
        BY <3>2 DEF PruneList, Prunable
      <4>2. SessionInv(x) /\ "completed" \notin due[x]
        BY <2>1, <4>1 DEF RowInv
      <4>3. session[x] # "none" /\ session[x] # "open" /\ session[x] # "paid"
        BY <4>1, <4>2 DEF SessionInv
      <4>4. QED
        BY <4>3
    <3>3. QED
      BY <3>1, <3>2
  <2>4. QED
    BY <1>1, <2>1, <2>2, <2>3 DEF RowInv
<1>6. KnownInv'
  BY <1>1 DEF KnownInv
<1>7. QED
  BY <1>3, <1>4, <1>5, <1>6

\* The deletion gives up, begins, or is done: nothing of a subscription changes.
LEMMA DeletionKeeps ==
  ASSUME ClosingInv, CloseBegin \/ Erase \/ DeletionDies
  PROVE  /\ \A x \in Sessions : SessionInv(x)' /\ Ended(x)'
         /\ \A q \in Rows : RowInv(q)'
         /\ KnownInv'
<1> USE ClosingFacts
<1>1. UNCHANGED <<sub, sid, age, session, of, mandate, due, picked, misled>>
  BY DEF CloseBegin, Erase, DeletionDies
<1>2. \A q \in Rows : held'[q] \in {Nothing, sid[q]}
  BY DEF CloseBegin, Erase, DeletionDies, GivenUp, Deletion
<1>3. ASSUME NEW x \in Sessions PROVE SessionInv(x)' /\ Ended(x)'
  <2>1. SessionInv(x) /\ Ended(x)
    OBVIOUS
  <2>2. Alone(x)' => Alone(x)
    BY <1>1 DEF Alone
  <2>3. QED
    BY <1>1, <2>1, <2>2 DEF SessionInv, Ended
<1>4. ASSUME NEW q \in Rows PROVE RowInv(q)'
  <2>1. RowInv(q)
    OBVIOUS
  <2>2. QED
    BY <1>1, <1>2, <2>1 DEF RowInv
<1>5. KnownInv'
  <2>1. CASE CloseBegin
    BY <2>1 DEF CloseBegin, Deletion, KnownInv, ToCancel
  <2>2. CASE Erase
    BY <1>1, <2>2 DEF Erase, Deletion, KnownInv
  <2>3. CASE DeletionDies
    BY <2>3 DEF DeletionDies, GivenUp, Deletion, KnownInv
  <2>4. QED
    BY <2>1, <2>2, <2>3
<1>6. QED
  BY <1>3, <1>4, <1>5

LEMMA SaveCanceledKeeps ==
  ASSUME ClosingInv, SaveCanceled
  PROVE  /\ \A x \in Sessions : SessionInv(x)' /\ Ended(x)'
         /\ \A q \in Rows : RowInv(q)'
         /\ KnownInv'
<1> USE ClosingFacts
<1>1. UNCHANGED <<sid, age, session, of, mandate, due, picked, misled>>
  BY DEF SaveCanceled
<1>2. \A q \in Rows : \/ sub'[q] = sub[q]
                      \/ sub[q] # "deleted" /\ sub'[q] = "canceled"
  BY DEF SaveCanceled
<1>3. \A q \in Rows : held'[q] \in {Nothing, held[q]}
  BY DEF SaveCanceled, GivenUp, Deletion
<1>4. ASSUME NEW x \in Sessions PROVE SessionInv(x)' /\ Ended(x)'
  <2>1. SessionInv(x) /\ Ended(x) /\ of[x] \in Rows \union {Nothing}
    OBVIOUS
  <2>2. Alone(x)' => Alone(x)
    BY <1>1 DEF Alone
  <2>3. SessionInv(x)'
    BY <1>1, <1>2, <2>1 DEF SessionInv
  <2>4. mandate[x] = "dead" => of[x] \in Rows
    BY <2>1 DEF SessionInv
  <2>5. Ended(x)'
    BY <1>1, <1>2, <2>1, <2>2, <2>4 DEF Ended, Live
  <2>6. QED
    BY <2>3, <2>5
<1>5. ASSUME NEW q \in Rows PROVE RowInv(q)'
  <2>1. RowInv(q)
    OBVIOUS
  <2>2. QED
    BY <1>1, <1>2, <1>3, <2>1 DEF RowInv
<1>6. KnownInv'
  BY DEF SaveCanceled, GivenUp, Deletion, KnownInv
<1>7. QED
  BY <1>4, <1>5, <1>6

\* A mandate is cancelled at Stripe, or Stripe refuses.
LEMMA CancelKeeps ==
  ASSUME ClosingInv, NEW r \in Rows, CancelNext(r)
  PROVE  /\ \A x \in Sessions : SessionInv(x)' /\ Ended(x)'
         /\ \A q \in Rows : RowInv(q)'
         /\ KnownInv'
<1> USE ClosingFacts
<1>1. UNCHANGED <<sub, sid, age, session, of, picked, misled>>
  BY DEF CancelNext
<1>2. \A q \in Rows : held'[q] \in {Nothing, held[q]}
  BY DEF CancelNext, StripeRefuses, GivenUp, Deletion
<1>3. /\ \A x \in Sessions : \/ mandate'[x] = mandate[x] /\ due'[x] = due[x]
                             \/ /\ mandate'[x] = "dead" /\ mandate[x] # "none"
                                /\ due[x] \subseteq due'[x]
                                /\ "completed" \in due'[x] => "completed" \in due[x]
                                /\ mandate[x] = "live" => "deleted" \in due'[x]
  BY DEF CancelNext, Cancelled, RowInv
<1>4. ASSUME NEW x \in Sessions PROVE SessionInv(x)' /\ Ended(x)'
  <2>1. SessionInv(x) /\ Ended(x)
    OBVIOUS
  <2>2. SessionInv(x)'
    BY <1>1, <1>3, <2>1 DEF SessionInv
  <2>3. Alone(x)' => Alone(x)
    BY <1>1, <1>3, StillAlone
  <2>4. Ended(x)'
    BY <1>1, <1>3, <2>1, <2>3 DEF Ended
  <2>5. QED
    BY <2>2, <2>4
<1>5. ASSUME NEW q \in Rows PROVE RowInv(q)'
  <2>1. RowInv(q)
    OBVIOUS
  <2>2. held'[q] # Nothing => mandate'[held'[q]] # "none"
    BY <1>2, <1>3, <2>1 DEF RowInv
  <2>3. sid[q] # Nothing => mandate'[sid[q]] # "none"
    BY <1>3, <2>1 DEF RowInv
  <2>4. QED
    BY <1>1, <1>3, <2>1, <2>2, <2>3 DEF RowInv
<1>6. KnownInv'
  <2>1. CASE stage' = "open"
    BY <2>1 DEF KnownInv
  <2>2. CASE stage' # "open"
    <3>1. stage = "cancel" /\ stage' = "save" /\ known' = known /\ todo' = todo \ {r} /\ held' = held
      BY <2>2 DEF CancelNext, StripeRefuses, GivenUp, Deletion
    <3>2. held[r] # Nothing => mandate'[held[r]] = "dead"
      BY <2>2 DEF CancelNext, StripeRefuses, GivenUp, Deletion, Cancelled
    <3>3. known \subseteq Sessions
      BY DEF ClosingInv, ClosingTypeOK
    <3>4. \A x \in known : mandate'[x] = "dead" \/ \E q \in todo' : held'[q] = x
      BY <1>3, <3>1, <3>2, <3>3 DEF KnownInv
    <3>5. QED
      BY <3>1, <3>4 DEF KnownInv
  <2>3. QED
    BY <2>1, <2>2
<1>7. QED
  BY <1>4, <1>5, <1>6

LEMMA ClosingInvStep ==
  ASSUME ClosingInv, [ClosingNext]_closingVars
  PROVE  ClosingInv'
<1>1. ClosingTypeOK'
  BY ClosingTypesStep DEF ClosingInv
<1>2. CASE UNCHANGED closingVars
  BY <1>1, <1>2 DEF closingVars, ClosingInv, SessionInv, Ended, Alone, RowInv, KnownInv
<1>3. CASE ClosingNext
  <2>1. /\ \A x \in Sessions : SessionInv(x)' /\ Ended(x)'
        /\ \A q \in Rows : RowInv(q)'
        /\ KnownInv'
    BY <1>3, SubscribeKeeps, StripeKeeps, OlderKeeps, EventKeeps, PruneKeeps, DeletionKeeps,
       SaveCanceledKeeps, CancelKeeps DEF ClosingNext
  <2>2. QED
    BY <1>1, <2>1 DEF ClosingInv
<1>4. QED
  BY <1>2, <1>3

\* An account closes only when every mandate that its deletion has listed has ended
\* (accounts/deletion.py, cancel_subscriptions).
THEOREM MoneyStopsBeforeTheAccount == ClosingSpec => []MoneyStopsFirst
<1>1. ClosingInv => MoneyStopsFirst
  BY DEF ClosingInv, KnownInv, MoneyStopsFirst
<1>2. QED
  BY <1>1, ClosingInvInit, ClosingInvStep, PTL DEF ClosingSpec

\* The pruning command never deletes the row of a paid attempt (prune_incomplete_subscriptions).
THEOREM PaidAttemptsAreKept == ClosingSpec => []PaidAttemptKept
<1>1. ClosingInv => PaidAttemptKept
  BY DEF ClosingInv, SessionInv, PaidAttemptKept
<1>2. QED
  BY <1>1, ClosingInvInit, ClosingInvStep, PTL DEF ClosingSpec

\* A mandate whose end was told, and not contradicted, is not shown as live
\* (subscriptions/services.py, the handlers of Stripe's events).
THEOREM EndsAreShown == ClosingSpec => []EndIsShown
<1>1. ClosingInv => EndIsShown
  <2>1. SUFFICES ASSUME ClosingInv, NEW s \in Sessions \ misled, mandate[s] = "dead", due[s] = {},
                        Alone(s), NEW r \in Rows, sid[r] = s
                 PROVE  sub[r] \notin Live
    BY DEF EndIsShown
  <2>2. of[s] = r
    BY <2>1, ClosingFacts DEF RowInv
  <2>3. QED
    BY <2>1, <2>2, ClosingFacts DEF Ended
<1>2. QED
  BY <1>1, ClosingInvInit, ClosingInvStep, PTL DEF ClosingSpec
-----------------------------------------------------------------------------
(* Invitations.                                                            *)

\* The types that matter to who pays whom; the sums are looked into further down.
ReferralTypes ==
    /\ tx \in [Workers -> Users \union {NoOne}] /\ lock \in [Users -> Workers \union {NoOne}]
    /\ status \in [TopUps -> {"paid", "credited"}]
    /\ referredBy \in [Users -> Users \union {NoOne}]
    /\ codes \in [Users -> SUBSET Users]
    /\ DOMAIN payout = Users
    /\ inserting \in [Users -> Workers \union {NoOne}]
    /\ pc \in [Workers -> {"idle", "bonus", "commit", "check", "pay", "payout"}]
    /\ on \in [Workers -> TopUps]
    /\ inviter \in [Workers -> Users \union {NoOne}]

\* Nobody's code is their own.
CodeInv(u) == u \notin codes[u] /\ referredBy[u] # u

\* A transaction holds the wallet it has written.
LockInv(w) == tx[w] # NoOne => lock[tx[w]] = w

\* What a worker knows at each step: while it credits a top-up the customer's
\* wallet is its own, and the inviter it read is the one, or it is too late.
WorkerInv(w) ==
    /\ pc[w] \in {"idle", "check", "pay"} => tx[w] = NoOne
    /\ pc[w] \in {"bonus", "commit"} =>
          /\ tx[w] = Customer(w)
          /\ inviter[w] = referredBy[Customer(w)] \/ Customer(w) \in missed
    /\ pc[w] \in {"pay", "payout"} => inviter[w] # NoOne
    /\ pc[w] = "payout" => tx[w] = inviter[w] /\ inserting[Customer(w)] = w

\* A payout under way is the first.
InsertInv(u) ==
    inserting[u] # NoOne =>
        /\ pc[inserting[u]] = "payout" /\ Customer(inserting[u]) = u
        /\ payout[u] = NoPayout

\* A worker that will see that the customer's inviter is paid.
Settling(w, u) ==
    /\ Customer(w) = u
    /\ pc[w] \in {"pay", "payout"} \/ (pc[w] = "check" /\ inviter[w] = referredBy[u])

OwedInv(u) ==
    u \notin missed /\ referredBy[u] # NoOne /\ PaidIn(u) >= Threshold
        => Paid(u) \/ \E w \in Workers : Settling(w, u)

ReferralInv ==
    /\ ReferralTypes
    /\ \A w \in Workers : LockInv(w) /\ WorkerInv(w)
    /\ \A u \in Users : CodeInv(u) /\ InsertInv(u) /\ OwedInv(u)

LEMMA MoveEffect ==
  ASSUME NEW w \in Workers, NEW u \in Users, NEW kind \in {"topup", "bonus"}, NEW sum,
         W!Move(w, u, kind, sum)
  PROVE  /\ tx' = [tx EXCEPT ![w] = u] /\ tx[w] \in {NoOne, u}
         /\ lock' = [lock EXCEPT ![u] = w] /\ lock[u] \in {NoOne, w}
BY DEF W!Move, W!LockGranted

LEMMA CommitEffect ==
  ASSUME NEW w \in Workers, NEW u \in Users, W!Commit(w, u) \/ W!Rollback(w, u)
  PROVE  /\ tx' = [tx EXCEPT ![w] = NoOne] /\ tx[w] = u
         /\ lock' = [lock EXCEPT ![u] = NoOne]
BY DEF W!Commit, W!Rollback, W!Release

LEMMA ReferralInit == Init => ReferralInv
<1> SUFFICES ASSUME Init PROVE ReferralInv
  OBVIOUS
<1>1. ReferralTypes
  <2>1. (CHOOSE t \in TopUps : TRUE) \in TopUps
    BY ReferralAssumption
  <2>2. QED
    BY <2>1 DEF Init, W!Init, ReferralTypes
<1>2. \A w \in Workers : LockInv(w) /\ WorkerInv(w)
  BY DEF Init, W!Init, LockInv, WorkerInv
<1>3. \A u \in Users : CodeInv(u) /\ InsertInv(u) /\ OwedInv(u)
  BY ReferralAssumption DEF Init, CodeInv, InsertInv, OwedInv
<1>4. QED
  BY <1>1, <1>2, <1>3 DEF ReferralInv

LEMMA ReferralTypesStep ==
  ASSUME ReferralInv, [Next]_vars
  PROVE  ReferralTypes'
<1>0. ReferralTypes /\ NoOne \notin Users \union Workers
      /\ \A w \in Workers : Customer(w) \in Users /\ WorkerInv(w)
  BY ReferralAssumption DEF ReferralInv, ReferralTypes, Customer
<1>1. ASSUME NEW u \in Users, NEW r \in Users, EnterCode(u, r) \/ SaveCode(u, r) \/ PlaceOrder(u)
      PROVE  ReferralTypes'
  BY <1>0, <1>1 DEF EnterCode, SaveCode, PlaceOrder, walletVars, ReferralTypes
<1>2. ASSUME NEW w \in Workers, NEW t \in TopUps, CreditTopUp(w, t) PROVE ReferralTypes'
  <2>1. Owner[t] \in Users
    BY ReferralAssumption
  <2>2. tx' = [tx EXCEPT ![w] = Owner[t]] /\ lock' = [lock EXCEPT ![Owner[t]] = w]
    BY <1>2, <2>1, MoveEffect DEF CreditTopUp
  <2>3. QED
    BY <1>0, <1>2, <2>1, <2>2 DEF CreditTopUp, ReferralTypes
<1>3. ASSUME NEW w \in Workers, CreditBonus(w) PROVE ReferralTypes'
  <2>1. on[w] \in TopUps
    BY <1>0 DEF ReferralTypes
  <2>2. tx' = [tx EXCEPT ![w] = Customer(w)] /\ lock' = [lock EXCEPT ![Customer(w)] = w]
    BY <1>0, <1>3, <2>1, MoveEffect DEF CreditBonus
  <2>3. QED
    BY <1>0, <1>3, <2>2 DEF CreditBonus, ReferralTypes
<1>4. ASSUME NEW w \in Workers, CreditCommit(w) PROVE ReferralTypes'
  <2>1. tx' = [tx EXCEPT ![w] = NoOne] /\ lock' = [lock EXCEPT ![Customer(w)] = NoOne]
    BY <1>0, <1>4, CommitEffect DEF CreditCommit
  <2>2. QED
    BY <1>0, <1>4, <2>1 DEF CreditCommit, ReferralTypes
<1>5. ASSUME NEW w \in Workers, CheckDue(w) \/ PaidBefore(w) PROVE ReferralTypes'
  BY <1>0, <1>5 DEF CheckDue, PaidBefore, walletVars, ReferralTypes
<1>6. ASSUME NEW w \in Workers, InsertPayout(w) PROVE ReferralTypes'
  <2>1. inviter[w] \in Users
    BY <1>0, <1>6 DEF InsertPayout, WorkerInv, ReferralTypes
  <2>2. tx' = [tx EXCEPT ![w] = inviter[w]] /\ lock' = [lock EXCEPT ![inviter[w]] = w]
    BY <1>6, <2>1, MoveEffect DEF InsertPayout
  <2>3. QED
    BY <1>0, <1>6, <2>1, <2>2 DEF InsertPayout, ReferralTypes
<1>7. ASSUME NEW w \in Workers, PayoutCommit(w) PROVE ReferralTypes'
  <2>1. inviter[w] \in Users
    BY <1>0, <1>7 DEF PayoutCommit, WorkerInv, ReferralTypes
  <2>2. tx' = [tx EXCEPT ![w] = NoOne] /\ lock' = [lock EXCEPT ![inviter[w]] = NoOne]
    BY <1>7, <2>1, CommitEffect DEF PayoutCommit
  <2>3. QED
    BY <1>0, <1>7, <2>2 DEF PayoutCommit, ReferralTypes
<1>8. ASSUME NEW w \in Workers, Crash(w) PROVE ReferralTypes'
  <2>1. CASE tx[w] = NoOne
    BY <1>0, <1>8, <2>1 DEF Crash, walletVars, ReferralTypes
  <2>2. CASE tx[w] # NoOne
    <3>1. tx[w] \in Users /\ W!Rollback(w, tx[w])
      BY <1>0, <1>8, <2>2 DEF Crash, ReferralTypes
    <3>2. tx' = [tx EXCEPT ![w] = NoOne] /\ lock' = [lock EXCEPT ![tx[w]] = NoOne]
      BY <3>1, CommitEffect
    <3>3. QED
      BY <1>0, <1>8, <3>2 DEF Crash, ReferralTypes
  <2>3. QED
    BY <2>1, <2>2
<1>9. CASE UNCHANGED vars
  BY <1>0, <1>9 DEF vars, ReferralTypes
<1>10. QED
  BY <1>1, <1>2, <1>3, <1>4, <1>5, <1>6, <1>7, <1>8, <1>9 DEF Next

LEMMA ReferralFacts ==
  ASSUME ReferralInv
  PROVE  /\ ReferralTypes /\ NoOne \notin Users /\ NoOne \notin Workers
         /\ \A w \in Workers : Customer(w) \in Users /\ LockInv(w) /\ WorkerInv(w)
         /\ \A u \in Users : CodeInv(u) /\ InsertInv(u) /\ OwedInv(u)
BY ReferralAssumption DEF ReferralInv, ReferralTypes, Customer

LEMMA CodesKeep ==
  ASSUME ReferralInv, NEW u \in Users, NEW r \in Users,
         EnterCode(u, r) \/ SaveCode(u, r) \/ PlaceOrder(u)
  PROVE  /\ \A v \in Workers : LockInv(v)' /\ WorkerInv(v)'
         /\ \A x \in Users : CodeInv(x)' /\ InsertInv(x)' /\ OwedInv(x)'
<1> USE ReferralFacts
<1>1. /\ UNCHANGED <<tx, lock, status, payout, inserting, pc, on, inviter>>
      /\ missed \subseteq missed'
  BY DEF EnterCode, SaveCode, PlaceOrder, walletVars
<1>2. \A x \in Users : referredBy'[x] = referredBy[x] \/ x \in missed'
  BY DEF EnterCode, SaveCode, PlaceOrder, ReferralTypes
<1>3. ASSUME NEW v \in Workers PROVE LockInv(v)' /\ WorkerInv(v)'
  <2>1. LockInv(v) /\ WorkerInv(v) /\ Customer(v) \in Users /\ Customer(v)' = Customer(v)
    BY <1>1 DEF Customer
  <2>2. QED
    BY <1>1, <1>2, <2>1 DEF LockInv, WorkerInv
<1>4. ASSUME NEW x \in Users PROVE CodeInv(x)'
  BY DEF EnterCode, SaveCode, PlaceOrder, CodeApplies, CodeInv, ReferralTypes
<1>5. ASSUME NEW x \in Users PROVE InsertInv(x)'
  BY <1>1 DEF InsertInv, Customer
<1>6. ASSUME NEW x \in Users PROVE OwedInv(x)'
  <2>1. PaidIn(x)' = PaidIn(x) /\ Paid(x)' = Paid(x)
    BY <1>1 DEF PaidIn, Credited, Paid
  <2>2. \A v \in Workers : x \notin missed' => (Settling(v, x)' <=> Settling(v, x))
    BY <1>1, <1>2 DEF Settling, Customer
  <2>3. QED
    BY <1>1, <1>2, <2>1, <2>2 DEF OwedInv
<1>7. QED
  BY <1>3, <1>4, <1>5, <1>6

\* A worker begins or goes on to credit a top-up.
LEMMA CreditKeeps ==
  ASSUME ReferralInv, NEW w \in Workers, (\E t \in TopUps : CreditTopUp(w, t)) \/ CreditBonus(w)
  PROVE  /\ \A v \in Workers : LockInv(v)' /\ WorkerInv(v)'
         /\ \A x \in Users : CodeInv(x)' /\ InsertInv(x)' /\ OwedInv(x)'
<1> USE ReferralFacts
<1>1. PICK u \in Users :
        /\ tx' = [tx EXCEPT ![w] = u] /\ lock' = [lock EXCEPT ![u] = w]
        /\ lock[u] \in {NoOne, w} /\ u = Customer(w)'
        /\ inviter'[w] = referredBy[u] \/ u \in missed
  <2>1. ASSUME NEW t \in TopUps, CreditTopUp(w, t)
        PROVE  /\ Owner[t] \in Users
               /\ tx' = [tx EXCEPT ![w] = Owner[t]] /\ lock' = [lock EXCEPT ![Owner[t]] = w]
               /\ lock[Owner[t]] \in {NoOne, w} /\ Owner[t] = Customer(w)'
               /\ inviter'[w] = referredBy[Owner[t]]
    <3>1. Owner[t] \in Users
      BY ReferralAssumption
    <3>2. QED
      BY <2>1, <3>1, MoveEffect DEF CreditTopUp, Customer, ReferralTypes
  <2>2. ASSUME CreditBonus(w)
        PROVE  /\ tx' = [tx EXCEPT ![w] = Customer(w)] /\ lock' = [lock EXCEPT ![Customer(w)] = w]
               /\ lock[Customer(w)] \in {NoOne, w} /\ Customer(w) = Customer(w)'
               /\ inviter'[w] = referredBy[Customer(w)] \/ Customer(w) \in missed
    <3>1. on[w] \in TopUps
      BY DEF ReferralTypes
    <3>2. W!Move(w, Customer(w), "bonus", Extra[on[w]])
      BY <2>2 DEF CreditBonus
    <3>3. UNCHANGED <<on, inviter>> /\ pc[w] = "bonus"
      BY <2>2 DEF CreditBonus
    <3>4. QED
      BY <3>1, <3>2, <3>3, MoveEffect DEF Customer, WorkerInv
  <2>3. QED
    BY <2>1, <2>2
<1>2. /\ pc[w] \in {"idle", "bonus"} /\ pc'[w] \in {"bonus", "commit"}
      /\ \A v \in Workers : v # w => pc'[v] = pc[v] /\ on'[v] = on[v] /\ inviter'[v] = inviter[v]
      /\ UNCHANGED <<status, referredBy, payout, inserting, codes, missed>>
  BY DEF CreditTopUp, CreditBonus, ReferralTypes
<1>3. \A v \in Workers : v # w => Customer(v)' = Customer(v)
  BY <1>2 DEF Customer
<1>4. ASSUME NEW v \in Workers PROVE LockInv(v)' /\ WorkerInv(v)'
  <2>1. CASE v = w
    BY <1>1, <1>2, <2>1 DEF LockInv, WorkerInv, ReferralTypes
  <2>2. CASE v # w
    <3>1. LockInv(v) /\ WorkerInv(v) /\ tx'[v] = tx[v]
      BY <1>1, <2>2
    <3>2. tx[v] # NoOne => lock'[tx[v]] = v
      BY <1>1, <2>2, <3>1 DEF LockInv, ReferralTypes
    <3>3. QED
      BY <1>2, <1>3, <2>2, <3>1, <3>2 DEF LockInv, WorkerInv
  <2>3. QED
    BY <2>1, <2>2
<1>5. ASSUME NEW x \in Users PROVE CodeInv(x)' /\ InsertInv(x)'
  <2>1. CodeInv(x)'
    BY <1>2 DEF CodeInv
  <2>2. inserting[x] # NoOne => inserting[x] \in Workers /\ inserting[x] # w
    BY <1>2 DEF InsertInv, ReferralTypes
  <2>3. QED
    BY <1>2, <1>3, <2>1, <2>2 DEF InsertInv
<1>6. ASSUME NEW x \in Users PROVE OwedInv(x)'
  <2>1. PaidIn(x)' = PaidIn(x) /\ Paid(x)' = Paid(x)
    BY <1>2 DEF PaidIn, Credited, Paid
  <2>2. \A v \in Workers : Settling(v, x) => v # w /\ Settling(v, x)'
    BY <1>2, <1>3 DEF Settling
  <2>3. QED
    BY <1>2, <2>1, <2>2 DEF OwedInv
<1>7. QED
  BY <1>4, <1>5, <1>6

\* The top-up is credited: only now does its customer have paid in more.
LEMMA CreditCommitKeeps ==
  ASSUME ReferralInv, NEW w \in Workers, CreditCommit(w)
  PROVE  /\ \A v \in Workers : LockInv(v)' /\ WorkerInv(v)'
         /\ \A x \in Users : CodeInv(x)' /\ InsertInv(x)' /\ OwedInv(x)'
<1> USE ReferralFacts
<1> DEFINE u == Customer(w)
<1>1. /\ tx' = [tx EXCEPT ![w] = NoOne] /\ lock' = [lock EXCEPT ![u] = NoOne] /\ tx[w] = u
      /\ u \in Users
  BY CommitEffect DEF CreditCommit
<1>2. /\ pc[w] = "commit" /\ pc' = [pc EXCEPT ![w] = "check"]
      /\ status' = [status EXCEPT ![on[w]] = "credited"]
      /\ missed' = IF inviter[w] = referredBy[u] THEN missed \ {u} ELSE missed
      /\ UNCHANGED <<referredBy, payout, inserting, codes, on, inviter>>
  BY DEF CreditCommit
<1>3. \A v \in Workers : Customer(v)' = Customer(v)
  BY <1>2 DEF Customer
<1>4. ASSUME NEW v \in Workers PROVE LockInv(v)' /\ WorkerInv(v)'
  <2>1. CASE v = w
    BY <1>1, <1>2, <2>1 DEF LockInv, WorkerInv, ReferralTypes
  <2>2. CASE v # w
    <3>1. LockInv(v) /\ WorkerInv(v) /\ tx'[v] = tx[v] /\ pc'[v] = pc[v]
      BY <1>1, <1>2, <2>2
    <3>2. tx[v] # u
      BY <1>1, <2>2 DEF LockInv
    <3>3. tx[v] # NoOne => lock'[tx[v]] = v
      BY <1>1, <3>1, <3>2 DEF LockInv, ReferralTypes
    <3>4. pc[v] \in {"bonus", "commit"} => (Customer(v) \in missed => Customer(v) \in missed')
      BY <1>2, <3>1, <3>2 DEF WorkerInv
    <3>5. QED
      BY <1>2, <1>3, <2>2, <3>1, <3>3, <3>4 DEF LockInv, WorkerInv
  <2>3. QED
    BY <2>1, <2>2
<1>5. ASSUME NEW x \in Users PROVE CodeInv(x)' /\ InsertInv(x)'
  <2>1. CodeInv(x)'
    BY <1>2 DEF CodeInv
  <2>2. inserting[x] # NoOne => inserting[x] \in Workers /\ inserting[x] # w
    BY <1>2 DEF InsertInv, ReferralTypes
  <2>3. QED
    BY <1>2, <1>3, <2>1, <2>2 DEF InsertInv
<1>6. ASSUME NEW x \in Users PROVE OwedInv(x)'
  <2>1. CASE x # u
    <3>1. Credited(x)' = Credited(x)
      BY <1>2, <2>1 DEF Credited, Customer, ReferralTypes
    <3>2. PaidIn(x)' = PaidIn(x) /\ Paid(x)' = Paid(x)
      BY <1>2, <3>1 DEF PaidIn, Paid
    <3>3. \A v \in Workers : Settling(v, x) => Settling(v, x)'
      BY <1>2, <1>3, <2>1 DEF Settling, ReferralTypes
    <3>4. x \in missed' <=> x \in missed
      BY <1>2, <2>1
    <3>5. QED
      BY <1>2, <3>2, <3>3, <3>4 DEF OwedInv
  <2>2. CASE x = u
    <3>1. CASE inviter[w] = referredBy[u]
      <4>1. Settling(w, x)'
        BY <1>2, <1>3, <2>2, <3>1 DEF Settling, ReferralTypes
      <4>2. QED
        BY <4>1 DEF OwedInv
    <3>2. CASE inviter[w] # referredBy[u]
      <4>1. u \in missed'
        BY <1>2, <3>2 DEF WorkerInv
      <4>2. QED
        BY <2>2, <4>1 DEF OwedInv
    <3>3. QED
      BY <3>1, <3>2
  <2>3. QED
    BY <2>1, <2>2
<1>7. QED
  BY <1>4, <1>5, <1>6

LEMMA CheckKeeps ==
  ASSUME ReferralInv, NEW w \in Workers, CheckDue(w) \/ PaidBefore(w)
  PROVE  /\ \A v \in Workers : LockInv(v)' /\ WorkerInv(v)'
         /\ \A x \in Users : CodeInv(x)' /\ InsertInv(x)' /\ OwedInv(x)'
<1> USE ReferralFacts
<1>1. /\ UNCHANGED <<tx, lock, status, referredBy, codes, payout, inserting, on, inviter, missed>>
      /\ pc[w] \in {"check", "pay"} /\ pc'[w] \in {"pay", "idle"}
      /\ \A v \in Workers : v # w => pc'[v] = pc[v]
  BY DEF CheckDue, PaidBefore, walletVars, ReferralTypes
<1>2. pc'[w] = "pay" => inviter[w] # NoOne
  BY DEF CheckDue, PaidBefore, Due, ReferralTypes
<1>3. \A v \in Workers : Customer(v)' = Customer(v)
  BY <1>1 DEF Customer
<1>4. ASSUME NEW v \in Workers PROVE LockInv(v)' /\ WorkerInv(v)'
  <2>1. LockInv(v) /\ WorkerInv(v)
    OBVIOUS
  <2>2. QED
    BY <1>1, <1>2, <1>3, <2>1 DEF LockInv, WorkerInv
<1>5. ASSUME NEW x \in Users PROVE CodeInv(x)' /\ InsertInv(x)'
  <2>1. CodeInv(x)'
    BY <1>1 DEF CodeInv
  <2>2. inserting[x] # NoOne => inserting[x] \in Workers /\ inserting[x] # w
    BY <1>1 DEF InsertInv, ReferralTypes
  <2>3. QED
    BY <1>1, <1>3, <2>1, <2>2 DEF InsertInv
<1>6. ASSUME NEW x \in Users PROVE OwedInv(x)'
  <2>1. PaidIn(x)' = PaidIn(x) /\ Paid(x)' = Paid(x)
    BY <1>1 DEF PaidIn, Credited, Paid
  <2>2. \A v \in Workers : v # w /\ Settling(v, x) => Settling(v, x)'
    BY <1>1, <1>3 DEF Settling
  <2>3. SUFFICES ASSUME x \notin missed, referredBy[x] # NoOne, PaidIn(x) >= Threshold, ~Paid(x),
                        Settling(w, x)
                 PROVE  Settling(w, x)'
    BY <1>1, <2>1, <2>2 DEF OwedInv
  <2>4. CASE CheckDue(w)
    <3>1. Due(w)
      BY <2>3, <2>4 DEF CheckDue, Settling, Due, CodeInv, Paid
    <3>2. pc'[w] = "pay"
      BY <2>4, <3>1 DEF CheckDue, ReferralTypes
    <3>3. QED
      BY <1>3, <2>3, <3>2 DEF Settling
  <2>5. CASE PaidBefore(w)
    BY <2>3, <2>5 DEF PaidBefore, MayInsert, Paid, Settling
  <2>6. QED
    BY <2>4, <2>5
<1>7. QED
  BY <1>4, <1>5, <1>6

LEMMA InsertKeeps ==
  ASSUME ReferralInv, NEW w \in Workers, InsertPayout(w)
  PROVE  /\ \A v \in Workers : LockInv(v)' /\ WorkerInv(v)'
         /\ \A x \in Users : CodeInv(x)' /\ InsertInv(x)' /\ OwedInv(x)'
<1> USE ReferralFacts
<1> DEFINE u == Customer(w)
<1>1. PICK r \in Users : r = inviter[w]
  BY DEF InsertPayout, WorkerInv, ReferralTypes
<1>2. /\ tx' = [tx EXCEPT ![w] = r] /\ lock' = [lock EXCEPT ![r] = w] /\ lock[r] \in {NoOne, w}
      /\ u \in Users
  BY <1>1, MoveEffect DEF InsertPayout
<1>3. /\ pc[w] = "pay" /\ pc' = [pc EXCEPT ![w] = "payout"]
      /\ inserting[u] = NoOne /\ payout[u] = NoPayout
      /\ inserting' = [inserting EXCEPT ![u] = w]
      /\ UNCHANGED <<status, referredBy, payout, codes, on, inviter, missed>>
  BY DEF InsertPayout, MayInsert
<1>4. \A v \in Workers : Customer(v)' = Customer(v)
  BY <1>3 DEF Customer
<1>5. ASSUME NEW v \in Workers PROVE LockInv(v)' /\ WorkerInv(v)'
  <2>1. CASE v = w
    BY <1>1, <1>2, <1>3, <1>4, <2>1 DEF LockInv, WorkerInv, ReferralTypes
  <2>2. CASE v # w
    <3>1. LockInv(v) /\ WorkerInv(v) /\ tx'[v] = tx[v] /\ pc'[v] = pc[v]
      BY <1>2, <1>3, <2>2
    <3>2. tx[v] # NoOne => lock'[tx[v]] = v
      BY <1>2, <2>2, <3>1 DEF LockInv, ReferralTypes
    <3>3. pc[v] = "payout" => inserting'[Customer(v)] = v
      BY <1>3, <3>1 DEF WorkerInv, ReferralTypes
    <3>4. QED
      BY <1>3, <1>4, <2>2, <3>1, <3>2, <3>3 DEF LockInv, WorkerInv
  <2>3. QED
    BY <2>1, <2>2
<1>6. ASSUME NEW x \in Users PROVE CodeInv(x)' /\ InsertInv(x)'
  <2>1. CodeInv(x)'
    BY <1>3 DEF CodeInv
  <2>2. CASE x = u
    BY <1>2, <1>3, <1>4, <2>1, <2>2 DEF InsertInv, ReferralTypes
  <2>3. CASE x # u
    <3>1. inserting'[x] = inserting[x]
      BY <1>3, <2>3 DEF ReferralTypes
    <3>2. inserting[x] # NoOne => inserting[x] \in Workers /\ inserting[x] # w
      BY <1>3 DEF InsertInv, ReferralTypes
    <3>3. QED
      BY <1>3, <1>4, <2>1, <3>1, <3>2 DEF InsertInv, ReferralTypes
  <2>4. QED
    BY <2>2, <2>3
<1>7. ASSUME NEW x \in Users PROVE OwedInv(x)'
  <2>1. PaidIn(x)' = PaidIn(x) /\ Paid(x)' = Paid(x)
    BY <1>3 DEF PaidIn, Credited, Paid
  <2>2. \A v \in Workers : Settling(v, x) => Settling(v, x)'
    BY <1>3, <1>4 DEF Settling, ReferralTypes
  <2>3. QED
    BY <1>3, <2>1, <2>2 DEF OwedInv
<1>8. QED
  BY <1>5, <1>6, <1>7

LEMMA PayoutKeeps ==
  ASSUME ReferralInv, NEW w \in Workers, PayoutCommit(w)
  PROVE  /\ \A v \in Workers : LockInv(v)' /\ WorkerInv(v)'
         /\ \A x \in Users : CodeInv(x)' /\ InsertInv(x)' /\ OwedInv(x)'
<1> USE ReferralFacts
<1> DEFINE u == Customer(w)
<1>1. PICK r \in Users : r = inviter[w]
  BY DEF PayoutCommit, WorkerInv, ReferralTypes
<1>2. /\ tx' = [tx EXCEPT ![w] = NoOne] /\ lock' = [lock EXCEPT ![r] = NoOne] /\ tx[w] = r
      /\ u \in Users
  BY <1>1, CommitEffect DEF PayoutCommit
<1>3. /\ pc[w] = "payout" /\ pc' = [pc EXCEPT ![w] = "idle"]
      /\ payout' = [payout EXCEPT ![u] = [to |-> r, total |-> total[w]]]
      /\ inserting' = [inserting EXCEPT ![u] = NoOne]
      /\ UNCHANGED <<status, referredBy, codes, on, inviter, missed>>
  BY <1>1 DEF PayoutCommit
<1>4. \A v \in Workers : Customer(v)' = Customer(v)
  BY <1>3 DEF Customer
<1>5. ASSUME NEW v \in Workers PROVE LockInv(v)' /\ WorkerInv(v)'
  <2>1. CASE v = w
    BY <1>2, <1>3, <2>1 DEF LockInv, WorkerInv, ReferralTypes
  <2>2. CASE v # w
    <3>1. LockInv(v) /\ WorkerInv(v) /\ tx'[v] = tx[v] /\ pc'[v] = pc[v]
      BY <1>2, <1>3, <2>2
    <3>2. tx[v] # NoOne => lock'[tx[v]] = v
      BY <1>2, <2>2, <3>1 DEF LockInv, ReferralTypes
    <3>3. pc[v] = "payout" => inserting'[Customer(v)] = v
      BY <1>3, <2>2, <3>1 DEF WorkerInv, ReferralTypes
    <3>4. QED
      BY <1>3, <1>4, <2>2, <3>1, <3>2, <3>3 DEF LockInv, WorkerInv
  <2>3. QED
    BY <2>1, <2>2
<1>6. ASSUME NEW x \in Users PROVE CodeInv(x)' /\ InsertInv(x)'
  <2>1. CodeInv(x)'
    BY <1>3 DEF CodeInv
  <2>2. CASE x = u
    BY <1>2, <1>3, <2>1, <2>2 DEF InsertInv, ReferralTypes
  <2>3. CASE x # u
    <3>1. inserting'[x] = inserting[x] /\ payout'[x] = payout[x]
      BY <1>3, <2>3 DEF ReferralTypes
    <3>2. inserting[x] # NoOne => inserting[x] \in Workers /\ inserting[x] # w
      BY <2>3 DEF InsertInv, ReferralTypes
    <3>3. QED
      BY <1>3, <1>4, <2>1, <3>1, <3>2 DEF InsertInv, ReferralTypes
  <2>4. QED
    BY <2>2, <2>3
<1>7. ASSUME NEW x \in Users PROVE OwedInv(x)'
  <2>1. PaidIn(x)' = PaidIn(x)
    BY <1>3 DEF PaidIn, Credited
  <2>2. CASE x = u
    <3>1. payout'[x] # NoPayout
      BY <1>2, <1>3, <2>2 DEF NoPayout, ReferralTypes
    <3>2. QED
      BY <3>1 DEF OwedInv, Paid, NoPayout
  <2>3. CASE x # u
    <3>1. Paid(x)' = Paid(x)
      BY <1>3, <2>3 DEF Paid, NoPayout, ReferralTypes
    <3>2. \A v \in Workers : Settling(v, x) => Settling(v, x)'
      BY <1>3, <1>4, <2>3 DEF Settling, ReferralTypes
    <3>3. QED
      BY <1>3, <2>1, <3>1, <3>2 DEF OwedInv
  <2>4. QED
    BY <2>2, <2>3
<1>8. QED
  BY <1>5, <1>6, <1>7

LEMMA CrashKeeps ==
  ASSUME ReferralInv, NEW w \in Workers, Crash(w)
  PROVE  /\ \A v \in Workers : LockInv(v)' /\ WorkerInv(v)'
         /\ \A x \in Users : CodeInv(x)' /\ InsertInv(x)' /\ OwedInv(x)'
<1> USE ReferralFacts
<1>1. /\ tx' = [tx EXCEPT ![w] = NoOne]
      /\ \A x \in Users : x # tx[w] => lock'[x] = lock[x]
  <2>1. CASE tx[w] = NoOne
    BY <2>1 DEF Crash, walletVars, ReferralTypes
  <2>2. CASE tx[w] # NoOne
    <3>1. tx[w] \in Users /\ W!Rollback(w, tx[w])
      BY <2>2 DEF Crash, ReferralTypes
    <3>2. tx' = [tx EXCEPT ![w] = NoOne] /\ lock' = [lock EXCEPT ![tx[w]] = NoOne]
      BY <3>1, CommitEffect
    <3>3. QED
      BY <3>2 DEF ReferralTypes
  <2>3. QED
    BY <2>1, <2>2
<1>2. /\ pc' = [pc EXCEPT ![w] = "idle"] /\ missed \subseteq missed'
      /\ pc[w] \in {"check", "pay", "payout"} => Customer(w) \in missed'
      /\ inserting' = [u \in Users |-> IF inserting[u] = w THEN NoOne ELSE inserting[u]]
      /\ UNCHANGED <<status, referredBy, payout, codes, on, inviter>>
  BY DEF Crash
<1>3. \A v \in Workers : Customer(v)' = Customer(v)
  BY <1>2 DEF Customer
<1>4. ASSUME NEW v \in Workers PROVE LockInv(v)' /\ WorkerInv(v)'
  <2>1. CASE v = w
    BY <1>1, <1>2, <2>1 DEF LockInv, WorkerInv, ReferralTypes
  <2>2. CASE v # w
    <3>1. LockInv(v) /\ WorkerInv(v) /\ tx'[v] = tx[v] /\ pc'[v] = pc[v]
      BY <1>1, <1>2, <2>2 DEF ReferralTypes
    <3>2. tx[v] # NoOne => lock'[tx[v]] = v
      BY <1>1, <2>2, <3>1 DEF LockInv, ReferralTypes
    <3>3. pc[v] = "payout" => inserting'[Customer(v)] = v
      BY <1>2, <2>2, <3>1 DEF WorkerInv, ReferralTypes
    <3>4. QED
      BY <1>2, <1>3, <2>2, <3>1, <3>2, <3>3 DEF LockInv, WorkerInv
  <2>3. QED
    BY <2>1, <2>2
<1>5. ASSUME NEW x \in Users PROVE CodeInv(x)' /\ InsertInv(x)'
  <2>1. CodeInv(x)'
    BY <1>2 DEF CodeInv
  <2>2. inserting'[x] # NoOne => /\ inserting'[x] = inserting[x]
                                 /\ inserting[x] \in Workers /\ inserting[x] # w
    BY <1>2 DEF ReferralTypes
  <2>3. QED
    BY <1>2, <1>3, <2>1, <2>2 DEF InsertInv, ReferralTypes
<1>6. ASSUME NEW x \in Users PROVE OwedInv(x)'
  <2>1. PaidIn(x)' = PaidIn(x) /\ Paid(x)' = Paid(x)
    BY <1>2 DEF PaidIn, Credited, Paid
  <2>2. \A v \in Workers : x \notin missed' /\ Settling(v, x) => Settling(v, x)'
    BY <1>2, <1>3 DEF Settling, ReferralTypes
  <2>3. QED
    BY <1>2, <2>1, <2>2 DEF OwedInv
<1>7. QED
  BY <1>4, <1>5, <1>6

LEMMA ReferralStep ==
  ASSUME ReferralInv, [Next]_vars
  PROVE  ReferralInv'
<1>1. ReferralTypes'
  BY ReferralTypesStep
<1>2. CASE UNCHANGED vars
  <2>1. \A v \in Workers : LockInv(v)' /\ WorkerInv(v)'
    BY <1>2, ReferralFacts DEF vars, LockInv, WorkerInv, Customer
  <2>2. \A x \in Users : CodeInv(x)' /\ InsertInv(x)' /\ OwedInv(x)'
    BY <1>2, ReferralFacts
    DEF vars, CodeInv, InsertInv, OwedInv, Customer, Settling, PaidIn, Credited, Paid
  <2>3. QED
    BY <1>1, <2>1, <2>2 DEF ReferralInv
<1>3. CASE Next
  <2>1. /\ \A v \in Workers : LockInv(v)' /\ WorkerInv(v)'
        /\ \A x \in Users : CodeInv(x)' /\ InsertInv(x)' /\ OwedInv(x)'
    BY <1>3, CodesKeep, CreditKeeps, CreditCommitKeeps, CheckKeeps, InsertKeeps, PayoutKeeps,
       CrashKeeps DEF Next
  <2>2. QED
    BY <1>1, <2>1 DEF ReferralInv
<1>4. QED
  BY <1>2, <1>3

\* An inviter whose payout is due has it, or a worker is about to see to it
\* (wallet/services.py, pay_referral_if_due).
THEOREM WhatIsDueIsPaid == Spec => []DueIsPaid
<1>1. ReferralInv => DueIsPaid
  <2>1. SUFFICES ASSUME ReferralInv, NEW u \in Users \ missed,
                        \A w \in Workers : pc[w] = "idle" \/ Customer(w) # u,
                        referredBy[u] # NoOne, PaidIn(u) >= Threshold
                 PROVE  Paid(u)
    BY DEF DueIsPaid
  <2>2. OwedInv(u) /\ \A w \in Workers : ~Settling(w, u)
    BY <2>1 DEF ReferralInv, Settling
  <2>3. QED
    BY <2>1, <2>2 DEF OwedInv
<1>2. QED
  BY <1>1, ReferralInit, ReferralStep, PTL DEF Spec

\* "A referral pays out exactly once": the row of a payout is written once.
THEOREM PayoutsStand == Spec => PayoutStands
<1>1. ASSUME ReferralInv, [Next]_vars, NEW u \in Users, Paid(u) PROVE payout'[u] = payout[u]
  <2>1. CASE \E w \in Workers : PayoutCommit(w)
    <3>1. PICK w \in Workers : PayoutCommit(w)
      BY <2>1
    <3>2. payout[Customer(w)] = NoPayout
      BY <1>1, <3>1, ReferralFacts DEF PayoutCommit, WorkerInv, InsertInv
    <3>3. payout' = [payout EXCEPT ![Customer(w)] = [to |-> inviter[w], total |-> total[w]]]
      BY <3>1 DEF PayoutCommit
    <3>4. QED
      BY <1>1, <3>2, <3>3, ReferralFacts DEF Paid, ReferralTypes
  <2>2. CASE UNCHANGED payout
    BY <2>2
  <2>3. QED
    BY <1>1, <2>1, <2>2
    DEF Next, vars, EnterCode, SaveCode, PlaceOrder, CreditTopUp, CreditBonus, CreditCommit, CheckDue,
        InsertPayout, PaidBefore, Crash
<1>2. ReferralInv /\ [Next]_vars => [\A u \in Users : Paid(u) => payout'[u] = payout[u]]_vars
  BY <1>1
<1>3. QED
  BY <1>2, ReferralInit, ReferralStep, PTL DEF Spec, PayoutStands
-----------------------------------------------------------------------------
(* What sums come to.  The fold is not opened further than one element; that *)
(* all sums of a finite set agree follows from a least set where two do not. *)

\* One element of a set, and what the library's fold makes of a set with it.
First(s)       == CHOOSE t \in s : TRUE
Adds(f, ts, g) == g = [s \in SUBSET ts |-> IF s = {} THEN 0 ELSE f[First(s)] + g[s \ {First(s)}]]

\* The cents of some top-ups, each cent apart.
Cents(f, ts) == {c \in TopUps \X Nat : c[1] \in ts /\ c[2] \in 1..f[c[1]]}

LEMMA FoldAdds ==
  ASSUME NEW f, NEW ts
  PROVE  SumOf(f, ts) = (CHOOSE g : Adds(f, ts, g))[ts]
BY DEF SumOf, FoldSet, MapThenFoldSet, Adds, First

LEMMA CentsOfOne ==
  ASSUME NEW f \in [TopUps -> Nat], NEW t \in TopUps
  PROVE  IsFiniteSet({t} \X (1..f[t])) /\ Cardinality({t} \X (1..f[t])) = f[t]
<1>1. IsFiniteSet({t}) /\ Cardinality({t}) = 1
  BY FS_Singleton
<1>2. f[t] \in Nat
  OBVIOUS
<1>3. IsFiniteSet(1..f[t]) /\ Cardinality(1..f[t]) = f[t]
  BY <1>2, FS_Interval
<1>4. IsFiniteSet({t} \X (1..f[t])) /\ Cardinality({t} \X (1..f[t])) = 1 * f[t]
  BY <1>1, <1>3, FS_Product
<1>5. QED
  BY <1>2, <1>4

LEMMA CentsFinite ==
  ASSUME NEW f \in [TopUps -> Nat], NEW ts \in SUBSET TopUps
  PROVE  IsFiniteSet(Cents(f, ts))
<1> DEFINE one == [t \in TopUps |-> {t} \X (1..f[t])]
           all == {one[t] : t \in TopUps}
<1>1. one \in Surjection(TopUps, all)
  BY DEF Surjection
<1>2. IsFiniteSet(all)
  BY <1>1, ReferralAssumption, FS_Surjection
<1>3. \A a \in all : IsFiniteSet(a)
  BY CentsOfOne
<1>4. Cents(f, ts) \subseteq UNION all
  <2>1. SUFFICES ASSUME NEW c \in Cents(f, ts) PROVE c[1] \in TopUps /\ c \in one[c[1]]
    OBVIOUS
  <2>2. QED
    BY DEF Cents
<1>5. QED
  BY <1>2, <1>3, <1>4, FS_UNION, FS_Subset

LEMMA CentsSplit ==
  ASSUME NEW f \in [TopUps -> Nat], NEW ts \in SUBSET TopUps, NEW t \in ts
  PROVE  Cardinality(Cents(f, ts)) = f[t] + Cardinality(Cents(f, ts \ {t}))
<1> DEFINE rest == Cents(f, ts \ {t})
           one  == {t} \X (1..f[t])
<1>1. Cents(f, ts) = one \union rest /\ one \intersect rest = {}
  <2>1. t \in TopUps /\ f[t] \in Nat /\ 1..f[t] \subseteq Nat
    OBVIOUS
  <2>2. QED
    BY <2>1 DEF Cents
<1>2. IsFiniteSet(one) /\ Cardinality(one) = f[t] /\ f[t] \in Nat
  BY CentsOfOne
<1>3. IsFiniteSet(rest) /\ Cardinality(rest) \in Nat
  BY CentsFinite, FS_CardinalityType
<1> HIDE DEF rest, one
<1>4. Cardinality(one \intersect rest) = 0
  BY <1>1, FS_EmptySet
<1>5. Cardinality(one \union rest) = Cardinality(one) + Cardinality(rest) - Cardinality(one \intersect rest)
  BY <1>2, <1>3, FS_Union
<1>6. QED
  BY <1>1, <1>2, <1>3, <1>4, <1>5 DEF rest

LEMMA CentsAdd ==
  ASSUME NEW f \in [TopUps -> Nat], NEW ts \in SUBSET TopUps
  PROVE  Adds(f, ts, [s \in SUBSET ts |-> Cardinality(Cents(f, s))])
<1> DEFINE g == [s \in SUBSET ts |-> Cardinality(Cents(f, s))]
<1>1. ASSUME NEW s \in SUBSET ts
      PROVE  g[s] = IF s = {} THEN 0 ELSE f[First(s)] + g[s \ {First(s)}]
  <2>1. CASE s = {}
    <3>1. Cents(f, {}) = {}
      BY DEF Cents
    <3>2. QED
      BY <2>1, <3>1, FS_EmptySet
  <2>2. CASE s # {}
    <3>1. First(s) \in s /\ s \in SUBSET TopUps /\ s \ {First(s)} \in SUBSET ts
      BY <2>2 DEF First
    <3>2. Cardinality(Cents(f, s)) = f[First(s)] + Cardinality(Cents(f, s \ {First(s)}))
      BY <3>1, CentsSplit
    <3>3. QED
      BY <2>2, <3>1, <3>2
  <2>3. QED
    BY <2>1, <2>2
<1>2. g = [s \in SUBSET ts |-> IF s = {} THEN 0 ELSE f[First(s)] + g[s \ {First(s)}]]
  BY <1>1
<1>3. QED
  BY <1>2 DEF Adds

\* Two sums of a finite set are one: look at a least subset where they differ.
LEMMA OneSum ==
  ASSUME NEW f, NEW ts, IsFiniteSet(ts), NEW g, NEW h, Adds(f, ts, g), Adds(f, ts, h)
  PROVE  g[ts] = h[ts]
<1> DEFINE differ == {s \in SUBSET ts : g[s] # h[s]}
<1>1. SUFFICES ASSUME differ # {} PROVE FALSE
  OBVIOUS
<1>2. IsWellFoundedOn(StrictSubsetOrdering(ts), SUBSET ts)
  <2>1. FiniteSubsetsOf(ts) = SUBSET ts
    BY FS_FiniteSubsetsOfFinite
  <2>2. QED
    BY <2>1, FS_StrictSubsetOrderingWellFounded
<1>3. PICK s \in differ : \A r \in differ : ~ (<<r, s>> \in StrictSubsetOrdering(ts))
  <2>1. differ \subseteq SUBSET ts
    OBVIOUS
  <2> HIDE DEF differ
  <2>2. \E s \in differ : \A r \in differ : ~ (<<r, s>> \in StrictSubsetOrdering(ts))
    BY <1>1, <1>2, <2>1, WFMin
  <2>3. QED
    BY <2>2
<1>4. s # {}
  BY <1>3 DEF Adds
<1>5. First(s) \in s
  BY <1>4 DEF First
<1>6. s \ {First(s)} \notin differ
  <2>1. s \ {First(s)} \in SUBSET ts /\ s \in SUBSET ts
    BY <1>3
  <2>2. <<s \ {First(s)}, s>> \in StrictSubsetOrdering(ts)
    BY <1>5, <2>1 DEF StrictSubsetOrdering
  <2>3. QED
    BY <1>3, <2>2
<1>7. QED
  BY <1>3, <1>4, <1>6 DEF Adds

\* A sum of amounts is the number of their cents.
LEMMA SumIsCents ==
  ASSUME NEW f \in [TopUps -> Nat], NEW ts \in SUBSET TopUps
  PROVE  SumOf(f, ts) = Cardinality(Cents(f, ts))
<1> DEFINE g   == [s \in SUBSET ts |-> Cardinality(Cents(f, s))]
           sum == CHOOSE h : Adds(f, ts, h)
<1>1. Adds(f, ts, g)
  BY CentsAdd
<1>2. Adds(f, ts, sum)
  BY <1>1
<1>3. IsFiniteSet(ts)
  BY ReferralAssumption, FS_Subset
<1>4. SumOf(f, ts) = sum[ts] /\ g[ts] = Cardinality(Cents(f, ts))
  BY FoldAdds
<1> HIDE DEF g, sum
<1>5. sum[ts] = g[ts]
  BY <1>1, <1>2, <1>3, OneSum
<1>6. QED
  BY <1>4, <1>5

LEMMA SumOfMore ==
  ASSUME NEW f \in [TopUps -> Nat], NEW ts \in SUBSET TopUps
  PROVE  /\ SumOf(f, ts) \in Nat /\ SumOf(f, {}) = 0
         /\ \A t \in TopUps \ ts : SumOf(f, ts \union {t}) = SumOf(f, ts) + f[t]
<1>1. SumOf(f, ts) \in Nat
  BY SumIsCents, CentsFinite, FS_CardinalityType
<1>2. SumOf(f, {}) = 0
  <2>1. Cents(f, {}) = {}
    BY DEF Cents
  <2>2. QED
    BY <2>1, SumIsCents, FS_EmptySet
<1>3. ASSUME NEW t \in TopUps \ ts
      PROVE  SumOf(f, ts \union {t}) = SumOf(f, ts) + f[t]
  <2>1. (ts \union {t}) \ {t} = ts /\ ts \union {t} \in SUBSET TopUps /\ t \in ts \union {t}
    OBVIOUS
  <2>2. Cardinality(Cents(f, ts \union {t})) = f[t] + Cardinality(Cents(f, ts))
    BY <2>1, CentsSplit
  <2>3. SumOf(f, ts \union {t}) = f[t] + SumOf(f, ts) /\ f[t] \in Nat
    BY <2>1, <2>2, SumIsCents
  <2>4. QED
    BY <1>1, <2>3
<1>4. QED
  BY <1>1, <1>2, <1>3

-----------------------------------------------------------------------------
(* The money of invitations.                                              *)

\* What the wallet of a customer should hold.
Explained(u) == SumOf(Payable, Credited(u)) + SumOf(Extra, Credited(u)) + Reward * Earned(u)

\* What a worker that moves money has in its draft, and will say it was for.
DraftInv(w) ==
    /\ pc[w] \in {"bonus", "commit"} =>
          /\ status[on[w]] = "paid"
          /\ draft[w].row.balance = row[Customer(w)].balance + Payable[on[w]]
                                    + (IF pc[w] = "bonus" THEN 0 ELSE Extra[on[w]])
    /\ pc[w] = "payout" => draft[w].row.balance = row[inviter[w]].balance + Reward

\* A reward is looked at by its own worker only once enough was paid in.
ReasonInv(w) ==
    pc[w] \in {"pay", "payout"} =>
        /\ inviter[w] # Customer(w)
        /\ Threshold <= total[w] /\ total[w] <= PaidIn(Customer(w))

MoneyInv ==
    /\ ReferralInv
    /\ DOMAIN row = Users /\ DOMAIN draft = Workers /\ total \in [Workers -> Nat]
    /\ \A u \in Users : payout[u].total \in Nat
    /\ \A w \in Workers : DraftInv(w) /\ ReasonInv(w)
    /\ EveryCentExplained /\ RewardIsForMoney

LEMMA MoneyFacts ==
  ASSUME MoneyInv
  PROVE  /\ DOMAIN row = Users /\ DOMAIN draft = Workers /\ total \in [Workers -> Nat]
         /\ \A w \in Workers : /\ DraftInv(w) /\ ReasonInv(w) /\ on[w] \in TopUps
                               /\ inviter[w] \in Users \union {NoOne}
         /\ \A u \in Users : row[u].balance = Explained(u) /\ payout[u].total \in Nat
         /\ \A w, v \in Workers : tx[v] = tx[w] /\ tx[w] # NoOne => v = w
         /\ \A t \in TopUps : Amount[t] \in Nat /\ Payable[t] \in Nat /\ Extra[t] \in Nat
         /\ Reward \in Nat /\ Threshold \in Nat
BY ReferralAssumption, ReferralFacts
DEF MoneyInv, EveryCentExplained, Explained, ReferralTypes, LockInv

LEMMA SumsTyped ==
  ASSUME NEW u \in Users
  PROVE  /\ Credited(u) \in SUBSET TopUps
         /\ SumOf(Amount, Credited(u)) \in Nat /\ SumOf(Payable, Credited(u)) \in Nat
         /\ SumOf(Extra, Credited(u)) \in Nat
         /\ PaidIn(u) \in Nat /\ Earned(u) \in Nat /\ Explained(u) \in Nat
<1>1. Credited(u) \in SUBSET TopUps
  BY DEF Credited
<1>2. /\ SumOf(Amount, Credited(u)) \in Nat /\ SumOf(Payable, Credited(u)) \in Nat
      /\ SumOf(Extra, Credited(u)) \in Nat
  BY <1>1, SumOfMore, ReferralAssumption
<1>3. Earned(u) \in Nat
  BY ReferralAssumption, FS_Subset, FS_CardinalityType DEF Earned
<1>4. QED
  BY <1>1, <1>2, <1>3, ReferralAssumption DEF PaidIn, Explained

LEMMA MoneyInit == Init => MoneyInv
<1> SUFFICES ASSUME Init PROVE MoneyInv
  OBVIOUS
<1>1. ReferralInv
  BY ReferralInit
<1>2. \A w \in Workers : DraftInv(w) /\ ReasonInv(w)
  BY DEF Init, DraftInv, ReasonInv
<1>3. ASSUME NEW u \in Users PROVE row[u].balance = Explained(u) /\ ~Paid(u)
  <2>1. Credited(u) = {} /\ {v \in Users : payout[v].to = u} = {}
    BY ReferralAssumption DEF Init, Credited, NoPayout
  <2>2. SumOf(Payable, Credited(u)) = 0 /\ SumOf(Extra, Credited(u)) = 0 /\ Earned(u) = 0
    BY <2>1, SumOfMore, FS_EmptySet, ReferralAssumption DEF Earned
  <2>3. Explained(u) = 0
    BY <2>2, ReferralAssumption DEF Explained
  <2>4. QED
    BY <2>3 DEF Init, W!Init, W!EmptyRow, Paid
<1>4. QED
  BY <1>1, <1>2, <1>3 DEF MoneyInv, EveryCentExplained, RewardIsForMoney, Explained, Init, W!Init, NoPayout

\* Moving money in a transaction of one's own.
LEMMA MoveMoney ==
  ASSUME MoneyInv, NEW w \in Workers, NEW u \in Users, NEW kind \in {"topup", "bonus"}, NEW sum \in Nat,
         W!Move(w, u, kind, sum)
  PROVE  /\ row' = row /\ DOMAIN draft' = Workers
         /\ \A v \in Workers : v # w => draft'[v] = draft[v]
         /\ draft'[w].row.balance
              = (IF tx[w] = u THEN draft[w].row.balance ELSE row[u].balance) + sum
BY MoneyFacts DEF W!Move, W!Base, W!Moved, W!Signed, W!CreditKinds

\* A step that credits and pays out nothing.
LEMMA NothingPaid ==
  ASSUME MoneyInv, ReferralInv', UNCHANGED <<status, payout, row>>,
         DOMAIN draft' = Workers, total' \in [Workers -> Nat],
         \A w \in Workers : DraftInv(w)' /\ ReasonInv(w)'
  PROVE  MoneyInv'
<1>1. ASSUME NEW u \in Users
      PROVE  /\ row'[u].balance = Explained(u)'
             /\ Paid(u)' => Paid(u)
             /\ payout'[u] = payout[u] /\ SumOf(Amount, Credited(u))' = SumOf(Amount, Credited(u))
  BY MoneyFacts DEF Explained, Credited, Earned, Paid
<1>2. EveryCentExplained'
  BY <1>1 DEF EveryCentExplained, Explained
<1>3. RewardIsForMoney'
  BY <1>1 DEF RewardIsForMoney, MoneyInv
<1>4. QED
  BY <1>2, <1>3, MoneyFacts DEF MoneyInv

\* What is the same for everybody but the worker that takes the step.
LEMMA OthersDrafts ==
  ASSUME MoneyInv, UNCHANGED <<status, row>>, NEW v \in Workers,
         pc'[v] = pc[v], on'[v] = on[v], inviter'[v] = inviter[v],
         draft'[v] = draft[v], total'[v] = total[v]
  PROVE  DraftInv(v)' /\ ReasonInv(v)'
<1>1. Customer(v)' = Customer(v) /\ \A u \in Users : PaidIn(u)' = PaidIn(u)
  BY DEF Customer, PaidIn, Credited
<1>2. QED
  BY <1>1, MoneyFacts, ReferralFacts DEF MoneyInv, DraftInv, ReasonInv

\* Requests with codes, and a look at a payout that comes to nothing.
LEMMA AsideMoney ==
  ASSUME MoneyInv, ReferralInv',
         \/ \E u, r \in Users : EnterCode(u, r) \/ SaveCode(u, r)
         \/ \E u \in Users : PlaceOrder(u)
         \/ \E w \in Workers : PaidBefore(w)
         \/ UNCHANGED vars
  PROVE  MoneyInv'
<1>1. UNCHANGED <<status, payout, row, draft, on, inviter, total>>
      /\ \A v \in Workers : pc'[v] = pc[v] \/ pc'[v] = "idle"
  BY ReferralFacts DEF EnterCode, SaveCode, PlaceOrder, PaidBefore, vars, walletVars, ReferralTypes, MoneyInv
<1>2. ASSUME NEW v \in Workers PROVE DraftInv(v)' /\ ReasonInv(v)'
  <2>1. CASE pc'[v] = pc[v]
    BY <1>1, <2>1, OthersDrafts
  <2>2. CASE pc'[v] = "idle"
    BY <2>2 DEF DraftInv, ReasonInv
  <2>3. QED
    BY <1>1, <2>1, <2>2
<1>3. QED
  BY <1>1, <1>2, NothingPaid, MoneyFacts

\* A worker begins or goes on to credit a top-up.
LEMMA CreditMoney ==
  ASSUME MoneyInv, ReferralInv', NEW w \in Workers,
         CreditBonus(w) \/ \E t \in TopUps : CreditTopUp(w, t)
  PROVE  MoneyInv'
<1>1. ASSUME NEW t \in TopUps, CreditTopUp(w, t)
      PROVE  /\ row' = row /\ DOMAIN draft' = Workers
             /\ \A v \in Workers : v # w => draft'[v] = draft[v]
             /\ DraftInv(w)' /\ ReasonInv(w)'
  <2>1. Owner[t] \in Users /\ Payable[t] \in Nat /\ Extra[t] \in Nat /\ tx[w] # Owner[t]
    BY <1>1, ReferralFacts, ReferralAssumption DEF CreditTopUp, WorkerInv, MoneyInv
  <2>2. /\ row' = row /\ DOMAIN draft' = Workers
        /\ \A v \in Workers : v # w => draft'[v] = draft[v]
        /\ draft'[w].row.balance = row[Owner[t]].balance + Payable[t]
    BY <1>1, <2>1, MoveMoney DEF CreditTopUp
  <2>3. /\ on'[w] = t /\ Customer(w)' = Owner[t] /\ status' = status /\ status[t] = "paid"
        /\ pc'[w] = (IF Extra[t] > 0 THEN "bonus" ELSE "commit")
    BY <1>1, ReferralFacts DEF CreditTopUp, Creditable, Customer, ReferralTypes, MoneyInv
  <2>4. row[Owner[t]].balance \in Nat
    BY <2>1, MoneyFacts, SumsTyped
  <2>5. DraftInv(w)' /\ ReasonInv(w)'
    BY <2>1, <2>2, <2>3, <2>4 DEF DraftInv, ReasonInv
  <2>6. QED
    BY <2>2, <2>5
<1>2. ASSUME CreditBonus(w)
      PROVE  /\ row' = row /\ DOMAIN draft' = Workers
             /\ \A v \in Workers : v # w => draft'[v] = draft[v]
             /\ DraftInv(w)' /\ ReasonInv(w)'
  <2>1. Customer(w) \in Users /\ tx[w] = Customer(w) /\ Extra[on[w]] \in Nat
    BY <1>2, ReferralFacts, MoneyFacts DEF CreditBonus, WorkerInv, MoneyInv
  <2>2. /\ row' = row /\ DOMAIN draft' = Workers
        /\ \A v \in Workers : v # w => draft'[v] = draft[v]
        /\ draft'[w].row.balance = draft[w].row.balance + Extra[on[w]]
    BY <1>2, <2>1, MoveMoney DEF CreditBonus
  <2>3. /\ on' = on /\ Customer(w)' = Customer(w) /\ status' = status /\ pc'[w] = "commit"
        /\ pc[w] = "bonus"
    BY <1>2, ReferralFacts DEF CreditBonus, Customer, ReferralTypes, MoneyInv
  <2>4. row[Customer(w)].balance \in Nat /\ Payable[on[w]] \in Nat
    BY <2>1, MoneyFacts, SumsTyped
  <2>5. DraftInv(w)' /\ ReasonInv(w)'
    BY <2>1, <2>2, <2>3, <2>4, MoneyFacts DEF DraftInv, ReasonInv
  <2>6. QED
    BY <2>2, <2>5
<1>3. UNCHANGED <<status, payout, total>>
      /\ \A v \in Workers : v # w => pc'[v] = pc[v] /\ on'[v] = on[v] /\ inviter'[v] = inviter[v]
  BY ReferralFacts DEF CreditTopUp, CreditBonus, ReferralTypes, MoneyInv
<1>4. /\ row' = row /\ DOMAIN draft' = Workers
      /\ \A v \in Workers : DraftInv(v)' /\ ReasonInv(v)'
  BY <1>1, <1>2, <1>3, OthersDrafts
<1>5. QED
  BY <1>3, <1>4, NothingPaid, MoneyFacts

\* A worker looks whether a payout is due, or begins to pay it.
LEMMA PayingMoney ==
  ASSUME MoneyInv, ReferralInv', NEW w \in Workers, CheckDue(w) \/ InsertPayout(w)
  PROVE  MoneyInv'
<1>1. /\ UNCHANGED <<status, payout, row, on, inviter>> /\ DOMAIN draft' = Workers
      /\ total' \in [Workers -> Nat]
      /\ \A v \in Workers : v # w => /\ pc'[v] = pc[v] /\ draft'[v] = draft[v]
                                     /\ total'[v] = total[v]
  <2>1. CASE CheckDue(w)
    <3>1. Customer(w) \in Users /\ PaidIn(Customer(w)) \in Nat
      BY ReferralFacts, SumsTyped DEF MoneyInv
    <3>2. QED
      BY <2>1, <3>1, ReferralFacts, MoneyFacts DEF CheckDue, walletVars, ReferralTypes, MoneyInv
  <2>2. CASE InsertPayout(w)
    <3>1. inviter[w] \in Users
      BY <2>2, ReferralFacts DEF InsertPayout, WorkerInv, ReferralTypes, MoneyInv
    <3>2. row' = row /\ DOMAIN draft' = Workers /\ \A v \in Workers : v # w => draft'[v] = draft[v]
      BY <2>2, <3>1, MoveMoney, MoneyFacts DEF InsertPayout
    <3>3. QED
      BY <2>2, <3>2, ReferralFacts, MoneyFacts DEF InsertPayout, ReferralTypes, MoneyInv
  <2>3. QED
    BY <2>1, <2>2
<1>2. Customer(w)' = Customer(w) /\ PaidIn(Customer(w))' = PaidIn(Customer(w))
  BY <1>1 DEF Customer, PaidIn, Credited
<1>3. DraftInv(w)' /\ ReasonInv(w)'
  <2>1. CASE CheckDue(w)
    <3>1. /\ pc'[w] \in {"pay", "idle"}
          /\ pc'[w] = "pay" => Due(w) /\ total'[w] = PaidIn(Customer(w))
      BY <2>1, ReferralFacts, MoneyFacts DEF CheckDue, ReferralTypes, MoneyInv
    <3>2. PaidIn(Customer(w)) \in Nat
      BY ReferralFacts, SumsTyped DEF MoneyInv
    <3>3. QED
      BY <1>1, <1>2, <3>1, <3>2, MoneyFacts DEF Due, DraftInv, ReasonInv
  <2>2. CASE InsertPayout(w)
    <3>1. inviter[w] \in Users /\ tx[w] # inviter[w] /\ pc[w] = "pay"
      BY <2>2, ReferralFacts DEF InsertPayout, WorkerInv, ReferralTypes, MoneyInv
    <3>2. draft'[w].row.balance = row[inviter[w]].balance + Reward
      BY <2>2, <3>1, MoveMoney, MoneyFacts DEF InsertPayout
    <3>3. pc'[w] = "payout" /\ total' = total
      BY <2>2, ReferralFacts DEF InsertPayout, ReferralTypes, MoneyInv
    <3>4. QED
      BY <1>1, <1>2, <3>1, <3>2, <3>3, MoneyFacts DEF DraftInv, ReasonInv
  <2>3. QED
    BY <2>1, <2>2
<1>4. \A v \in Workers : DraftInv(v)' /\ ReasonInv(v)'
  BY <1>1, <1>3, OthersDrafts
<1>5. QED
  BY <1>1, <1>4, NothingPaid

\* A worker that dies undoes its draft.
LEMMA CrashMoney ==
  ASSUME MoneyInv, ReferralInv', NEW w \in Workers, Crash(w)
  PROVE  MoneyInv'
<1>1. /\ row' = row /\ DOMAIN draft' = Workers
      /\ \A v \in Workers : v # w => draft'[v] = draft[v]
  BY MoneyFacts DEF Crash, walletVars, W!Rollback, W!Release
<1>2. /\ UNCHANGED <<status, payout, on, inviter, total>> /\ pc'[w] = "idle"
      /\ \A v \in Workers : v # w => pc'[v] = pc[v]
  BY ReferralFacts DEF Crash, ReferralTypes, MoneyInv
<1>3. DraftInv(w)' /\ ReasonInv(w)'
  BY <1>2 DEF DraftInv, ReasonInv
<1>4. QED
  BY <1>1, <1>2, <1>3, OthersDrafts, NothingPaid, MoneyFacts

\* A top-up is credited: its cents are in the wallet with their reason.
LEMMA CommitMoney ==
  ASSUME MoneyInv, ReferralInv', NEW w \in Workers, CreditCommit(w)
  PROVE  MoneyInv'
<1>1. PICK c \in Users, t \in TopUps : c = Customer(w) /\ t = on[w]
  BY ReferralFacts, MoneyFacts DEF MoneyInv
<1>2. tx[w] = c /\ c # NoOne /\ Owner[t] = c /\ status[t] = "paid" /\ pc[w] = "commit"
      /\ draft[w].row.balance = row[c].balance + Payable[t] + Extra[t]
  BY <1>1, ReferralFacts, MoneyFacts DEF CreditCommit, WorkerInv, DraftInv, Customer, MoneyInv
<1>3. /\ DOMAIN row' = Users /\ DOMAIN draft' = Workers /\ UNCHANGED <<payout, on, inviter, total>>
      /\ row'[c].balance = draft[w].row.balance
      /\ \A u \in Users : u # c => row'[u] = row[u]
      /\ \A v \in Workers : v # w => draft'[v] = draft[v] /\ pc'[v] = pc[v]
      /\ pc'[w] = "check" /\ status' = [status EXCEPT ![t] = "credited"]
  BY <1>2, <1>1, ReferralFacts, MoneyFacts DEF CreditCommit, W!Commit, W!Release, ReferralTypes, MoneyInv
<1>4. t \in TopUps \ Credited(c) /\ Credited(c)' = Credited(c) \union {t}
      /\ \A u \in Users : u # c => Credited(u)' = Credited(u)
  <2>1. status \in [TopUps -> {"paid", "credited"}]
    BY ReferralFacts DEF ReferralTypes, MoneyInv
  <2>2. t \notin Credited(c)
    BY <1>2 DEF Credited
  <2>3. \A x \in TopUps : status'[x] = IF x = t THEN "credited" ELSE status[x]
    BY <1>3, <2>1
  <2>4. Credited(c)' = Credited(c) \union {t}
    BY <1>2, <2>3 DEF Credited
  <2>5. \A u \in Users : u # c => Credited(u)' = Credited(u)
    BY <1>2, <2>3 DEF Credited
  <2>6. QED
    BY <1>2, <2>2, <2>4, <2>5
<1>5. ASSUME NEW u \in Users
      PROVE  /\ Earned(u)' = Earned(u) /\ Paid(u)' = Paid(u)
             /\ SumOf(Amount, Credited(u)') >= SumOf(Amount, Credited(u))
             /\ row'[u].balance = SumOf(Payable, Credited(u)') + SumOf(Extra, Credited(u)') + Reward * Earned(u)
  <2>1. Earned(u)' = Earned(u) /\ Paid(u)' = Paid(u)
    <3>1. payout' = payout
      BY <1>3
    <3>2. QED
      BY <3>1 DEF Earned, Paid
  <2>2. row[u].balance = SumOf(Payable, Credited(u)) + SumOf(Extra, Credited(u)) + Reward * Earned(u)
    BY MoneyFacts DEF Explained
  <2>3. Reward * Earned(u) \in Nat
    BY SumsTyped, MoneyFacts
  <2>4. CASE u # c
    <3>1. Credited(u)' = Credited(u) /\ row'[u] = row[u]
      BY <1>3, <1>4, <2>4
    <3>2. SumOf(Amount, Credited(u)) \in Nat
      BY SumsTyped
    <3>3. QED
      BY <2>1, <2>2, <3>1, <3>2
  <2>5. CASE u = c
    <3>1. draft[w].row.balance = row[u].balance + Payable[t] + Extra[t]
      BY <1>2, <2>5
    <3>2. row'[u].balance = draft[w].row.balance
      BY <1>3, <2>5
    <3>3. /\ SumOf(Amount, Credited(u)') = SumOf(Amount, Credited(u)) + Amount[t]
          /\ SumOf(Payable, Credited(u)') = SumOf(Payable, Credited(u)) + Payable[t]
          /\ SumOf(Extra, Credited(u)') = SumOf(Extra, Credited(u)) + Extra[t]
      <4>1. Credited(u) \in SUBSET TopUps /\ t \in TopUps \ Credited(u)
            /\ Credited(u)' = Credited(u) \union {t}
        BY <1>2, <1>4, <2>5, SumsTyped
      <4>2. QED
        BY <4>1, SumOfMore, ReferralAssumption
    <3>4. /\ Amount[t] \in Nat /\ Payable[t] \in Nat /\ Extra[t] \in Nat
          /\ SumOf(Amount, Credited(u)) \in Nat /\ SumOf(Payable, Credited(u)) \in Nat
          /\ SumOf(Extra, Credited(u)) \in Nat
      BY <1>2, SumsTyped, MoneyFacts
    <3>5. QED
      BY <2>1, <2>2, <2>3, <3>1, <3>2, <3>3, <3>4
  <2>6. QED
    BY <2>4, <2>5
<1>6. \A u \in Users : SumOf(Amount, Credited(u)') \in Nat
  <2>1. \A u \in Users : Credited(u)' \in SUBSET TopUps
    BY DEF Credited
  <2>2. QED
    BY <2>1, SumOfMore, ReferralAssumption
<1>7. EveryCentExplained'
  BY <1>5 DEF EveryCentExplained
<1>8. RewardIsForMoney'
  <2>1. SUFFICES ASSUME NEW u \in Users, Paid(u)'
                 PROVE  /\ payout'[u].to # u /\ payout'[u].total >= Threshold
                        /\ payout'[u].total <= SumOf(Amount, Credited(u))'
    BY DEF RewardIsForMoney
  <2>2. Paid(u) /\ payout'[u] = payout[u] /\ payout[u].total \in Nat
    BY <1>3, <1>5, <2>1, MoneyFacts
  <2>3. payout[u].to # u /\ payout[u].total >= Threshold
        /\ payout[u].total <= SumOf(Amount, Credited(u))
    BY <2>2 DEF RewardIsForMoney, MoneyInv
  <2>4. SumOf(Amount, Credited(u)') >= SumOf(Amount, Credited(u))
        /\ SumOf(Amount, Credited(u)') \in Nat /\ SumOf(Amount, Credited(u)) \in Nat
    BY <1>5, <1>6, SumsTyped
  <2>5. QED
    BY <2>2, <2>3, <2>4, MoneyFacts
<1>9. ASSUME NEW v \in Workers PROVE DraftInv(v)' /\ ReasonInv(v)'
  <2>1. Customer(v)' = Customer(v) /\ Customer(v) \in Users
    BY <1>3, ReferralFacts DEF Customer, MoneyInv
  <2>2. CASE v = w
    BY <1>3, <2>2 DEF DraftInv, ReasonInv
  <2>3. CASE v # w
    <3>1. pc[v] \in {"bonus", "commit"} => Customer(v) # c /\ on[v] # t
      BY <1>2, <1>1, <2>3, ReferralFacts, MoneyFacts DEF WorkerInv, Customer, MoneyInv
    <3>2. pc[v] = "payout" => inviter[v] \in Users \ {c}
      BY <1>2, <2>3, ReferralFacts, MoneyFacts DEF WorkerInv, MoneyInv
    <3>3. DraftInv(v)'
      BY <1>3, <2>1, <2>3, <3>1, <3>2, MoneyFacts, ReferralFacts DEF DraftInv, ReferralTypes, MoneyInv
    <3>4. /\ PaidIn(Customer(v))' >= PaidIn(Customer(v))
          /\ PaidIn(Customer(v))' \in Nat /\ PaidIn(Customer(v)) \in Nat
      BY <1>5, <1>6, <2>1, SumsTyped DEF PaidIn
    <3>5. ReasonInv(v)'
      BY <1>3, <2>1, <2>3, <3>4, MoneyFacts DEF ReasonInv
    <3>6. QED
      BY <3>3, <3>5
  <2>4. QED
    BY <2>2, <2>3
<1>10. QED
  BY <1>3, <1>7, <1>8, <1>9, MoneyFacts DEF MoneyInv

\* A reward is paid: the inviter is one customer richer, and it was for money.
LEMMA PayoutMoney ==
  ASSUME MoneyInv, ReferralInv', NEW w \in Workers, PayoutCommit(w)
  PROVE  MoneyInv'
<1>1. PICK r \in Users : r = inviter[w] /\ tx[w] = r
  BY ReferralFacts DEF PayoutCommit, WorkerInv, ReferralTypes, MoneyInv
<1>2. PICK c \in Users : c = Customer(w)
  BY ReferralFacts DEF MoneyInv
<1>3. /\ pc[w] = "payout" /\ payout[c] = NoPayout /\ r # c
      /\ Threshold <= total[w] /\ total[w] <= PaidIn(c) /\ total[w] \in Nat
      /\ draft[w].row.balance = row[r].balance + Reward
  BY <1>1, <1>2, ReferralFacts, MoneyFacts
  DEF PayoutCommit, WorkerInv, InsertInv, DraftInv, ReasonInv, MoneyInv
<1>4. /\ DOMAIN row' = Users /\ DOMAIN draft' = Workers /\ UNCHANGED <<status, on, inviter, total>>
      /\ row'[r].balance = draft[w].row.balance
      /\ \A u \in Users : u # r => row'[u] = row[u]
      /\ \A v \in Workers : v # w => draft'[v] = draft[v] /\ pc'[v] = pc[v]
      /\ pc'[w] = "idle"
  BY <1>1, ReferralFacts, MoneyFacts DEF PayoutCommit, W!Commit, W!Release, ReferralTypes, MoneyInv
<1>5. /\ payout'[c] = [to |-> r, total |-> total[w]]
      /\ \A u \in Users : u # c => payout'[u] = payout[u]
  BY <1>1, <1>2, ReferralFacts DEF PayoutCommit, ReferralTypes, MoneyInv
<1>6. \A u \in Users : Credited(u)' = Credited(u) /\ PaidIn(u)' = PaidIn(u)
  BY <1>4 DEF Credited, PaidIn
<1>7. /\ Earned(r)' = Earned(r) + 1
      /\ \A u \in Users : u # r => Earned(u)' = Earned(u)
  <2> DEFINE For(u) == {v \in Users : payout[v].to = u}
             Now(u) == {v \in Users : payout'[v].to = u}
  <2>1. payout[c].to = NoOne /\ NoOne \notin Users
    BY <1>3, ReferralAssumption DEF NoPayout
  <2>2. Now(r) = For(r) \union {c} /\ c \notin For(r)
    BY <1>5, <2>1
  <2>3. \A u \in Users : u # r => Now(u) = For(u)
    BY <1>5, <2>1
  <2>4. IsFiniteSet(For(r))
    BY ReferralAssumption, FS_Subset
  <2> HIDE DEF For, Now
  <2>5. Cardinality(Now(r)) = Cardinality(For(r)) + 1
    BY <2>2, <2>4, FS_AddElement
  <2>6. \A u \in Users : Earned(u) = Cardinality(For(u)) /\ Earned(u)' = Cardinality(Now(u))
    BY DEF Earned, For, Now
  <2>7. QED
    BY <2>3, <2>5, <2>6
<1>8. ASSUME NEW u \in Users
      PROVE  row'[u].balance = SumOf(Payable, Credited(u)') + SumOf(Extra, Credited(u)') + Reward * Earned(u)'
  <2>1. row[u].balance = SumOf(Payable, Credited(u)) + SumOf(Extra, Credited(u)) + Reward * Earned(u)
    BY MoneyFacts DEF Explained
  <2>2. CASE u # r
    BY <1>4, <1>6, <1>7, <2>1, <2>2
  <2>3. CASE u = r
    <3>1. Reward * (Earned(r) + 1) = Reward * Earned(r) + Reward /\ Reward * Earned(r) \in Nat
      BY SumsTyped, MoneyFacts
    <3>2. row'[r].balance = row[r].balance + Reward
      BY <1>3, <1>4
    <3>3. QED
      BY <1>6, <1>7, <2>1, <2>3, <3>1, <3>2, SumsTyped, MoneyFacts
  <2>4. QED
    BY <2>2, <2>3
<1>9. EveryCentExplained'
  BY <1>8 DEF EveryCentExplained
<1>10. RewardIsForMoney'
  <2>1. SUFFICES ASSUME NEW u \in Users, Paid(u)'
                 PROVE  /\ payout'[u].to # u /\ payout'[u].total >= Threshold
                        /\ payout'[u].total <= SumOf(Amount, Credited(u)')
    BY DEF RewardIsForMoney
  <2>2. CASE u = c
    BY <1>3, <1>5, <1>6, <2>2, SumsTyped, MoneyFacts DEF PaidIn
  <2>3. CASE u # c
    BY <1>5, <1>6, <2>1, <2>3 DEF RewardIsForMoney, Paid, MoneyInv
  <2>4. QED
    BY <2>2, <2>3
<1>11. ASSUME NEW v \in Workers PROVE DraftInv(v)' /\ ReasonInv(v)'
  <2>1. Customer(v)' = Customer(v) /\ Customer(v) \in Users
    BY <1>4, ReferralFacts DEF Customer, MoneyInv
  <2>2. CASE v = w
    BY <1>4, <2>2 DEF DraftInv, ReasonInv
  <2>3. CASE v # w
    <3>1. pc[v] \in {"bonus", "commit"} => Customer(v) # r
      BY <1>1, <2>3, ReferralFacts, MoneyFacts DEF WorkerInv, MoneyInv
    <3>2. pc[v] = "payout" => inviter[v] \in Users \ {r}
      BY <1>1, <2>3, ReferralFacts, MoneyFacts DEF WorkerInv, MoneyInv
    <3>3. DraftInv(v)'
      BY <1>4, <2>1, <2>3, <3>1, <3>2, MoneyFacts DEF DraftInv
    <3>4. ReasonInv(v)'
      BY <1>4, <1>6, <2>1, <2>3, MoneyFacts DEF ReasonInv
    <3>5. QED
      BY <3>3, <3>4
  <2>4. QED
    BY <2>2, <2>3
<1>12. \A u \in Users : payout'[u].total \in Nat
  BY <1>3, <1>5, MoneyFacts
<1>13. QED
  BY <1>4, <1>9, <1>10, <1>11, <1>12, MoneyFacts DEF MoneyInv

LEMMA MoneyStep ==
  ASSUME MoneyInv, [Next]_vars
  PROVE  MoneyInv'
<1>1. ReferralInv'
  BY ReferralStep DEF MoneyInv
<1>2. QED
  BY <1>1, AsideMoney, CreditMoney, CommitMoney, PayingMoney, PayoutMoney, CrashMoney DEF Next

\* A wallet holds the top-ups credited to it, their bonuses and one reward for
\* each customer it was paid out for, to the cent (wallet/services.py,
\* credit_topup and pay_referral_if_due).
THEOREM EveryCentHasItsReason == Spec => []EveryCentExplained
<1>1. MoneyInv => EveryCentExplained
  BY DEF MoneyInv
<1>2. QED
  BY <1>1, MoneyInit, MoneyStep, PTL DEF Spec

\* The total that a payout names reached the threshold and was paid in, not
\* granted, and by somebody else (pay_referral_if_due).
THEOREM RewardsAreForMoney == Spec => []RewardIsForMoney
<1>1. MoneyInv => RewardIsForMoney
  BY DEF MoneyInv
<1>2. QED
  BY <1>1, MoneyInit, MoneyStep, PTL DEF Spec
=============================================================================
