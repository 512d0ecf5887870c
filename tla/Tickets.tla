------------------------------ MODULE Tickets -------------------------------
(***************************************************************************)
(* The support tickets of one signed-in customer: the form and the thread  *)
(* in apps/support/views.py, the operators' pages in apps/support/admin.py.*)
(*                                                                         *)
(* An admin page shows a ticket and saves, minutes later, the status it   *)
(* showed unless the operator picked another; the list of tickets does the *)
(* same without showing the messages.                                      *)
(***************************************************************************)
EXTENDS Naturals, FiniteSets

CONSTANTS
    Tickets,           \* tickets that may be created
    Forms,             \* requests of the customer's browser tabs
    Pages,             \* admin pages that operators have open
    MAX_OPEN_TICKETS,  \* apps/support/views.py
    MaxNotes,          \* bound: messages of the customer
    MaxDeaths          \* bound: requests that die half way

ASSUME TicketsAssumption ==
    /\ Tickets # {} /\ IsFiniteSet(Tickets) /\ IsFiniteSet(Forms)
    /\ MAX_OPEN_TICKETS \in Nat \ {0} /\ MaxNotes \in Nat /\ MaxDeaths \in Nat

VARIABLES
    state,    \* Ticket.status, "none" before it is created
    unread,    \* tickets whose last message is the customer's, no operator's reply after it
    form,      \* the customer's requests: next step and ticket
    page,      \* the operators' pages: ticket, status shown, messages shown
    reopened,  \* tickets that a reply or an outdated page took out of "closed"
    notes,
    deaths

ticketVars == <<state, unread, form, page, reopened, notes, deaths>>

NoPage  == [open |-> FALSE, ticket |-> CHOOSE k \in Tickets : TRUE,
            shown |-> "none", view |-> "list"]
Waiting == [pc |-> "idle", ticket |-> CHOOSE k \in Tickets : TRUE]

TicketInit ==
    /\ state   = [k \in Tickets |-> "none"]
    /\ unread   = {}
    /\ form     = [f \in Forms |-> Waiting]
    /\ page     = [o \in Pages |-> NoPage]
    /\ reopened = {}
    /\ notes    = 0
    /\ deaths   = 0

\* request.user.tickets.exclude(status=CLOSED)
OpenTickets == {k \in Tickets : state[k] \in {"open", "answered"}}
-----------------------------------------------------------------------------
(* The customer.                                                             *)

\* The pages that show ticket k do not show its newest message.
Outdated(k) == [o \in Pages |-> IF page[o].ticket = k /\ page[o].view = "thread"
                                THEN [page[o] EXCEPT !.view = "outdated"] ELSE page[o]]

\* Answered tickets are not counted.
CountUnanswered(f) ==
    /\ form[f].pc = "idle" /\ Cardinality({k \in Tickets : state[k] = "open"}) < MAX_OPEN_TICKETS
    /\ form' = [form EXCEPT ![f].pc = "create"]
    /\ UNCHANGED <<state, unread, page, reopened, notes, deaths>>

\* The form counts the open tickets ...
CountOpen(f) ==
    /\ form[f].pc = "idle" /\ Cardinality(OpenTickets) < MAX_OPEN_TICKETS
    /\ form' = [form EXCEPT ![f].pc = "create"]
    /\ UNCHANGED <<state, unread, page, reopened, notes, deaths>>

\* ... and creates one more with its first message.
Create(f, k) ==
    /\ form[f].pc = "create" /\ notes < MaxNotes
    /\ state[k] = "none" /\ k = CHOOSE x \in Tickets : state[x] = "none"
    /\ state' = [state EXCEPT ![k] = "open"]
    /\ unread' = unread \union {k}
    /\ form'   = [form EXCEPT ![f] = Waiting]
    /\ notes'  = notes + 1
    /\ UNCHANGED <<page, reopened, deaths>>

\* The thread: a message, committed by itself ...
AddNote(f, k) ==
    /\ form[f].pc = "idle" /\ state[k] # "none" /\ notes < MaxNotes
    /\ unread' = unread \union {k}
    /\ page'   = Outdated(k)
    /\ form'   = [form EXCEPT ![f] = [pc |-> "said", ticket |-> k]]
    /\ notes'  = notes + 1
    /\ UNCHANGED <<state, reopened, deaths>>

\* ... and then the status: "A customer reply reopens the thread".
Reopen(f) ==
    LET k == form[f].ticket IN
    /\ form[f].pc = "said"
    /\ state'   = [state EXCEPT ![k] = "open"]
    /\ reopened' = IF state[k] = "closed" THEN reopened \union {k} ELSE reopened
    /\ form'     = [form EXCEPT ![f] = Waiting]
    /\ UNCHANGED <<unread, page, notes, deaths>>

\* The request dies between its two steps.
Die(f) ==
    /\ form[f].pc # "idle" /\ deaths < MaxDeaths
    /\ form'   = [form EXCEPT ![f] = Waiting]
    /\ deaths' = deaths + 1
    /\ UNCHANGED <<state, unread, page, reopened, notes>>

CloseTicket(f, k) ==
    /\ form[f].pc = "idle" /\ state[k] # "none"
    /\ state'   = [state EXCEPT ![k] = "closed"]
    /\ reopened' = reopened \ {k}
    /\ UNCHANGED <<unread, form, page, notes, deaths>>
-----------------------------------------------------------------------------
(* The operators.                                                            *)

\* The ticket's page, with its messages, or the list of tickets, without.
OpenPage(o, k, view) ==
    /\ ~page[o].open /\ state[k] # "none"
    /\ page' = [page EXCEPT ![o] = [open |-> TRUE, ticket |-> k, shown |-> state[k], view |-> view]]
    /\ UNCHANGED <<state, unread, form, reopened, notes, deaths>>

\* save_model writes the state of the form; a staff message then turns an
\* open ticket into an answered one, unless this save changed the state.
Saved(now, picked, replies) ==
    IF replies /\ picked = now /\ now = "open" THEN "answered" ELSE picked

\* The reply of somebody who has read the customer's last message.
ReadAndAnswers(o, replies) == replies /\ page[o].view = "thread"

SavePage(o, picked, replies) ==
    LET k == page[o].ticket IN
    /\ page[o].open /\ picked \in {page[o].shown, "closed"}
    /\ replies => page[o].view # "list"
    /\ state'   = [state EXCEPT ![k] = Saved(state[k], picked, replies)]
    /\ unread'   = IF ReadAndAnswers(o, replies) THEN unread \ {k} ELSE unread
    /\ reopened' = IF state[k] = "closed" /\ picked # "closed" THEN reopened \union {k} ELSE reopened
    /\ page'     = [page EXCEPT ![o] = NoPage]
    /\ UNCHANGED <<form, notes, deaths>>
-----------------------------------------------------------------------------
TicketNext ==
    \/ \E f \in Forms : CountOpen(f) \/ Reopen(f) \/ Die(f)
    \/ \E f \in Forms, k \in Tickets : Create(f, k) \/ AddNote(f, k) \/ CloseTicket(f, k)
    \/ \E o \in Pages, k \in Tickets : \E view \in {"list", "thread"} : OpenPage(o, k, view)
    \/ \E o \in Pages : \E picked \in {"open", "answered", "closed"} : \E replies \in BOOLEAN :
          SavePage(o, picked, replies)
-----------------------------------------------------------------------------
\* The tickets and the pages about them are well formed.
TicketTypeOK ==
    /\ state \in [Tickets -> {"none", "open", "answered", "closed"}]
    /\ unread \subseteq Tickets /\ reopened \subseteq Tickets
    /\ notes \in 0..MaxNotes /\ deaths \in 0..MaxDeaths
    /\ form \in [Forms -> [pc : {"idle", "create", "said"}, ticket : Tickets]]
    /\ page \in [Pages -> [open : BOOLEAN, ticket : Tickets, view : {"list", "thread", "outdated"},
                           shown : {"none", "open", "answered", "closed"}]]

\* "You already have several open tickets": tabs that were counted together
\* may each create one, and a reply to a closed ticket opens it again; nothing
\* else takes a customer over the limit.
OpenCap ==
    Cardinality(OpenTickets \ reopened) <= MAX_OPEN_TICKETS + Cardinality(Forms) - 1
-----------------------------------------------------------------------------
(* What the code does not keep; see README.                                  *)

\* "A customer reply reopens the thread: answered means we are waiting on them,
\* and that is no longer true": a ticket is not filed as answered while its last
\* message is the customer's, unless the reply that will reopen it is being stored.
\* An operator's answer to the message before, or a request that dies between the
\* message and the status, leave it so.
AnsweredIsAnswered ==
    \A k \in unread : state[k] = "answered" =>
        \E f \in Forms : form[f] = [pc |-> "said", ticket |-> k]

TicketSpec == TicketInit /\ [][TicketNext]_ticketVars
=============================================================================
