-------------------------------- MODULE Desk --------------------------------
(***************************************************************************)
(* The support chat of one customer: apps/support/views.py (the widget's   *)
(* polls and posts), apps/support/admin_views.py (the operators' screen)   *)
(* and the conversation's page in apps/support/admin.py.                   *)
(*                                                                         *)
(* No request takes a lock: each reads the conversation, writes messages,  *)
(* and saves some of the columns of the copy it read.  Between reading and *)
(* saving stand calls to a language model and, on the admin page, minutes. *)
(*                                                                         *)
(* The age of an escalation is not counted: a poll may find the five       *)
(* minutes of grace over, or not.                                          *)
(***************************************************************************)
EXTENDS Naturals, FiniteSets

CONSTANTS
    Convs,     \* conversations that may be created
    Tabs,      \* requests of the customer's browser tabs
    Staff,     \* requests of operators
    StalePages, \* whether operators save admin pages that are out of date
    MaxPosts,  \* bound: messages of the customer
    MaxWords   \* bound: messages of operators

ASSUME DeskAssumption == Convs # {} /\ StalePages \in BOOLEAN /\ MaxPosts \in Nat /\ MaxWords \in Nat

VARIABLES
    conv,      \* AssistantConversation rows
    unseen,    \* messages counted in user_unread that the customer has not seen
    tab, desk, \* the requests: next step, conversation, the copy they read
    label,     \* the background thread of _classify_flow_bg on each conversation
    notices,   \* waiting notices that each tab's polls said in a conversation
    posts, words

deskVars == <<conv, unseen, tab, desk, label, notices, posts, words>>

Intents == {"plain", "urgent", "human"}

NewConv == [made |-> FALSE, status |-> "open", joined |-> FALSE, unread |-> 0, notified |-> FALSE]
NoCopy  == NewConv

\* A request at rest.  What a copy holds and the request will not use again is
\* forgotten: Count keeps the number of unread messages only.
Idle(c) == [pc |-> "idle", conv |-> c, copy |-> NoCopy, kind |-> "plain", seen |-> FALSE]

Count(copy) == [NoCopy EXCEPT !.unread = copy.unread]

AnyConv == CHOOSE c \in Convs : TRUE

DeskInit ==
    /\ conv    = [c \in Convs |-> NewConv]
    /\ unseen  = [c \in Convs |-> 0]
    /\ tab     = [t \in Tabs |-> Idle(AnyConv)]
    /\ desk    = [o \in Staff |-> Idle(AnyConv)]
    /\ label   = [c \in Convs |-> Idle(c)]
    /\ notices = [c \in Convs |-> [t \in Tabs |-> 0]]
    /\ posts   = 0
    /\ words   = 0

\* _active_conversation.
Active == {c \in Convs : conv[c].made /\ conv[c].status # "closed"}
-----------------------------------------------------------------------------
(* The customer.                                                             *)

\* _maybe_waiting_notice: whether the copy calls for the notice, were the
\* grace over.
NoticeDue(copy) == ~copy.joined /\ ~copy.notified /\ copy.status = "escalated"

\* _serialize shows the messages, and before that clears a count if there is
\* one.  The badge's poll shows nothing.
Serialize(seen, copy) == IF ~seen THEN "idle" ELSE IF copy.unread > 0 THEN "clear" ELSE "show"

\* GET: the badge asks without showing anything, the open panel shows.
Poll(t, c, seen, over) ==
    LET due == over /\ NoticeDue(conv[c]) IN
    /\ tab[t].pc = "idle" /\ c \in Active /\ (seen \/ due)
    /\ tab' = [tab EXCEPT ![t] =
                 [pc   |-> IF due THEN "notice" ELSE Serialize(seen, conv[c]),
                  conv |-> c, copy |-> Count(conv[c]), kind |-> "plain", seen |-> seen]]
    /\ UNCHANGED <<conv, unseen, desk, label, notices, posts, words>>

SayNotice(t) ==
    LET c == tab[t].conv IN
    /\ tab[t].pc = "notice"
    /\ unseen'  = [unseen EXCEPT ![c] = @ + 1]
    /\ notices' = [notices EXCEPT ![c][t] = @ + 1]
    /\ tab'     = [tab EXCEPT ![t].pc = "noted"]
    /\ UNCHANGED <<conv, desk, label, posts, words>>

\* The copy counts the notice, and the request goes on to show it.
Recount(x) == [x EXCEPT !.pc = "clear", !.copy.unread = @ + 1]

SaveNotice(t) ==
    LET c == tab[t].conv IN
    /\ tab[t].pc = "noted"
    /\ conv' = [conv EXCEPT ![c].notified = TRUE, ![c].unread = tab[t].copy.unread + 1]
    /\ tab'  = [tab EXCEPT ![t] = IF @.seen THEN Recount(@) ELSE Idle(AnyConv)]
    /\ UNCHANGED <<unseen, desk, label, notices, posts, words>>

\* POST: the conversation is found or made, the message said ...
Post(t, c, kind) ==
    /\ tab[t].pc = "idle" /\ posts < MaxPosts
    /\ IF Active # {} THEN c \in Active ELSE ~conv[c].made
    /\ conv'  = [conv EXCEPT ![c].made = TRUE]
    /\ tab'   = [tab EXCEPT ![t] = [pc |-> "said", conv |-> c, kind |-> kind, seen |-> TRUE,
                                    copy |-> [conv[c] EXCEPT !.made = TRUE]]]
    /\ posts' = posts + 1
    /\ UNCHANGED <<unseen, desk, label, notices, words>>

\* What a message makes of the status.
Raised(copy, kind) == IF kind = "plain" THEN copy.status ELSE "escalated"

\* "a full save would write this request's stale copy of user_unread back" ...
StaleCount(row, copy, kind) == [row EXCEPT !.status = Raised(copy, kind), !.unread = copy.unread]

\* ... and of owner_joined.
StaleTakeover(row, copy, kind) == [row EXCEPT !.status = Raised(copy, kind), !.joined = copy.joined]

\* The columns a post saves, over whatever the row holds by now.
Named(row, copy, kind) == [row EXCEPT !.status = Raised(copy, kind)]

\* Who answers: an operator, a constant, or the model.
NextAfter(copy, kind) ==
    IF copy.joined \/ kind = "human" THEN Serialize(TRUE, copy) ELSE "answer"

\* ... and some columns saved; the team is mailed and a request for a person
\* answered on the way.
SavePost(t) ==
    LET c == tab[t].conv IN
    /\ tab[t].pc = "said"
    /\ conv' = [conv EXCEPT ![c] = Named(conv[c], tab[t].copy, tab[t].kind)]
    /\ tab'  = [tab EXCEPT ![t].copy = Count(@), ![t].pc = NextAfter(tab[t].copy, tab[t].kind)]
    /\ UNCHANGED <<unseen, desk, label, notices, posts, words>>

\* The model's answer, or the fallback; what was not urgent gets a second look.
Answer(t) ==
    LET c == tab[t].conv IN
    /\ tab[t].pc = "answer"
    /\ label' = [label EXCEPT ![c].pc = IF tab[t].kind = "plain" /\ @ = "idle" THEN "asked" ELSE @]
    /\ tab'   = [tab EXCEPT ![t].pc = Serialize(TRUE, tab[t].copy), ![t].kind = "plain"]
    /\ UNCHANGED <<conv, unseen, desk, notices, posts, words>>

\* _serialize: the count is cleared unless it grew meanwhile ...
Clear(t) ==
    LET c == tab[t].conv IN
    /\ tab[t].pc = "clear"
    /\ conv' = [conv EXCEPT ![c].unread =
                  IF @ <= tab[t].copy.unread THEN 0 ELSE @]
    /\ tab'  = [tab EXCEPT ![t].pc = "show", ![t].copy = NoCopy, ![t].kind = "plain"]
    /\ UNCHANGED <<unseen, desk, label, notices, posts, words>>

\* ... and the messages are read and shown.
Show(t) ==
    LET c == tab[t].conv IN
    /\ tab[t].pc = "show"
    /\ unseen' = [unseen EXCEPT ![c] = 0]
    /\ tab'    = [tab EXCEPT ![t] = Idle(AnyConv)]
    /\ UNCHANGED <<conv, desk, label, notices, posts, words>>

\* The model answers the second look: nothing new, or something for the team.
\* Looks at one conversation that run at once count as one here.
LabelRead(c, fresh) ==
    /\ label[c].pc = "asked"
    /\ label' = [label EXCEPT ![c] = IF fresh THEN [@ EXCEPT !.pc = "read", !.copy.status = conv[c].status]
                                     ELSE Idle(c)]
    /\ UNCHANGED <<conv, unseen, tab, desk, notices, posts, words>>

LabelSave(c) ==
    /\ label[c].pc = "read"
    /\ conv'  = [conv EXCEPT ![c].status = IF label[c].copy.status = "open" THEN "escalated" ELSE @]
    /\ label' = [label EXCEPT ![c] = Idle(c)]
    /\ UNCHANGED <<unseen, tab, desk, notices, posts, words>>
-----------------------------------------------------------------------------
(* The operators.                                                            *)

Verbs == {"take", "release", "close", "reply", "toggle"}

\* What each verb uses of the copy when it saves.
Kept(copy, verb) ==
    CASE verb \in {"release", "reply"} -> Count(copy)
      [] verb = "toggle"               -> [NoCopy EXCEPT !.joined = copy.joined]
      [] verb \in {"take", "close"}    -> NoCopy

\* assistant_reply and toggle_owner_joined read the conversation ...
Read(o, c, verb) ==
    /\ desk[o].pc = "idle" /\ conv[c].made
    /\ verb \in {"release", "reply"} => words < MaxWords
    /\ desk' = [desk EXCEPT ![o] = [pc |-> verb, conv |-> c, kind |-> "plain", seen |-> FALSE,
                                    copy |-> Kept(conv[c], verb)]]
    /\ words' = IF verb \in {"release", "reply"} THEN words + 1 ELSE words
    /\ UNCHANGED <<conv, unseen, tab, label, notices, posts>>

\* ... write their message ...
Say(o) ==
    LET c == desk[o].conv IN
    /\ desk[o].pc \in {"reply", "release"}
    /\ unseen' = [unseen EXCEPT ![c] = @ + 1]
    /\ desk'   = [desk EXCEPT ![o].pc = IF @ = "reply" THEN "replied" ELSE "resumed"]
    /\ UNCHANGED <<conv, tab, label, notices, posts, words>>

\* ... and save the columns their verb names.
Written(row, copy, pc) ==
    CASE pc = "take"    -> [row EXCEPT !.joined = TRUE, !.notified = TRUE]
      [] pc = "close"   -> [row EXCEPT !.status = "closed"]
      [] pc = "replied" -> [row EXCEPT !.joined = TRUE, !.notified = TRUE, !.unread = copy.unread + 1]
      [] pc = "resumed" -> [row EXCEPT !.joined = FALSE, !.notified = TRUE, !.status = "open",
                                       !.unread = copy.unread + 1]
      [] pc = "toggle"  -> [row EXCEPT !.joined = ~copy.joined]

Save(o) ==
    LET c == desk[o].conv IN
    /\ desk[o].pc \in {"take", "close", "replied", "resumed", "toggle"}
    /\ conv' = [conv EXCEPT ![c] = Written(conv[c], desk[o].copy, desk[o].pc)]
    /\ desk' = [desk EXCEPT ![o] = Idle(AnyConv)]
    /\ UNCHANGED <<unseen, tab, label, notices, posts, words>>

\* close_conversations: one UPDATE.
CloseMany(cs) ==
    /\ \E c \in cs : Active # {} /\ conv[c].made /\ conv[c].status # "closed"
    /\ conv' = [c \in Convs |-> IF c \in cs THEN [conv[c] EXCEPT !.status = "closed"] ELSE conv[c]]
    /\ UNCHANGED <<unseen, tab, desk, label, notices, posts, words>>

\* The conversation's page is opened ...
OpenForm(o, c) ==
    /\ desk[o].pc = "idle" /\ conv[c].made /\ words < MaxWords
    /\ desk'  = [desk EXCEPT ![o] = [pc |-> "form", conv |-> c, copy |-> conv[c], kind |-> "plain", seen |-> FALSE]]
    /\ words' = words + 1
    /\ UNCHANGED <<conv, unseen, tab, label, notices, posts>>

\* ... and saved: every editable column as the page showed it, then, for a
\* reply, the takeover and the count on top of it.  One transaction.
SaveForm(o, replies) ==
    LET c    == desk[o].conv
        page == desk[o].copy
    IN
    /\ desk[o].pc = "form" /\ (StalePages \/ page = conv[c])
    /\ conv' = [conv EXCEPT ![c] = [page EXCEPT !.joined = @ \/ replies,
                                                !.unread = IF replies THEN @ + 1 ELSE @]]
    /\ unseen' = [unseen EXCEPT ![c] = IF replies THEN @ + 1 ELSE @]
    /\ desk' = [desk EXCEPT ![o] = Idle(AnyConv)]
    /\ UNCHANGED <<tab, label, notices, posts, words>>
-----------------------------------------------------------------------------
CustomerStep(t) ==
    \/ \E c \in Convs : \E seen, over \in BOOLEAN : Poll(t, c, seen, over)
    \/ \E c \in Convs, kind \in Intents : Post(t, c, kind)
    \/ SayNotice(t) \/ SaveNotice(t) \/ SavePost(t) \/ Answer(t) \/ Clear(t) \/ Show(t)

SecondLook(c) ==
    \/ \E fresh \in BOOLEAN : LabelRead(c, fresh)
    \/ LabelSave(c)

StaffStep(o) ==
    \/ \E c \in Convs, verb \in Verbs : Read(o, c, verb)
    \/ Say(o) \/ Save(o)
    \/ \E c \in Convs : OpenForm(o, c)
    \/ \E replies \in BOOLEAN : SaveForm(o, replies)

DeskNext ==
    \/ \E t \in Tabs : CustomerStep(t)
    \/ \E c \in Convs : SecondLook(c)
    \/ \E o \in Staff : StaffStep(o)
    \/ \E cs \in SUBSET Convs : CloseMany(cs)
-----------------------------------------------------------------------------
Copies == [made : BOOLEAN, status : {"open", "escalated", "closed"}, joined : BOOLEAN,
           unread : Nat, notified : BOOLEAN]
Steps == {"idle", "notice", "noted", "said", "answer", "clear", "show", "asked", "read",
          "form", "replied", "resumed"} \union Verbs
Requests == [pc : Steps, conv : Convs, kind : Intents, seen : BOOLEAN, copy : Copies]

\* The conversations and the requests about them are well formed.
DeskTypeOK ==
    /\ conv \in [Convs -> Copies] /\ unseen \in [Convs -> Nat]
    /\ notices \in [Convs -> [Tabs -> Nat]]
    /\ tab \in [Tabs -> Requests] /\ desk \in [Staff -> Requests] /\ label \in [Convs -> Requests]
    /\ posts \in 0..MaxPosts /\ words \in 0..MaxWords

\* A request that will still count the message it has said, or show it.
CountPending(c) ==
    \/ \E o \in Staff : desk[o].conv = c /\ desk[o].pc \in {"replied", "resumed"}
    \/ \E t \in Tabs  : tab[t].conv = c /\ tab[t].pc = "noted"
    \/ \E t \in Tabs  : tab[t].conv = c /\ tab[t].pc = "show"

\* A message the customer has not seen has a badge, however operators' counts,
\* the polls that clear it and posts that wait for the model interleave: "An
\* operator reply that landed between reading the row and writing it back must
\* survive, or the customer never sees a badge for it" (_serialize).
BadgeForUnseen ==
    \A c \in Convs : unseen[c] > 0 => conv[c].unread > 0 \/ CountPending(c)

\* "Once said, it must not be said again -- repeating it every poll would read
\* as the chat breaking down" (AssistantConversation): no tab's polls say twice
\* that nobody is free, whatever is saved over the conversation in between.
NoticeOncePerTab == \A c \in Convs, t \in Tabs : notices[c][t] <= 1

\* Only an operator gives a conversation back to the assistant: no copy that a
\* customer's request or the classifier holds does.
TakenStaysTaken ==
    [][\A c \in Convs : conv[c].joined /\ ~conv'[c].joined =>
          \E o \in Staff : desk[o].conv = c /\ desk[o].pc \in {"resumed", "toggle"} /\ Save(o)]_deskVars
-----------------------------------------------------------------------------
(* What the code does not keep; see README.                                  *)

\* An escalation stands until an operator takes the conversation on: no post
\* that read the row earlier puts it back to "open".
EscalationStands ==
    [][\A c \in Convs : conv[c].status = "escalated" /\ conv'[c].status = "open" =>
          \E o \in Staff : desk[o] # desk'[o]]_deskVars

\* "must not be said again": one notice until an operator comes.
NoticeOnce ==
    \A c \in Convs : Cardinality({t \in Tabs : notices[c][t] > 0}) <= 1

\* Taking over "silences the AI immediately" (assistant_reply).
AssistantIsQuiet ==
    [][\A t \in Tabs : Answer(t) => ~conv[tab[t].conv].joined]_deskVars

DeskSpec == DeskInit /\ [][DeskNext]_deskVars
=============================================================================
