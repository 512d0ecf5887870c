-------------------------------- MODULE Cards --------------------------------
(***************************************************************************)
(* Cards saved in the app: the two rows that may name a Stripe customer,   *)
(* User.stripe_customer_id and AppInstall.stripe_customer_id, and what the *)
(* customers at Stripe hold.  apps/payments/inapp.py, the card endpoints   *)
(* and device_claim of apps/api/views.py.                                  *)
(*                                                                         *)
(* No request here opens a transaction or locks a row: what was read of a  *)
(* row is acted on after a call to Stripe, and every save stands alone.    *)
(***************************************************************************)
EXTENDS Naturals, FiniteSets

CONSTANTS
    Accounts,       \* people's accounts
    Devices,        \* installations of the app, by support id
    Customers,      \* ids Stripe can hand out
    CardNumbers,    \* cards that people type in
    Calls,          \* requests in flight at once
    LookupMayFail,  \* whether Customer.retrieve may fail for a customer that lives
    Impatient,      \* whether a device changes hands while its claim is under way
    MaxTorn,        \* bound: claims that die between their saves
    Nobody          \* no customer, nobody signed in, a card not saved

ASSUME CardsAssumption ==
    /\ Accounts \cap Devices = {}
    /\ Nobody \notin Accounts \union Devices \union Customers
    /\ LookupMayFail \in BOOLEAN /\ Impatient \in BOOLEAN /\ MaxTorn \in Nat

Owners == Accounts \union Devices

VARIABLES
    holds,      \* stripe_customer_id of every account and of every installation
    belongs,    \* at Stripe: whom each customer was made for or given to
    signed,     \* the account signed in on each device
    sheets,     \* customers for whom a PaymentSheet is open
    cardAt,     \* the customer each card is attached to at Stripe
    req,        \* each request: its next step, caller, device, what it read
    displaced,  \* customers whose id a save wrote over
    torn        \* customers whose claim died between its two saves

cardVars == <<holds, belongs, signed, sheets, cardAt, req, displaced, torn>>

NoCall == [step |-> "idle", who |-> Nobody, dev |-> Nobody, had |-> Nobody, cust |-> Nobody]

CardsInit ==
    /\ holds     = [x \in Owners |-> Nobody]
    /\ belongs   = [c \in Customers |-> Nobody]
    /\ signed    = [d \in Devices |-> Nobody]
    /\ sheets    = {}
    /\ cardAt    = [k \in CardNumbers |-> Nobody]
    /\ req       = [r \in Calls |-> NoCall]
    /\ displaced = {}
    /\ torn      = {}
-----------------------------------------------------------------------------
\* The device is asked first, whoever is signed in.
DeviceFirst(d) == IF holds[d] # Nobody \/ signed[d] = Nobody THEN d ELSE signed[d]

\* An account wins over the device it is used on.
Caller(d) == IF signed[d] = Nobody THEN d ELSE signed[d]

Go(r, step) == req' = [req EXCEPT ![r].step = step]
Done(r)     == req' = [req EXCEPT ![r] = NoCall]

Claiming(d) == \E r \in Calls : req[r].dev = d /\ req[r].step \in {"look", "move", "clear"}

\* Signing in or out on a device; the app claims the device next, or does not.
SignIn(d) ==
    /\ Impatient \/ ~Claiming(d)
    /\ \E u \in Accounts \union {Nobody} :
          u # signed[d] /\ signed' = [signed EXCEPT ![d] = u]
    /\ UNCHANGED <<holds, belongs, sheets, cardAt, req, displaced, torn>>

\* payment_sheet and wallet_topup_sheet load the caller's row, which is a new
\* installation's if need be.
Ask(r, d) ==
    /\ req[r].step = "idle"
    /\ req' = [req EXCEPT ![r] = [step |-> "ensure", who |-> Caller(d), dev |-> d,
                                  had  |-> holds[Caller(d)], cust |-> Nobody]]
    /\ UNCHANGED <<holds, belongs, signed, sheets, cardAt, displaced, torn>>

\* ensure_customer: the customer on the row is still there, and is used.
FindCustomer(r) ==
    /\ req[r].step = "ensure"
    /\ req[r].had # Nobody
    /\ req' = [req EXCEPT ![r].step = "sheet", ![r].cust = req[r].had]
    /\ UNCHANGED <<holds, belongs, signed, sheets, cardAt, displaced, torn>>

\* There was none, or Stripe could not be asked: a new one is made.
NewCustomer(r) ==
    /\ req[r].step = "ensure"
    /\ req[r].had = Nobody \/ LookupMayFail
    /\ \E c \in Customers :
          /\ belongs[c] = Nobody
          /\ belongs' = [belongs EXCEPT ![c] = req[r].who]
          /\ req' = [req EXCEPT ![r].step = "store", ![r].cust = c]
    /\ UNCHANGED <<holds, signed, sheets, cardAt, displaced, torn>>

\* The id a save of c on x's row loses: nothing reads that customer again.
WritesOver(x, c) == IF holds[x] \in {Nobody, c} THEN {} ELSE {holds[x]}

\* customer_for saves the id on the row it belongs to.
StoreCustomer(r) ==
    /\ req[r].step = "store"
    /\ holds' = [holds EXCEPT ![req[r].who] = req[r].cust]
    /\ displaced' = displaced \union WritesOver(req[r].who, req[r].cust)
    /\ Go(r, "sheet")
    /\ UNCHANGED <<belongs, signed, sheets, cardAt, torn>>

\* The intent and the key are for that customer; the sheet opens in the app.
OpenSheet(r) ==
    /\ req[r].step = "sheet"
    /\ sheets' = sheets \union {req[r].cust}
    /\ Done(r)
    /\ UNCHANGED <<holds, belongs, signed, cardAt, displaced, torn>>

\* StripeError: the order or the top-up is FAILED and the coupon released.  A
\* customer that was made and not yet stored stays behind, empty.
SheetFails(r) ==
    /\ req[r].step \in {"ensure", "sheet"}
    /\ Done(r)
    /\ UNCHANGED <<holds, belongs, signed, sheets, cardAt, displaced, torn>>

\* PaymentSheet attaches the card to the customer the intent was made for.
SaveCard(k) ==
    /\ cardAt[k] = Nobody
    /\ \E c \in sheets :
          /\ cardAt' = [cardAt EXCEPT ![k] = c]
          /\ sheets' = sheets \ {c}
    /\ UNCHANGED <<holds, belongs, signed, req, displaced, torn>>

\* The customer leaves the sheet, or pays with a card that is not to be saved.
LeaveSheet ==
    /\ \E c \in sheets : sheets' = sheets \ {c}
    /\ UNCHANGED <<holds, belongs, signed, cardAt, req, displaced, torn>>
-----------------------------------------------------------------------------
\* device_claim: the caller's row was read when the request was authenticated ...
ClaimAsk(r, d) ==
    /\ req[r].step = "idle"
    /\ signed[d] # Nobody
    /\ req' = [req EXCEPT ![r] = [step |-> "look", who |-> signed[d], dev |-> d,
                                  had  |-> holds[signed[d]], cust |-> Nobody]]
    /\ UNCHANGED <<holds, belongs, signed, sheets, cardAt, displaced, torn>>

\* The account is given whatever the device has, its own customer or not.
ClaimLookAnyway(r) ==
    /\ req[r].step = "look"
    /\ IF holds[req[r].dev] # Nobody
       THEN req' = [req EXCEPT ![r].step = "move", ![r].cust = holds[req[r].dev]]
       ELSE Done(r)
    /\ UNCHANGED <<holds, belongs, signed, sheets, cardAt, displaced, torn>>

\* ... the installation's is read later; an account that has a customer keeps it.
ClaimLook(r) ==
    /\ req[r].step = "look"
    /\ IF holds[req[r].dev] # Nobody /\ req[r].had = Nobody
       THEN req' = [req EXCEPT ![r].step = "move", ![r].cust = holds[req[r].dev]]
       ELSE Done(r)
    /\ UNCHANGED <<holds, belongs, signed, sheets, cardAt, displaced, torn>>

\* The account's row is saved; a customer it got since the request read it is
\* written over ...
ClaimMove(r) ==
    /\ req[r].step = "move"
    /\ holds' = [holds EXCEPT ![req[r].who] = req[r].cust]
    /\ displaced' = displaced \union
          (IF req[r].had = holds[req[r].who] THEN {} ELSE WritesOver(req[r].who, req[r].cust))
    /\ belongs' = [belongs EXCEPT ![req[r].cust] = req[r].who]
    /\ Go(r, "clear")
    /\ UNCHANGED <<signed, sheets, cardAt, torn>>

\* The claim ends with the account, and the installation keeps its copy.
ClaimForgets(r) ==
    /\ req[r].step = "clear"
    /\ Done(r)
    /\ UNCHANGED <<holds, belongs, signed, sheets, cardAt, displaced, torn>>

\* ... and then the installation's.
ClaimClear(r) ==
    /\ req[r].step = "clear"
    /\ holds' = [holds EXCEPT ![req[r].dev] = Nobody]
    /\ displaced' = displaced \union WritesOver(req[r].dev, req[r].cust)
    /\ Done(r)
    /\ UNCHANGED <<belongs, signed, sheets, cardAt, torn>>

\* delete_card: the card must hang on the customer that the caller's row names.
ForgetCard(d, k) ==
    /\ cardAt[k] # Nobody
    /\ cardAt[k] = holds[Caller(d)]
    /\ cardAt' = [cardAt EXCEPT ![k] = Nobody]
    /\ UNCHANGED <<holds, belongs, signed, sheets, req, displaced, torn>>

\* The worker is killed; what was saved stays.
RequestDies(r) ==
    /\ req[r].step # "idle"
    /\ Cardinality(torn) < MaxTorn
    /\ torn' = IF req[r].step = "clear" THEN torn \union {req[r].cust} ELSE torn
    /\ Done(r)
    /\ UNCHANGED <<holds, belongs, signed, sheets, cardAt, displaced>>

CardsNext ==
    \/ \E d \in Devices : SignIn(d) \/ \E k \in CardNumbers : ForgetCard(d, k)
    \/ \E r \in Calls :
          \/ \E d \in Devices : Ask(r, d) \/ ClaimAsk(r, d)
          \/ FindCustomer(r) \/ NewCustomer(r) \/ StoreCustomer(r)
          \/ OpenSheet(r) \/ SheetFails(r)
          \/ ClaimLook(r) \/ ClaimMove(r) \/ ClaimClear(r)
          \/ RequestDies(r)
    \/ LeaveSheet
    \/ \E k \in CardNumbers : SaveCard(k)

CardsSpec == CardsInit /\ [][CardsNext]_cardVars
-----------------------------------------------------------------------------
CardsTypes ==
    /\ holds \in [Owners -> Customers \union {Nobody}]
    /\ belongs \in [Customers -> Owners \union {Nobody}]
    /\ signed \in [Devices -> Accounts \union {Nobody}]
    /\ sheets \subseteq Customers
    /\ cardAt \in [CardNumbers -> Customers \union {Nobody}]
    /\ req \in [Calls -> [step : {"idle", "ensure", "store", "sheet", "look", "move", "clear"},
                          who  : Owners \union {Nobody}, dev : Devices \union {Nobody},
                          had  : Customers \union {Nobody}, cust : Customers \union {Nobody}]]
    /\ displaced \subseteq Customers /\ torn \subseteq Customers

\* A claim under way from device d to account u.
Handover(d, u) == \E r \in Calls : req[r].step = "clear" /\ req[r].dev = d /\ req[r].who = u

\* No two rows name the same customer, but for a claim between its two saves, or
\* one that died there: the cards of an account show on no other account, and on
\* no device that the account has claimed.
OneHolder ==
    \A x, y \in Owners :
        x # y /\ holds[x] = holds[y] /\ holds[x] \notin torn \union {Nobody} =>
            \/ x \in Devices /\ y \in Accounts /\ Handover(x, y)
            \/ y \in Devices /\ x \in Accounts /\ Handover(y, x)

\* A saved card is found again by whoever it was saved for, or by the account that
\* has claimed the device -- unless a save wrote over the id of its customer (the
\* row changed after it was read, or Stripe could not be asked).
CardsInReach ==
    \A k \in CardNumbers :
        cardAt[k] \notin displaced \union {Nobody} => holds[belongs[cardAt[k]]] = cardAt[k]

\* The same without the exception (fails: two first sheets at once).
NoCardStranded ==
    \A k \in CardNumbers : cardAt[k] # Nobody => \E x \in Owners : holds[x] = cardAt[k]
=============================================================================
