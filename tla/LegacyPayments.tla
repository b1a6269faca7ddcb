--------------------------- MODULE LegacyPayments ---------------------------
(***************************************************************************)
(* The legacy aggregator's payments: creation under an idempotency key,    *)
(* the hosted checkout page with its PIN, the merchant's API and the       *)
(* sandbox simulator, and the state machine they share.  The server is one *)
(* process on node:sqlite, whose calls are synchronous: a handler runs to  *)
(* its end, the confirmation of a PIN is a timer 1.5 s later, and an error *)
(* that a timer throws ends the process, which the container restarts.     *)
(***************************************************************************)
EXTENDS Naturals, Sequences, SequencesExt

CONSTANTS
    Rows,            \* at most so many payments, numbered as they are created
    Keys,            \* idempotency keys of one merchant
    NoKey,           \* a creation without a key
    Customers,       \* open checkout pages
    MaxPinFailures,  \* config.checkoutMaxPinFailures
    MaxTimers,       \* bound on confirmations on their way
    Settings         \* the environments to consider, see Setting

FaultKinds ==
    { "dies",       \* the process is stopped, between two statements too
      "lost",       \* an answer to the checkout page is lost
      "merchant" }  \* the merchant cancels, approves, fails and expires

\* An environment: what happens in it, the payments that are asked for with their
\* key and amount, and how many of the pages are open at once.
Setting == [faults : SUBSET FaultKinds, orders : SUBSET ((Keys \cup {NoKey}) \X Nat),
            pages : SUBSET Customers]

Payments == 1..Rows
NoPayment == 0

LegacyPaymentsAssumption ==
    /\ Rows \in Nat /\ NoKey \notin Keys
    /\ MaxPinFailures \in Nat \ {0} /\ MaxTimers \in Nat
    /\ Settings \subseteq Setting

VARIABLES
    setting,   \* the environment of this behaviour; never changes
    payment,   \* id -> row of payments
    events,    \* id -> its timeline, the rows of events
    failures,  \* checkout_throttle: id -> failures
    blocked,   \* payments whose checkout is blocked
    timers,    \* confirmations to be carried out, in the order of their timers
    page       \* customer -> the checkout page

db == <<payment, events, failures, blocked>>
vars == <<setting, db, timers, page>>

NoRow == [status |-> "none", key |-> NoKey, amount |-> 0]
Closed == [pay |-> NoPayment, at |-> "closed"]

Fault(kind) == kind \in setting.faults

Idle ==
    /\ payment = [p \in Payments |-> NoRow]
    /\ events = [p \in Payments |-> << >>]
    /\ failures = [p \in Payments |-> 0] /\ blocked = {}
    /\ timers = << >>
    /\ page = [c \in Customers |-> Closed]

Init == setting \in Settings /\ Idle

(***************************************************************************)
(* The state machine.  A transition updates the row and then inserts the   *)
(* event; nothing holds the two together when the process is stopped.      *)
(***************************************************************************)
Terminal == {"succeeded", "failed", "cancelled", "expired"}

TRANSITIONS ==
    [ none |-> {}, pending |-> {"processing"} \cup Terminal,
      processing |-> Terminal \ {"cancelled"},
      succeeded |-> {}, failed |-> {}, cancelled |-> {}, expired |-> {} ]

CanTransition(from, to) == to \in TRANSITIONS[from]

\* Mutant of Make: the approval of a pending payment emits the first event only.
MakeFirst(p, path, queue, pages) ==
    /\ payment' = [payment EXCEPT ![p].status = Last(path)]
    /\ events' = [events EXCEPT ![p] = Append(@, Head(path))]
    /\ timers' = queue /\ page' = pages

\* Make the transitions in `path' for p; the queue of timers becomes `queue' and the
\* pages `pages'.  A stop in the midst keeps what is written and loses the rest.
Make(p, path, queue, pages) ==
    \/ /\ payment' = [payment EXCEPT ![p].status = Last(path)]
       /\ events' = [events EXCEPT ![p] = @ \o path]
       /\ timers' = queue /\ page' = pages
    \/ /\ Fault("dies")
       /\ \E k \in DOMAIN path :
            /\ payment' = [payment EXCEPT ![p].status = path[k]]
            /\ events' = [events EXCEPT ![p] = @ \o SubSeq(path, 1, k - 1)]
       /\ timers' = << >> /\ UNCHANGED page

(***************************************************************************)
(* createPayment: a key that was used before answers with its payment.     *)
(***************************************************************************)
IsDuplicate(key, amount) == key # NoKey /\ \E p \in Payments : payment[p].key = key

Create(p, key, amount) ==
    /\ <<key, amount>> \in setting.orders
    /\ payment[p] = NoRow /\ \A q \in 1..(p - 1) : payment[q] # NoRow
    /\ ~IsDuplicate(key, amount)
    /\ payment' = [payment EXCEPT ![p] = [status |-> "pending", key |-> key, amount |-> amount]]
    /\ \/ events' = [events EXCEPT ![p] = <<"created">>] /\ UNCHANGED timers
       \/ Fault("dies") /\ timers' = << >> /\ UNCHANGED events
    /\ UNCHANGED <<setting, failures, blocked, page>>

(***************************************************************************)
(* The checkout page and its three routes.                                 *)
(***************************************************************************)
At(c, label) == [page EXCEPT ![c].at = label]

\* The page asks for a phone number, or shows the result of a payment that ended.
Open(c, p) ==
    /\ c \in setting.pages /\ page[c] = Closed /\ payment[p] # NoRow
    /\ page' = [page EXCEPT ![c] =
         [pay |-> p, at |-> IF payment[p].status \in Terminal THEN "result" ELSE "phone"]]
    /\ UNCHANGED <<setting, db, timers>>

\* The customer's answer: it came, or it was lost and the page stays where it is.
Answered(c, label) == {At(c, label)} \cup IF Fault("lost") THEN {page} ELSE {}

\* A refusal, blocked or ended, leaves everything as it is.
Initiate(c) ==
    LET p == page[c].pay
    IN  /\ page[c].at = "phone"
        /\ p \notin blocked /\ payment[p].status \notin Terminal
        /\ \E pages \in Answered(c, "pin") :
             IF payment[p].status = "pending"
               THEN Make(p, <<"processing">>, timers, pages)
               ELSE page' = pages /\ UNCHANGED <<payment, events, timers>>
        /\ UNCHANGED <<setting, failures, blocked>>

Confirm(c, right) ==
    LET p == page[c].pay
    IN  /\ page[c].at = "pin"
        /\ p \notin blocked /\ payment[p].status = "processing"
        /\ Len(timers) < MaxTimers
        /\ timers' = Append(timers, [pay |-> p, right |-> right])
        /\ page' \in Answered(c, "polling")
        /\ UNCHANGED <<setting, db>>

\* registerPinFailure and clearCheckoutThrottle; a block in force is left alone.
CountPin(p, right) ==
    IF right
      THEN failures' = [failures EXCEPT ![p] = 0] /\ blocked' = blocked \ {p}
      ELSE IF p \in blocked
        THEN UNCHANGED <<failures, blocked>>
        ELSE /\ failures' = [failures EXCEPT ![p] = @ + 1]
             /\ blocked' = IF failures[p] + 1 >= MaxPinFailures THEN blocked \cup {p} ELSE blocked

\* Mutant of OutcomeOf: a wrong PIN is counted and may be tried again.
OutcomeOfTolerant(right) == IF right THEN "succeeded" ELSE "processing"
OutcomeOf(right) == IF right THEN "succeeded" ELSE "failed"

\* The timer counts the PIN and makes the transition; one that is not allowed
\* throws, nothing catches it, and the process is gone with its other timers.
Fire ==
    LET p == Head(timers).pay
        right == Head(timers).right
    IN  /\ timers # << >>
        /\ CountPin(p, right)
        /\ IF CanTransition(payment[p].status, OutcomeOf(right))
             THEN Make(p, <<OutcomeOf(right)>>, Tail(timers), page)
             ELSE timers' = << >> /\ UNCHANGED <<payment, events, page>>
        /\ UNCHANGED setting

\* GET /checkout/:token/status.
Told(p) == payment[p].status

\* A final status reloads the page; after 30 polls, 45 s, it asks no more.
Poll(c) ==
    LET p == page[c].pay
    IN  /\ page[c].at = "polling"
        /\ \/ Told(p) \in Terminal /\ page' = At(c, "result")
           \/ /\ Told(p) \notin Terminal
              /\ \A k \in DOMAIN timers : timers[k].pay # p
              /\ page' = At(c, "silent")
        /\ UNCHANGED <<setting, db, timers>>

BlockEnds(p) ==
    /\ p \in blocked
    /\ blocked' = blocked \ {p}
    /\ UNCHANGED <<setting, payment, events, failures, timers, page>>

(***************************************************************************)
(* The merchant's API, the same for the dashboard, and the simulator.      *)
(***************************************************************************)
Ask(p, path) ==
    /\ Fault("merchant") /\ CanTransition(payment[p].status, Head(path))
    /\ Make(p, path, timers, page)
    /\ UNCHANGED <<setting, failures, blocked>>

Cancel(p) == Ask(p, <<"cancelled">>)
Approve(p) ==
    Ask(p, IF payment[p].status = "pending" THEN <<"processing", "succeeded">> ELSE <<"succeeded">>)
Fail(p) == Ask(p, <<"failed">>)
Expire(p) == Ask(p, <<"expired">>)

Die ==
    /\ Fault("dies") /\ timers # << >>
    /\ timers' = << >>
    /\ UNCHANGED <<setting, db, page>>

Quiet ==
    /\ timers = << >> /\ \A c \in setting.pages : page[c].at \notin {"closed", "polling"}
    /\ UNCHANGED vars

Next ==
    \/ \E p \in Payments :
         \/ \E o \in setting.orders : Create(p, o[1], o[2])
         \/ \E c \in Customers : Open(c, p)
         \/ Cancel(p) \/ Approve(p) \/ Fail(p) \/ Expire(p) \/ BlockEnds(p)
    \/ \E c \in Customers :
         Initiate(c) \/ Poll(c) \/ \E right \in BOOLEAN : Confirm(c, right)
    \/ Fire \/ Die \/ Quiet

Spec == Init /\ [][Next]_vars

\* Timers fire and an open page polls; nobody need open, pay or answer.
Fairness == WF_vars(Fire) /\ \A c \in Customers : WF_vars(Poll(c))

FairSpec == Spec /\ Fairness

(***************************************************************************)
(* Properties.                                                             *)
(***************************************************************************)
\* The shape of rows, timers and pages.
TypeOK ==
    /\ payment \in [Payments -> [status : DOMAIN TRANSITIONS, key : Keys \cup {NoKey}, amount : Nat]]
    /\ timers \in Seq([pay : Payments, right : BOOLEAN])
    /\ page \in [Customers -> [pay : Payments \cup {NoPayment},
                               at : {"closed", "phone", "pin", "polling", "result", "silent"}]]
    /\ failures \in [Payments -> Nat] /\ blocked \subseteq Payments

\* A payment ends once: however the checkout's timers, its pages and the merchant
\* interleave, and across stops, its timeline holds one final event at most, and it
\* ends in the status of the row, unless the process was stopped between the two; a
\* timer that throws does so before it writes.
TimelineTells ==
    \A p \in Payments :
      /\ \A j, k \in DOMAIN events[p] : {events[p][j], events[p][k]} \subseteq Terminal => j = k
      /\ payment[p] # NoRow /\ ~Fault("dies") =>
           Last(events[p]) = IF payment[p].status = "pending" THEN "created" ELSE payment[p].status

OnePageEach ==
    \A c, d \in Customers : page[c].pay = page[d].pay /\ page[c] # Closed => c = d

\* A customer whose confirmation was accepted learns how the payment ended, while
\* there is one page to a payment, the merchant does not intervene and the process
\* lives.  With a second page the second timer ends the process, and the
\* confirmations of other payments with it.
ConfirmedEnds ==
    ((\E c \in Customers : page[c].at = "polling") /\ setting.faults = {})
      ~> (~OnePageEach \/ \A c \in Customers : page[c].at \notin {"polling", "silent"})
=============================================================================
