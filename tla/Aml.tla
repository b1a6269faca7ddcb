-------------------------------- MODULE Aml --------------------------------
(***************************************************************************)
(* aml-service and the part of api-core that listens to it: financial      *)
(* events are scored, suspicious ones become alerts, compliance officers   *)
(* act on alerts, and api-core freezes wallets on what it is told.         *)
(* RabbitMQ redelivers what was not acknowledged when a consumer dies.     *)
(***************************************************************************)
EXTENDS Naturals, Sequences

CONSTANTS
    Consumers,  \* deliveries worked on at once (prefetch)
    Officers,
    NoEvent,
    Events,     \* financial events published for aml-service
    WalletsOf,  \* transaction -> the wallets its events name
    Settings    \* the environments to consider, see Setting

FaultKinds ==
    { "errors",    \* a call to the database or the broker may fail
      "dies",      \* a service stops between two awaits; its deliveries come back
      "overlap" }  \* officers act on one alert at the same time

\* What the screening of a name answers.
Hits == {"none", "fuzzy", "exact"}

\* high: at least 500 000; risky: a cash-out.  An event of a later status of tx is
\* another event.
Event ==
    [tx : DOMAIN WalletsOf, status : STRING, sender : Hits, recipient : Hits,
     high : BOOLEAN, risky : BOOLEAN]

\* An environment: faults, the events that happen, how often officers act.
Setting == [faults : SUBSET FaultKinds, events : SUBSET Events, acts : Nat]

AmlAssumption ==
    Events \subseteq Event /\ NoEvent \notin Events /\ Settings \subseteq Setting

VARIABLES
    setting,     \* the environment of this behaviour; never changes
    arrived,     \* events published so far
    queue,       \* q.aml.risk: events not delivered, or to be delivered again
    task,        \* consumer -> the event it works on, and the next await
    alerts,      \* AmlAlert rows, in order of creation
    deadLetters, \* events sent to dead.letters
    toCore,      \* q.api-core.aml: alert events not yet handled
    handled,     \* history: alert events api-core has acknowledged
    frozen,      \* wallets whose status is FROZEN
    review,      \* officer -> the alert at hand, the action and the next await
    acts,        \* actions taken so far
    told         \* history: transaction -> the resolution of its alert published last

consuming == <<arrived, queue, task>>
reviewing == <<review, acts, told>>
core == <<toCore, handled, frozen>>
vars == <<setting, consuming, alerts, deadLetters, core, reviewing>>

NoTask == [event |-> NoEvent, next |-> "idle"]
NoReview == [alert |-> 0, action |-> "none", next |-> "idle"]
Fault(kind) == kind \in setting.faults

Idle ==
    /\ arrived = {} /\ queue = {} /\ task = [c \in Consumers |-> NoTask]
    /\ alerts = << >> /\ deadLetters = {}
    /\ toCore = {} /\ handled = {} /\ frozen = {}
    /\ review = [o \in Officers |-> NoReview] /\ acts = 0
    /\ told = [tx \in DOMAIN WalletsOf |-> "none"]

Init == setting \in Settings /\ Idle

(***************************************************************************)
(* Scoring.  The frequency rule never applies: todayTransactionCount is 0. *)
(***************************************************************************)
\* worstHit is the first of the two that is one, whatever the other is.
WorstHit(e) == IF e.sender # "none" THEN e.sender ELSE e.recipient

PointsOf == [none |-> 0, fuzzy |-> 60, exact |-> 100]

Score(e) ==
    LET sum == PointsOf[WorstHit(e)] + (IF e.high THEN 20 ELSE 0) + (IF e.risky THEN 10 ELSE 0)
    IN  IF sum > 100 THEN 100 ELSE sum

NeedsAlert(e) == Score(e) > 70 \/ WorstHit(e) = "exact"
NeedsFreeze(e) == WorstHit(e) = "exact" \/ Score(e) >= 85
Severity(e) ==
    IF WorstHit(e) = "exact" THEN "CRITICAL" ELSE IF Score(e) >= 85 THEN "HIGH" ELSE "MEDIUM"

(***************************************************************************)
(* The consumer of financial events.                                       *)
(***************************************************************************)
Arrive(e) ==
    /\ e \in setting.events \ arrived
    /\ arrived' = arrived \cup {e}
    /\ queue' = queue \cup {e}
    /\ UNCHANGED <<setting, task, alerts, deadLetters, core, reviewing>>

Goto(c, next) == task' = [task EXCEPT ![c].next = next]

\* Done with the event: it is acknowledged.
Acknowledge(c) == task' = [task EXCEPT ![c] = NoTask]

Deliver(c, e) ==
    /\ task[c] = NoTask /\ e \in queue
    /\ queue' = queue \ {e}
    /\ IF NeedsAlert(e) THEN task' = [task EXCEPT ![c] = [event |-> e, next |-> "insert"]]
       ELSE UNCHANGED task
    /\ UNCHANGED <<setting, arrived, alerts, deadLetters, core, reviewing>>

HasAlert(tx) == \E a \in DOMAIN alerts : alerts[a].tx = tx

\* Mutant of Bury: the event is dropped.
Drop(c) == Acknowledge(c) /\ UNCHANGED deadLetters

\* Any exception is taken for an invalid payload: dead letters, and the event is
\* acknowledged.  A second alert of a transaction is such an exception.
Bury(c) ==
    /\ deadLetters' = deadLetters \cup {task[c].event}
    /\ Acknowledge(c)

InsertAlert(c) ==
    LET e == task[c].event
    IN  /\ task[c].next = "insert"
        /\ \/ /\ HasAlert(e.tx) \/ Fault("errors")
              /\ Bury(c) /\ UNCHANGED alerts
           \/ /\ ~HasAlert(e.tx)
              /\ alerts' = Append(alerts, [tx |-> e.tx, severity |-> Severity(e), status |-> "OPEN"])
              /\ Goto(c, "publish") /\ UNCHANGED deadLetters
        /\ UNCHANGED <<setting, arrived, queue, core, reviewing>>

\* A message for api-core; nobody waits for the broker's word.
Publish(m) == toCore' = toCore \cup {m}

\* The payload names walletIds and freeze.
PublishCreated(c) ==
    LET e == task[c].event
    IN  /\ task[c].next = "publish"
        /\ \/ /\ Publish([kind |-> "alert.created", tx |-> e.tx,
                           walletIds |-> WalletsOf[e.tx], freeze |-> NeedsFreeze(e)])
              /\ Acknowledge(c) /\ UNCHANGED deadLetters
           \/ Fault("errors") /\ Bury(c) /\ UNCHANGED toCore
        /\ UNCHANGED <<setting, arrived, queue, alerts, handled, frozen, reviewing>>

\* aml-service stops: what it had not acknowledged is delivered again.
Die ==
    LET open == {task[c].event : c \in Consumers} \ {NoEvent}
    IN  /\ Fault("dies")
        /\ open # {} \/ \E o \in Officers : review[o] # NoReview
        /\ queue' = queue \cup open
        /\ task' = [c \in Consumers |-> NoTask]
        /\ review' = [o \in Officers |-> NoReview]
        /\ UNCHANGED <<setting, arrived, alerts, deadLetters, core, acts, told>>

(***************************************************************************)
(* Officers: read the alert, whatever its status; then one transaction     *)
(* inserts the action and updates the status; then the resolution is told. *)
(***************************************************************************)
StatusAfter == [REVIEW |-> "REVIEWED", CONFIRM |-> "CONFIRMED", FALSE_POSITIVE |-> "FALSE_POSITIVE"]

\* What the route lets in; anything else, or no comment, is a 400.
Actions == DOMAIN StatusAfter

ReadAlert(o, a, action) ==
    /\ review[o] = NoReview /\ acts < setting.acts
    /\ Fault("overlap") \/ \A p \in Officers : review[p] = NoReview
    /\ acts' = acts + 1
    /\ review' = [review EXCEPT ![o] = [alert |-> a, action |-> action, next |-> "decide"]]
    /\ UNCHANGED <<setting, consuming, alerts, deadLetters, core, told>>

\* Mutant of IsTold: only what is confirmed is published.
IsToldIfConfirmed(action) == action = "CONFIRM"
IsTold(action) == action \in {"CONFIRM", "FALSE_POSITIVE"}

Decide(o) ==
    LET r == review[o]
    IN  /\ r.next = "decide"
        /\ alerts' = [alerts EXCEPT ![r.alert].status = StatusAfter[r.action]]
        /\ review' = [review EXCEPT ![o] = IF IsTold(r.action) THEN [r EXCEPT !.next = "tell"]
                                           ELSE NoReview]
        /\ UNCHANGED <<setting, consuming, deadLetters, core, acts, told>>

Tell(o) ==
    LET r == review[o]
    IN  /\ r.next = "tell"
        /\ \/ /\ told' = [told EXCEPT ![alerts[r.alert].tx] = StatusAfter[r.action]]
              /\ Publish([kind |-> "alert.resolved", tx |-> alerts[r.alert].tx,
                           resolution |-> r.action])
           \/ Fault("errors") /\ UNCHANGED <<told, toCore>>
        /\ review' = [review EXCEPT ![o] = NoReview]
        /\ UNCHANGED <<setting, consuming, alerts, deadLetters, handled, frozen, acts>>

(***************************************************************************)
(* api-core: handleAmlAlert takes every alert.# event, wants a walletId,   *)
(* and acknowledges whatever comes of it.                                  *)
(***************************************************************************)
HandleAmlAlert(m) ==
    /\ m \in toCore
    /\ toCore' = toCore \ {m}
    /\ handled' = handled \cup {m}
    /\ frozen' = IF "walletId" \in DOMAIN m THEN frozen \cup {m.walletId} ELSE frozen
    /\ UNCHANGED <<setting, consuming, alerts, deadLetters, reviewing>>

Quiet ==
    /\ arrived = setting.events /\ queue = {} /\ toCore = {}
    /\ \A c \in Consumers : task[c] = NoTask
    /\ \A o \in Officers : review[o] = NoReview
    /\ alerts = << >> \/ acts = setting.acts
    /\ UNCHANGED vars

Next ==
    \/ \E e \in Events : Arrive(e) \/ \E c \in Consumers : Deliver(c, e)
    \/ \E c \in Consumers : InsertAlert(c) \/ PublishCreated(c)
    \/ \E o \in Officers :
         \/ \E a \in DOMAIN alerts, action \in Actions : ReadAlert(o, a, action)
         \/ Decide(o) \/ Tell(o)
    \/ \E m \in toCore : HandleAmlAlert(m)
    \/ Die
    \/ Quiet

Spec == Init /\ [][Next]_vars

(***************************************************************************)
(* Properties.                                                             *)
(***************************************************************************)
\* The shape of rows and of what consumers and officers hold.
TypeOK ==
    /\ queue \subseteq Events /\ arrived \subseteq Events /\ deadLetters \subseteq Events
    /\ task \in [Consumers -> [event : Events \cup {NoEvent}, next : {"idle", "insert", "publish"}]]
    /\ alerts \in Seq([tx : DOMAIN WalletsOf, severity : {"MEDIUM", "HIGH", "CRITICAL"},
                       status : {"OPEN", "REVIEWED", "CONFIRMED", "FALSE_POSITIVE"}])
    /\ \A o \in Officers : review[o].alert \in 0..Len(alerts)

\* A suspicion is not lost: until api-core's queue has got the alert of its
\* transaction, a suspicious event is queued, worked on or in the dead letters,
\* whatever fails and whenever aml-service stops.  (After a stop between the INSERT
\* and the publish it ends there: the redelivered event cannot be inserted again.)
SuspicionIsKept ==
    \A e \in arrived : NeedsAlert(e) =>
      \/ e \in queue \cup deadLetters \/ \E c \in Consumers : task[c].event = e
      \/ \E m \in toCore \cup handled : m.kind = "alert.created" /\ m.tx = e.tx

\* What was published last about an alert is what its row says, as long as officers
\* act one at a time and aml-service does not stop between the two.
ToldAsRecorded ==
    setting.faults = {} =>
      \A a \in DOMAIN alerts : alerts[a].status \in {"CONFIRMED", "FALSE_POSITIVE"} =>
        \/ told[alerts[a].tx] = alerts[a].status
        \/ \E o \in Officers : review[o].next = "tell" /\ review[o].alert = a

\* What happened to alerts is neither lost nor told otherwise than it was.
AlertsStand == SuspicionIsKept /\ ToldAsRecorded

\* An alert that asks for it freezes the wallets of its transaction.
FreezeIsHeeded ==
    \A m \in handled : m.kind = "alert.created" /\ m.freeze => m.walletIds \subseteq frozen
=============================================================================
