---------------------------- MODULE Notifications ----------------------------
(***************************************************************************)
(* notification-service: the consumer of notification.events inserts a row *)
(* per message and dispatches it at once; a cron job dispatches PENDING    *)
(* rows whose nextRetryAt has come; after the last attempt a row is FAILED *)
(* and its message goes to the dead letters.  Consumer deliveries, test    *)
(* requests and cron runs are workers that interleave at every await.      *)
(* Every value of NotificationChannel has an adapter and both inputs admit *)
(* no other, so that the branch for an unknown channel is not reached.     *)
(***************************************************************************)
EXTENDS Naturals, Sequences, FiniteSets, SequencesExt

CONSTANTS
    Workers,       \* deliveries and cron runs in progress at once
    Rows,          \* at most so many rows
    Messages,      \* what other services publish, and the requests for a test
    Types,         \* NotificationType
    MaxAttempts,   \* MAX_ATTEMPTS
    Settings       \* the environments to consider, see Setting

Ids == 1..Rows

FaultKinds ==
    { "fails",    \* the provider may refuse
      "slow",     \* the provider may deliver and its answer be lost
      "overlap",  \* a cron run starts before the last one ends
      "errors",   \* a call to the database or the broker may fail
      "dies" }    \* the service stops; unacknowledged messages come back

\* has: the fields of the message that its schema requires, and channel.
Message == [id : STRING, test : BOOLEAN, type : STRING,
            has : SUBSET {"userId", "type", "channel", "title", "body"}]

\* An environment: the faults that happen in it and what is sent.
Setting == [faults : SUBSET FaultKinds, messages : SUBSET Messages]

NotificationsAssumption ==
    /\ Rows \in Nat /\ MaxAttempts \in Nat \ {0}
    /\ Messages \subseteq Message
    /\ Settings \subseteq Setting

VARIABLES
    setting,    \* the environment of this behaviour; never changes
    published,  \* messages published and requests made so far
    queue,      \* q.notification.dispatch
    row,        \* Notification rows, in order of creation
    work,       \* worker -> what it is doing
    sends,      \* row -> times the provider was asked, up to MaxAttempts + 1
    arrived,    \* row -> times it reached its recipient, up to twice
    dead        \* rows whose message is in the dead letters

vars == <<setting, published, queue, row, work, sends, arrived, dead>>

\* A worker has a message, or a batch of rows as the cron run read them; it
\* dispatches the first of the batch.
Resting == [job |-> "none", at |-> "idle", msg |-> {}, batch |-> << >>]
Fault(kind) == kind \in setting.faults

Idle ==
    /\ published = {} /\ queue = {} /\ row = << >> /\ dead = {}
    /\ work = [w \in Workers |-> Resting]
    /\ sends = [i \in Ids |-> 0] /\ arrived = [i \in Ids |-> 0]

Init == setting \in Settings /\ Idle

Goto(w, label) == work' = [work EXCEPT ![w].at = label]

\* The message is acknowledged, or the cron run turns to its next row.
Finish(w) ==
    work' = [work EXCEPT ![w] =
      IF Len(@.batch) > 1 THEN [@ EXCEPT !.at = "send", !.batch = Tail(work[w].batch)]
      ELSE Resting]

(***************************************************************************)
(* The consumer, and the request for a test notification.                  *)
(***************************************************************************)
Publish(m) ==
    /\ m \in setting.messages \ published /\ ~m.test
    /\ published' = published \cup {m} /\ queue' = queue \cup {m}
    /\ UNCHANGED <<setting, row, work, sends, arrived, dead>>

\* NOTIFICATION_EVENT_SCHEMA; channel is optional there and asked for after it.
Valid(m) == {"userId", "type", "title", "body", "channel"} \subseteq m.has /\ m.type \in Types

\* A message that is not valid is logged and acknowledged.
Deliver(w, m) ==
    /\ work[w] = Resting /\ m \in queue
    /\ queue' = queue \ {m}
    /\ work' = IF Valid(m) THEN [work EXCEPT ![w] = [job |-> "message", at |-> "insert",
                                                     msg |-> {m}, batch |-> << >>]]
               ELSE work
    /\ UNCHANGED <<setting, published, row, sends, arrived, dead>>

SendTest(w, m) ==
    /\ work[w] = Resting /\ m \in setting.messages \ published /\ m.test
    /\ published' = published \cup {m}
    /\ work' = [work EXCEPT ![w] = [job |-> "test", at |-> "insert", msg |-> {m}, batch |-> << >>]]
    /\ UNCHANGED <<setting, queue, row, sends, arrived, dead>>

InsertRow(w) ==
    /\ work[w].at = "insert"
    /\ \/ /\ Len(row) < Rows
          /\ row' = Append(row, [status |-> "PENDING", attempts |-> 0, due |-> "never"])
          /\ work' = [work EXCEPT ![w].at = "send", ![w].batch =
                        << [id |-> Len(row) + 1, attempts |-> 0] >>]
       \/ Fault("errors") /\ Finish(w) /\ UNCHANGED row
    /\ UNCHANGED <<setting, published, queue, sends, arrived, dead>>

(***************************************************************************)
(* The cron job.                                                           *)
(***************************************************************************)
IsDueByTime(i) == row[i].due = "now"  \* mutant of IsDue: the status is not asked for
IsDue(i) == row[i].status = "PENDING" /\ row[i].due = "now"

\* The due rows as one query reads them.
Due == {[id |-> i, attempts |-> row[i].attempts] : i \in {n \in DOMAIN row : IsDue(n)}}

\* They come in the order of nextRetryAt, which may be any; each is dispatched later as
\* it was read.
RetryDue(w) ==
    /\ work[w] = Resting
    /\ Fault("overlap") \/ \A v \in Workers : work[v].job # "retry"
    /\ Due # {}
    /\ \E rows \in SetToSeqs(Due) :
         work' = [work EXCEPT ![w] =
                    [job |-> "retry", at |-> "send", msg |-> {}, batch |-> rows]]
    /\ UNCHANGED <<setting, published, queue, row, sends, arrived, dead>>

TimePasses(i) ==
    /\ i \in DOMAIN row /\ row[i].due = "later"
    /\ row' = [row EXCEPT ![i].due = "now"]
    /\ UNCHANGED <<setting, published, queue, work, sends, arrived, dead>>

(***************************************************************************)
(* dispatchNotification.                                                   *)
(***************************************************************************)
Current(w) == Head(work[w].batch)
CountTo(most, n) == IF n < most THEN n + 1 ELSE n

Send(w) ==
    LET i == Current(w).id
        Arrives == arrived' = [arrived EXCEPT ![i] = CountTo(2, @)]
    IN  /\ work[w].at = "send"
        /\ sends' = [sends EXCEPT ![i] = CountTo(MaxAttempts + 1, @)]
        /\ \/ Arrives /\ Goto(w, "sent")
           \/ Fault("slow") /\ Arrives /\ Goto(w, "failed")
           \/ Fault("fails") /\ UNCHANGED arrived /\ Goto(w, "failed")
        /\ UNCHANGED <<setting, published, queue, row, dead>>

\* A failed update inside the try block counts as a failed attempt.
MarkSent(w) ==
    /\ work[w].at = "sent"
    /\ \/ row' = [row EXCEPT ![Current(w).id].status = "SENT"] /\ Finish(w)
       \/ Fault("errors") /\ Goto(w, "failed") /\ UNCHANGED row
    /\ UNCHANGED <<setting, published, queue, sends, arrived, dead>>

\* Mutants of GivesUp and of RetryAt: one attempt too many; nextRetryAt not set.
GivesUpLate(attempts) == attempts > MaxAttempts
GivesUp(attempts) == attempts >= MaxAttempts

RetryNever == "never"
RetryAt == "later"

MarkFailed(w) ==
    LET i == Current(w).id
        attempts == Current(w).attempts + 1
    IN  /\ work[w].at = "failed"
        /\ \/ /\ GivesUp(attempts)
              /\ row' = [row EXCEPT ![i] = [@ EXCEPT !.status = "FAILED", !.attempts = attempts]]
              /\ Goto(w, "bury")
           \/ /\ ~GivesUp(attempts)
              /\ row' = [row EXCEPT ![i] = [@ EXCEPT !.status = "PENDING", !.attempts = attempts,
                                                   !.due = RetryAt]]
              /\ Finish(w)
           \/ Fault("errors") /\ Finish(w) /\ UNCHANGED row
        /\ UNCHANGED <<setting, published, queue, sends, arrived, dead>>

Bury(w) ==
    /\ work[w].at = "bury"
    /\ \/ dead' = dead \cup {Current(w).id}
       \/ Fault("errors") /\ UNCHANGED dead
    /\ Finish(w)
    /\ UNCHANGED <<setting, published, queue, row, sends, arrived>>

\* A request for a test is not repeated by anybody.
Die ==
    /\ Fault("dies") /\ \E w \in Workers : work[w] # Resting
    /\ queue' = queue \cup UNION {work[w].msg : w \in {v \in Workers : work[v].job = "message"}}
    /\ work' = [w \in Workers |-> Resting]
    /\ UNCHANGED <<setting, published, row, sends, arrived, dead>>

Quiet ==
    /\ published = setting.messages /\ queue = {}
    /\ \A w \in Workers : work[w] = Resting \/ (work[w].at = "insert" /\ Len(row) = Rows)
    /\ \A i \in DOMAIN row : row[i].status = "PENDING" => row[i].due = "never"
    /\ UNCHANGED vars

Step(w) ==
    \/ \E m \in Messages : Deliver(w, m)
    \/ InsertRow(w) \/ Send(w) \/ MarkSent(w) \/ MarkFailed(w) \/ Bury(w)

Next ==
    \/ \E m \in Messages : Publish(m) \/ \E w \in Workers : SendTest(w, m)
    \/ \E w \in Workers : Step(w) \/ RetryDue(w)
    \/ \E i \in Ids : TimePasses(i)
    \/ Die
    \/ Quiet

Spec == Init /\ [][Next]_vars

\* The broker delivers, promises settle, the scheduler starts its job every minute
\* and time passes; nothing makes a provider answer well or a message arrive.
Fairness ==
    /\ \A w \in Workers : WF_vars(Step(w)) /\ WF_vars(RetryDue(w))
    /\ \A i \in Ids : WF_vars(TimePasses(i))

FairSpec == Spec /\ Fairness

(***************************************************************************)
(* Properties.                                                             *)
(***************************************************************************)
\* The shape of rows, workers and counts.
TypeOK ==
    /\ row \in Seq([status : {"PENDING", "SENT", "FAILED"}, attempts : 0..MaxAttempts,
                    due : {"never", "later", "now"}])
    /\ \A w \in Workers :
         /\ work[w].at \in {"idle", "insert", "send", "sent", "failed", "bury"}
         /\ \A k \in DOMAIN work[w].batch : work[w].batch[k].id \in DOMAIN row
    /\ dead \subseteq Ids

\* While runs do not overlap, calls succeed and the service lives, a row is tried at
\* most MAX_ATTEMPTS times; with a provider that answers in time nobody is told the
\* same thing twice, in as many retries as it takes.  Runs that overlap each count
\* from the number they read, and a stop forgets an attempt.
TriedEnough ==
    /\ setting.faults \subseteq {"fails", "slow"} => \A i \in Ids : sends[i] <= MaxAttempts
    /\ setting.faults \subseteq {"fails"} => \A i \in Ids : arrived[i] <= 1

AllSettled ==
    \A i \in DOMAIN row : row[i].status = "SENT" \/ (row[i].status = "FAILED" /\ i \in dead)

\* While the service lives and its calls succeed, every row ends sent, or given up
\* and in the dead letters: no failure leaves a row the cron job does not find again.
RowsSettle ==
    (~ AllSettled /\ {"dies", "errors"} \cap setting.faults = {}) ~> AllSettled
=============================================================================
