--------------------------- MODULE LegacyWebhooks ---------------------------
(***************************************************************************)
(* The legacy aggregator's outgoing webhooks: an event is dispatched to    *)
(* every active webhook in turn, each delivery is a row of                 *)
(* webhook_attempts that is tried again on timers, and a restart resumes   *)
(* the rows it finds due.  The process is single-threaded; its deliveries  *)
(* interleave at the HTTP call.  Rows of attempts refer to their webhook,  *)
(* a reference that SQLite enforces; a dispatch that fails ends the        *)
(* process, for nobody handles its promise.                                *)
(***************************************************************************)
EXTENDS Naturals, Sequences, FiniteSets

CONSTANTS
    Hooks,        \* webhooks of one merchant and mode
    Events,       \* events of its payments
    Rows,         \* most rows of webhook_attempts, in any setting
    MaxAttempts,  \* MAX_ATTEMPTS
    Wants,        \* webhook -> the events it subscribes to
    Settings      \* the environments to consider, see Setting

FaultKinds ==
    { "fails",   \* the endpoint may answer with an error or not at all
      "slow",    \* it may take the event and not answer in 8 s
      "edits",   \* the merchant deactivates and deletes webhooks
      "overlap", \* two requests for a new webhook are served at the same time
      "replay",  \* the merchant asks for the last event again, or for a ping
      "dies" }   \* the process is stopped and started again

\* An environment: what happens in it, the events there are, the bound on rows and
\* config.maxWebhooksPerMerchant.
Setting == [faults : SUBSET FaultKinds, events : SUBSET Events, rows : 0..Rows, maxHooks : Nat]

LegacyWebhooksAssumption ==
    /\ Rows \in Nat /\ MaxAttempts \in Nat \ {0}
    /\ Wants \in [Hooks -> SUBSET Events] /\ "ping" \notin Events
    /\ Settings \subseteq Setting

VARIABLES
    setting,  \* the environment of this behaviour; never changes
    up,       \* the process runs
    hook,     \* webhook -> "none", "checking" before it is a row, "active" or "inactive"
    attempt,  \* rows of webhook_attempts, in order of creation
    doing,    \* attempt -> what the process does about it
    listed,   \* event -> the webhooks read when it was dispatched
    rest,     \* event -> those its dispatch has still to serve
    waits,    \* event -> the attempt its dispatch waits for, or 0
    emitted,  \* events dispatched so far
    sends     \* attempt -> times the endpoint was given it, up to MaxAttempts + 1

vars == <<setting, up, hook, attempt, doing, listed, rest, waits, emitted, sends>>

Fault(kind) == kind \in setting.faults
Attempts == 1..Rows

Idle ==
    /\ up = TRUE
    /\ hook = [h \in Hooks |-> "none"]
    /\ attempt = << >>
    /\ doing = [a \in Attempts |-> "nothing"]
    /\ listed = [e \in Events |-> {}] /\ rest = [e \in Events |-> {}]
    /\ waits = [e \in Events |-> 0] /\ emitted = {}
    /\ sends = [a \in Attempts |-> 0]

Init == setting \in Settings /\ Idle

(***************************************************************************)
(* The merchant's routes.                                                  *)
(***************************************************************************)
IsRow(h) == hook[h] \in {"active", "inactive"}

\* The rows are counted before the address of the URL is looked up; INSERT follows
\* whatever was inserted meanwhile.
Register(h) ==
    /\ up /\ hook[h] = "none" /\ emitted = {}
    /\ Fault("overlap") \/ \A g \in Hooks : hook[g] # "checking"
    /\ Cardinality({g \in Hooks : IsRow(g)}) < setting.maxHooks
    /\ hook' = [hook EXCEPT ![h] = "checking"]
    /\ UNCHANGED <<setting, up, attempt, doing, listed, rest, waits, emitted, sends>>

\* The URL is safe and the row inserted, or the request is refused.
Registered(h) ==
    /\ up /\ hook[h] = "checking"
    /\ \E outcome \in {"active", "none"} : hook' = [hook EXCEPT ![h] = outcome]
    /\ UNCHANGED <<setting, up, attempt, doing, listed, rest, waits, emitted, sends>>

Toggle(h) ==
    /\ up /\ Fault("edits") /\ IsRow(h)
    /\ hook' = [hook EXCEPT ![h] = IF @ = "active" THEN "inactive" ELSE "active"]
    /\ UNCHANGED <<setting, up, attempt, doing, listed, rest, waits, emitted, sends>>

\* A webhook that was ever served cannot be deleted: its attempts refer to it.
Delete(h) ==
    /\ up /\ Fault("edits") /\ IsRow(h)
    /\ \A a \in DOMAIN attempt : attempt[a].hook # h
    /\ hook' = [hook EXCEPT ![h] = "none"]
    /\ UNCHANGED <<setting, up, attempt, doing, listed, rest, waits, emitted, sends>>

(***************************************************************************)
(* dispatchEvent.                                                          *)
(***************************************************************************)
NewAttempt(h, e) ==
    /\ Len(attempt) < setting.rows
    /\ attempt' = Append(attempt,
         [hook |-> h, event |-> e, status |-> "failed", n |-> 0, retry |-> "never"])
    /\ doing' = [doing EXCEPT ![Len(attempt) + 1] = "sending"]

\* A dispatch with the webhooks hs before it inserts the row of one of them, and waits
\* until it was tried once.
Take(e, h, hs) ==
    /\ NewAttempt(h, e)
    /\ rest' = [rest EXCEPT ![e] = hs \ {h}]
    /\ waits' = [waits EXCEPT ![e] = Len(attempt) + 1]

\* The webhooks are listed and the row of the first inserted in one go.
Emit(e) ==
    LET active == {h \in Hooks : hook[h] = "active" /\ e \in Wants[h]}
    IN  /\ up /\ e \in setting.events \ emitted
        /\ emitted' = emitted \cup {e}
        /\ listed' = [listed EXCEPT ![e] = active]
        /\ \/ active = {} /\ UNCHANGED <<attempt, doing, rest, waits>>
           \/ \E h \in active : Take(e, h, active)
        /\ UNCHANGED <<setting, up, hook, sends>>

Stop ==
    /\ up' = FALSE
    /\ hook' = [h \in Hooks |-> IF IsRow(h) THEN hook[h] ELSE "none"]
    /\ doing' = [a \in Attempts |-> "nothing"]
    /\ rest' = [e \in Events |-> {}] /\ waits' = [e \in Events |-> 0]

\* The next webhook of a dispatch whose last delivery was tried once.  The row of
\* one that was deleted meanwhile is refused, and with it the process is gone.
DispatchNext(e, h) ==
    /\ up /\ h \in rest[e] /\ waits[e] = 0
    /\ IF ~IsRow(h)
         THEN Stop /\ UNCHANGED attempt
         ELSE Take(e, h, rest[e]) /\ UNCHANGED <<up, hook>>
    /\ UNCHANGED <<setting, listed, emitted, sends>>

\* replayLastEvent and sendTestPing.
Replay(h) ==
    /\ up /\ Fault("replay") /\ IsRow(h)
    /\ \E last \in DOMAIN attempt :
         /\ attempt[last].hook = h /\ \A a \in DOMAIN attempt : attempt[a].hook = h => a <= last
         /\ NewAttempt(h, attempt[last].event)
    /\ UNCHANGED <<setting, up, hook, listed, rest, waits, emitted, sends>>

Ping(h) ==
    /\ up /\ Fault("replay") /\ IsRow(h)
    /\ NewAttempt(h, "ping")
    /\ UNCHANGED <<setting, up, hook, listed, rest, waits, emitted, sends>>

(***************************************************************************)
(* deliverWithRetry: check the URL and post; then record the outcome.      *)
(***************************************************************************)
Post(a) ==
    /\ up /\ doing[a] = "sending"
    /\ \/ /\ sends' = [sends EXCEPT ![a] = IF @ <= MaxAttempts THEN @ + 1 ELSE @]
          /\ doing' = [doing EXCEPT ![a] = "taken"]
       \/ /\ Fault("slow")
          /\ sends' = [sends EXCEPT ![a] = IF @ <= MaxAttempts THEN @ + 1 ELSE @]
          /\ doing' = [doing EXCEPT ![a] = "refused"]
       \/ /\ Fault("fails")
          /\ doing' = [doing EXCEPT ![a] = "refused"] /\ UNCHANGED sends
    /\ UNCHANGED <<setting, up, hook, attempt, listed, rest, waits, emitted>>

\* A dispatch that waited for this delivery goes on with its next webhook.
ReleasedNever(a) == waits  \* mutant: it does not
Released(a) == [e \in Events |-> IF waits[e] = a THEN 0 ELSE waits[e]]

IsLast(n) == n + 1 >= MaxAttempts
NextDoing(n) == IF IsLast(n) THEN "nothing" ELSE "timer"

RecordRefused(a) ==
    LET last == IsLast(attempt[a].n)
    IN  /\ up /\ doing[a] = "refused"
        /\ attempt' = [attempt EXCEPT ![a].n = @ + 1, ![a].retry = IF last THEN @ ELSE "later"]
        /\ doing' = [doing EXCEPT ![a] = NextDoing(attempt[a].n)]
        /\ waits' = Released(a)
        /\ UNCHANGED <<setting, up, hook, listed, rest, emitted, sends>>

\* Mutant of RecordDelivered: an answer other than 200 is taken for a refusal.
DeliveredAsRefused(a) ==
    /\ up /\ doing[a] = "taken"
    /\ attempt' = [attempt EXCEPT ![a].n = @ + 1, ![a].retry = "later"]
    /\ doing' = [doing EXCEPT ![a] = NextDoing(attempt[a].n)]
    /\ waits' = Released(a)
    /\ UNCHANGED <<setting, up, hook, listed, rest, emitted, sends>>

RecordDelivered(a) ==
    /\ up /\ doing[a] = "taken"
    /\ attempt' = [attempt EXCEPT ![a].status = "delivered", ![a].n = @ + 1]
    /\ doing' = [doing EXCEPT ![a] = "nothing"]
    /\ waits' = Released(a)
    /\ UNCHANGED <<setting, up, hook, listed, rest, emitted, sends>>

\* next_retry_at comes, whether the process runs or not; its timer is due with it.
TimePasses(a) ==
    /\ a \in DOMAIN attempt /\ attempt[a].retry = "later"
    /\ attempt' = [attempt EXCEPT ![a].retry = "now"]
    /\ doing' = [doing EXCEPT ![a] = IF @ = "timer" THEN "sending" ELSE @]
    /\ UNCHANGED <<setting, up, hook, listed, rest, waits, emitted, sends>>

(***************************************************************************)
(* Stop and start: resumePendingRetries takes the rows that are due.       *)
(***************************************************************************)
Die ==
    /\ up /\ Fault("dies") /\ Stop
    /\ UNCHANGED <<setting, attempt, listed, emitted, sends>>

Unfinished(a) == attempt[a].status = "failed" /\ attempt[a].n < MaxAttempts

Resumes(a) == Unfinished(a) /\ attempt[a].retry = "now"

Restart ==
    /\ ~up /\ up' = TRUE
    /\ doing' = [a \in Attempts |->
         IF a \in DOMAIN attempt /\ Resumes(a) THEN "sending" ELSE "nothing"]
    /\ UNCHANGED <<setting, hook, attempt, listed, rest, waits, emitted, sends>>

\* Nothing is under way; a dispatch that cannot go on shows in EveryHookServed.
Quiet ==
    /\ up /\ (emitted = setting.events \/ Len(attempt) = setting.rows)
    /\ \A a \in Attempts : doing[a] = "nothing"
    /\ \A a \in DOMAIN attempt : attempt[a].retry # "later"
    /\ UNCHANGED vars

Step(a) == Post(a) \/ RecordDelivered(a) \/ RecordRefused(a) \/ TimePasses(a)

Next ==
    \/ \E h \in Hooks : Register(h) \/ Registered(h) \/ Toggle(h) \/ Delete(h)
                       \/ Replay(h) \/ Ping(h)
    \/ \E e \in Events : Emit(e) \/ \E h \in Hooks : DispatchNext(e, h)
    \/ \E a \in Attempts : Step(a)
    \/ Die \/ Restart \/ Quiet

Spec == Init /\ [][Next]_vars

\* Promises settle, timers fire and the container starts the process again;
\* nothing makes an endpoint take an event.
Fairness ==
    /\ \A a \in Attempts : WF_vars(Step(a))
    /\ \A e \in Events : WF_vars(\E h \in Hooks : DispatchNext(e, h))
    /\ WF_vars(Restart)

FairSpec == Spec /\ Fairness

(***************************************************************************)
(* Properties.                                                             *)
(***************************************************************************)
\* The shape of rows and of what the process does about them.
TypeOK ==
    /\ attempt \in Seq([hook : Hooks, event : Events \cup {"ping"}, status : {"failed", "delivered"},
                        n : 0..MaxAttempts, retry : {"never", "later", "now"}])
    /\ doing \in [Attempts -> {"nothing", "sending", "taken", "refused", "timer"}]
    /\ hook \in [Hooks -> {"none", "checking", "active", "inactive"}]
    /\ \A e \in Events : rest[e] \subseteq listed[e] /\ waits[e] \in 0..Len(attempt)

\* One row is one chain of attempts: nothing resumes a row that still has its timer,
\* so that an endpoint is asked MAX_ATTEMPTS times at most by a process that lives,
\* and one that answers in time is given an event once: retries, dispatches of other
\* events and replays do not repeat a row.  A process that ends may have given what it
\* did not record, and a dispatch that finds its webhook deleted ends it: what is due
\* then, since an earlier failure, is given again.
GivenOnce ==
    \A a \in Attempts :
      /\ {"dies", "edits"} \cap setting.faults = {} => sends[a] <= MaxAttempts
      /\ {"slow", "dies"} \cap setting.faults = {} /\ ~ {"fails", "edits"} \subseteq setting.faults
           => sends[a] <= 1

AllServed ==
    \A e \in Events : \A h \in listed[e] :
      \E a \in DOMAIN attempt : attempt[a].hook = h /\ attempt[a].event = e /\ ~Unfinished(a)

\* Every webhook that is active when an event is dispatched gets a row for it that
\* ends delivered or tried MAX_ATTEMPTS times, also when the ones before it in the
\* list fail, as long as the process is not stopped and no webhook is deleted.
EveryHookServed ==
    (~ AllServed /\ setting.faults \subseteq {"fails", "slow"}) ~> AllServed
=============================================================================
