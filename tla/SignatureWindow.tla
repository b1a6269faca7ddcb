--------------------------- MODULE SignatureWindow ---------------------------
(***************************************************************************)
(* Signatures of the aggregator's webhooks: an event is signed once, with  *)
(* the second of its dispatch and the secret of that moment, and every try *)
(* sends the same signature.  Whoever verifies it with a window of five    *)
(* minutes must still take the last try.                                   *)
(***************************************************************************)
EXTENDS Integers, Sequences

CONSTANTS
    TryTimes,   \* seconds a try may take: the look-up of the host and the POST
    Downtimes,  \* seconds a stop may last
    Settings    \* the environments to consider, see Setting

FaultKinds == { "rotates", \* the merchant changes his secret
                "stops" }  \* the process ends and starts again

\* changes: bound on rotations and stops; rows: bound on the rows.
Setting == [faults : SUBSET FaultKinds, changes : Nat, rows : Nat]

\* A POST is given up after 8 s.  The look-up has no limit but the resolver's, 40 s as
\* it comes.  A try of these 48 s is far from 66 s, the most with which four tries and
\* the three delays between them fit into the window.
WindowAssumption ==
    /\ TryTimes \subseteq 0..66 /\ Downtimes \subseteq Nat /\ Settings \subseteq Setting

VARIABLES
    setting,   \* the environment of this behaviour; never changes
    now,       \* seconds since the first event
    secret,    \* the merchant's wsec, numbered
    rows,      \* rows of webhook_attempts: signature, tries, when the next one is due
    changes,   \* rotations and stops so far
    answers    \* history: what the verifiers said to each POST

vars == <<setting, now, secret, rows, changes, answers>>

Never == -1   \* no try is due

Idle == now = 0 /\ secret = 1 /\ rows = << >> /\ changes = 0 /\ answers = {}

Init == setting \in Settings /\ Idle

BACKOFF == <<1, 5, 30, 300>>
MAX_ATTEMPTS == Len(BACKOFF)

\* t=<unix>,v1=<hmac of t and the body>: what was signed, when, with which secret.
signPayload(body) == [t |-> now, body |-> body, under |-> secret]

\* A row whose first try is due at once.
NewRow(body) == [signature |-> signPayload(body), attempts |-> 0, due |-> now, first |-> changes]

Waiting == {x \in DOMAIN rows : rows[x].due # Never}

\* dispatchEvent, and the test event of a ping.  Rows do not disturb each other: here
\* they come one after the other.
Dispatch ==
    /\ Len(rows) < setting.rows /\ Waiting = {}
    /\ rows' = Append(rows, NewRow(Len(rows) + 1))
    /\ UNCHANGED <<setting, now, secret, changes, answers>>

\* The body of the last row is signed anew.
replayLastEvent ==
    /\ rows # << >> /\ Len(rows) < setting.rows /\ Waiting = {}
    /\ rows' = Append(rows, NewRow(rows[Len(rows)].signature.body))
    /\ UNCHANGED <<setting, now, secret, changes, answers>>

(***************************************************************************)
(* Who verifies: a merchant with the SDK, and the two other services,      *)
(* whose own copies of the format these are.                               *)
(***************************************************************************)
Distance(a, b) == IF a > b THEN a - b ELSE b - a

RightSecret(signature) == signature.under = secret

verifySignature(signature, clock, toleranceSeconds) ==
    Distance(clock, signature.t) <= toleranceSeconds /\ RightSecret(signature)

\* developer-gateway's: its window is fixed.
verifyGateway(signature, clock) == verifySignature(signature, clock, 300)

\* business-service's: it has no window.
verifyBusiness(signature) == RightSecret(signature)

(***************************************************************************)
(* The tries.                                                              *)
(***************************************************************************)
\* Mutant of IsLast: as many tries as there are delays, and one more.
IsLastOneMore(n) == n > MAX_ATTEMPTS

\* The last delay is never waited for.
IsLast(n) == n >= MAX_ATTEMPTS

\* The endpoint reads the signature at some moment of the try, and takes the event if
\* it verifies and it is able to.
Deliver(x) ==
    LET r == rows[x]
        n == r.attempts + 1
    IN  /\ x \in Waiting
        /\ \E spent \in TryTimes, able \in BOOLEAN :
             LET clock == (IF r.due > now THEN r.due ELSE now) + spent
                 verified == /\ verifySignature(r.signature, clock, 300)
                             /\ verifyGateway(r.signature, clock) /\ verifyBusiness(r.signature)
             IN  /\ now' = clock
                 /\ answers' = answers \cup
                        {[verified |-> verified, since |-> changes - r.first]}
                 /\ rows' = [rows EXCEPT ![x].attempts = n,
                        ![x].due = IF (verified /\ able) \/ IsLast(n) THEN Never
                                   ELSE clock + BACKOFF[n]]
        /\ UNCHANGED <<setting, secret, changes>>

Rotate ==
    /\ "rotates" \in setting.faults /\ changes < setting.changes
    /\ secret' = secret + 1 /\ changes' = changes + 1
    /\ UNCHANGED <<setting, now, rows, answers>>

\* After a start, resumePendingRetries takes up the rows whose time has come, and only
\* those; each with the signature it has.
StopAndStart ==
    /\ "stops" \in setting.faults /\ changes < setting.changes
    /\ changes' = changes + 1
    /\ \E d \in Downtimes :
         /\ now' = now + d
         /\ rows' = [x \in DOMAIN rows |->
                IF rows[x].attempts > 0 /\ rows[x].due <= now + d THEN rows[x]
                ELSE [rows[x] EXCEPT !.due = Never]]
    /\ UNCHANGED <<setting, secret, answers>>

Rest == Waiting = {} /\ UNCHANGED vars

Next ==
    \/ Dispatch \/ replayLastEvent \/ \E x \in DOMAIN rows : Deliver(x)
    \/ Rotate \/ StopAndStart \/ Rest

Spec == Init /\ [][Next]_vars

(***************************************************************************)
(* Properties.                                                             *)
(***************************************************************************)
\* The shape of rows.
TypeOK ==
    /\ \A x \in DOMAIN rows : rows[x].attempts \in Nat /\ rows[x].due \in Nat \cup {Never}
    /\ secret \in 1..(changes + 1)

\* No try comes too late for its signature: while the merchant keeps his secret and the
\* process lives, every POST verifies, also the last, whatever time each try took.
\* After a rotation, or a stop of more than five minutes, what was signed before is
\* sent again and refused.
LastTryVerifies == \A a \in answers : a.since = 0 => a.verified
=============================================================================
