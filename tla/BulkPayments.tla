---------------------------- MODULE BulkPayments ----------------------------
(***************************************************************************)
(* business-service's bulk payments: a file of payments is uploaded by its *)
(* maker, submitted, approved or rejected by a checker, and executed.  The *)
(* batches live in the memory of the process, and each call is one step.   *)
(***************************************************************************)
EXTENDS Integers, Sequences, FiniteSets

CONSTANTS
    Users,      \* who calls
    Batches,    \* identifiers of batches, each used once
    Files,      \* CSV files: sequences of lines, see Line
    MaxLines,   \* MAX_LINES
    Settings    \* the environments to consider, see Setting

FaultKinds == { "slow", \* a file takes more than five seconds to validate
                "dies" }\* the process restarts, and its memory is empty

\* A line of the file: what is right about its five columns, the amount in tenths.
Line == [to : BOOLEAN, phone : BOOLEAN, number : BOOLEAN, tenths : Int, reference : BOOLEAN,
         more : BOOLEAN]

Setting == [faults : SUBSET FaultKinds, files : SUBSET Files, calls : Nat]

BulkAssumption ==
    /\ Files \subseteq Seq(Line) /\ MaxLines \in Nat
    /\ Settings \subseteq Setting

VARIABLES
    setting,   \* the environment of this behaviour; never changes
    batch,     \* identifier -> BulkPayment, or NoBatch
    deeds,     \* history: identifier -> what was done with it, by whom
    calls      \* calls so far

vars == <<setting, batch, deeds, calls>>

NoBatch == [status |-> "NONE", lines |-> << >>]

Fault(kind) == kind \in setting.faults

Idle ==
    /\ batch = [b \in Batches |-> NoBatch]
    /\ deeds = [b \in Batches |-> << >>]
    /\ calls = 0

Init == setting \in Settings /\ Idle

(***************************************************************************)
(* The service.                                                            *)
(***************************************************************************)
\* An amount is tested first and rounded to a whole number afterwards.
validateLine(raw) ==
    [amountMinor |-> IF raw.number THEN (raw.tenths + 5) \div 10 ELSE 0,
     valid |-> /\ raw.to /\ raw.phone /\ raw.reference /\ ~ raw.more
               /\ raw.number /\ raw.tenths > 0]

Does(b, op, user, new) ==
    /\ batch' = [batch EXCEPT ![b] = new]
    /\ deeds' = [deeds EXCEPT ![b] = Append(@, [op |-> op, by |-> user])]

Upload(b, user) ==
    /\ deeds[b] = << >>
    /\ \E file \in setting.files :
         IF Len(file) > MaxLines \/ Fault("slow") THEN UNCHANGED <<batch, deeds>>
         ELSE Does(b, "upload", user,
                   [status |-> "DRAFT", createdBy |-> user,
                    lines |-> [i \in DOMAIN file |-> validateLine(file[i])]])

Submit(b, user) ==
    /\ batch[b].status = "DRAFT"
    /\ Does(b, "submit", user, [batch[b] EXCEPT !.status = "PENDING_APPROVAL"])

\* Mutant of MayApprove: the check at the submission stands for the one here.
MayApproveOnce(b, user) == batch[b].createdBy # user \/ deeds[b][Len(deeds[b])].by # user

\* The maker does not approve his own batch.
MayApprove(b, user) == batch[b].createdBy # user

Approve(b, user) ==
    /\ batch[b].status = "PENDING_APPROVAL"
    /\ MayApprove(b, user)
    /\ Does(b, "approve", user, [batch[b] EXCEPT !.status = "APPROVED"])

Reject(b, user) ==
    /\ batch[b].status = "PENDING_APPROVAL"
    /\ Does(b, "reject", user, [batch[b] EXCEPT !.status = "DRAFT"])

Valid(b) == {i \in DOMAIN batch[b].lines : batch[b].lines[i].valid}

\* Each valid line would be a transaction; for now the batch is only marked.
Execute(b, user) ==
    /\ batch[b].status = "APPROVED"
    /\ Does(b, "execute", user,
            [batch[b] EXCEPT !.status = IF Valid(b) # {} THEN "COMPLETED" ELSE "FAILED"])

\* A restart: the identifiers of the lost batches are not found any more.
Restart ==
    /\ Fault("dies") /\ \E b \in Batches : batch[b] # NoBatch
    /\ batch' = [b \in Batches |-> NoBatch]
    /\ UNCHANGED <<setting, deeds, calls>>

\* Every call may also be refused (404, 409, 403), and leaves no trace then.
Call ==
    /\ calls < setting.calls
    /\ \/ \E b \in Batches, user \in Users :
            Upload(b, user) \/ Submit(b, user) \/ Approve(b, user) \/ Reject(b, user)
              \/ Execute(b, user)
       \/ UNCHANGED <<batch, deeds>>
    /\ calls' = calls + 1
    /\ UNCHANGED setting

Quiet == calls = setting.calls /\ UNCHANGED vars

Next == Call \/ Restart \/ Quiet

Spec == Init /\ [][Next]_vars

(***************************************************************************)
(* Properties.                                                             *)
(***************************************************************************)
Statuses == {"NONE", "DRAFT", "PENDING_APPROVAL", "APPROVED", "COMPLETED", "FAILED"}

\* The shape of the batches.
TypeOK ==
    /\ \A b \in Batches : batch[b].status \in Statuses
    /\ \A b \in Batches : \A i \in DOMAIN batch[b].lines : batch[b].lines[i].amountMinor \in Int
    /\ calls \in Nat

\* Four eyes: whatever the users submit, reject, approve and execute in whatever
\* order, a batch is executed once at most and right after an approval, by another
\* than its maker, of its last submission.
FourEyes ==
    \A b \in Batches : \A i \in DOMAIN deeds[b] :
        deeds[b][i].op = "execute" =>
            /\ i = Len(deeds[b]) /\ i > 3
            /\ deeds[b][i - 1].op = "approve" /\ deeds[b][i - 1].by # deeds[b][1].by
            /\ deeds[b][i - 2].op = "submit"
=============================================================================
