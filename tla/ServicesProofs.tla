--------------------------- MODULE ServicesProofs ---------------------------
(***************************************************************************)
(* Proofs about the services, for every set of users, files, clerks,       *)
(* requests and environments.  Each service has an inductive invariant of  *)
(* its own, which speaks of the behaviours in which it runs.               *)
(***************************************************************************)
EXTENDS Services, FiniteSetTheorems, TLAPS

\* The indices of a sequence.
LEMMA Indices == \A S : \A q \in Seq(S) : DOMAIN q = 1..Len(q) /\ Len(q) \in Nat
OBVIOUS

\* What is in a sequence.
LEMMA Elements == \A S : \A q \in Seq(S) : \A n \in DOMAIN q : q[n] \in S
OBVIOUS

\* What is appended comes last.
LEMMA Appended ==
    ASSUME NEW S, NEW q \in Seq(S), NEW e \in S
    PROVE  /\ Append(q, e) \in Seq(S) /\ DOMAIN Append(q, e) = 1..(Len(q) + 1)
           /\ Append(q, e)[Len(q) + 1] = e
           /\ \A n \in 1..Len(q) : Append(q, e)[n] = q[n]
OBVIOUS

(***************************************************************************)
(* business-service: bulk payments.                                        *)
(***************************************************************************)
BulkOps == {"upload", "submit", "approve", "reject", "execute"}

\* What was done with a batch is a sequence of deeds.
BulkTyped == deeds \in [Batches -> Seq([op : BulkOps, by : Users])]
             /\ DOMAIN batch = Batches

\* A batch that is in memory has a maker, who uploaded it.
BulkMade(b) ==
    batch[b].status # "NONE" =>
        /\ Len(deeds[b]) > 0
        /\ batch[b] = [status |-> batch[b].status, createdBy |-> deeds[b][1].by,
                       lines |-> batch[b].lines]

\* Its status says what was done with it last.
BulkFollows(b) ==
    /\ batch[b].status = "PENDING_APPROVAL" =>
         Len(deeds[b]) > 1 /\ deeds[b][Len(deeds[b])].op = "submit"
    /\ batch[b].status = "APPROVED" =>
         /\ Len(deeds[b]) > 2 /\ deeds[b][Len(deeds[b])].op = "approve"
         /\ deeds[b][Len(deeds[b])].by # deeds[b][1].by
         /\ deeds[b][Len(deeds[b]) - 1].op = "submit"

\* What the invariant says of one batch.
BulkGood(b) ==
    /\ BulkMade(b) /\ BulkFollows(b)
    /\ \A n \in DOMAIN deeds[b] :
         deeds[b][n].op = "execute" =>
             /\ n = Len(deeds[b]) /\ n > 3
             /\ deeds[b][n - 1].op = "approve" /\ deeds[b][n - 1].by # deeds[b][1].by
             /\ deeds[b][n - 2].op = "submit"
             /\ batch[b].status \notin {"DRAFT", "PENDING_APPROVAL", "APPROVED"}

BulkInv ==
    part = "bulk" => BulkTyped /\ \A b \in Batches : BulkGood(b)

\* A step of the sum is a step of the service that runs.
LEMMA BulkRuns ==
    ASSUME [Next]_vars, part' = "bulk"
    PROVE  part = "bulk" /\ (Bulk!Next \/ UNCHANGED <<setting, bulkVars>>)
BY DEF Next, vars

\* At the start there is no batch.
LEMMA BulkStarts == Init /\ part = "bulk" => BulkInv
<1> SUFFICES ASSUME Init, part = "bulk" PROVE BulkInv
    OBVIOUS
<1>1. Bulk!Idle
    BY DEF Init
<1> QED
    BY <1>1 DEF BulkInv, BulkTyped, BulkMade, BulkFollows, Bulk!Idle, Bulk!NoBatch, BulkGood


\* An accepted call is the batch's last deed, and disturbs no other batch.
LEMMA BulkDone ==
    ASSUME BulkTyped, NEW b \in Batches, NEW u \in Users, NEW op \in BulkOps, NEW new,
           Bulk!Does(b, op, u, new)
    PROVE  /\ BulkTyped'
           /\ batch'[b] = new
           /\ Len(deeds'[b]) = Len(deeds[b]) + 1
           /\ deeds'[b][Len(deeds[b]) + 1] = [op |-> op, by |-> u]
           /\ \A n \in 1..Len(deeds[b]) : deeds'[b][n] = deeds[b][n]
           /\ \A c \in Batches : c # b => batch'[c] = batch[c] /\ deeds'[c] = deeds[c]
<1>1. deeds[b] \in Seq([op : BulkOps, by : Users]) /\ [op |-> op, by |-> u] \in [op : BulkOps, by : Users]
    BY DEF BulkTyped
<1>2. deeds' = [deeds EXCEPT ![b] = Append(deeds[b], [op |-> op, by |-> u])]
      /\ batch' = [batch EXCEPT ![b] = new]
    BY DEF Bulk!Does
<1>3. Append(deeds[b], [op |-> op, by |-> u]) \in Seq([op : BulkOps, by : Users])
    BY <1>1
<1>4. BulkTyped'
    BY <1>2, <1>3 DEF BulkTyped
<1>5. deeds'[b] = Append(deeds[b], [op |-> op, by |-> u]) /\ batch'[b] = new
    BY <1>2 DEF BulkTyped
<1>6. /\ Len(deeds'[b]) = Len(deeds[b]) + 1
      /\ deeds'[b][Len(deeds[b]) + 1] = [op |-> op, by |-> u]
      /\ \A n \in 1..Len(deeds[b]) : deeds'[b][n] = deeds[b][n]
    BY <1>1, <1>5
<1>7. \A c \in Batches : c # b => batch'[c] = batch[c] /\ deeds'[c] = deeds[c]
    BY <1>2 DEF BulkTyped
<1> QED
    BY <1>4, <1>5, <1>6, <1>7

\* What a batch says of itself does not depend on the others.
LEMMA BulkAlone ==
    ASSUME NEW c \in Batches, BulkGood(c), batch'[c] = batch[c], deeds'[c] = deeds[c]
    PROVE  BulkGood(c)'
BY DEF BulkGood, BulkMade, BulkFollows

\* A deed that follows from the last one keeps the batch good.
LEMMA BulkFurther ==
    ASSUME BulkTyped, \A c \in Batches : BulkGood(c),
           NEW b \in Batches, NEW u \in Users, NEW op \in BulkOps, NEW t, t # "NONE",
           batch[b].status \in {"DRAFT", "PENDING_APPROVAL", "APPROVED"},
           Bulk!Does(b, op, u, [batch[b] EXCEPT !.status = t]),
           t = "PENDING_APPROVAL" => op = "submit",
           t = "APPROVED" => op = "approve" /\ batch[b].createdBy # u
                               /\ batch[b].status = "PENDING_APPROVAL",
           op = "execute" => t \in {"COMPLETED", "FAILED"} /\ batch[b].status = "APPROVED"
    PROVE  BulkTyped' /\ \A c \in Batches : BulkGood(c)'
<1>1. /\ BulkTyped' /\ (\A c \in Batches : c # b => BulkGood(c)')
      /\ batch'[b] = [batch[b] EXCEPT !.status = t]
      /\ Len(deeds'[b]) = Len(deeds[b]) + 1
      /\ deeds'[b][Len(deeds[b]) + 1] = [op |-> op, by |-> u]
      /\ \A n \in 1..Len(deeds[b]) : deeds'[b][n] = deeds[b][n]
    BY BulkDone, BulkAlone
<1>2. PICK m \in Nat : m = Len(deeds[b]) /\ DOMAIN deeds[b] = 1..m
  <2>1. deeds[b] \in Seq([op : BulkOps, by : Users])
    BY DEF BulkTyped
  <2> QED
    BY <2>1
<1>3. DOMAIN deeds'[b] = 1..(m + 1)
  <2>1. deeds'[b] \in Seq([op : BulkOps, by : Users])
    BY <1>1 DEF BulkTyped
  <2>2. DOMAIN deeds'[b] = 1..Len(deeds'[b])
    BY <2>1, Indices
  <2> QED
    BY <1>1, <1>2, <2>2
<1>4. BulkMade(b) /\ BulkFollows(b)
    BY DEF BulkGood
<1>5. m > 0
      /\ batch'[b] = [status |-> t, createdBy |-> deeds[b][1].by, lines |-> batch[b].lines]
    BY <1>1, <1>2, <1>4 DEF BulkMade
<1>6. \A n \in 1..m : deeds[b][n].op # "execute"
    BY <1>2 DEF BulkGood
<1>7. Len(deeds'[b]) = m + 1 /\ deeds'[b][m + 1] = [op |-> op, by |-> u]
      /\ deeds'[b][1] = deeds[b][1] /\ deeds'[b][m] = deeds[b][m]
      /\ (m > 1 => deeds'[b][m - 1] = deeds[b][m - 1])
  <2>1. Len(deeds'[b]) = m + 1 /\ deeds'[b][m + 1] = [op |-> op, by |-> u]
    BY <1>1, <1>2
  <2>2. \A n \in 1..m : deeds'[b][n] = deeds[b][n]
    BY <1>1, <1>2
  <2>3. 1 \in 1..m /\ m \in 1..m /\ (m > 1 => m - 1 \in 1..m)
    BY <1>2, <1>5
  <2> QED
    BY <2>1, <2>2, <2>3
<1>8. BulkMade(b)'
    BY <1>5, <1>7 DEF BulkMade
<1>9. BulkFollows(b)'
  <2>1. CASE t = "PENDING_APPROVAL"
    BY <1>5, <1>7, <2>1 DEF BulkFollows
  <2>2. CASE t = "APPROVED"
    <3>1. m > 1 /\ deeds[b][m].op = "submit" /\ deeds[b][1].by # u
        BY <1>2, <1>4, <2>2 DEF BulkFollows, BulkMade
    <3>2. (m + 1) - 1 = m
        BY <1>2
    <3> QED
        BY SMTT(20), ZenonT(20), <1>5, <1>7, <2>2, <3>1, <3>2 DEF BulkFollows
  <2> QED
    BY <1>5, <2>1, <2>2 DEF BulkFollows
<1>10. ASSUME NEW n \in DOMAIN deeds'[b], deeds'[b][n].op = "execute"
       PROVE  /\ n = Len(deeds'[b]) /\ n > 3
              /\ deeds'[b][n - 1].op = "approve" /\ deeds'[b][n - 1].by # deeds'[b][1].by
              /\ deeds'[b][n - 2].op = "submit"
              /\ batch'[b].status \notin {"DRAFT", "PENDING_APPROVAL", "APPROVED"}
  <2>1. n = m + 1
    BY <1>1, <1>2, <1>3, <1>6, <1>10
  <2>2. op = "execute"
    BY <1>7, <1>10, <2>1
  <2>3. m > 2 /\ deeds[b][m].op = "approve" /\ deeds[b][m].by # deeds[b][1].by
        /\ deeds[b][m - 1].op = "submit"
    BY <1>2, <1>4, <2>2 DEF BulkFollows
  <2>4. n - 1 = m /\ n - 2 = m - 1
    BY <1>2, <2>1
  <2> QED
    BY <1>2, <1>5, <1>7, <2>1, <2>2, <2>3, <2>4
<1>11. BulkGood(b)'
    BY <1>8, <1>9, <1>10 DEF BulkGood
<1> QED
    BY <1>1, <1>11

\* A new batch, and its first deed.
Drafted(made, u) == \E l : made = [status |-> "DRAFT", createdBy |-> u, lines |-> l]

\* An upload makes a new batch with its maker.
LEMMA BulkUpload ==
    ASSUME BulkTyped, \A c \in Batches : BulkGood(c),
           NEW b \in Batches, NEW u \in Users, Len(deeds[b]) = 0,
           NEW made, Drafted(made, u), Bulk!Does(b, "upload", u, made)
    PROVE  BulkTyped' /\ \A c \in Batches : BulkGood(c)'
<1>1. PICK op \in BulkOps : op = "upload" /\ Bulk!Does(b, op, u, made)
    BY DEF BulkOps
<1>2. /\ BulkTyped' /\ (\A c \in Batches : c # b => BulkGood(c)')
      /\ batch'[b] = made
      /\ Len(deeds'[b]) = 1 /\ deeds'[b][1] = [op |-> op, by |-> u]
  <2>1. op \in BulkOps /\ Bulk!Does(b, op, u, made)
    BY <1>1
  <2>2. /\ BulkTyped' /\ (\A c \in Batches : c # b => BulkGood(c)')
        /\ Len(deeds'[b]) = Len(deeds[b]) + 1
        /\ deeds'[b][Len(deeds[b]) + 1] = [op |-> op, by |-> u]
    BY SMTT(20), ZenonT(20), <2>1, BulkDone, BulkAlone
  <2>3. batch'[b] = made
    BY <2>1 DEF Bulk!Does, BulkTyped
  <2> QED
    BY <2>2, <2>3
<1>3. DOMAIN deeds'[b] = 1..1
  <2>1. deeds'[b] \in Seq([op : BulkOps, by : Users])
    BY <1>2 DEF BulkTyped
  <2>2. DOMAIN deeds'[b] = 1..Len(deeds'[b])
    BY <2>1, Indices
  <2> QED
    BY <1>2, <2>2
<1>4. BulkGood(b)'
  <2>1. BulkMade(b)' /\ BulkFollows(b)'
    BY <1>2 DEF Drafted, BulkMade, BulkFollows
  <2>2. \A n \in DOMAIN deeds'[b] : deeds'[b][n].op # "execute"
    BY <1>1, <1>2, <1>3
  <2> QED
    BY <2>1, <2>2 DEF BulkGood
<1> QED
    BY <1>2, <1>4

\* The other calls of a batch.
LEMMA BulkCall ==
    ASSUME BulkTyped, \A c \in Batches : BulkGood(c),
           NEW b \in Batches, NEW u \in Users,
           \/ Bulk!Upload(b, u) \/ Bulk!Submit(b, u) \/ Bulk!Approve(b, u)
           \/ Bulk!Reject(b, u) \/ Bulk!Execute(b, u)
    PROVE  BulkTyped' /\ \A c \in Batches : BulkGood(c)'
<1> USE DEF BulkOps
<1>1. CASE Bulk!Upload(b, u)
  <2>1. CASE UNCHANGED <<batch, deeds>>
    BY <2>1, BulkAlone DEF BulkTyped
  <2>2. CASE \E l : Bulk!Does(b, "upload", u, [status |-> "DRAFT", createdBy |-> u, lines |-> l])
    <3>1. Len(deeds[b]) = 0
        BY <1>1 DEF Bulk!Upload
    <3>2. PICK made : Drafted(made, u) /\ Bulk!Does(b, "upload", u, made)
        BY <2>2 DEF Drafted
    <3> QED
        BY <3>1, <3>2, BulkUpload
  <2> QED
    BY <1>1, <2>1, <2>2 DEF Bulk!Upload
<1>2. CASE Bulk!Submit(b, u)
    BY <1>2, BulkFurther DEF Bulk!Submit
<1>3. CASE Bulk!Approve(b, u)
    BY <1>3, BulkFurther DEF Bulk!Approve, Bulk!MayApprove
<1>4. CASE Bulk!Reject(b, u)
    BY <1>4, BulkFurther DEF Bulk!Reject
<1>5. CASE Bulk!Execute(b, u)
  <2>1. PICK t \in {"COMPLETED", "FAILED"} :
          Bulk!Does(b, "execute", u, [batch[b] EXCEPT !.status = t])
    BY <1>5 DEF Bulk!Execute
  <2>2. batch[b].status = "APPROVED" /\ t # "NONE" /\ t # "PENDING_APPROVAL" /\ t # "APPROVED"
    BY <1>5, <2>1 DEF Bulk!Execute
  <2> QED
    BY <2>1, <2>2, BulkFurther
<1> QED
    BY <1>1, <1>2, <1>3, <1>4, <1>5

\* Every step keeps the invariant.
LEMMA BulkKept == BulkInv /\ [Next]_vars => BulkInv'
<1> SUFFICES ASSUME BulkInv, [Next]_vars, part' = "bulk" PROVE BulkTyped' /\ \A b \in Batches : BulkGood(b)'
    BY DEF BulkInv
<1>1. part = "bulk" /\ BulkTyped /\ (\A b \in Batches : BulkGood(b))
    BY BulkRuns DEF BulkInv
<1>2. CASE UNCHANGED <<batch, deeds>>
    BY <1>1, <1>2, BulkAlone DEF BulkTyped
<1>3. CASE Bulk!Restart
    BY SMTT(20), ZenonT(20), <1>1, <1>3 DEF Bulk!Restart, Bulk!NoBatch, BulkTyped, BulkGood, BulkMade, BulkFollows
<1>4. CASE \E b \in Batches, u \in Users :
             \/ Bulk!Upload(b, u) \/ Bulk!Submit(b, u) \/ Bulk!Approve(b, u)
             \/ Bulk!Reject(b, u) \/ Bulk!Execute(b, u)
    BY <1>1, <1>4, BulkCall
<1>5. Bulk!Next \/ UNCHANGED <<setting, bulkVars>>
    BY BulkRuns
<1> QED
    BY <1>2, <1>3, <1>4, <1>5 DEF Bulk!Next, Bulk!Call, Bulk!Quiet, Bulk!vars, bulkVars

\* Four eyes: whatever the users submit, reject, approve and execute, and in whatever
\* order, a batch of business-service is executed once, after its last submission was
\* approved by another than its maker.
THEOREM FourEyesHold == Spec => []FourEyes
<1>1. Init => BulkInv
    BY BulkStarts DEF BulkInv
<1>2. BulkInv => FourEyes
    BY DEF BulkInv, BulkGood, FourEyes, Bulk!FourEyes
<1> QED
    BY <1>1, <1>2, BulkKept, PTL DEF Spec

(***************************************************************************)
(* The legacy aggregator's database.                                       *)
(***************************************************************************)
\* A table of the new columns with every merchant of before in it.
SchemaKept == schema = "v1" /\ setting.rows \subseteq table["merchants"]

\* A database the migration has still to look at.
SchemaOld ==
    /\ version = 0
    /\ \/ schema = "v0" /\ setting.rows \subseteq table["merchants"]
       \/ schema = "absent" /\ setting.rows = {}

\* Where every merchant is, at each statement of a start that nothing cuts.
SchemaPlaces ==
    /\ start = "unmade" => schema = "absent" /\ version = 0
    /\ start = "down" => SchemaKept \/ SchemaOld
    /\ start = "migrate" => SchemaKept \/ SchemaOld
    /\ start = "rename" => schema = "v0" /\ setting.rows \subseteq left
    /\ start = "create" => schema = "absent" /\ setting.rows \subseteq left
    /\ start = "insert" => schema = "v1" /\ setting.rows \subseteq left \cup table["merchants"]
    /\ start = "version" => SchemaKept
    /\ start = "up" => SchemaKept

SchemaInv ==
    part = "schema" =>
        /\ setting \in SchemaSettings
        /\ DOMAIN table = {"merchants", "merchants_legacy_v0"}
        /\ ~ Schema!Fault("dies") => SchemaPlaces

\* A step while the migration runs is one of it.
LEMMA SchemaRuns ==
    ASSUME [Next]_vars, part' = "schema"
    PROVE  part = "schema" /\ (Schema!Next \/ UNCHANGED <<setting, schemaVars>>)
BY DEF Next, vars

\* Every statement, and every start, keeps the invariant.
LEMMA SchemaKeeps == SchemaInv /\ [Next]_vars => SchemaInv'
<1> SUFFICES ASSUME SchemaInv, [Next]_vars, part' = "schema"
             PROVE  /\ setting' \in SchemaSettings
                    /\ (DOMAIN table = {"merchants", "merchants_legacy_v0"})'
                    /\ ~ Schema!Fault("dies")' => SchemaPlaces'
    BY DEF SchemaInv
<1>1. /\ setting \in SchemaSettings
      /\ DOMAIN table = {"merchants", "merchants_legacy_v0"}
      /\ ~ Schema!Fault("dies") => SchemaPlaces
    BY SchemaRuns DEF SchemaInv
<1>2. setting.v0 \/ setting.rows = {}
    BY <1>1, ServicesAssumption DEF Schema!SchemaAssumption
<1>3. Schema!Next \/ UNCHANGED <<setting, schemaVars>>
    BY SchemaRuns
<1> USE DEF Schema!disk, Schema!Goto, Schema!createTables, Schema!Fault, SchemaPlaces,
            SchemaKept, SchemaOld
<1>4. CASE Schema!Found
    BY <1>1, <1>2, <1>4 DEF Schema!Found
<1>5. CASE Schema!Start
    BY <1>1, <1>5 DEF Schema!Start, Schema!schemaVersion
<1>6. CASE Schema!Migrate
    BY <1>1, <1>6 DEF Schema!Migrate, Schema!hasLegacySkColumns
<1>7. CASE Schema!Rename
    BY <1>1, <1>7 DEF Schema!Rename, Schema!Tables
<1>8. CASE Schema!Create
    BY <1>1, <1>8 DEF Schema!Create
<1>9. CASE Schema!Insert
    BY <1>1, <1>9 DEF Schema!Insert
<1>10. CASE Schema!Drop
    BY <1>1, <1>10 DEF Schema!Drop, Schema!AllInserted
<1>11. CASE Schema!SetVersion
    BY <1>1, <1>11 DEF Schema!SetVersion
<1>12. CASE Schema!Stop
    BY <1>1, <1>12 DEF Schema!Stop
<1>13. CASE \E m \in Merchants : Schema!Register(m) \/ Schema!Refers(m)
    BY <1>1, <1>13 DEF Schema!Register, Schema!Refers
<1>14. CASE UNCHANGED <<setting, schemaVars>>
    BY <1>1, <1>14 DEF schemaVars
<1> QED
    BY <1>3, <1>4, <1>5, <1>6, <1>7, <1>8, <1>9, <1>10, <1>11, <1>12, <1>13, <1>14
    DEF Schema!Next

\* Whatever database is found, and whoever refers to it: while no start is cut, a server
\* that listens has a table of the new columns with all merchants of before, also after
\* the DROP that references make impossible.
THEOREM MerchantsAreKept == Spec => []KeepsMerchants
<1>1. Init => SchemaInv
    BY DEF Init, SchemaInv, SchemaPlaces, Schema!Idle, Schema!Tables
<1>2. SchemaInv => KeepsMerchants
    BY DEF SchemaInv, SchemaPlaces, SchemaKept, KeepsMerchants, Schema!KeepsMerchants
<1> QED
    BY <1>1, <1>2, SchemaKeeps, PTL DEF Spec

(***************************************************************************)
(* Signatures of webhooks.                                                 *)
(***************************************************************************)
SignedRow ==
    [signature : [t : Int, body : Int, under : Int], attempts : Nat, due : Int, first : Int]

\* The delays waited for before the try after n others.
Waited(n) == IF n = 0 THEN 0 ELSE IF n = 1 THEN 1 ELSE IF n = 2 THEN 6 ELSE 36

\* A row with a try to come was signed with a secret and at a time from which its tries
\* so far, and the delays between them, took it to the next one.
SignTimely(x) ==
    signedRows[x].due # -1 /\ signedRows[x].first = changes =>
        /\ signedRows[x].signature.under = wsec /\ signedRows[x].attempts \in 0..3
        /\ signedRows[x].signature.t <= clock /\ clock <= signedRows[x].due
        /\ signedRows[x].due <= signedRows[x].signature.t + 66 * signedRows[x].attempts
                                  + Waited(signedRows[x].attempts)

SignTyped ==
    /\ signedRows \in Seq(SignedRow)
    /\ clock \in Nat /\ changes \in Nat /\ wsec \in Int

SignInv ==
    part = "signatures" =>
        /\ SignTyped /\ Sign!LastTryVerifies
        /\ \A x \in DOMAIN signedRows : signedRows[x].first <= changes /\ SignTimely(x)
        /\ \A x, y \in DOMAIN signedRows :
             signedRows[x].due # -1 /\ signedRows[y].due # -1 => x = y

\* A step while the clock of signatures runs is one of it.
LEMMA SignRuns ==
    ASSUME [Next]_vars, part' = "signatures"
    PROVE  part = "signatures" /\ (Sign!Next \/ UNCHANGED <<setting, signatureVars>>)
BY DEF Next, vars

\* A new row is due at once, and the only one that waits.
LEMMA SignAppend ==
    ASSUME SignInv, part = "signatures", part' = part, NEW body \in Int,
           signedRows' = Append(signedRows, Sign!NewRow(body)), Sign!Waiting = {},
           UNCHANGED <<clock, wsec, changes, verdicts>>
    PROVE  SignInv'
<1>1. SignTyped /\ Sign!LastTryVerifies
      /\ \A x \in DOMAIN signedRows : signedRows[x].first <= changes /\ SignTimely(x)
    BY DEF SignInv
<1>2. PICK r \in SignedRow :
          /\ r = Sign!NewRow(body) /\ r.signature.t = clock /\ r.signature.under = wsec
          /\ r.attempts = 0 /\ r.due = clock /\ r.first = changes
  <2>1. Sign!NewRow(body) = [signature |-> [t |-> clock, body |-> body, under |-> wsec],
                             attempts |-> 0, due |-> clock, first |-> changes]
    BY DEF Sign!NewRow, Sign!signPayload
  <2>2. clock \in Int /\ changes \in Int /\ wsec \in Int
    BY <1>1 DEF SignTyped
  <2>3. [t |-> clock, body |-> body, under |-> wsec] \in [t : Int, body : Int, under : Int]
    BY <2>2
  <2>4. Sign!NewRow(body) \in SignedRow
    BY <2>1, <2>2, <2>3 DEF SignedRow
  <2> QED
    BY <2>1, <2>4
<1>3. PICK m \in Nat : m = Len(signedRows) /\ DOMAIN signedRows = 1..m
    BY <1>1, Indices DEF SignTyped
<1>4. /\ signedRows' \in Seq(SignedRow) /\ DOMAIN signedRows' = 1..(m + 1)
      /\ signedRows'[m + 1] = r /\ \A x \in 1..m : signedRows'[x] = signedRows[x]
  <2>1. signedRows \in Seq(SignedRow) /\ r \in SignedRow
    BY <1>1, <1>2 DEF SignTyped
  <2>2. signedRows' = Append(signedRows, r)
    BY <1>2
  <2>3. /\ Append(signedRows, r) \in Seq(SignedRow)
        /\ DOMAIN Append(signedRows, r) = 1..(Len(signedRows) + 1)
        /\ Append(signedRows, r)[Len(signedRows) + 1] = r
        /\ \A n \in 1..Len(signedRows) : Append(signedRows, r)[n] = signedRows[n]
    BY <2>1, Appended
  <2> QED
    BY <1>3, <2>2, <2>3
<1>5. \A x \in 1..m : signedRows[x].due = -1
    BY <1>3 DEF Sign!Waiting, Sign!Never
<1>6. SignTyped' /\ Sign!LastTryVerifies'
    BY <1>1, <1>4 DEF SignTyped, Sign!LastTryVerifies
<1>7. SignTimely(m + 1)'
  <2>1. clock' = clock /\ wsec' = wsec /\ changes' = changes /\ clock \in Int
    BY <1>1 DEF SignTyped
  <2>2. clock <= clock + 66 * 0 + Waited(0)
    BY <2>1 DEF Waited
  <2> QED
    BY <1>2, <1>4, <2>1, <2>2 DEF SignTimely
<1>8. ASSUME NEW x \in 1..m PROVE signedRows'[x].first <= changes' /\ SignTimely(x)'
  <2>1. signedRows'[x] = signedRows[x] /\ signedRows[x].due = -1 /\ signedRows[x].first <= changes
    BY <1>1, <1>3, <1>4, <1>5
  <2> QED
    BY <2>1 DEF SignTimely
<1>9. \A x \in 1..(m + 1) : signedRows'[x].first <= changes' /\ SignTimely(x)'
  <2>1. r.first <= changes'
    BY <1>1, <1>2 DEF SignTyped
  <2>2. \A x \in 1..(m + 1) : x \in 1..m \/ x = m + 1
    BY <1>3
  <2> QED
    BY <1>4, <1>7, <1>8, <2>1, <2>2
<1>10. \A x, y \in 1..(m + 1) : signedRows'[x].due # -1 /\ signedRows'[y].due # -1 => x = y
  <2>1. \A x \in 1..(m + 1) : x \in 1..m \/ x = m + 1
    BY <1>3
  <2> QED
    BY <1>4, <1>5, <2>1
<1> QED
    BY <1>4, <1>6, <1>9, <1>10 DEF SignInv

\* After a rotation or a stop nothing is promised of the rows of before.
LEMMA SignChange ==
    ASSUME SignInv, part = "signatures", part' = part,
           changes' = changes + 1, wsec' \in Int, clock' \in Nat,
           signedRows' \in Seq(SignedRow), DOMAIN signedRows' = DOMAIN signedRows,
           \A x \in DOMAIN signedRows :
               signedRows'[x].first = signedRows[x].first
               /\ (signedRows'[x].due # -1 => signedRows[x].due # -1),
           UNCHANGED verdicts
    PROVE  SignInv'
<1>1. SignTyped /\ Sign!LastTryVerifies
      /\ \A x \in DOMAIN signedRows : signedRows[x].first <= changes
    BY DEF SignInv
<1>2. SignTyped' /\ Sign!LastTryVerifies'
    BY <1>1 DEF SignTyped, Sign!LastTryVerifies
<1>3. ASSUME NEW x \in DOMAIN signedRows'
      PROVE  signedRows'[x].first <= changes' /\ SignTimely(x)'
  <2>1. signedRows'[x].first <= changes /\ signedRows'[x].first \in Int /\ changes \in Int
    <3>1. x \in DOMAIN signedRows
        BY <1>3
    <3>2. signedRows[x] \in SignedRow
        BY <1>1, <3>1, Elements DEF SignTyped
    <3>3. signedRows[x].first \in Int /\ signedRows[x].first <= changes
        BY <1>1, <3>1, <3>2 DEF SignedRow
    <3>4. signedRows'[x].first = signedRows[x].first
        BY <3>1
    <3>5. changes \in Int
        BY <1>1 DEF SignTyped
    <3> QED
        BY <3>3, <3>4, <3>5
  <2>2. signedRows'[x].first <= changes' /\ signedRows'[x].first # changes'
    BY <2>1
  <2> QED
    BY <2>2 DEF SignTimely
<1> QED
    BY <1>2, <1>3 DEF SignInv

\* What whoever verifies answers at moment c.
SignVerified(r, c) ==
    /\ Sign!verifySignature(r.signature, c, 300) /\ Sign!verifyGateway(r.signature, c)
    /\ Sign!verifyBusiness(r.signature)

\* A try of row x that ends at moment c.
SignTry(x, c, able) ==
    LET r == signedRows[x]
    IN  /\ clock' = c
        /\ verdicts' = verdicts \cup {[verified |-> SignVerified(r, c), since |-> changes - r.first]}
        /\ signedRows' = [signedRows EXCEPT ![x].attempts = r.attempts + 1,
             ![x].due = IF (SignVerified(r, c) /\ able) \/ Sign!IsLast(r.attempts + 1) THEN -1
                        ELSE c + Sign!BACKOFF[r.attempts + 1]]

\* A try: the row that waits is the only one, and nothing else moves the clock.
LEMMA SignDeliver ==
    ASSUME SignInv, part = "signatures", part' = part, NEW x \in DOMAIN signedRows,
           Sign!Deliver(x)
    PROVE  SignInv'
<1>1. SignTyped /\ Sign!LastTryVerifies /\ signedRows[x].due # -1
      /\ (\A y \in DOMAIN signedRows : signedRows[y].first <= changes /\ SignTimely(y))
      /\ (\A y \in DOMAIN signedRows : y # x => signedRows[y].due = -1)
    BY DEF SignInv, Sign!Deliver, Sign!Waiting, Sign!Never
<1>2. PICK spent \in TryTimes : \E able \in BOOLEAN :
        SignTry(x, (IF signedRows[x].due > clock THEN signedRows[x].due ELSE clock) + spent, able)
    BY DEF SignTry, SignVerified, Sign!Deliver, Sign!Never
<1>3. PICK able \in BOOLEAN, c \in {(IF signedRows[x].due > clock THEN signedRows[x].due ELSE clock)
                                      + spent} : SignTry(x, c, able)
    BY <1>2
<1>4. UNCHANGED <<wsec, changes>>
    BY DEF Sign!Deliver
<1>5. PICK r \in SignedRow : r = signedRows[x]
    BY <1>1, Elements DEF SignTyped
<1>6. spent \in 0..66
    BY <1>2, ServicesAssumption DEF Sign!WindowAssumption
<1>7. /\ clock \in Nat /\ changes \in Nat /\ r.due \in Int /\ r.attempts \in Nat /\ r.first \in Int
      /\ r.signature.t \in Int
    BY <1>1, <1>5 DEF SignTyped, SignedRow
<1>8. c \in Nat /\ clock <= c /\ (clock <= r.due => c = r.due + spent)
    BY <1>3, <1>5, <1>6, <1>7
<1>9. r.first = changes =>
        /\ r.attempts \in 0..3 /\ r.signature.t <= c
        /\ c <= r.signature.t + 66 * (r.attempts + 1) + Waited(r.attempts)
        /\ SignVerified(r, c) /\ r.signature.under = wsec
  <2> SUFFICES ASSUME r.first = changes
               PROVE  /\ r.attempts \in 0..3 /\ r.signature.t <= c
                      /\ c <= r.signature.t + 66 * (r.attempts + 1) + Waited(r.attempts)
                      /\ SignVerified(r, c) /\ r.signature.under = wsec
    OBVIOUS
  <2>1. /\ r.signature.under = wsec /\ r.attempts \in 0..3
        /\ r.signature.t <= clock /\ clock <= r.due
        /\ r.due <= r.signature.t + 66 * r.attempts + Waited(r.attempts)
    BY <1>1, <1>5 DEF SignTimely
  <2>2. Waited(r.attempts) \in 0..36
    BY <2>1 DEF Waited
  <2>3. r.signature.t <= c /\ c <= r.signature.t + 66 * (r.attempts + 1) + Waited(r.attempts)
    BY <1>6, <1>7, <1>8, <2>1, <2>2
  <2>4. c <= r.signature.t + 300
    <3>1. 66 * (r.attempts + 1) \in 0..264
        BY <2>1
    <3>2. PICK m \in 0..264, n \in 0..36 : m = 66 * (r.attempts + 1) /\ n = Waited(r.attempts)
        BY <2>2, <3>1
    <3>3. PICK t \in Int : t = r.signature.t
        BY <1>7
    <3>4. c <= t + m + n
        BY <2>3, <3>2, <3>3
    <3>5. c <= t + 300
        BY <1>8, <3>2, <3>3, <3>4
    <3> QED
        BY <3>3, <3>5
  <2>5. SignVerified(r, c)
    <3>1. Sign!Distance(c, r.signature.t) <= 300
        BY <1>7, <1>8, <2>3, <2>4 DEF Sign!Distance
    <3>2. Sign!RightSecret(r.signature)
        BY <2>1 DEF Sign!RightSecret
    <3> QED
        BY <3>1, <3>2
        DEF SignVerified, Sign!verifySignature, Sign!verifyGateway, Sign!verifyBusiness
  <2> QED
    BY <2>1, <2>3, <2>5
<1>10. clock' = c
       /\ verdicts' = verdicts \cup {[verified |-> SignVerified(r, c), since |-> changes - r.first]}
       /\ signedRows' = [signedRows EXCEPT ![x] = [r EXCEPT !.attempts = r.attempts + 1,
             !.due = IF (SignVerified(r, c) /\ able) \/ Sign!IsLast(r.attempts + 1) THEN -1
                     ELSE c + Sign!BACKOFF[r.attempts + 1]]]
    BY <1>3, <1>5 DEF SignTry
<1>11. Sign!LastTryVerifies'
  <2>1. \A a \in verdicts : a.since = 0 => a.verified
    BY <1>1 DEF Sign!LastTryVerifies
  <2>2. changes - r.first = 0 => SignVerified(r, c)
    BY <1>7, <1>9
  <2> QED
    BY <1>10, <2>1, <2>2 DEF Sign!LastTryVerifies
<1>12. /\ signedRows' \in Seq(SignedRow) /\ DOMAIN signedRows' = DOMAIN signedRows
       /\ \A y \in DOMAIN signedRows : y # x => signedRows'[y] = signedRows[y]
       /\ signedRows'[x].signature = r.signature /\ signedRows'[x].first = r.first
       /\ signedRows'[x].attempts = r.attempts + 1
       /\ signedRows'[x].due = IF (SignVerified(r, c) /\ able) \/ Sign!IsLast(r.attempts + 1) THEN -1
                               ELSE c + Sign!BACKOFF[r.attempts + 1]
  <2>1. PICK due \in Int : due = IF (SignVerified(r, c) /\ able) \/ Sign!IsLast(r.attempts + 1) THEN -1
                               ELSE c + Sign!BACKOFF[r.attempts + 1]
    <3>1. r.attempts + 1 \in 1..3 \/ Sign!IsLast(r.attempts + 1)
        BY <1>7 DEF Sign!IsLast, Sign!MAX_ATTEMPTS, Sign!BACKOFF
    <3>2. r.attempts + 1 \in 1..3 => c + Sign!BACKOFF[r.attempts + 1] \in Int
        BY <1>8 DEF Sign!BACKOFF
    <3> QED
        BY <3>1, <3>2
  <2>2. PICK e \in SignedRow : e = [r EXCEPT !.attempts = r.attempts + 1, !.due = due]
    <3>1. [r EXCEPT !.attempts = r.attempts + 1, !.due = due] \in SignedRow
      <4>1. r.attempts + 1 \in Nat
        BY <1>7
      <4>2. r \in SignedRow /\ due \in Int
        BY <1>5, <2>1
      <4> QED
        BY <4>1, <4>2 DEF SignedRow
    <3> QED
        BY <3>1
  <2>3. signedRows' = [signedRows EXCEPT ![x] = e]
    BY <1>10, <2>1, <2>2
  <2>4. signedRows' \in Seq(SignedRow) /\ DOMAIN signedRows' = DOMAIN signedRows
    BY <1>1, <2>2, <2>3 DEF SignTyped
  <2>5. signedRows'[x] = e /\ \A y \in DOMAIN signedRows : y # x => signedRows'[y] = signedRows[y]
    BY <2>3
  <2>6. e.signature = r.signature /\ e.first = r.first /\ e.attempts = r.attempts + 1 /\ e.due = due
    BY <1>5, <2>2 DEF SignedRow
  <2> QED
    BY <2>1, <2>4, <2>5, <2>6
<1>13. SignTyped'
    BY <1>1, <1>4, <1>8, <1>10, <1>12 DEF SignTyped
<1>14. signedRows'[x].due # -1 /\ r.first = changes =>
         /\ r.attempts + 1 \in 0..3
         /\ c <= signedRows'[x].due
         /\ signedRows'[x].due <= r.signature.t + 66 * (r.attempts + 1) + Waited(r.attempts + 1)
  <2> SUFFICES ASSUME signedRows'[x].due # -1, r.first = changes
               PROVE  /\ r.attempts + 1 \in 0..3 /\ c <= signedRows'[x].due
                      /\ signedRows'[x].due
                           <= r.signature.t + 66 * (r.attempts + 1) + Waited(r.attempts + 1)
    OBVIOUS
  <2>1. r.attempts \in 0..3 /\ ~ Sign!IsLast(r.attempts + 1)
        /\ signedRows'[x].due = c + Sign!BACKOFF[r.attempts + 1]
    BY <1>9, <1>12
  <2>2. r.attempts \in 0..2
    BY <2>1 DEF Sign!IsLast, Sign!MAX_ATTEMPTS, Sign!BACKOFF
  <2>3. Sign!BACKOFF[r.attempts + 1] \in 0..30
        /\ Waited(r.attempts) + Sign!BACKOFF[r.attempts + 1] = Waited(r.attempts + 1)
        /\ Waited(r.attempts) \in Int
    BY <2>2 DEF Waited, Sign!BACKOFF
  <2>4. PICK t \in Int, wait \in Int, more \in 0..30 :
          t = r.signature.t /\ wait = Waited(r.attempts) /\ more = Sign!BACKOFF[r.attempts + 1]
    BY <1>7, <2>3
  <2>5. c <= t + 66 * (r.attempts + 1) + wait
    BY <1>9, <2>4
  <2>6. PICK m \in Int : m = 66 * (r.attempts + 1)
    BY <1>7
  <2>7. c <= c + more /\ c + more <= t + m + (wait + more)
    BY <1>8, <2>4, <2>5, <2>6
  <2>8. signedRows'[x].due = c + more /\ Waited(r.attempts + 1) = wait + more
    BY <2>1, <2>3, <2>4
  <2>9. r.attempts + 1 \in 0..3
    BY <2>2
  <2>10. c <= signedRows'[x].due
    BY <2>7, <2>8
  <2>11. signedRows'[x].due <= r.signature.t + 66 * (r.attempts + 1) + Waited(r.attempts + 1)
    BY <2>4, <2>6, <2>7, <2>8
  <2> QED
    BY <2>9, <2>10, <2>11
<1>15. SignTimely(x)' /\ signedRows'[x].first <= changes'
  <2>1. signedRows'[x].first = r.first /\ r.first <= changes
        /\ changes' = changes /\ wsec' = wsec /\ clock' = c
    BY <1>1, <1>4, <1>5, <1>10, <1>12
  <2>2. signedRows'[x].due # -1 /\ r.first = changes =>
          /\ signedRows'[x].signature.under = wsec /\ signedRows'[x].attempts \in 0..3
          /\ signedRows'[x].signature.t <= c /\ c <= signedRows'[x].due
          /\ signedRows'[x].due <= signedRows'[x].signature.t + 66 * signedRows'[x].attempts
                                     + Waited(signedRows'[x].attempts)
    BY <1>9, <1>12, <1>14
  <2> QED
    BY <2>1, <2>2 DEF SignTimely
<1>16. ASSUME NEW y \in DOMAIN signedRows, y # x
       PROVE  SignTimely(y)' /\ signedRows'[y].first <= changes' /\ signedRows'[y].due = -1
    BY <1>1, <1>4, <1>12, <1>16 DEF SignTimely
<1> QED
    BY <1>11, <1>12, <1>13, <1>15, <1>16 DEF SignInv

\* Every try, rotation and restart keeps the invariant.
LEMMA SignKept == SignInv /\ [Next]_vars => SignInv'
<1> SUFFICES ASSUME SignInv, [Next]_vars, part' = "signatures" PROVE SignInv'
    BY DEF SignInv
<1>1. part = "signatures" /\ part' = part /\ (Sign!Next \/ UNCHANGED <<setting, signatureVars>>)
    BY SignRuns
<1>2. SignTyped
    BY <1>1 DEF SignInv
<1>3. CASE Sign!Dispatch
    BY <1>1, <1>2, <1>3, Indices, SignAppend DEF Sign!Dispatch, SignTyped
<1>4. CASE Sign!replayLastEvent
  <2>1. Len(signedRows) \in DOMAIN signedRows
    BY <1>2, <1>4 DEF SignTyped, Sign!replayLastEvent
  <2>2. signedRows[Len(signedRows)] \in SignedRow
    BY <1>2, <2>1, Elements DEF SignTyped
  <2>3. signedRows[Len(signedRows)].signature.body \in Int
    BY <2>2 DEF SignedRow
  <2> QED
    BY <1>1, <1>4, <2>3, SignAppend DEF Sign!replayLastEvent
<1>5. CASE \E x \in DOMAIN signedRows : Sign!Deliver(x)
    BY <1>1, <1>5, SignDeliver
<1>6. CASE Sign!Rotate
  <2>1. /\ changes' = changes + 1 /\ wsec' = wsec + 1
        /\ UNCHANGED <<clock, signedRows, verdicts>>
    BY <1>6 DEF Sign!Rotate
  <2>2. wsec' \in Int /\ clock' \in Nat /\ signedRows' \in Seq(SignedRow)
    BY <1>2, <2>1 DEF SignTyped
  <2> QED
    BY <1>1, <2>1, <2>2, SignChange
<1>7. CASE Sign!StopAndStart
  <2>1. PICK d \in Downtimes :
          /\ clock' = clock + d
          /\ signedRows' = [x \in DOMAIN signedRows |->
                IF signedRows[x].attempts > 0 /\ signedRows[x].due <= clock + d THEN signedRows[x]
                ELSE [signedRows[x] EXCEPT !.due = -1]]
    BY <1>7 DEF Sign!StopAndStart, Sign!Never
  <2>2. clock' \in Nat
    BY <1>2, <2>1, ServicesAssumption DEF Sign!WindowAssumption, SignTyped
  <2>3. changes' = changes + 1 /\ wsec' \in Int /\ UNCHANGED verdicts
    BY <1>2, <1>7 DEF Sign!StopAndStart, SignTyped
  <2>4. \A x \in DOMAIN signedRows : signedRows[x] \in SignedRow
    BY <1>2, Elements DEF SignTyped
  <2>5. DOMAIN signedRows' = DOMAIN signedRows
    BY <2>1
  <2>6. \A x \in DOMAIN signedRows :
          /\ signedRows'[x] \in SignedRow /\ signedRows'[x].first = signedRows[x].first
          /\ signedRows'[x].due # -1 => signedRows[x].due # -1
    BY <2>1, <2>4 DEF SignedRow
  <2>7. signedRows' \in Seq(SignedRow)
    <3>1. PICK m \in Nat : m = Len(signedRows) /\ DOMAIN signedRows = 1..m
        BY <1>2, Indices DEF SignTyped
    <3>2. signedRows' \in [1..m -> SignedRow]
        BY <2>1, <2>5, <2>6, <3>1
    <3> QED
        BY <3>1, <3>2
  <2> QED
    BY <1>1, <2>2, <2>3, <2>5, <2>6, <2>7, SignChange
<1>8. CASE UNCHANGED <<setting, signatureVars>> \/ Sign!Rest
  <2>1. UNCHANGED <<signatureVars, part>>
    BY <1>1, <1>8 DEF Sign!Rest, Sign!vars, signatureVars
  <2> QED
    BY <1>1, <2>1 DEF SignInv, SignTyped, SignTimely, Sign!LastTryVerifies, signatureVars
<1> QED
    BY <1>1, <1>3, <1>4, <1>5, <1>6, <1>7, <1>8 DEF Sign!Next

\* However long each try takes, up to what the look-up and the POST may: while the
\* secret is kept and the process lives, what is sent is in time for a verifier with
\* a window of five minutes, the last try included.
THEOREM TriesAreTimely == Spec => []LastTryVerifies
<1>1. Init => SignInv
  <2> SUFFICES ASSUME Init, part = "signatures" PROVE SignInv
    BY DEF SignInv
  <2>1. Sign!Idle
    BY DEF Init
  <2> QED
    BY <2>1 DEF SignInv, SignTyped, Sign!Idle, Sign!LastTryVerifies
<1>2. SignInv => LastTryVerifies
    BY DEF SignInv, LastTryVerifies
<1> QED
    BY <1>1, <1>2, SignKept, PTL DEF Spec

(***************************************************************************)
(* web-business and web-admin: sessions of the portals.                    *)
(***************************************************************************)
WebSession(s) == DOMAIN s = {"of", "who", "roles", "twoFactorVerified"}

\* A verified session of the business portal is one a right code was accepted for; the
\* roles in a session of the back-office are those of its member.
WebEarned(s, portal, codes) ==
    /\ WebSession(s)
    /\ IF portal = "business" THEN s.twoFactorVerified => s.of \in codes
       ELSE s.roles = {} \/ s.roles = RolesOf[s.who]

\* A request, and the answer it gets, carry sessions that were earned.
WebAsked(r, portal, codes) ==
    /\ DOMAIN r = {"op", "arg", "session", "oidc", "served", "out"}
    /\ WebEarned(r.session, portal, codes)
    /\ r.op # "login" /\ r.out.sets => WebEarned(r.out.session, portal, codes)
    /\ r.op = "2fa" => portal = "business"

WebInv ==
    part = "sessions" =>
        /\ WebEarned(webCookie, setting.portal, passed)
        /\ DOMAIN webRequests = WebSlots
        /\ \A s \in WebSlots : webRequests[s] = Web!Free
                              \/ WebAsked(webRequests[s], setting.portal, passed)
        /\ pageShown # Web!Nothing =>
             /\ \E c, d : pageShown = [section |-> c, session |-> d]
             /\ WebEarned(pageShown.session, setting.portal, passed)
             /\ Web!MayShow(pageShown.section, pageShown.session)

\* A step while the portals run is one of them.
LEMMA WebRuns ==
    ASSUME [Next]_vars, part' = "sessions"
    PROVE  part = "sessions" /\ (Web!Next \/ UNCHANGED <<setting, webVars>>)
BY DEF Next, vars

\* What was earned stays so: accepted codes are never forgotten.
LEMMA WebEarnedStays ==
    ASSUME NEW p, NEW some, NEW more, some \subseteq more
    PROVE  /\ \A s : WebEarned(s, p, some) => WebEarned(s, p, more)
           /\ \A r : WebAsked(r, p, some) => WebAsked(r, p, more)
BY DEF WebEarned, WebAsked

\* The session of nobody was earned by nobody.
LEMMA WebNobody == \A p, codes : WebEarned(Web!NoSession, p, codes)
BY DEF WebEarned, WebSession, Web!NoSession

\* A session is new without the second factor.
LEMMA WebNew ==
    ASSUME NEW o, NEW w, NEW r, NEW p, NEW codes, r = {} \/ r = RolesOf[w]
    PROVE  WebEarned([of |-> o, who |-> w, roles |-> r, twoFactorVerified |-> FALSE], p, codes)
BY DEF WebEarned, WebSession

\* A right code is remembered with the session it marks.
LEMMA WebMarked ==
    ASSUME NEW s, NEW codes, WebSession(s)
    PROVE  WebEarned([s EXCEPT !.twoFactorVerified = TRUE], "business", codes \cup {s.of})
<1>1. PICK c : c = [s EXCEPT !.twoFactorVerified = TRUE]
    OBVIOUS
<1>2. DOMAIN c = DOMAIN s /\ c.of = s.of
    BY <1>1 DEF WebSession
<1> QED
    BY <1>1, <1>2 DEF WebEarned, WebSession

\* A request takes the cookie with it.
LEMMA WebSent ==
    ASSUME WebInv, part = "sessions", part' = part, NEW s \in WebSlots, NEW op, NEW arg,
           Web!Send(s, op, arg), op = "2fa" => Web!Business,
           UNCHANGED <<setting, webCookie, passed, pageShown>>
    PROVE  WebInv'
<1>1. webRequests' = [webRequests EXCEPT ![s] = Web!Request(op, arg)]
    BY DEF Web!Send
<1>2. WebAsked(Web!Request(op, arg), setting.portal, passed)
  <2>1. WebEarned(webCookie, setting.portal, passed)
    BY DEF WebInv
  <2> QED
    BY <2>1 DEF WebAsked, Web!Request, Web!Business
<1>3. setting' = setting /\ passed' = passed
    OBVIOUS
<1>4. \A x \in WebSlots : webRequests'[x] = Web!Free \/ WebAsked(webRequests'[x], setting.portal, passed')
    BY <1>1, <1>2, <1>3 DEF WebInv
<1>5. DOMAIN webRequests' = WebSlots
    BY <1>1 DEF WebInv
<1> QED
    BY <1>3, <1>4, <1>5 DEF WebInv, Web!MayShow, Web!Business

\* An answer whose session was earned.
LEMMA WebAnswered ==
    ASSUME WebInv, part = "sessions", part' = part, NEW s \in WebSlots, NEW out,
           webRequests[s] # Web!Free, Web!Answer(s, out),
           UNCHANGED <<setting, webCookie, pageShown>>, passed \subseteq passed',
           webRequests[s].op # "login" /\ out.sets => WebEarned(out.session, setting.portal, passed')
    PROVE  WebInv'
<1>1. webRequests' = [webRequests EXCEPT ![s].served = TRUE, ![s].out = out]
    BY DEF Web!Answer
<1>2. WebAsked(webRequests[s], setting.portal, passed) /\ DOMAIN webRequests = WebSlots
    BY DEF WebInv
<1>3. PICK r : r = [[webRequests[s] EXCEPT !.served = TRUE] EXCEPT !.out = out]
    OBVIOUS
<1>4. /\ webRequests'[s] = r
      /\ DOMAIN r = {"op", "arg", "session", "oidc", "served", "out"}
      /\ r.op = webRequests[s].op /\ r.session = webRequests[s].session /\ r.out = out
      /\ \A x \in WebSlots : x # s => webRequests'[x] = webRequests[x]
    BY <1>1, <1>2, <1>3 DEF WebAsked
<1>5. /\ \A x : WebEarned(x, setting.portal, passed) => WebEarned(x, setting.portal, passed')
      /\ \A x : WebAsked(x, setting.portal, passed) => WebAsked(x, setting.portal, passed')
    BY WebEarnedStays
<1>6. WebAsked(webRequests'[s], setting.portal, passed')
  <2>1. /\ WebEarned(webRequests[s].session, setting.portal, passed')
        /\ webRequests[s].op = "2fa" => setting.portal = "business"
    BY <1>2, <1>5 DEF WebAsked
  <2> QED
    BY <1>4, <2>1 DEF WebAsked
<1>7. \A x \in WebSlots : webRequests'[x] = Web!Free \/ WebAsked(webRequests'[x], setting.portal, passed')
    BY <1>4, <1>5, <1>6 DEF WebInv
<1>8. DOMAIN webRequests' = WebSlots
    BY <1>1, <1>2
<1> QED
    BY <1>5, <1>7, <1>8 DEF WebInv, Web!MayShow, Web!Business

\* The answer to a request sets only a session that was earned.
LEMMA WebServe ==
    ASSUME WebInv, part = "sessions", part' = part, NEW s \in WebSlots, Web!Serve(s)
    PROVE  WebInv'
<1>1. webRequests[s] # Web!Free /\ WebAsked(webRequests[s], setting.portal, passed)
    BY DEF Web!Serve, WebInv
<1>2. WebEarned(webRequests[s].session, setting.portal, passed)
    BY <1>1 DEF WebAsked
<1>3. CASE Web!ServeLogin(s)
    BY <1>1, <1>3, WebAnswered DEF Web!ServeLogin
<1>4. CASE Web!BusinessCallback(s)
  <2>1. PICK out : /\ Web!Answer(s, out)
                   /\ \/ out = Web!SetsNothing
                      \/ out = Web!Sets(Web!NewSession(webRequests[s].session,
                                            webRequests[s].arg.state, webRequests[s].arg.who))
    BY <1>4 DEF Web!BusinessCallback
  <2>2. out.sets => WebEarned(out.session, setting.portal, passed')
    BY <2>1, WebNew DEF Web!SetsNothing, Web!Sets, Web!NewSession
  <2> QED
    BY <1>1, <1>4, <2>1, <2>2, WebAnswered DEF Web!BusinessCallback
<1>5. CASE Web!AdminCallback(s)
  <2>1. PICK out : /\ Web!Answer(s, out)
                   /\ \/ out = Web!SetsNothing
                      \/ \E st, w : out = Web!Sets([of |-> st, who |-> w,
                                roles |-> RolesOf[w], twoFactorVerified |-> FALSE])
    BY <1>5 DEF Web!AdminCallback
  <2>2. out.sets => WebEarned(out.session, setting.portal, passed')
    BY <2>1, WebNew DEF Web!SetsNothing, Web!Sets
  <2> QED
    BY <1>1, <1>5, <2>1, <2>2, WebAnswered DEF Web!AdminCallback
<1>6. CASE Web!ServeCode(s)
  <2>1. PICK out : /\ Web!Answer(s, out)
                   /\ \/ out = Web!SetsNothing
                      \/ /\ passed' = passed \cup {webRequests[s].session.of}
                         /\ out = Web!Sets([webRequests[s].session EXCEPT !.twoFactorVerified = TRUE])
    BY <1>6 DEF Web!ServeCode
  <2>2. passed \subseteq passed'
    BY <1>6 DEF Web!ServeCode
  <2>3. setting.portal = "business" /\ setting' = setting
    BY <1>1, <1>6 DEF Web!ServeCode, WebAsked
  <2>4. WebSession(webRequests[s].session)
    BY <1>2 DEF WebEarned
  <2>5. PICK c : c = [webRequests[s].session EXCEPT !.twoFactorVerified = TRUE]
    OBVIOUS
  <2>6. WebEarned(c, "business", passed \cup {webRequests[s].session.of})
    BY <2>4, <2>5, WebMarked
  <2>7. out.sets => WebEarned(out.session, setting.portal, passed')
    <3>1. CASE out = Web!SetsNothing
        BY <3>1 DEF Web!SetsNothing
    <3>2. CASE passed' = passed \cup {webRequests[s].session.of} /\ out = Web!Sets(c)
      <4>1. out.session = c
        BY <3>2 DEF Web!Sets
      <4> QED
        BY <2>3, <2>6, <3>2, <4>1
    <3> QED
        BY <2>1, <2>5, <3>1, <3>2
  <2> QED
    BY <1>1, <1>6, <2>1, <2>2, <2>7, WebAnswered DEF Web!ServeCode
<1>7. CASE Web!ServeLogout(s)
  <2>1. PICK out \in {Web!Sets(Web!NoSession), Web!SetsNothing} : Web!Answer(s, out)
    BY <1>7 DEF Web!ServeLogout
  <2>2. UNCHANGED <<setting, webCookie, pageShown, passed>>
    BY <1>7 DEF Web!ServeLogout
  <2>3. WebEarned(Web!NoSession, setting.portal, passed')
    BY <2>2, WebNobody, WebEarnedStays
  <2>4. out.sets => WebEarned(out.session, setting.portal, passed')
    BY <2>1, <2>3 DEF Web!SetsNothing, Web!Sets
  <2> QED
    BY <1>1, <2>1, <2>2, <2>4, WebAnswered
<1> QED
    BY <1>3, <1>4, <1>5, <1>6, <1>7 DEF Web!Serve

\* The browser has a new cookie, or the was one; what it asked for may be done.
LEMMA WebCookieChanges ==
    ASSUME WebInv, part = "sessions", part' = part, WebEarned(webCookie', setting.portal, passed),
           UNCHANGED <<setting, passed, pageShown>>, DOMAIN webRequests' = WebSlots,
           \A s \in WebSlots : webRequests'[s] \in {Web!Free, webRequests[s]}
    PROVE  WebInv'
<1>1. /\ \A x : WebEarned(x, setting.portal, passed) => WebEarned(x, setting.portal, passed')
      /\ \A x : WebAsked(x, setting.portal, passed) => WebAsked(x, setting.portal, passed')
    BY WebEarnedStays
<1>2. \A s \in WebSlots : webRequests'[s] = Web!Free \/ WebAsked(webRequests'[s], setting.portal, passed')
    BY <1>1 DEF WebInv
<1> QED
    BY <1>1, <1>2 DEF WebInv, Web!MayShow, Web!Business

\* The cookie an answer brings was earned, the page it shows allowed.
LEMMA WebReceive ==
    ASSUME WebInv, part = "sessions", part' = part, NEW s \in WebSlots, Web!Receive(s)
    PROVE  WebInv'
<1>1. WebAsked(webRequests[s], setting.portal, passed) /\ DOMAIN webRequests = WebSlots /\ WebEarned(webCookie, setting.portal, passed)
    BY DEF WebInv, Web!Receive
<1>2. WebEarned(webCookie', setting.portal, passed)
    BY <1>1 DEF Web!Receive, WebAsked
<1>3. webRequests' = [webRequests EXCEPT ![s] = Web!Free]
    BY DEF Web!Receive
<1>4. DOMAIN webRequests' = WebSlots
      /\ \A x \in WebSlots : webRequests'[x] \in {Web!Free, webRequests[x]}
    BY <1>1, <1>3
<1>5. UNCHANGED <<setting, passed, pageShown>>
    BY DEF Web!Receive
<1> QED
    BY <1>2, <1>4, <1>5, WebCookieChanges

\* Every step of a browser or portal keeps the invariant.
LEMMA WebKept == WebInv /\ [Next]_vars => WebInv'
<1> SUFFICES ASSUME WebInv, [Next]_vars, part' = "sessions" PROVE WebInv'
    BY DEF WebInv
<1>1. part = "sessions" /\ part' = part /\ (Web!Next \/ UNCHANGED <<setting, webVars>>)
    BY WebRuns
<1>2. ASSUME NEW s \in WebSlots,
             Web!SignIn(s) \/ Web!Logout(s) \/ (\E code \in Web!Codes : Web!SubmitCode(s, code))
               \/ (\E n \in atKeycloak, m \in Members : Web!Authenticate(s, n, m))
      PROVE  WebInv'
  <2>1. CASE Web!SignIn(s)
    BY <1>1, <2>1, WebSent DEF Web!SignIn
  <2>2. CASE Web!Logout(s)
    BY <1>1, <2>2, WebSent DEF Web!Logout
  <2>3. ASSUME NEW code \in Web!Codes, Web!SubmitCode(s, code) PROVE WebInv'
    BY <1>1, <2>3, WebSent DEF Web!SubmitCode
  <2>4. ASSUME NEW n \in atKeycloak, NEW m \in Members, Web!Authenticate(s, n, m) PROVE WebInv'
    <3>1. Web!Send(s, "callback", [state |-> n, who |-> m])
          /\ UNCHANGED <<setting, webCookie, passed, pageShown>>
        BY <2>4 DEF Web!Authenticate
    <3> QED
        BY <1>1, <3>1, WebSent
  <2> QED
    BY <1>2, <2>1, <2>2, <2>3, <2>4
<1>3. ASSUME NEW s \in WebSlots, Web!Serve(s) \/ Web!Receive(s)
      PROVE  WebInv'
    BY <1>1, <1>3, WebServe, WebReceive
<1>4. ASSUME NEW c \in Web!Sections, Web!Visit(c)
      PROVE  WebInv'
  <2>1. /\ UNCHANGED <<setting, webCookie, webRequests, passed>>
        /\ \/ pageShown' = Web!Nothing
           \/ Web!MayShow(c, webCookie) /\ pageShown' = [section |-> c, session |-> webCookie]
    BY <1>4 DEF Web!Visit
  <2>2. /\ \A x : WebEarned(x, setting.portal, passed) => WebEarned(x, setting.portal, passed')
      /\ \A x : WebAsked(x, setting.portal, passed) => WebAsked(x, setting.portal, passed')
    BY <2>1, WebEarnedStays
  <2>3. pageShown' # Web!Nothing =>
             /\ \E x, d : pageShown' = [section |-> x, session |-> d]
             /\ WebEarned(pageShown'.session, setting.portal, passed')
             /\ Web!MayShow(pageShown.section, pageShown.session)'
    BY <1>1, <2>1, <2>2 DEF WebInv, Web!MayShow, Web!Business
  <2> QED
    BY <1>1, <2>1, <2>2, <2>3 DEF WebInv
<1>5. CASE Web!Expires
    BY <1>1, <1>5, WebNobody, WebCookieChanges DEF Web!Expires, WebInv
<1>6. CASE UNCHANGED <<setting, webVars>> \/ Web!Rest
    BY <1>1, <1>6, WebCookieChanges DEF Web!Rest, Web!vars, webVars, WebInv
<1> QED
    BY <1>1, <1>2, <1>3, <1>4, <1>5, <1>6 DEF Web!Next

\* Whatever sign-ins, codes, answers and clicks overlap: the session of a sign-in sees a
\* page of the business portal only after a right code accepted with its own cookie, a
\* cookie no sign-in made only after one accepted with none, and no member sees a
\* section of the back-office without a role for it.
THEOREM PagesAreAllowed == Spec => []ShownIsAllowed
<1>1. Init => WebInv
  <2> SUFFICES ASSUME Init, part = "sessions" PROVE WebInv
    BY DEF WebInv
  <2>1. Web!Idle
    BY DEF Init
  <2> QED
    BY <2>1, WebNobody DEF WebInv, Web!Idle
<1>2. WebInv => ShownIsAllowed
  <2> SUFFICES ASSUME WebInv, part = "sessions", pageShown # Web!Nothing
               PROVE  Web!ShownIsAllowed
    BY DEF ShownIsAllowed, Web!ShownIsAllowed
  <2>1. WebEarned(pageShown.session, setting.portal, passed) /\ Web!MayShow(pageShown.section, pageShown.session)
    BY DEF WebInv
  <2>2. CASE Web!Business
    BY <2>1, <2>2 DEF WebEarned, Web!MayShow, Web!ShownIsAllowed, Web!Business
  <2>3. CASE ~ Web!Business
    <3>1. pageShown.section = "overview"
          \/ Web!SECTION_ROLES[pageShown.section] \cap pageShown.session.roles # {}
        BY <2>1, <2>3 DEF Web!MayShow, Web!canAccessSection
    <3>2. pageShown.session.roles = {} \/ pageShown.session.roles = RolesOf[pageShown.session.who]
        BY <2>1, <2>3 DEF WebEarned, Web!Business
    <3> QED
        BY <2>3, <3>1, <3>2 DEF Web!ShownIsAllowed
  <2> QED
    BY <2>2, <2>3
<1> QED
    BY <1>1, <1>2, WebKept, PTL DEF Spec
(***************************************************************************)
(* kyc-service: decisions, their audit entries and their events.           *)
(***************************************************************************)
KycOps == {"SUBMIT", "APPROVE", "REJECT"}
KycTask == [file : KycFiles, op : KycOps, next : {"find", "write", "publish", "notify"}]

KycTyped ==
    /\ file \in [KycFiles -> {"NONE", "PENDING", "APPROVED", "REJECTED"}]
    /\ history \in [KycFiles -> Seq(KycOps)] /\ kycEvents \in [KycFiles -> Seq(KycOps)]
    /\ desk \in [Clerks -> KycTask \cup {KYC!Free}]
    /\ IsFiniteSet({c \in Clerks : desk[c] # KYC!Free})

\* The decisions written about a file.
KycDecisions(f) == KYC!Count(history[f], "APPROVE") + KYC!Count(history[f], "REJECT")

\* Without overlap a file is at one clerk's desk, who finds it as he left it; what is
\* pending is not decided.
KycInTurn ==
    \/ KYC!Fault("overlap")
    \/ /\ \A c, d \in Clerks : c # d /\ desk[c] # KYC!Free => desk[d].file # desk[c].file
       /\ \A c \in Clerks :
            /\ desk[c].next = "find" => desk[c].op # "SUBMIT"
            /\ desk[c].next = "write" =>
                 file[desk[c].file] = IF desk[c].op = "SUBMIT" THEN "NONE" ELSE "PENDING"
       /\ \A f \in KycFiles :
            /\ KycDecisions(f) <= 1
            /\ file[f] \in {"NONE", "PENDING"} => KycDecisions(f) = 0

\* Who is about to publish what was written about a file.
KycSays(d, f, op) == d.file = f /\ d.op = op /\ d.next = "publish"
KycSaying(f, op) == {c \in Clerks : KycSays(desk[c], f, op)}

KycSteady == {"dies", "broker drops"} \cap setting.faults = {}

\* What is heard and what is about to be said was written; nothing else was, while the
\* broker and the handlers stay.
KycHeard ==
    /\ \A f \in KycFiles, op \in KycOps :
         /\ KYC!Said(f, op) + Cardinality(KycSaying(f, op)) <= KYC!Written(f, op)
         /\ KycSteady => KYC!Said(f, op) + Cardinality(KycSaying(f, op)) = KYC!Written(f, op)
    /\ KycSteady =>
         /\ channel \in {"none", "open"}
         /\ \A f \in KycFiles : KYC!Written(f, "REJECT") > 0 =>
              \/ f \in notices
              \/ \E c \in Clerks : /\ desk[c].file = f /\ desk[c].op = "REJECT"
                                   /\ desk[c].next \in {"publish", "notify"}

KycInv == part = "kyc" => KycTyped /\ KycInTurn /\ KycHeard

\* A step while kyc-service runs is one of it.
LEMMA KycRuns ==
    ASSUME [Next]_vars, part' = "kyc"
    PROVE  part = "kyc" /\ (KYC!Next \/ UNCHANGED <<setting, kycVars>>)
BY DEF Next, vars

\* The cardinality the service counts with is that of the theorems.
LEMMA KycSameSize == \A S : KYC!Cardinality(S) = Cardinality(S)
BY DEF KYC!Cardinality, Cardinality

\* One entry more in a log counts once, for the operation it is of.
LEMMA KycOneMore ==
    ASSUME NEW q \in Seq(KycOps), NEW e \in KycOps
    PROVE  \A op : /\ KYC!Count(q, op) \in Nat
                   /\ KYC!Count(Append(q, e), op) = KYC!Count(q, op) + (IF e = op THEN 1 ELSE 0)
<1> TAKE op
<1> DEFINE C == {n \in DOMAIN q : q[n] = op}
           D == {n \in DOMAIN Append(q, e) : Append(q, e)[n] = op}
<1>1. DOMAIN q = 1..Len(q) /\ Len(q) \in Nat
    BY Indices
<1>2. IsFiniteSet(C) /\ Cardinality(C) \in Nat
  <2>1. C \in SUBSET (1..Len(q)) /\ IsFiniteSet(1..Len(q))
    BY <1>1, FS_Interval
  <2> HIDE DEF C
  <2> QED
    BY <2>1, FS_Subset, FS_CardinalityType
<1>3. /\ Len(q) + 1 \notin C
      /\ D = IF e = op THEN C \cup {Len(q) + 1} ELSE C
  <2>1. /\ DOMAIN Append(q, e) = 1..(Len(q) + 1)
        /\ Append(q, e)[Len(q) + 1] = e
        /\ \A n \in 1..Len(q) : Append(q, e)[n] = q[n]
    BY Appended
  <2>2. Len(q) + 1 \notin C /\ Len(q) + 1 \in 1..(Len(q) + 1)
        /\ \A n \in 1..(Len(q) + 1) : n \in 1..Len(q) \/ n = Len(q) + 1
    BY <1>1
  <2>3. \A n : n \in D <=> n \in C \/ (n = Len(q) + 1 /\ e = op)
    BY <1>1, <2>1, <2>2
  <2> HIDE DEF C, D
  <2> QED
    BY <2>2, <2>3
<1>4. Cardinality(D) = Cardinality(C) + (IF e = op THEN 1 ELSE 0)
  <2> HIDE DEF C, D
  <2>1. CASE e = op
    BY <1>2, <1>3, <2>1, FS_AddElement
  <2>2. CASE e # op
    BY <1>2, <1>3, <2>2
  <2> QED
    BY <2>1, <2>2
<1> QED
    BY <1>2, <1>4, KycSameSize DEF KYC!Count

\* What is counted are numbers.
LEMMA KycFew ==
    ASSUME KycTyped
    PROVE  \A f \in KycFiles : \A op : KYC!Said(f, op) \in Nat /\ KYC!Written(f, op) \in Nat
<1> TAKE f \in KycFiles
<1> TAKE op
<1>1. PICK e \in KycOps : TRUE
    BY DEF KycOps
<1>2. history[f] \in Seq(KycOps) /\ kycEvents[f] \in Seq(KycOps)
    BY DEF KycTyped
<1> QED
    BY <1>1, <1>2, KycOneMore DEF KYC!Said, KYC!Written

\* A clerk turns to another task: who is about to publish changes accordingly.
LEMMA KycTurns ==
    ASSUME KycTyped, NEW c \in Clerks, NEW d \in KycTask \cup {KYC!Free},
           desk' = [desk EXCEPT ![c] = d]
    PROVE  /\ desk' \in [Clerks -> KycTask \cup {KYC!Free}]
           /\ desk'[c] = d /\ \A b \in Clerks : b # c => desk'[b] = desk[b]
           /\ IsFiniteSet({b \in Clerks : desk'[b] # KYC!Free})
           /\ \A f, op :
                /\ IsFiniteSet(KycSaying(f, op)) /\ Cardinality(KycSaying(f, op)) \in Nat
                /\ KycSaying(f, op)' = IF KycSays(d, f, op) THEN KycSaying(f, op) \cup {c}
                                       ELSE KycSaying(f, op) \ {c}
                /\ c \in KycSaying(f, op) <=> KycSays(desk[c], f, op)
<1>1. /\ desk' \in [Clerks -> KycTask \cup {KYC!Free}]
      /\ desk'[c] = d /\ \A b \in Clerks : b # c => desk'[b] = desk[b]
    BY DEF KycTyped
<1>2. IsFiniteSet({b \in Clerks : desk'[b] # KYC!Free})
  <2>1. {b \in Clerks : desk'[b] # KYC!Free} \subseteq {b \in Clerks : desk[b] # KYC!Free} \cup {c}
    BY <1>1
  <2> QED
    BY <2>1, FS_AddElement, FS_Subset DEF KycTyped
<1>3. ASSUME NEW f, NEW op
      PROVE  /\ IsFiniteSet(KycSaying(f, op)) /\ Cardinality(KycSaying(f, op)) \in Nat
             /\ KycSaying(f, op)' = IF KycSays(d, f, op) THEN KycSaying(f, op) \cup {c}
                                    ELSE KycSaying(f, op) \ {c}
             /\ c \in KycSaying(f, op) <=> KycSays(desk[c], f, op)
  <2>1. KycSaying(f, op) \subseteq {b \in Clerks : desk[b] # KYC!Free}
    BY DEF KycSaying, KycSays, KYC!Free
  <2>2. IsFiniteSet(KycSaying(f, op)) /\ Cardinality(KycSaying(f, op)) \in Nat
    BY <2>1, FS_Subset, FS_CardinalityType DEF KycTyped
  <2>3. KycSaying(f, op)' = {b \in Clerks : KycSays(desk'[b], f, op)}
    BY DEF KycSaying, KycSays
  <2> QED
    BY <1>1, <2>2, <2>3 DEF KycSaying
<1> QED
    BY <1>1, <1>2, <1>3

\* A turn of a clerk who neither publishes nor has something to publish next.
LEMMA KycTurnsSilent ==
    ASSUME KycTyped, KycHeard, NEW c \in Clerks, NEW d \in KycTask \cup {KYC!Free},
           desk' = [desk EXCEPT ![c] = d], d.next # "publish",
           desk[c].next \notin {"publish", "notify"},
           UNCHANGED <<setting, channel, history, kycEvents, notices>>
    PROVE  KycHeard'
<1>1. ASSUME NEW f, NEW op PROVE KycSaying(f, op)' = KycSaying(f, op)
  <2>1. ~ KycSays(d, f, op) /\ ~ KycSays(desk[c], f, op)
    BY DEF KycSays
  <2>2. /\ KycSaying(f, op)' = IF KycSays(d, f, op) THEN KycSaying(f, op) \cup {c}
                              ELSE KycSaying(f, op) \ {c}
        /\ c \in KycSaying(f, op) <=> KycSays(desk[c], f, op)
    BY KycTurns
  <2> QED
    BY <2>1, <2>2
<1>2. \A b \in Clerks : desk[b].next \in {"publish", "notify"} => desk'[b] = desk[b]
    BY KycTurns
<1>3. \A f, op : KYC!Said(f, op)' = KYC!Said(f, op) /\ KYC!Written(f, op)' = KYC!Written(f, op)
    BY DEF KYC!Said, KYC!Written, KYC!Count
<1>4. \A f \in KycFiles, op \in KycOps :
        /\ (KYC!Said(f, op) + Cardinality(KycSaying(f, op)) <= KYC!Written(f, op))'
        /\ KycSteady => (KYC!Said(f, op) + Cardinality(KycSaying(f, op)) = KYC!Written(f, op))'
    BY <1>1, <1>3 DEF KycHeard
<1>5. ASSUME KycSteady, NEW f \in KycFiles, KYC!Written(f, "REJECT")' > 0
      PROVE  \/ f \in notices'
             \/ \E b \in Clerks : /\ desk'[b].file = f /\ desk'[b].op = "REJECT"
                                  /\ desk'[b].next \in {"publish", "notify"}
    BY <1>2, <1>3, <1>5 DEF KycHeard
<1>6. KycSteady' = KycSteady /\ (KycSteady => channel' \in {"none", "open"})
    BY DEF KycHeard, KycSteady
<1> QED
    BY <1>4, <1>5, <1>6 DEF KycHeard

\* A clerk turns to a task of his own, nobody else's; the files stay as they are.
LEMMA KycTurnsInTurn ==
    ASSUME KycTyped, KycInTurn, NEW c \in Clerks, NEW d \in KycTask \cup {KYC!Free},
           desk' = [desk EXCEPT ![c] = d], UNCHANGED <<setting, file, history>>,
           \/ KYC!Fault("overlap")
           \/ /\ d # KYC!Free => \A b \in Clerks : b # c => desk[b].file # d.file
              /\ d.next = "find" => d.op # "SUBMIT"
              /\ d.next = "write" => file[d.file] = IF d.op = "SUBMIT" THEN "NONE" ELSE "PENDING"
    PROVE  KycInTurn'
<1>1. KYC!Fault("overlap")' = KYC!Fault("overlap")
    BY DEF KYC!Fault
<1>2. CASE KYC!Fault("overlap")
    BY <1>1, <1>2 DEF KycInTurn
<1>3. CASE ~ KYC!Fault("overlap")
  <2>1. desk'[c] = d /\ \A b \in Clerks : b # c => desk'[b] = desk[b]
    BY KycTurns
  <2>2. \A a, b \in Clerks : a # b /\ desk'[a] # KYC!Free => desk'[b].file # desk'[a].file
    <3>1. ASSUME NEW b \in Clerks, b # c PROVE desk[b].file = d.file => desk[b] = KYC!Free /\ d = KYC!Free
      <4>1. desk[b] # KYC!Free => desk[b].file \in KycFiles
        BY DEF KycTyped, KycTask
      <4>2. KYC!Free.file = NoFile /\ NoFile \notin KycFiles
        BY ServicesAssumption DEF KYC!KycAssumption, KYC!Free
      <4> QED
        BY <1>3, <3>1, <4>1, <4>2
    <3> QED
        BY <1>3, <2>1, <3>1 DEF KycInTurn
  <2>3. \A b \in Clerks :
          /\ desk'[b].next = "find" => desk'[b].op # "SUBMIT"
          /\ desk'[b].next = "write" =>
               file'[desk'[b].file] = IF desk'[b].op = "SUBMIT" THEN "NONE" ELSE "PENDING"
    BY <1>3, <2>1 DEF KycInTurn
  <2>4. \A f \in KycFiles : /\ KycDecisions(f)' <= 1
                            /\ file'[f] \in {"NONE", "PENDING"} => KycDecisions(f)' = 0
    BY <1>3 DEF KycInTurn, KycDecisions, KYC!Count
  <2> QED
    BY <1>1, <1>3, <2>2, <2>3, <2>4 DEF KycInTurn
<1> QED
    BY <1>2, <1>3

\* The task a clerk works on.
LEMMA KycAtWork ==
    ASSUME KycTyped, NEW c \in Clerks, desk[c].next # "idle"
    PROVE  desk[c] \in KycTask /\ desk[c].file \in KycFiles /\ desk[c].op \in KycOps
           /\ desk[c] # KYC!Free
BY DEF KycTyped, KycTask, KYC!Free

\* The next await of a task.
LEMMA KycNextAwait ==
    ASSUME KycTyped, NEW c \in Clerks, desk[c] \in KycTask,
           NEW n \in {"write", "publish", "notify"}
    PROVE  \E d \in KycTask : /\ d.file = desk[c].file /\ d.op = desk[c].op /\ d.next = n
                              /\ [desk EXCEPT ![c].next = n] = [desk EXCEPT ![c] = d]
                              /\ d # KYC!Free
<1>1. PICK d \in KycTask : d = [desk[c] EXCEPT !.next = n]
    BY DEF KycTask
<1>2. d.file = desk[c].file /\ d.op = desk[c].op /\ d.next = n /\ d # KYC!Free
    BY <1>1 DEF KycTask, KYC!Free
<1>3. [desk EXCEPT ![c].next = n] = [desk EXCEPT ![c] = d]
    BY <1>1
<1> QED
    BY <1>2, <1>3

\* Nobody else has the file of a clerk at work, where nothing overlaps.
LEMMA KycMine ==
    ASSUME KycInTurn, ~ KYC!Fault("overlap"), NEW c \in Clerks, desk[c] # KYC!Free
    PROVE  \A b \in Clerks : b # c => desk[b].file # desk[c].file
BY DEF KycInTurn

\* A handler reads the record.
LEMMA KycFind ==
    ASSUME KycTyped, KycInTurn, KycHeard, NEW c \in Clerks, KYC!Find(c)
    PROVE  KycTyped' /\ KycInTurn' /\ KycHeard'
<1>1. desk[c] \in KycTask /\ desk[c] # KYC!Free /\ desk[c].next = "find"
    BY KycAtWork DEF KYC!Find
<1>2. UNCHANGED <<setting, file, history, channel, kycEvents, notices>>
    BY DEF KYC!Find
<1>3. PICK d \in KycTask \cup {KYC!Free} :
        /\ desk' = [desk EXCEPT ![c] = d]
        /\ \/ d = KYC!Free
           \/ /\ file[desk[c].file] = "PENDING"
              /\ d.file = desk[c].file /\ d.op = desk[c].op /\ d.next = "write"
  <2>1. CASE file[desk[c].file] = "PENDING"
    <3>1. desk' = [desk EXCEPT ![c].next = "write"]
        BY <2>1 DEF KYC!Find, KYC!getPending, KYC!Onwards, KYC!NextAwait, KYC!Goto
    <3> QED
        BY SMTT(20), ZenonT(20), <1>1, <2>1, <3>1, KycNextAwait
  <2>2. CASE file[desk[c].file] # "PENDING"
    BY <2>2 DEF KYC!Find, KYC!getPending, KYC!End
  <2> QED
    BY <2>1, <2>2
<1>4. KYC!Free.next = "idle" /\ KYC!Free.file = NoFile
    BY DEF KYC!Free
<1>5. KycHeard'
    BY <1>1, <1>2, <1>3, <1>4, KycTurnsSilent
<1>6. KycInTurn'
  <2>1. CASE KYC!Fault("overlap")
    BY <1>2, <1>3, <2>1, KycTurnsInTurn
  <2>2. CASE ~ KYC!Fault("overlap")
    <3>1. desk[c].op # "SUBMIT"
        BY <1>1, <2>2 DEF KycInTurn
    <3>2. d # KYC!Free => \A b \in Clerks : b # c => desk[b].file # d.file
        BY <1>1, <1>3, <2>2, KycMine
    <3> QED
        BY <1>2, <1>3, <1>4, <3>1, <3>2, KycTurnsInTurn
  <2> QED
    BY <2>1, <2>2
<1>7. KycTyped'
    BY <1>2, <1>3, KycTurns DEF KycTyped
<1> QED
    BY <1>5, <1>6, <1>7

\* A request arrives.
LEMMA KycReceive ==
    ASSUME KycTyped, KycInTurn, KycHeard, NEW c \in Clerks, NEW f \in KycFiles, NEW op \in KycOps,
           KYC!Receive(c, f, op)
    PROVE  KycTyped' /\ KycInTurn' /\ KycHeard'
<1>1. desk[c] = KYC!Free /\ UNCHANGED <<setting, file, history, channel, kycEvents, notices>>
      /\ ((op = "SUBMIT") <=> (file[f] = "NONE"))
      /\ \A b \in Clerks : desk[b].file = f => KYC!Fault("overlap") /\ op # "SUBMIT"
    BY DEF KYC!Receive
<1>2. PICK d \in KycTask : /\ desk' = [desk EXCEPT ![c] = d]
                           /\ d.file = f /\ d.op = op
                           /\ d.next = IF op = "SUBMIT" THEN "write" ELSE "find"
  <2>1. PICK n \in {"write", "find"} : n = IF op = "SUBMIT" THEN "write" ELSE "find"
    OBVIOUS
  <2>2. desk' = [desk EXCEPT ![c] = [file |-> f, op |-> op, next |-> n]]
    BY <2>1 DEF KYC!Receive
  <2>3. PICK d \in KycTask : d = [file |-> f, op |-> op, next |-> n]
    BY <2>1 DEF KycTask
  <2>4. d.file = f /\ d.op = op /\ d.next = n
    BY <2>3
  <2>5. desk' = [desk EXCEPT ![c] = d]
    BY <2>2, <2>3
  <2> QED
    BY <2>1, <2>4, <2>5
<1>3. KYC!Free.next = "idle"
    BY DEF KYC!Free
<1>4. KycHeard'
    BY <1>1, <1>2, <1>3, KycTurnsSilent
<1>5. KycInTurn'
  <2>1. \/ KYC!Fault("overlap") \/ \A b \in Clerks : desk[b].file # f
    BY <1>1
  <2>2. d.next = "find" => d.op # "SUBMIT"
    BY <1>2
  <2>3. d.next = "write" => file[d.file] = IF d.op = "SUBMIT" THEN "NONE" ELSE "PENDING"
    BY <1>1, <1>2
  <2>4. UNCHANGED <<setting, file, history>>
    BY <1>1
  <2>5. d \in KycTask \cup {KYC!Free} /\ desk' = [desk EXCEPT ![c] = d]
    BY <1>2
  <2>6. \/ KYC!Fault("overlap") \/ \A b \in Clerks : b # c => desk[b].file # d.file
    BY <1>2, <2>1
  <2> QED
    BY <2>2, <2>3, <2>4, <2>5, <2>6, KycTurnsInTurn
<1>6. KycTyped'
    BY <1>1, <1>2, KycTurns DEF KycTyped
<1> QED
    BY <1>4, <1>5, <1>6

\* Who decided, and what of it was written: a decision is written, and its
\* announcement is due.
LEMMA KycWrite ==
    ASSUME KycTyped, KycInTurn, KycHeard, NEW c \in Clerks, KYC!Write(c)
    PROVE  KycTyped' /\ KycInTurn' /\ KycHeard'
<1>1. desk[c] \in KycTask /\ desk[c] # KYC!Free /\ desk[c].next = "write"
    BY KycAtWork DEF KYC!Write
<1>2. PICK f \in KycFiles, op \in KycOps : desk[c].file = f /\ desk[c].op = op
    BY <1>1 DEF KycTask
<1>3. PICK d \in KycTask : /\ d.file = f /\ d.op = op /\ d.next = "publish" /\ d # KYC!Free
                           /\ desk' = [desk EXCEPT ![c] = d]
  <2>1. desk' = [desk EXCEPT ![c].next = "publish"]
    BY DEF KYC!Write, KYC!Onwards, KYC!NextAwait, KYC!Goto
  <2> QED
    BY <1>1, <1>2, <2>1, KycNextAwait
<1>4. /\ file' = [file EXCEPT ![f] = KYC!StatusAfter[op]]
      /\ history' = [history EXCEPT ![f] = Append(history[f], op)]
      /\ UNCHANGED <<setting, channel, kycEvents, notices>>
    BY <1>2 DEF KYC!Write
<1>5. file \in [KycFiles -> {"NONE", "PENDING", "APPROVED", "REJECTED"}]
      /\ history[f] \in Seq(KycOps) /\ history \in [KycFiles -> Seq(KycOps)]
    BY DEF KycTyped
<1>6. /\ history'[f] = Append(history[f], op) /\ \A g \in KycFiles : g # f => history'[g] = history[g]
      /\ file'[f] = KYC!StatusAfter[op] /\ \A g \in KycFiles : g # f => file'[g] = file[g]
    BY <1>4, <1>5
<1>7. KycTyped'
  <2>1. Append(history[f], op) \in Seq(KycOps)
    BY <1>5
  <2>2. KYC!StatusAfter[op] \in {"PENDING", "APPROVED", "REJECTED"}
    BY DEF KycOps, KYC!StatusAfter
  <2>3. history' \in [KycFiles -> Seq(KycOps)]
    BY <1>4, <1>5, <2>1
  <2>4. file' \in [KycFiles -> {"NONE", "PENDING", "APPROVED", "REJECTED"}]
    BY <1>4, <1>5, <2>2
  <2> QED
    BY <1>3, <1>4, <2>3, <2>4, KycTurns DEF KycTyped
<1>8. \A g \in KycFiles : \A o :
        /\ KYC!Count(history[g], o) \in Nat
        /\ KYC!Count(history'[g], o) = KYC!Count(history[g], o) + (IF g = f /\ o = op THEN 1 ELSE 0)
  <2> TAKE g \in KycFiles
  <2> TAKE o
  <2>1. KYC!Count(history[g], o) \in Nat
    BY KycFew DEF KYC!Written
  <2>2. CASE g = f
    <3>1. KYC!Count(Append(history[f], op), o)
            = KYC!Count(history[f], o) + (IF op = o THEN 1 ELSE 0)
        BY <1>5, KycOneMore
    <3> QED
        BY <1>6, <2>1, <2>2, <3>1
  <2>3. CASE g # f
    BY <1>6, <2>1, <2>3
  <2> QED
    BY <2>1, <2>2, <2>3
<1>9. /\ desk'[c] = d /\ \A b \in Clerks : b # c => desk'[b] = desk[b]
      /\ \A g, o : /\ IsFiniteSet(KycSaying(g, o)) /\ Cardinality(KycSaying(g, o)) \in Nat
                   /\ KycSaying(g, o)' = IF KycSays(d, g, o) THEN KycSaying(g, o) \cup {c}
                                         ELSE KycSaying(g, o) \ {c}
                   /\ c \in KycSaying(g, o) <=> KycSays(desk[c], g, o)
    BY <1>3, KycTurns
<1>10. KycInTurn'
  <2>1. KYC!Fault("overlap")' = KYC!Fault("overlap")
    BY <1>4 DEF KYC!Fault
  <2>2. SUFFICES ASSUME ~ KYC!Fault("overlap") PROVE KycInTurn'
    BY <2>1 DEF KycInTurn
  <2>3. \A b \in Clerks : b # c => desk[b].file # f
    BY <1>1, <1>2, <2>2, KycMine
  <2>4. \A a, b \in Clerks : a # b /\ desk'[a] # KYC!Free => desk'[b].file # desk'[a].file
    BY <1>3, <1>9, <2>2, <2>3 DEF KycInTurn
  <2>5. ASSUME NEW b \in Clerks
        PROVE  /\ desk'[b].next = "find" => desk'[b].op # "SUBMIT"
               /\ desk'[b].next = "write" =>
                    file'[desk'[b].file] = IF desk'[b].op = "SUBMIT" THEN "NONE" ELSE "PENDING"
    <3>1. CASE b = c
        BY <1>3, <1>9, <3>1
    <3>2. CASE b # c
      <4>1. desk'[b] = desk[b] /\ desk[b].file # f
        BY <1>9, <2>3, <3>2
      <4>2. desk[b].next = "write" => desk[b].file \in KycFiles
        BY KycAtWork
      <4>3. desk[b].next = "write" => file'[desk[b].file] = file[desk[b].file]
        BY <1>6, <4>1, <4>2
      <4> QED
        BY <2>2, <4>1, <4>3 DEF KycInTurn
    <3> QED
        BY <3>1, <3>2
  <2>6. ASSUME NEW g \in KycFiles
        PROVE  /\ KycDecisions(g)' <= 1
               /\ file'[g] \in {"NONE", "PENDING"} => KycDecisions(g)' = 0
    <3>1. KycDecisions(g) <= 1 /\ (file[g] \in {"NONE", "PENDING"} => KycDecisions(g) = 0)
        BY <2>2 DEF KycInTurn
    <3>2. /\ KYC!Count(history[g], "APPROVE") \in Nat /\ KYC!Count(history[g], "REJECT") \in Nat
          /\ KYC!Count(history'[g], "APPROVE")
               = KYC!Count(history[g], "APPROVE") + (IF g = f /\ op = "APPROVE" THEN 1 ELSE 0)
          /\ KYC!Count(history'[g], "REJECT")
               = KYC!Count(history[g], "REJECT") + (IF g = f /\ op = "REJECT" THEN 1 ELSE 0)
        BY <1>8
    <3>3. KycDecisions(g)' = KYC!Count(history'[g], "APPROVE") + KYC!Count(history'[g], "REJECT")
        BY DEF KycDecisions, KYC!Count
    <3>4. CASE g # f
        BY <1>6, <3>1, <3>2, <3>3, <3>4 DEF KycDecisions
    <3>5. CASE g = f
      <4>1. file[f] = IF op = "SUBMIT" THEN "NONE" ELSE "PENDING"
        BY <1>1, <1>2, <2>2 DEF KycInTurn
      <4>2. KycDecisions(g) = 0
        BY <3>1, <3>5, <4>1
      <4>3. file'[g] = IF op = "SUBMIT" THEN "PENDING" ELSE IF op = "APPROVE" THEN "APPROVED"
                       ELSE "REJECTED"
        BY <1>6, <3>5 DEF KYC!StatusAfter, KycOps
      <4> QED
        BY <3>2, <3>3, <3>5, <4>2, <4>3 DEF KycDecisions
    <3> QED
        BY <3>4, <3>5
  <2> QED
    BY <2>1, <2>4, <2>5, <2>6 DEF KycInTurn
<1>11. KycHeard'
  <2>1. KycSteady' = KycSteady /\ (KycSteady => channel' \in {"none", "open"})
    BY <1>4 DEF KycHeard, KycSteady
  <2>2. ASSUME NEW g \in KycFiles, NEW o \in KycOps
        PROVE  /\ (KYC!Said(g, o) + Cardinality(KycSaying(g, o)) <= KYC!Written(g, o))'
               /\ KycSteady => (KYC!Said(g, o) + Cardinality(KycSaying(g, o)) = KYC!Written(g, o))'
    <3>1. /\ KYC!Said(g, o)' = KYC!Said(g, o) /\ KYC!Said(g, o) \in Nat /\ KYC!Written(g, o) \in Nat
          /\ KYC!Written(g, o)' = KYC!Written(g, o) + (IF g = f /\ o = op THEN 1 ELSE 0)
        BY SMTT(20), ZenonT(20), <1>4, <1>8, KycFew DEF KYC!Said, KYC!Written, KYC!Count
    <3>2. Cardinality(KycSaying(g, o)') = Cardinality(KycSaying(g, o)) + (IF g = f /\ o = op THEN 1 ELSE 0)
          /\ Cardinality(KycSaying(g, o)) \in Nat
      <4>1. KycSays(d, g, o) <=> g = f /\ o = op
        BY <1>3 DEF KycSays
      <4>2. c \notin KycSaying(g, o)
        BY <1>1, <1>9 DEF KycSays
      <4>3. KycSaying(g, o)' = IF KycSays(d, g, o) THEN KycSaying(g, o) \cup {c} ELSE KycSaying(g, o)
        BY <1>9, <4>2
      <4>4. Cardinality(KycSaying(g, o) \cup {c}) = Cardinality(KycSaying(g, o)) + 1
            /\ Cardinality(KycSaying(g, o)) \in Nat
        BY <1>9, <4>2, FS_AddElement
      <4>5. CASE g = f /\ o = op
        BY <4>1, <4>3, <4>4, <4>5
      <4>6. CASE ~ (g = f /\ o = op)
        BY <4>1, <4>3, <4>4, <4>6
      <4> QED
        BY <4>5, <4>6
    <3>3. /\ KYC!Said(g, o) + Cardinality(KycSaying(g, o)) <= KYC!Written(g, o)
          /\ KycSteady => KYC!Said(g, o) + Cardinality(KycSaying(g, o)) = KYC!Written(g, o)
        BY DEF KycHeard
    <3> QED
        BY <3>1, <3>2, <3>3
  <2>3. ASSUME KycSteady, NEW g \in KycFiles, KYC!Written(g, "REJECT")' > 0
        PROVE  \/ g \in notices'
               \/ \E b \in Clerks : /\ desk'[b].file = g /\ desk'[b].op = "REJECT"
                                    /\ desk'[b].next \in {"publish", "notify"}
    <3>1. CASE g = f /\ op = "REJECT"
        BY <1>3, <1>9, <3>1
    <3>2. CASE ~ (g = f /\ op = "REJECT")
      <4>1. KYC!Written(g, "REJECT") > 0
        <5>1. KYC!Written(g, "REJECT")' = KYC!Count(history'[g], "REJECT")
              /\ KYC!Written(g, "REJECT") = KYC!Count(history[g], "REJECT")
            BY DEF KYC!Written, KYC!Count
        <5>2. KYC!Count(history'[g], "REJECT") = KYC!Count(history[g], "REJECT")
            BY <1>8, <3>2
        <5> QED
            BY <2>3, <5>1, <5>2
      <4>2. \/ g \in notices
            \/ \E b \in Clerks : /\ desk[b].file = g /\ desk[b].op = "REJECT"
                                 /\ desk[b].next \in {"publish", "notify"}
        BY <2>3, <4>1 DEF KycHeard
      <4> QED
        BY <1>1, <1>4, <1>9, <4>2
    <3> QED
        BY <3>1, <3>2
  <2> QED
    BY <2>1, <2>2, <2>3 DEF KycHeard
<1> QED
    BY <1>7, <1>10, <1>11

\* A handler publishes, or finds its channel broken.
LEMMA KycPublish ==
    ASSUME KycTyped, KycInTurn, KycHeard, NEW c \in Clerks, KYC!Publish(c)
    PROVE  KycTyped' /\ KycInTurn' /\ KycHeard'
<1>1. desk[c] \in KycTask /\ desk[c] # KYC!Free /\ desk[c].next = "publish"
    BY KycAtWork DEF KYC!Publish
<1>2. PICK f \in KycFiles, op \in KycOps : desk[c].file = f /\ desk[c].op = op
    BY <1>1 DEF KycTask
<1>3. UNCHANGED <<setting, file, history, notices>>
    BY DEF KYC!Publish
<1>4. PICK d \in KycTask \cup {KYC!Free} :
        /\ desk' = [desk EXCEPT ![c] = d] /\ d.next \in {"idle", "notify"}
        /\ d # KYC!Free => d.file = f
        /\ op = "REJECT" => d.file = f /\ d.op = "REJECT" /\ d.next = "notify"
  <2>1. CASE op = "REJECT"
    <3>1. desk' = [desk EXCEPT ![c].next = "notify"]
        BY <1>2, <2>1 DEF KYC!Publish, KYC!Onwards, KYC!NextAwait, KYC!Goto, KYC!Notifies
    <3>2. \E d \in KycTask : /\ d.file = desk[c].file /\ d.op = desk[c].op /\ d.next = "notify"
                             /\ [desk EXCEPT ![c].next = "notify"] = [desk EXCEPT ![c] = d]
        BY <1>1, KycNextAwait
    <3> QED
        BY <1>2, <2>1, <3>1, <3>2
  <2>2. CASE op # "REJECT"
    <3>1. desk' = [desk EXCEPT ![c] = KYC!Free]
        BY <1>2, <2>2 DEF KYC!Publish, KYC!Onwards, KYC!NextAwait, KYC!End, KYC!Notifies
    <3>2. KYC!Free.next = "idle"
        BY DEF KYC!Free
    <3> QED
        BY <2>2, <3>1, <3>2
  <2> QED
    BY <2>1, <2>2
<1>5. \/ kycEvents' = [kycEvents EXCEPT ![f] = Append(kycEvents[f], op)] /\ channel' = "open"
      \/ kycEvents' = kycEvents /\ channel' = channel /\ ~ KycSteady
  <2>1. KYC!Publishing(c, kycEvents' = [kycEvents EXCEPT ![f] = Append(kycEvents[f], op)],
                       kycEvents' = kycEvents)
    BY <1>2 DEF KYC!Publish, KYC!Publishing
  <2> QED
    BY <2>1 DEF KYC!Publishing, KycHeard, KycSteady, KYC!Fault
<1>6. kycEvents \in [KycFiles -> Seq(KycOps)] /\ kycEvents[f] \in Seq(KycOps)
      /\ Append(kycEvents[f], op) \in Seq(KycOps)
    BY DEF KycTyped
<1>7. KycTyped'
  <2>1. kycEvents' \in [KycFiles -> Seq(KycOps)]
    BY <1>5, <1>6
  <2> QED
    BY <1>3, <1>4, <2>1, KycTurns DEF KycTyped
<1>8. KycInTurn'
  <2>1. ~ KYC!Fault("overlap") => \A b \in Clerks : b # c => desk[b].file # f
    BY <1>1, <1>2, KycMine
  <2> QED
    BY <1>3, <1>4, <2>1, KycTurnsInTurn
<1>9. /\ desk'[c] = d /\ \A b \in Clerks : b # c => desk'[b] = desk[b]
      /\ \A g, o : /\ IsFiniteSet(KycSaying(g, o)) /\ Cardinality(KycSaying(g, o)) \in Nat
                   /\ KycSaying(g, o)' = IF KycSays(d, g, o) THEN KycSaying(g, o) \cup {c}
                                         ELSE KycSaying(g, o) \ {c}
                   /\ c \in KycSaying(g, o) <=> KycSays(desk[c], g, o)
    BY <1>4, KycTurns
<1>10. KycHeard'
  <2>1. KycSteady' = KycSteady /\ (KycSteady => channel' \in {"none", "open"})
    BY <1>3, <1>5 DEF KycHeard, KycSteady
  <2>2. ASSUME NEW g \in KycFiles, NEW o \in KycOps
        PROVE  /\ (KYC!Said(g, o) + Cardinality(KycSaying(g, o)) <= KYC!Written(g, o))'
               /\ KycSteady => (KYC!Said(g, o) + Cardinality(KycSaying(g, o)) = KYC!Written(g, o))'
    <3>1. /\ KYC!Written(g, o)' = KYC!Written(g, o)
          /\ KYC!Said(g, o) \in Nat /\ KYC!Written(g, o) \in Nat
        BY <1>3, KycFew DEF KYC!Said, KYC!Written, KYC!Count
    <3>2. KYC!Said(g, o)' = KYC!Count(kycEvents'[g], o) /\ KYC!Said(g, o) = KYC!Count(kycEvents[g], o)
        BY DEF KYC!Said, KYC!Count
    <3>3. /\ Cardinality(KycSaying(g, o)) \in Nat
          /\ Cardinality(KycSaying(g, o)') = Cardinality(KycSaying(g, o)) - (IF g = f /\ o = op THEN 1 ELSE 0)
      <4>1. c \in KycSaying(g, o) <=> g = f /\ o = op
        BY <1>1, <1>2, <1>9 DEF KycSays
      <4>2. ~ KycSays(d, g, o)
        BY <1>4 DEF KycSays
      <4>3. KycSaying(g, o)' = KycSaying(g, o) \ {c}
        BY <1>9, <4>2
      <4>4. /\ Cardinality(KycSaying(g, o)) \in Nat
            /\ Cardinality(KycSaying(g, o) \ {c})
                 = IF c \in KycSaying(g, o) THEN Cardinality(KycSaying(g, o)) - 1
                   ELSE Cardinality(KycSaying(g, o))
        BY <1>9, FS_RemoveElement
      <4> QED
        BY <4>1, <4>3, <4>4
    <3>4. /\ KYC!Said(g, o) + Cardinality(KycSaying(g, o)) <= KYC!Written(g, o)
          /\ KycSteady => KYC!Said(g, o) + Cardinality(KycSaying(g, o)) = KYC!Written(g, o)
        BY DEF KycHeard
    <3>5. CASE kycEvents' = [kycEvents EXCEPT ![f] = Append(kycEvents[f], op)]
      <4>1. KYC!Said(g, o)' = KYC!Said(g, o) + (IF g = f /\ o = op THEN 1 ELSE 0)
        <5>1. g = f => KYC!Count(kycEvents'[g], o) = KYC!Count(kycEvents[g], o) + (IF op = o THEN 1 ELSE 0)
            BY <1>6, <3>5, KycOneMore
        <5>2. g # f => kycEvents'[g] = kycEvents[g]
            BY <1>6, <3>5
        <5> QED
            BY <3>1, <3>2, <5>1, <5>2
      <4> QED
        BY <3>1, <3>3, <3>4, <4>1
    <3>6. CASE kycEvents' = kycEvents /\ ~ KycSteady
      <4>1. KYC!Said(g, o)' = KYC!Said(g, o)
        BY <3>2, <3>6
      <4> QED
        BY <3>1, <3>3, <3>4, <3>6, <4>1
    <3> QED
        BY <1>5, <3>5, <3>6
  <2>3. ASSUME KycSteady, NEW g \in KycFiles, KYC!Written(g, "REJECT")' > 0
        PROVE  \/ g \in notices'
               \/ \E b \in Clerks : /\ desk'[b].file = g /\ desk'[b].op = "REJECT"
                                    /\ desk'[b].next \in {"publish", "notify"}
    <3>1. KYC!Written(g, "REJECT") > 0
        BY <1>3, <2>3 DEF KYC!Written, KYC!Count
    <3>2. \/ g \in notices
          \/ \E b \in Clerks : /\ desk[b].file = g /\ desk[b].op = "REJECT"
                               /\ desk[b].next \in {"publish", "notify"}
        BY <2>3, <3>1 DEF KycHeard
    <3>3. desk[c].file = g /\ desk[c].op = "REJECT" => d.file = g /\ d.op = "REJECT" /\ d.next = "notify"
        BY <1>2, <1>4
    <3> QED
        BY <1>3, <1>9, <3>2, <3>3
  <2> QED
    BY <2>1, <2>2, <2>3 DEF KycHeard
<1> QED
    BY <1>7, <1>8, <1>10

\* A handler tells the client.
LEMMA KycNotify ==
    ASSUME KycTyped, KycInTurn, KycHeard, NEW c \in Clerks, KYC!publishNotification(c)
    PROVE  KycTyped' /\ KycInTurn' /\ KycHeard'
<1>1. desk[c] \in KycTask /\ desk[c].next = "notify"
    BY KycAtWork DEF KYC!publishNotification
<1>2. UNCHANGED <<setting, file, history, kycEvents>> /\ desk' = [desk EXCEPT ![c] = KYC!Free]
    BY DEF KYC!publishNotification, KYC!End
<1>3. \/ notices' = notices \cup {desk[c].file} /\ channel' = "open"
      \/ notices' = notices /\ channel' = channel /\ ~ KycSteady
    BY DEF KYC!publishNotification, KYC!Publishing, KycHeard, KycSteady, KYC!Fault
<1>4. KYC!Free.next = "idle"
    BY DEF KYC!Free
<1>5. KycTyped' /\ KycInTurn'
    BY <1>2, <1>4, KycTurns, KycTurnsInTurn DEF KycTyped
<1>6. /\ \A b \in Clerks : b # c => desk'[b] = desk[b]
      /\ \A g, o : /\ KycSaying(g, o)' = IF KycSays(KYC!Free, g, o) THEN KycSaying(g, o) \cup {c}
                                         ELSE KycSaying(g, o) \ {c}
                   /\ c \in KycSaying(g, o) <=> KycSays(desk[c], g, o)
    BY <1>2, KycTurns
<1>7. ASSUME NEW g, NEW o PROVE KycSaying(g, o)' = KycSaying(g, o)
  <2>1. ~ KycSays(KYC!Free, g, o) /\ ~ KycSays(desk[c], g, o)
    BY <1>1, <1>4 DEF KycSays
  <2>2. /\ KycSaying(g, o)' = IF KycSays(KYC!Free, g, o) THEN KycSaying(g, o) \cup {c}
                              ELSE KycSaying(g, o) \ {c}
        /\ c \in KycSaying(g, o) <=> KycSays(desk[c], g, o)
    BY <1>6
  <2> QED
    BY <2>1, <2>2
<1>8. \A g, o : KYC!Said(g, o)' = KYC!Said(g, o) /\ KYC!Written(g, o)' = KYC!Written(g, o)
    BY <1>2 DEF KYC!Said, KYC!Written, KYC!Count
<1>9. KycSteady' = KycSteady /\ (KycSteady => channel' \in {"none", "open"})
    BY <1>2, <1>3 DEF KycHeard, KycSteady
<1>10. ASSUME KycSteady, NEW g \in KycFiles, KYC!Written(g, "REJECT")' > 0
       PROVE  \/ g \in notices'
              \/ \E b \in Clerks : /\ desk'[b].file = g /\ desk'[b].op = "REJECT"
                                   /\ desk'[b].next \in {"publish", "notify"}
    BY <1>3, <1>6, <1>8, <1>10 DEF KycHeard
<1>11. \A g \in KycFiles, o \in KycOps :
         /\ (KYC!Said(g, o) + Cardinality(KycSaying(g, o)) <= KYC!Written(g, o))'
         /\ KycSteady => (KYC!Said(g, o) + Cardinality(KycSaying(g, o)) = KYC!Written(g, o))'
    BY <1>7, <1>8 DEF KycHeard
<1>12. KycHeard'
    BY <1>9, <1>10, <1>11 DEF KycHeard
<1> QED
    BY <1>5, <1>12

\* kyc-service starts anew: what was about to be said is not.
LEMMA KycRestart ==
    ASSUME KycTyped, KycInTurn, KycHeard, KYC!Restart
    PROVE  KycTyped' /\ KycInTurn' /\ KycHeard'
<1>1. /\ desk' = [c \in Clerks |-> KYC!Free]
      /\ UNCHANGED <<setting, file, history, kycEvents, notices>>
    BY DEF KYC!Restart
<1>2. ~ KycSteady /\ ~ KycSteady'
    BY <1>1 DEF KYC!Restart, KYC!Fault, KycSteady
<1>3. KYC!Free.next = "idle" /\ \A c \in Clerks : desk'[c] = KYC!Free
    BY <1>1 DEF KYC!Free
<1>4. KycTyped'
  <2>1. {c \in Clerks : desk'[c] # KYC!Free} = {}
    BY <1>3
  <2>2. desk' \in [Clerks -> KycTask \cup {KYC!Free}]
    BY <1>1
  <2> QED
    BY <1>1, <2>1, <2>2, FS_EmptySet DEF KycTyped
<1>5. KycInTurn'
    BY <1>1, <1>3 DEF KycInTurn, KYC!Fault, KycDecisions, KYC!Count
<1>6. ASSUME NEW f \in KycFiles, NEW op \in KycOps
      PROVE  (KYC!Said(f, op) + Cardinality(KycSaying(f, op)) <= KYC!Written(f, op))'
  <2>1. KycSaying(f, op)' = {}
    BY <1>3 DEF KycSaying, KycSays
  <2>2. KYC!Said(f, op)' = KYC!Said(f, op) /\ KYC!Written(f, op)' = KYC!Written(f, op)
    BY <1>1 DEF KYC!Said, KYC!Written, KYC!Count
  <2>3. KYC!Said(f, op) \in Nat /\ KYC!Written(f, op) \in Nat
    BY KycFew
  <2>4. Cardinality(KycSaying(f, op)) \in Nat
    <3>1. KycSaying(f, op) \subseteq {b \in Clerks : desk[b] # KYC!Free}
        BY DEF KycSaying, KycSays, KYC!Free
    <3> QED
        BY <3>1, FS_Subset, FS_CardinalityType DEF KycTyped
  <2>5. KYC!Said(f, op) + Cardinality(KycSaying(f, op)) <= KYC!Written(f, op)
    BY DEF KycHeard
  <2> QED
    BY <2>1, <2>2, <2>3, <2>4, <2>5, FS_EmptySet
<1>7. KycHeard'
    BY <1>2, <1>6 DEF KycHeard
<1> QED
    BY <1>4, <1>5, <1>7

\* Every step keeps the invariant.
LEMMA KycKept == KycInv /\ [Next]_vars => KycInv'
<1> SUFFICES ASSUME KycInv, [Next]_vars, part' = "kyc" PROVE KycInv'
    BY DEF KycInv
<1>1. part = "kyc" /\ part' = part /\ (KYC!Next \/ UNCHANGED <<setting, kycVars>>)
    BY KycRuns
<1>2. KycTyped /\ KycInTurn /\ KycHeard
    BY <1>1 DEF KycInv
<1>3. ASSUME NEW c \in Clerks, NEW f \in KycFiles, NEW op \in DOMAIN KYC!StatusAfter,
             KYC!Receive(c, f, op)
      PROVE  KycInv'
  <2>1. op \in KycOps
    BY DEF KYC!StatusAfter, KycOps
  <2> QED
    BY <1>2, <1>3, <2>1, KycReceive DEF KycInv
<1>4. ASSUME NEW c \in Clerks,
             KYC!Find(c) \/ KYC!Write(c) \/ KYC!Publish(c) \/ KYC!publishNotification(c)
      PROVE  KycInv'
    BY <1>2, <1>4, KycFind, KycWrite, KycPublish, KycNotify DEF KycInv
<1>5. CASE KYC!Restart
    BY <1>2, <1>5, KycRestart DEF KycInv
<1>6. CASE KYC!ChannelBreaks \/ KYC!Quiet \/ UNCHANGED <<setting, kycVars>>
  <2>1. UNCHANGED <<setting, file, history, desk, kycEvents, notices>>
    BY <1>6 DEF KYC!ChannelBreaks, KYC!Quiet, KYC!vars, kycVars
  <2>2. channel' = channel \/ ~ KycSteady
    BY <1>6 DEF KYC!ChannelBreaks, KYC!Quiet, KYC!vars, kycVars, KycSteady, KYC!Fault
  <2>3. KycTyped'
    BY <1>2, <2>1 DEF KycTyped
  <2>4. KycInTurn'
    BY <1>2, <2>1 DEF KycInTurn, KYC!Fault, KycDecisions, KYC!Count
  <2>5. \A f, op : /\ KycSaying(f, op)' = KycSaying(f, op)
                   /\ KYC!Said(f, op)' = KYC!Said(f, op) /\ KYC!Written(f, op)' = KYC!Written(f, op)
    BY <2>1 DEF KycSaying, KycSays, KYC!Said, KYC!Written, KYC!Count
  <2>6. KycSteady' = KycSteady
    BY <2>1 DEF KycSteady
  <2>7. KycHeard'
    BY <1>2, <2>1, <2>2, <2>5, <2>6 DEF KycHeard
  <2> QED
    BY <2>3, <2>4, <2>7 DEF KycInv
<1> QED
    BY <1>1, <1>3, <1>4, <1>5, <1>6 DEF KYC!Next

\* At the start nothing is written or said.
LEMMA KycStarts == Init => KycInv
<1> SUFFICES ASSUME Init, part = "kyc" PROVE KycInv
    BY DEF KycInv
<1>1. KYC!Idle
    BY DEF Init
<1>2. \A c \in Clerks : desk[c] = KYC!Free
    BY <1>1 DEF KYC!Idle
<1>3. KycTyped
  <2>1. {c \in Clerks : desk[c] # KYC!Free} = {}
    BY <1>2
  <2>2. << >> \in Seq(KycOps)
    OBVIOUS
  <2> QED
    BY <1>1, <2>1, <2>2, FS_EmptySet DEF KYC!Idle, KycTyped
<1>4. \A op : KYC!Count(<< >>, op) = 0
  <2> TAKE op
  <2>1. {n \in DOMAIN << >> : << >>[n] = op} = {}
    OBVIOUS
  <2> QED
    BY <2>1, KycSameSize, FS_EmptySet DEF KYC!Count
<1>5. \A f \in KycFiles : \A op : KYC!Said(f, op) = 0 /\ KYC!Written(f, op) = 0
    BY <1>1, <1>4 DEF KYC!Idle, KYC!Said, KYC!Written
<1>6. KycInTurn
  <2>1. \A f \in KycFiles : KycDecisions(f) = 0
    BY <1>5 DEF KycDecisions, KYC!Written
  <2>2. KYC!Free.next = "idle"
    BY DEF KYC!Free
  <2> QED
    BY <1>2, <2>1, <2>2 DEF KycInTurn
<1>7. KycHeard
  <2>1. \A f, op : KycSaying(f, op) = {}
    BY <1>2 DEF KycSaying, KycSays, KYC!Free
  <2>2. channel = "none" /\ Cardinality({}) = 0
    BY <1>1, FS_EmptySet DEF KYC!Idle
  <2>3. \A f \in KycFiles, op \in KycOps :
          /\ KYC!Said(f, op) + Cardinality(KycSaying(f, op)) <= KYC!Written(f, op)
          /\ KycSteady => KYC!Said(f, op) + Cardinality(KycSaying(f, op)) = KYC!Written(f, op)
    BY <1>5, <2>1, <2>2
  <2>4. \A f \in KycFiles : ~ (KYC!Written(f, "REJECT") > 0)
    BY <1>5
  <2> QED
    BY <2>2, <2>3, <2>4 DEF KycHeard
<1> QED
    BY <1>3, <1>6, <1>7 DEF KycInv

\* A file is decided once, however handlers die and events are lost, as long as its
\* decisions do not overlap: each finds the file PENDING and leaves it otherwise.
THEOREM FilesAreDecidedOnce == Spec => []DecidedOnce
<1>1. KycInv => DecidedOnce
  <2> SUFFICES ASSUME KycInv, part = "kyc", ~ KYC!Fault("overlap"), NEW f \in KycFiles
               PROVE  KYC!Count(history[f], "APPROVE") + KYC!Count(history[f], "REJECT") <= 1
    BY DEF DecidedOnce, KYC!DecidedOnce
  <2>1. KycDecisions(f) <= 1
    BY DEF KycInv, KycInTurn
  <2> QED
    BY <2>1 DEF KycDecisions
<1> QED
    BY <1>1, KycStarts, KycKept, PTL DEF Spec

\* No event without its audit entry, whatever fails; and every entry is heard and every
\* rejected client told, while broker and handlers stay, once nobody works on the file.
THEOREM DecisionsAreHeard == Spec => []HeardAsWritten
<1>1. KycInv => HeardAsWritten
  <2> SUFFICES ASSUME KycInv, part = "kyc" PROVE KYC!HeardAsWritten
    BY DEF HeardAsWritten
  <2>1. KycTyped /\ KycHeard
    BY DEF KycInv
  <2>2. DOMAIN KYC!StatusAfter = KycOps
    BY DEF KYC!StatusAfter, KycOps
  <2>3. ASSUME NEW f \in KycFiles, NEW op \in KycOps
        PROVE  /\ IsFiniteSet(KycSaying(f, op)) /\ Cardinality(KycSaying(f, op)) \in Nat
               /\ KYC!Said(f, op) \in Nat /\ KYC!Written(f, op) \in Nat
               /\ KYC!Said(f, op) <= KYC!Written(f, op)
    <3>1. KycSaying(f, op) \subseteq {b \in Clerks : desk[b] # KYC!Free}
        BY DEF KycSaying, KycSays, KYC!Free
    <3>2. IsFiniteSet(KycSaying(f, op)) /\ Cardinality(KycSaying(f, op)) \in Nat
        BY <2>1, <3>1, FS_Subset, FS_CardinalityType DEF KycTyped
    <3>3. KYC!Said(f, op) \in Nat /\ KYC!Written(f, op) \in Nat
        BY <2>1, KycFew
    <3>4. KYC!Said(f, op) + Cardinality(KycSaying(f, op)) <= KYC!Written(f, op)
        BY <2>1 DEF KycHeard
    <3> QED
        BY <3>2, <3>3, <3>4
  <2>4. ASSUME NEW f \in KycFiles, KycSteady, \A c \in Clerks : desk[c].file # f
        PROVE  /\ \A op \in KycOps : KYC!Said(f, op) = KYC!Written(f, op)
               /\ KYC!Written(f, "REJECT") > 0 => f \in notices
    <3>1. \A op \in KycOps : KycSaying(f, op) = {}
        BY <2>4 DEF KycSaying, KycSays
    <3>2. \A op \in KycOps : KYC!Said(f, op) = KYC!Written(f, op)
      <4> TAKE op \in KycOps
      <4>1. KYC!Said(f, op) + Cardinality(KycSaying(f, op)) = KYC!Written(f, op)
        BY <2>1, <2>4 DEF KycHeard
      <4>2. Cardinality(KycSaying(f, op)) = 0
        BY <3>1, FS_EmptySet
      <4> QED
        BY <2>3, <4>1, <4>2
    <3>3. KYC!Written(f, "REJECT") > 0 => f \in notices
        BY <2>1, <2>4 DEF KycHeard
    <3> QED
        BY <3>2, <3>3
  <2> QED
    BY <2>2, <2>3, <2>4 DEF KYC!HeardAsWritten, KycSteady
<1> QED
    BY <1>1, KycStarts, KycKept, PTL DEF Spec

(***************************************************************************)
(* aml-service: suspicions, alerts and their resolutions.                  *)
(***************************************************************************)
AmlStatuses == {"OPEN", "REVIEWED", "CONFIRMED", "FALSE_POSITIVE"}
AmlAlert ==
    [tx : DOMAIN WalletsOf, severity : {"MEDIUM", "HIGH", "CRITICAL"}, status : AmlStatuses]
AmlTask == [event : FinancialEvents, next : {"insert", "publish"}]

AmlTyped ==
    /\ amlArrived \subseteq FinancialEvents /\ amlQueue \subseteq FinancialEvents
    /\ task \in [Consumers -> AmlTask \cup {AML!NoTask}]
    /\ alerts \in Seq(AmlAlert)
    /\ DOMAIN told = DOMAIN WalletsOf

\* No two alerts are of one transaction.
AmlApart == \A a, b \in DOMAIN alerts : a # b => alerts[a].tx # alerts[b].tx

\* An officer at work has an alert of the table at hand.
AmlAtHand(o) ==
    review[o] # AML!NoReview =>
        /\ DOMAIN review[o] = {"alert", "action", "next"}
        /\ review[o].alert \in DOMAIN alerts /\ review[o].action \in AML!Actions
        /\ review[o].next \in {"decide", "tell"}

\* Where nothing fails one officer is at work at most, and what he is about to tell is
\* what the alert says.
AmlInTurn ==
    setting.faults = {} =>
        /\ \A o, p \in Officers : o # p /\ review[o] # AML!NoReview => review[p] = AML!NoReview
        /\ \A o \in Officers : review[o].next = "tell" =>
             alerts[review[o].alert].status = AML!StatusAfter[review[o].action]

AmlInv ==
    part = "aml" =>
        /\ AmlTyped /\ AmlApart
        /\ DOMAIN review = Officers /\ \A o \in Officers : AmlAtHand(o)
        /\ AmlInTurn /\ AML!SuspicionIsKept /\ AML!ToldAsRecorded

\* A step while aml-service runs is one of it.
LEMMA AmlRuns ==
    ASSUME [Next]_vars, part' = "aml"
    PROVE  part = "aml" /\ (AML!Next \/ UNCHANGED <<setting, amlVars>>)
BY DEF Next, vars

\* What the officers see does not change when an event is consumed or handled.
LEMMA AmlDesksStay ==
    ASSUME AmlInv, part = "aml", part' = part, AmlTyped', AML!SuspicionIsKept',
           UNCHANGED <<setting, alerts, review, told>>
    PROVE  AmlInv'
<1>1. AmlApart' /\ DOMAIN review' = Officers /\ \A o \in Officers : AmlAtHand(o)'
    BY DEF AmlInv, AmlApart, AmlAtHand
<1>2. AmlInTurn'
    BY DEF AmlInv, AmlInTurn
<1>3. AML!ToldAsRecorded'
    BY DEF AmlInv, AML!ToldAsRecorded
<1> QED
    BY <1>1, <1>2, <1>3 DEF AmlInv

\* A suspicion stays where it is found when no place loses an event.
LEMMA AmlSuspicionStays ==
    ASSUME AML!SuspicionIsKept, amlArrived' = amlArrived, amlQueue \subseteq amlQueue',
           deadLetters \subseteq deadLetters', toCore \cup handled \subseteq toCore' \cup handled',
           \A e \in amlArrived : \A c \in Consumers : AML!NeedsAlert(e) /\ task[c].event = e =>
              \/ e \in amlQueue' \cup deadLetters' \/ \E b \in Consumers : task'[b].event = e
              \/ \E m \in toCore' \cup handled' : m.kind = "alert.created" /\ m.tx = e.tx
    PROVE  AML!SuspicionIsKept'
BY DEF AML!SuspicionIsKept

\* An event arrives.
LEMMA AmlArrive ==
    ASSUME AmlInv, part = "aml", part' = part, NEW e \in FinancialEvents, AML!Arrive(e)
    PROVE  AmlInv'
<1>1. /\ amlArrived' = amlArrived \cup {e} /\ amlQueue' = amlQueue \cup {e}
      /\ UNCHANGED <<setting, task, alerts, deadLetters, toCore, handled, review, told>>
    BY DEF AML!Arrive, AML!core, AML!reviewing
<1>2. AML!SuspicionIsKept'
    BY <1>1 DEF AmlInv, AML!SuspicionIsKept
<1>3. AmlTyped'
    BY <1>1 DEF AmlInv, AmlTyped
<1> QED
    BY <1>1, <1>2, <1>3, AmlDesksStay

\* Who is free holds no event.
LEMMA AmlFree ==
    ASSUME AmlTyped, NEW c \in Consumers
    PROVE  /\ AML!NoTask.event = NoEvent /\ NoEvent \notin FinancialEvents
           /\ task[c] = AML!NoTask \/ task[c] \in AmlTask
           /\ task[c].next # "idle" => task[c] \in AmlTask /\ task[c].event \in FinancialEvents
           /\ AML!NoTask.next = "idle"
BY ServicesAssumption DEF AmlTyped, AmlTask, AML!NoTask, AML!AmlAssumption

\* An event is given to a consumer.
LEMMA AmlDeliver ==
    ASSUME AmlInv, part = "aml", part' = part, NEW c \in Consumers, NEW e \in FinancialEvents,
           AML!Deliver(c, e)
    PROVE  AmlInv'
<1>1. AmlTyped /\ AML!SuspicionIsKept
    BY DEF AmlInv
<1>2. /\ task[c] = AML!NoTask /\ amlQueue' = amlQueue \ {e}
      /\ UNCHANGED <<setting, amlArrived, alerts, deadLetters, toCore, handled, review, told>>
    BY DEF AML!Deliver, AML!core, AML!reviewing
<1>3. PICK t \in AmlTask : t = [event |-> e, next |-> "insert"]
    BY DEF AmlTask
<1>4. t.event = e
    BY <1>3
<1>5. IF AML!NeedsAlert(e) THEN task' = [task EXCEPT ![c] = t] ELSE task' = task
    BY <1>3 DEF AML!Deliver
<1>6. task \in [Consumers -> AmlTask \cup {AML!NoTask}]
    BY <1>1 DEF AmlTyped
<1>7. AmlTyped'
    BY <1>1, <1>2, <1>5, <1>6 DEF AmlTyped
<1>8. \A b \in Consumers : task[b].event \in FinancialEvents => task'[b].event = task[b].event
    BY <1>1, <1>2, <1>5, <1>6, AmlFree
<1>9. AML!NeedsAlert(e) => task'[c].event = e
    BY <1>4, <1>5, <1>6
<1>10. amlArrived \subseteq FinancialEvents
    BY <1>1 DEF AmlTyped
<1>11. AML!SuspicionIsKept'
    BY <1>1, <1>2, <1>8, <1>9, <1>10 DEF AML!SuspicionIsKept
<1> QED
    BY <1>2, <1>7, <1>11, AmlDesksStay

\* A consumer is done with its event, which is somewhere.
LEMMA AmlAcknowledge ==
    ASSUME AmlTyped, AML!SuspicionIsKept, NEW c \in Consumers, AML!Acknowledge(c),
           UNCHANGED <<amlArrived, amlQueue>>, deadLetters \subseteq deadLetters',
           toCore \cup handled \subseteq toCore' \cup handled',
           \/ task[c].event \in deadLetters'
           \/ \E m \in toCore' \cup handled' : m.kind = "alert.created" /\ m.tx = task[c].event.tx
    PROVE  /\ AML!SuspicionIsKept'
           /\ task' \in [Consumers -> AmlTask \cup {AML!NoTask}]
<1>1. task' = [task EXCEPT ![c] = AML!NoTask]
    BY DEF AML!Acknowledge
<1>2. task' \in [Consumers -> AmlTask \cup {AML!NoTask}]
      /\ \A b \in Consumers : b # c => task'[b] = task[b]
    BY <1>1 DEF AmlTyped
<1>3. AML!SuspicionIsKept'
    BY <1>2, AmlSuspicionStays
<1> QED
    BY <1>2, <1>3

\* An alert is inserted, or the event is buried.
LEMMA AmlInsert ==
    ASSUME AmlInv, part = "aml", part' = part, NEW c \in Consumers, AML!InsertAlert(c)
    PROVE  AmlInv'
<1>1. AmlTyped /\ AML!SuspicionIsKept /\ AmlApart /\ DOMAIN review = Officers
      /\ AmlInTurn /\ AML!ToldAsRecorded /\ \A o \in Officers : AmlAtHand(o)
    BY DEF AmlInv
<1>2. task[c].next = "insert"
      /\ UNCHANGED <<setting, amlArrived, amlQueue, toCore, handled, review, told>>
    BY DEF AML!InsertAlert, AML!core, AML!reviewing
<1>3. PICK e \in FinancialEvents : task[c].event = e /\ task[c] \in AmlTask
    BY <1>1, <1>2, AmlFree
<1>4. CASE AML!Bury(c) /\ UNCHANGED alerts
  <2>1. deadLetters' = deadLetters \cup {task[c].event} /\ AML!Acknowledge(c)
    BY <1>4 DEF AML!Bury
  <2>2. AML!SuspicionIsKept' /\ task' \in [Consumers -> AmlTask \cup {AML!NoTask}]
    BY <1>1, <1>2, <2>1, AmlAcknowledge
  <2>3. AmlTyped'
    BY <1>1, <1>2, <1>4, <2>2 DEF AmlTyped
  <2> QED
    BY <1>2, <1>4, <2>2, <2>3, AmlDesksStay
<1>5. CASE /\ ~ AML!HasAlert(e.tx)
           /\ alerts' = Append(alerts, [tx |-> e.tx, severity |-> AML!Severity(e), status |-> "OPEN"])
           /\ AML!Goto(c, "publish") /\ UNCHANGED deadLetters
  <2>1. PICK r \in AmlAlert : r = [tx |-> e.tx, severity |-> AML!Severity(e), status |-> "OPEN"]
    <3>1. e.tx \in DOMAIN WalletsOf
        BY ServicesAssumption DEF AML!AmlAssumption, AML!Event
    <3>2. AML!Severity(e) \in {"MEDIUM", "HIGH", "CRITICAL"}
        BY DEF AML!Severity
    <3> QED
        BY <3>1, <3>2 DEF AmlAlert, AmlStatuses
  <2>2. r.tx = e.tx /\ r.status = "OPEN"
    BY <2>1
  <2>3. PICK n \in Nat : n = Len(alerts) /\ DOMAIN alerts = 1..n
    BY <1>1, Indices DEF AmlTyped
  <2>4. /\ alerts' \in Seq(AmlAlert) /\ DOMAIN alerts' = 1..(n + 1)
        /\ alerts'[n + 1] = r /\ \A x \in 1..n : alerts'[x] = alerts[x]
    BY <1>1, <1>5, <2>1, <2>3, Appended DEF AmlTyped
  <2>5. \A x \in DOMAIN alerts' : x = n + 1 \/ x \in DOMAIN alerts
    BY <2>3, <2>4
  <2>6. PICK t \in AmlTask : t = [task[c] EXCEPT !.next = "publish"] /\ t.event = e
    <3>1. PICK at0 \in AmlTask : at0 = task[c] /\ at0.event = e
        BY <1>3
    <3>2. [at0 EXCEPT !.next = "publish"] \in AmlTask
        BY DEF AmlTask
    <3>3. [at0 EXCEPT !.next = "publish"].event = e
        BY <3>1 DEF AmlTask
    <3> QED
        BY <3>1, <3>2, <3>3
  <2>7. task' = [task EXCEPT ![c] = t]
    BY <1>5, <2>6 DEF AML!Goto
  <2>8. AmlTyped' /\ \A b \in Consumers : task'[b].event = task[b].event
    BY <1>1, <1>2, <1>3, <2>4, <2>6, <2>7 DEF AmlTyped
  <2>9. AML!SuspicionIsKept'
    BY <1>1, <1>2, <1>5, <2>8 DEF AML!SuspicionIsKept
  <2>10. AmlApart'
    <3>1. \A x \in DOMAIN alerts : alerts[x].tx # r.tx
        BY <1>5, <2>2 DEF AML!HasAlert
    <3> QED
        BY <1>1, <2>3, <2>4, <2>5, <3>1 DEF AmlApart
  <2>11. \A o \in Officers : AmlAtHand(o)'
    BY <1>1, <1>2, <2>3, <2>4 DEF AmlAtHand
  <2>12. AmlInTurn'
    <3> SUFFICES ASSUME setting.faults = {}, NEW o \in Officers, review[o].next = "tell"
                 PROVE  alerts'[review[o].alert].status = AML!StatusAfter[review[o].action]
        BY <1>1, <1>2 DEF AmlInTurn
    <3>1. review[o] # AML!NoReview
        BY DEF AML!NoReview
    <3>2. review[o].alert \in 1..n
        BY <1>1, <2>3, <3>1 DEF AmlAtHand
    <3> QED
        BY <1>1, <2>4, <3>2 DEF AmlInTurn
  <2>13. AML!ToldAsRecorded'
    <3> SUFFICES ASSUME setting.faults = {}, NEW a \in DOMAIN alerts',
                        alerts'[a].status \in {"CONFIRMED", "FALSE_POSITIVE"}
                 PROVE  \/ told[alerts'[a].tx] = alerts'[a].status
                        \/ \E o \in Officers : review[o].next = "tell" /\ review[o].alert = a
        BY <1>2 DEF AML!ToldAsRecorded
    <3>1. a \in DOMAIN alerts /\ alerts'[a] = alerts[a]
        BY <2>2, <2>3, <2>4, <2>5
    <3> QED
        BY <1>1, <3>1 DEF AML!ToldAsRecorded
  <2> QED
    BY <1>1, <1>2, <2>8, <2>9, <2>10, <2>11, <2>12, <2>13 DEF AmlInv
<1> QED
    BY <1>3, <1>4, <1>5 DEF AML!InsertAlert

\* An alert is told to api-core, or the event is buried.
LEMMA AmlPublish ==
    ASSUME AmlInv, part = "aml", part' = part, NEW c \in Consumers, AML!PublishCreated(c)
    PROVE  AmlInv'
<1>1. AmlTyped /\ AML!SuspicionIsKept
    BY DEF AmlInv
<1>2. task[c].next = "publish"
      /\ UNCHANGED <<setting, amlArrived, amlQueue, alerts, handled, review, told>>
    BY DEF AML!PublishCreated, AML!reviewing
<1>3. PICK m : m = [kind |-> "alert.created", tx |-> task[c].event.tx,
                    walletIds |-> WalletsOf[task[c].event.tx], freeze |-> AML!NeedsFreeze(task[c].event)]
    OBVIOUS
<1>4. m.kind = "alert.created" /\ m.tx = task[c].event.tx
    BY <1>3
<1>5. \/ toCore' = toCore \cup {m} /\ AML!Acknowledge(c) /\ deadLetters' = deadLetters
      \/ AML!Bury(c) /\ toCore' = toCore
    BY <1>3 DEF AML!PublishCreated, AML!Publish
<1>6. AML!SuspicionIsKept' /\ task' \in [Consumers -> AmlTask \cup {AML!NoTask}]
  <2>1. CASE toCore' = toCore \cup {m} /\ AML!Acknowledge(c) /\ deadLetters' = deadLetters
    BY <1>1, <1>2, <1>4, <2>1, AmlAcknowledge
  <2>2. CASE AML!Bury(c) /\ toCore' = toCore
    <3>1. deadLetters' = deadLetters \cup {task[c].event} /\ AML!Acknowledge(c)
        BY <2>2 DEF AML!Bury
    <3> QED
        BY <1>1, <1>2, <2>2, <3>1, AmlAcknowledge
  <2> QED
    BY <1>5, <2>1, <2>2
<1>7. AmlTyped'
    BY <1>1, <1>2, <1>6 DEF AmlTyped
<1> QED
    BY <1>2, <1>6, <1>7, AmlDesksStay

\* aml-service stops: what was not acknowledged is queued again.
LEMMA AmlDie ==
    ASSUME AmlInv, part = "aml", part' = part, AML!Die
    PROVE  AmlInv'
<1>1. AmlTyped /\ AML!SuspicionIsKept /\ AmlApart /\ DOMAIN review = Officers
    BY DEF AmlInv
<1>2. /\ amlQueue' = amlQueue \cup ({task[c].event : c \in Consumers} \ {NoEvent})
      /\ task' = [c \in Consumers |-> AML!NoTask]
      /\ review' = [o \in Officers |-> AML!NoReview]
      /\ UNCHANGED <<setting, amlArrived, alerts, deadLetters, toCore, handled, told>>
      /\ setting.faults # {}
    BY DEF AML!Die, AML!core, AML!Fault
<1>3. \A c \in Consumers : task[c].event \in FinancialEvents \/ task[c].event = NoEvent
    BY <1>1, AmlFree DEF AmlTask
<1>4. AmlTyped'
    BY <1>1, <1>2, <1>3 DEF AmlTyped
<1>5. AML!SuspicionIsKept'
  <2>1. NoEvent \notin FinancialEvents
    BY ServicesAssumption DEF AML!AmlAssumption
  <2>2. \A e \in amlArrived : \A c \in Consumers : task[c].event = e => e \in amlQueue'
    BY <1>1, <1>2, <2>1 DEF AmlTyped
  <2>3. amlQueue \subseteq amlQueue'
    BY <1>2
  <2> QED
    BY <1>1, <1>2, <2>2, <2>3, AmlSuspicionStays
<1>6. \A o \in Officers : AmlAtHand(o)'
    BY <1>2 DEF AmlAtHand
<1>7. AmlInTurn' /\ AML!ToldAsRecorded' /\ AmlApart'
    BY <1>1, <1>2 DEF AmlInTurn, AML!ToldAsRecorded, AmlApart
<1> QED
    BY <1>1, <1>2, <1>4, <1>5, <1>6, <1>7 DEF AmlInv

\* An officer reads an alert.
LEMMA AmlRead ==
    ASSUME AmlInv, part = "aml", part' = part, NEW o \in Officers, NEW a \in DOMAIN alerts,
           NEW action \in AML!Actions, AML!ReadAlert(o, a, action)
    PROVE  AmlInv'
<1>1. AmlTyped /\ AML!SuspicionIsKept /\ AmlApart /\ DOMAIN review = Officers
      /\ AmlInTurn /\ AML!ToldAsRecorded /\ \A p \in Officers : AmlAtHand(p)
    BY DEF AmlInv
<1>2. PICK r : r = [alert |-> a, action |-> action, next |-> "decide"]
    OBVIOUS
<1>3. DOMAIN r = {"alert", "action", "next"} /\ r.alert = a /\ r.action = action /\ r.next = "decide"
    BY <1>2
<1>4. /\ review[o] = AML!NoReview /\ review' = [review EXCEPT ![o] = r]
      /\ AML!Fault("overlap") \/ \A p \in Officers : review[p] = AML!NoReview
      /\ UNCHANGED <<setting, amlArrived, amlQueue, task, alerts, deadLetters, toCore, handled, told>>
    BY <1>2 DEF AML!ReadAlert, AML!consuming, AML!core
<1>5. DOMAIN review' = Officers /\ review'[o] = r
      /\ \A p \in Officers : p # o => review'[p] = review[p]
    BY <1>1, <1>4
<1>6. \A p \in Officers : AmlAtHand(p)'
    BY <1>1, <1>3, <1>4, <1>5 DEF AmlAtHand
<1>7. AmlInTurn'
    BY <1>1, <1>3, <1>4, <1>5 DEF AmlInTurn, AML!Fault
<1>8. AML!ToldAsRecorded'
  <2>1. review[o].next # "tell"
    BY <1>4 DEF AML!NoReview
  <2> QED
    BY <1>1, <1>4, <1>5, <2>1 DEF AML!ToldAsRecorded
<1>9. AML!SuspicionIsKept' /\ AmlTyped' /\ AmlApart'
    BY <1>1, <1>4 DEF AML!SuspicionIsKept, AmlTyped, AmlApart
<1> QED
    BY <1>5, <1>6, <1>7, <1>8, <1>9 DEF AmlInv

\* An officer writes what he decided.
LEMMA AmlDecide ==
    ASSUME AmlInv, part = "aml", part' = part, NEW o \in Officers, AML!Decide(o)
    PROVE  AmlInv'
<1>1. AmlTyped /\ AML!SuspicionIsKept /\ AmlApart /\ DOMAIN review = Officers
      /\ AmlInTurn /\ AML!ToldAsRecorded /\ \A p \in Officers : AmlAtHand(p)
    BY DEF AmlInv
<1>2. review[o].next = "decide" /\ review[o] # AML!NoReview
    BY DEF AML!Decide, AML!NoReview
<1>3. PICK a \in DOMAIN alerts, action \in AML!Actions : review[o].alert = a /\ review[o].action = action
    BY <1>1, <1>2 DEF AmlAtHand
<1>4. /\ alerts' = [alerts EXCEPT ![a].status = AML!StatusAfter[action]]
      /\ review' = [review EXCEPT ![o] = IF AML!IsTold(action) THEN [review[o] EXCEPT !.next = "tell"]
                                         ELSE AML!NoReview]
      /\ UNCHANGED <<setting, amlArrived, amlQueue, task, deadLetters, toCore, handled, told>>
    BY <1>3 DEF AML!Decide, AML!consuming, AML!core
<1>5. AML!StatusAfter[action] \in {"REVIEWED", "CONFIRMED", "FALSE_POSITIVE"}
      /\ (AML!StatusAfter[action] \in {"CONFIRMED", "FALSE_POSITIVE"} => AML!IsTold(action))
    BY DEF AML!Actions, AML!StatusAfter, AML!IsTold
<1>6. \E r \in AmlAlert : /\ r = [alerts[a] EXCEPT !.status = AML!StatusAfter[action]]
                         /\ r.tx = alerts[a].tx /\ r.status = AML!StatusAfter[action]
  <2>1. PICK was \in AmlAlert : was = alerts[a]
    BY <1>1, Elements DEF AmlTyped
  <2>2. PICK st \in AmlStatuses : st = AML!StatusAfter[action]
    BY <1>5 DEF AmlStatuses
  <2>3. [was EXCEPT !.status = st] \in AmlAlert /\ [was EXCEPT !.status = st].tx = was.tx
        /\ [was EXCEPT !.status = st].status = st
    BY DEF AmlAlert
  <2> QED
    BY <2>1, <2>2, <2>3
<1>7. alerts' \in Seq(AmlAlert) /\ DOMAIN alerts' = DOMAIN alerts
      /\ alerts'[a].tx = alerts[a].tx /\ alerts'[a].status = AML!StatusAfter[action]
      /\ \A b \in DOMAIN alerts : b # a => alerts'[b] = alerts[b]
  <2>1. PICK r \in AmlAlert : /\ r = [alerts[a] EXCEPT !.status = AML!StatusAfter[action]]
                              /\ r.tx = alerts[a].tx /\ r.status = AML!StatusAfter[action]
    BY <1>6
  <2>2. alerts' = [alerts EXCEPT ![a] = r]
    BY <1>4, <2>1
  <2>3. alerts' \in Seq(AmlAlert) /\ DOMAIN alerts' = DOMAIN alerts /\ alerts'[a] = r
        /\ \A b \in DOMAIN alerts : b # a => alerts'[b] = alerts[b]
    BY <1>1, <2>2 DEF AmlTyped
  <2> QED
    BY <2>1, <2>3
<1>8. PICK d : d = IF AML!IsTold(action) THEN [review[o] EXCEPT !.next = "tell"] ELSE AML!NoReview
    OBVIOUS
<1>9. DOMAIN review' = Officers /\ review'[o] = d
      /\ \A p \in Officers : p # o => review'[p] = review[p]
    BY <1>1, <1>4, <1>8
<1>10. IF AML!IsTold(action)
       THEN DOMAIN d = {"alert", "action", "next"} /\ d.alert = a /\ d.action = action /\ d.next = "tell"
       ELSE d = AML!NoReview
  <2>1. DOMAIN review[o] = {"alert", "action", "next"}
    BY <1>1, <1>2 DEF AmlAtHand
  <2>2. PICK was : was = review[o] /\ DOMAIN was = {"alert", "action", "next"} /\ was.alert = a
                   /\ was.action = action
    BY <1>3, <2>1
  <2>3. DOMAIN [was EXCEPT !.next = "tell"] = DOMAIN was
        /\ [was EXCEPT !.next = "tell"].alert = a /\ [was EXCEPT !.next = "tell"].action = action
        /\ [was EXCEPT !.next = "tell"].next = "tell"
    BY <2>2
  <2> QED
    BY <1>8, <2>2, <2>3
<1>11. \A p \in Officers : AmlAtHand(p)'
    BY <1>1, <1>7, <1>9, <1>10 DEF AmlAtHand
<1>12. AmlInTurn'
  <2> SUFFICES ASSUME setting.faults = {} PROVE AmlInTurn'
    BY <1>4 DEF AmlInTurn
  <2>1. \A p \in Officers : p # o => review[p] = AML!NoReview
    BY <1>1, <1>2 DEF AmlInTurn
  <2>2. \A p \in Officers : p # o => review'[p] = AML!NoReview
    BY <1>9, <2>1
  <2>3. review'[o].next = "tell" => alerts'[review'[o].alert].status = AML!StatusAfter[review'[o].action]
    <3>1. CASE AML!IsTold(action)
        BY <1>7, <1>9, <1>10, <3>1
    <3>2. CASE ~ AML!IsTold(action)
        BY <1>9, <1>10, <3>2 DEF AML!NoReview
    <3> QED
        BY <3>1, <3>2
  <2>4. AML!NoReview.next # "tell"
    BY DEF AML!NoReview
  <2> QED
    BY <2>2, <2>3, <2>4 DEF AmlInTurn
<1>13. AML!ToldAsRecorded'
  <2> SUFFICES ASSUME setting.faults = {}, NEW b \in DOMAIN alerts,
                      alerts'[b].status \in {"CONFIRMED", "FALSE_POSITIVE"}
               PROVE  \/ told[alerts'[b].tx] = alerts'[b].status
                      \/ \E p \in Officers : review'[p].next = "tell" /\ review'[p].alert = b
    BY <1>4, <1>7 DEF AML!ToldAsRecorded
  <2>1. CASE b = a
    BY <1>5, <1>7, <1>9, <1>10, <2>1
  <2>2. CASE b # a
    <3>1. \/ told[alerts[b].tx] = alerts[b].status
          \/ \E p \in Officers : review[p].next = "tell" /\ review[p].alert = b
        BY <1>1, <1>7, <2>2 DEF AML!ToldAsRecorded
    <3> QED
        BY <1>2, <1>7, <1>9, <2>2, <3>1
  <2> QED
    BY <2>1, <2>2
<1>14. AmlApart'
    BY <1>1, <1>7 DEF AmlApart
<1>15. AML!SuspicionIsKept' /\ AmlTyped'
    BY <1>1, <1>4, <1>7 DEF AML!SuspicionIsKept, AmlTyped
<1> QED
    BY <1>9, <1>11, <1>12, <1>13, <1>14, <1>15 DEF AmlInv

\* What was decided is told.
LEMMA AmlTell ==
    ASSUME AmlInv, part = "aml", part' = part, NEW o \in Officers, AML!Tell(o)
    PROVE  AmlInv'
<1>1. AmlTyped /\ AML!SuspicionIsKept /\ AmlApart /\ DOMAIN review = Officers
      /\ AmlInTurn /\ AML!ToldAsRecorded /\ \A p \in Officers : AmlAtHand(p)
    BY DEF AmlInv
<1>2. review[o].next = "tell" /\ review[o] # AML!NoReview
    BY DEF AML!Tell, AML!NoReview
<1>3. PICK a \in DOMAIN alerts, action \in AML!Actions : review[o].alert = a /\ review[o].action = action
    BY <1>1, <1>2 DEF AmlAtHand
<1>4. /\ review' = [review EXCEPT ![o] = AML!NoReview] /\ toCore \subseteq toCore'
      /\ UNCHANGED <<setting, amlArrived, amlQueue, task, alerts, deadLetters, handled>>
      /\ \/ told' = [told EXCEPT ![alerts[a].tx] = AML!StatusAfter[action]]
         \/ told' = told /\ setting.faults # {}
    BY <1>3 DEF AML!Tell, AML!consuming, AML!Publish, AML!Fault
<1>5. DOMAIN review' = Officers /\ review'[o] = AML!NoReview
      /\ \A p \in Officers : p # o => review'[p] = review[p]
    BY <1>1, <1>4
<1>6. DOMAIN told' = DOMAIN told
    BY <1>4
<1>7. AmlTyped' /\ AmlApart' /\ AML!SuspicionIsKept'
  <2>1. toCore \cup handled \subseteq toCore' \cup handled'
    BY <1>4
  <2> QED
    BY <1>1, <1>4, <1>6, <2>1 DEF AmlTyped, AmlApart, AML!SuspicionIsKept
<1>8. \A p \in Officers : AmlAtHand(p)'
    BY <1>1, <1>4, <1>5 DEF AmlAtHand
<1>9. AmlInTurn'
  <2>1. AML!NoReview.next # "tell"
    BY DEF AML!NoReview
  <2> QED
    BY <1>1, <1>4, <1>5, <2>1 DEF AmlInTurn
<1>10. AML!ToldAsRecorded'
  <2> SUFFICES ASSUME setting.faults = {}, NEW b \in DOMAIN alerts,
                      alerts[b].status \in {"CONFIRMED", "FALSE_POSITIVE"}
               PROVE  \/ told'[alerts[b].tx] = alerts[b].status
                      \/ \E p \in Officers : review'[p].next = "tell" /\ review'[p].alert = b
    BY <1>4 DEF AML!ToldAsRecorded
  <2>1. told' = [told EXCEPT ![alerts[a].tx] = AML!StatusAfter[action]]
    BY <1>4
  <2>2. alerts[a].tx \in DOMAIN told
    <3>1. alerts[a] \in AmlAlert
        BY <1>1, Elements DEF AmlTyped
    <3> QED
        BY <1>1, <3>1 DEF AmlTyped, AmlAlert
  <2>3. CASE b = a
    <3>1. alerts[a].status = AML!StatusAfter[action]
        BY <1>1, <1>2, <1>3 DEF AmlInTurn
    <3> QED
        BY <2>1, <2>2, <2>3, <3>1
  <2>4. CASE b # a
    <3>1. alerts[b].tx # alerts[a].tx
        BY <1>1, <2>4 DEF AmlApart
    <3>2. \/ told[alerts[b].tx] = alerts[b].status
          \/ \E p \in Officers : review[p].next = "tell" /\ review[p].alert = b
        BY <1>1 DEF AML!ToldAsRecorded
    <3> QED
        BY <1>3, <1>5, <2>1, <2>4, <3>1, <3>2
  <2> QED
    BY <2>3, <2>4
<1> QED
    BY <1>5, <1>7, <1>8, <1>9, <1>10 DEF AmlInv

\* api-core takes a message.
LEMMA AmlHandle ==
    ASSUME AmlInv, part = "aml", part' = part, NEW m \in toCore, AML!HandleAmlAlert(m)
    PROVE  AmlInv'
<1>1. /\ toCore' = toCore \ {m} /\ handled' = handled \cup {m}
      /\ UNCHANGED <<setting, amlArrived, amlQueue, task, alerts, deadLetters, review, told>>
    BY DEF AML!HandleAmlAlert, AML!consuming, AML!reviewing
<1>2. AML!SuspicionIsKept'
  <2>1. toCore \cup handled \subseteq toCore' \cup handled'
    BY <1>1
  <2> QED
    BY <1>1, <2>1 DEF AmlInv, AML!SuspicionIsKept
<1>3. AmlTyped'
    BY <1>1 DEF AmlInv, AmlTyped
<1> QED
    BY <1>1, <1>2, <1>3, AmlDesksStay

\* Every step keeps the invariant.
LEMMA AmlKept == AmlInv /\ [Next]_vars => AmlInv'
<1> SUFFICES ASSUME AmlInv, [Next]_vars, part' = "aml" PROVE AmlInv'
    BY DEF AmlInv
<1>1. part = "aml" /\ part' = part /\ (AML!Next \/ UNCHANGED <<setting, amlVars>>)
    BY AmlRuns
<1>2. ASSUME NEW e \in FinancialEvents, AML!Arrive(e) \/ \E c \in Consumers : AML!Deliver(c, e)
      PROVE  AmlInv'
    BY <1>1, <1>2, AmlArrive, AmlDeliver
<1>3. ASSUME NEW c \in Consumers, AML!InsertAlert(c) \/ AML!PublishCreated(c) PROVE AmlInv'
    BY <1>1, <1>3, AmlInsert, AmlPublish
<1>4. ASSUME NEW o \in Officers,
             \/ \E a \in DOMAIN alerts, action \in AML!Actions : AML!ReadAlert(o, a, action)
             \/ AML!Decide(o) \/ AML!Tell(o)
      PROVE  AmlInv'
    BY <1>1, <1>4, AmlRead, AmlDecide, AmlTell
<1>5. ASSUME NEW m \in toCore, AML!HandleAmlAlert(m) PROVE AmlInv'
    BY <1>1, <1>5, AmlHandle
<1>6. CASE AML!Die
    BY <1>1, <1>6, AmlDie
<1>7. CASE AML!Quiet \/ UNCHANGED <<setting, amlVars>>
  <2>1. UNCHANGED <<setting, amlArrived, amlQueue, task, alerts, deadLetters, toCore, handled,
                    review, told>>
    BY <1>7 DEF AML!Quiet, AML!vars, AML!consuming, AML!core, AML!reviewing, amlVars
  <2>2. AML!SuspicionIsKept' /\ AmlTyped'
    BY <1>1, <2>1 DEF AmlInv, AML!SuspicionIsKept, AmlTyped
  <2> QED
    BY <1>1, <2>1, <2>2, AmlDesksStay
<1> QED
    BY <1>1, <1>2, <1>3, <1>4, <1>5, <1>6, <1>7 DEF AML!Next

\* However consumers fail, die and are given events again, no suspicion is lost without
\* a trace; and where nothing fails what is told last of an alert is what its row says.
THEOREM SuspicionsStand == Spec => []AlertsStand
<1>1. Init => AmlInv
  <2> SUFFICES ASSUME Init, part = "aml" PROVE AmlInv
    BY DEF AmlInv
  <2>1. AML!Idle
    BY DEF Init
  <2>2. << >> \in Seq(AmlAlert) /\ DOMAIN << >> = {}
    OBVIOUS
  <2>3. AmlTyped /\ AmlApart
    BY <2>1, <2>2 DEF AML!Idle, AmlTyped, AmlApart
  <2>4. DOMAIN review = Officers /\ \A o \in Officers : AmlAtHand(o)
    BY <2>1 DEF AML!Idle, AmlAtHand
  <2>5. AmlInTurn /\ AML!SuspicionIsKept /\ AML!ToldAsRecorded
    BY <2>1, <2>2 DEF AML!Idle, AmlInTurn, AML!SuspicionIsKept, AML!ToldAsRecorded, AML!NoReview
  <2> QED
    BY <2>3, <2>4, <2>5 DEF AmlInv
<1>2. AmlInv => AlertsStand
    BY DEF AmlInv, AlertsStand, AML!AlertsStand
<1> QED
    BY <1>1, <1>2, AmlKept, PTL DEF Spec

(***************************************************************************)
(* ussd-service: what a dialogue sends.                                    *)
(***************************************************************************)
UssdComplete == Recipients \X Amounts

\* A session past its recipient holds one; one at the confirmation holds a transfer of
\* one of the screens.
UssdKnown(s, screens) ==
    /\ DOMAIN s.data = Ussd!Fields
    /\ s.step = "transfer_amount" => s.data["recipient"] \in Recipients
    /\ s.step = "transfer_confirm" => Ussd!TransferOf(s) \in screens \cap UssdComplete

UssdWork(w, screens) ==
    /\ DOMAIN w = {"input", "session", "act", "text"}
    /\ w.text = {} \/ \E t \in UssdComplete : w.text = {t}
    /\ UssdKnown(w.session, screens)
    /\ w.act = "transfer" => Ussd!TransferOf(w.session) \in screens \cap UssdComplete

\* No repeated keypress, no handler that dies, no marker that is forgotten.
UssdCalm == {"overlap", "dies", "day passes"} \cap setting.faults = {}

\* Once a transfer may have left, the session is gone or about to be, the marker is
\* there, and nobody is on the way to another one.
UssdOnce ==
    /\ \A g, h \in Keypads : g # h /\ at[g] # "idle" => at[h] = "idle"
    /\ \A h \in Keypads : at[h] \in {"act", "clear"} => marked
    /\ orders # << >> =>
         /\ marked /\ \A h \in Keypads : at[h] \in {"idle", "get", "seen?", "clear"}
         /\ session = Ussd!NoSession \/ \E h \in Keypads : at[h] = "clear"

\* Whatever fails: what is held and what was sent is what a screen was composed for.
UssdSound ==
    /\ DOMAIN at = Keypads /\ DOMAIN working = Keypads
    /\ UssdKnown(session, composed)
    /\ \A h \in Keypads : UssdWork(working[h], composed)
    /\ orders \in Seq(UssdComplete)
    /\ \A n \in DOMAIN orders : orders[n] \in composed

\* No repeated keypress and no handler that dies: what the session holds at the
\* confirmation was shown, or is in the answer on its way, and what is to be sent was.
UssdAlone == {"overlap", "dies"} \cap setting.faults = {}

UssdShows(w, screens) ==
    /\ w.session.step = "transfer_confirm" => Ussd!TransferOf(w.session) \in screens \cup w.text
    /\ w.act = "transfer" => Ussd!TransferOf(w.session) \in screens
    /\ w.text # {} => w.act = "none"

UssdAnswers(h, t) == at[h] = "mark" /\ working[h].act = "none" /\ t \in working[h].text

UssdSeen ==
    /\ \A g, h \in Keypads : g # h /\ at[g] # "idle" => at[h] = "idle"
    /\ session.step = "transfer_confirm" =>
         \/ Ussd!TransferOf(session) \in shown
         \/ \E h \in Keypads : UssdAnswers(h, Ussd!TransferOf(session))
    /\ \A h \in Keypads : UssdShows(working[h], shown)
    /\ \A n \in DOMAIN orders : orders[n] \in shown

UssdInv ==
    part = "ussd" => UssdSound /\ (UssdAlone => UssdSeen) /\ (UssdCalm => UssdOnce)

\* A step while ussd-service runs is one of it.
LEMMA UssdRuns ==
    ASSUME [Next]_vars, part' = "ussd"
    PROVE  part = "ussd" /\ (Ussd!Next \/ UNCHANGED <<setting, ussdVars>>)
BY DEF Next, vars

\* A screen that was composed stays composed.
LEMMA UssdScreensStay ==
    ASSUME NEW some, NEW more, some \subseteq more
    PROVE  /\ \A s : UssdKnown(s, some) => UssdKnown(s, more)
           /\ \A w : UssdWork(w, some) => UssdWork(w, more)
BY DEF UssdKnown, UssdWork

\* The steps on the way to a transfer.
LEMMA UssdSteps ==
    ASSUME NEW step, NEW input
    PROVE  /\ Ussd!StepAfter(step, input) = "transfer_amount" =>
                \/ step = "transfer_recipient" /\ input \in Recipients
                \/ step = "transfer_amount" /\ input \notin Amounts
           /\ Ussd!StepAfter(step, input) = "transfer_confirm" =>
                \/ step = "transfer_amount" /\ input \in Amounts
                \/ step = "transfer_confirm"
           /\ Ussd!ActionOf(step, input) = "transfer" => step = "transfer_confirm"
           /\ step = "transfer_amount" => Ussd!ActionOf(step, input) = "none"
<1>1. DOMAIN Ussd!Questions = {"transfer_recipient", "transfer_amount", "bill_provider",
                               "bill_amount", "withdraw_otp"}
      /\ DOMAIN Ussd!Confirmations = {"transfer_confirm", "bill_confirm", "withdraw_confirm"}
      /\ DOMAIN Ussd!MainMenu = {"2", "3", "4"}
    BY DEF Ussd!Questions, Ussd!Confirmations, Ussd!MainMenu
<1>2. /\ Ussd!Questions["transfer_recipient"].takes = Recipients
      /\ Ussd!Questions["transfer_recipient"].next = "transfer_amount"
      /\ Ussd!Questions["transfer_amount"].takes = Amounts
      /\ Ussd!Questions["transfer_amount"].next = "transfer_confirm"
      /\ Ussd!Questions["bill_provider"].next = "bill_amount"
      /\ Ussd!Questions["bill_amount"].next = "bill_confirm"
      /\ Ussd!Questions["withdraw_otp"].next = "withdraw_confirm"
    BY DEF Ussd!Questions
<1>3. \A x \in {"2", "3", "4"} : Ussd!MainMenu[x] \in {"transfer_recipient", "bill_provider", "withdraw_otp"}
    BY DEF Ussd!MainMenu
<1>4. /\ Ussd!Confirmations["bill_confirm"] = "bill"
      /\ Ussd!Confirmations["withdraw_confirm"] = "withdraw"
    BY DEF Ussd!Confirmations
<1>5. CASE step \in DOMAIN Ussd!Questions
    BY <1>1, <1>2, <1>5 DEF Ussd!StepAfter, Ussd!ActionOf
<1>6. CASE step \in DOMAIN Ussd!Confirmations
    BY <1>1, <1>4, <1>6 DEF Ussd!StepAfter, Ussd!ActionOf
<1>7. CASE step = "main"
    BY <1>1, <1>3, <1>7 DEF Ussd!StepAfter, Ussd!ActionOf
<1>8. CASE step \notin {"main"} \cup DOMAIN Ussd!Questions \cup DOMAIN Ussd!Confirmations
    BY <1>1, <1>8 DEF Ussd!StepAfter, Ussd!ActionOf
<1> QED
    BY <1>5, <1>6, <1>7, <1>8

\* What is typed at these steps is kept, in its field.
LEMMA UssdData ==
    ASSUME NEW s, NEW input, DOMAIN s.data = Ussd!Fields
    PROVE  /\ DOMAIN Ussd!DataAfter(s, input) = Ussd!Fields
           /\ s.step = "transfer_recipient" /\ input \in Recipients =>
                Ussd!DataAfter(s, input)["recipient"] = input
           /\ s.step = "transfer_amount" /\ input \in Amounts =>
                /\ Ussd!DataAfter(s, input)["recipient"] = s.data["recipient"]
                /\ Ussd!DataAfter(s, input)["amount"] = input
           /\ (s.step = "transfer_amount" /\ input \notin Amounts) \/ s.step = "transfer_confirm" =>
                Ussd!DataAfter(s, input) = s.data
<1>1. DOMAIN Ussd!Questions = {"transfer_recipient", "transfer_amount", "bill_provider",
                               "bill_amount", "withdraw_otp"}
    BY DEF Ussd!Questions
<1>2. /\ Ussd!Questions["transfer_recipient"].takes = Recipients
      /\ Ussd!Questions["transfer_recipient"].field = "recipient"
      /\ Ussd!Questions["transfer_amount"].takes = Amounts
      /\ Ussd!Questions["transfer_amount"].field = "amount"
    BY DEF Ussd!Questions
<1>3. CASE s.step = "transfer_recipient" /\ input \in Recipients
  <2>1. Ussd!DataAfter(s, input) = [s.data EXCEPT !["recipient"] = input]
    BY <1>1, <1>2, <1>3 DEF Ussd!DataAfter
  <2> QED
    BY <1>3, <2>1 DEF Ussd!Fields
<1>4. CASE s.step = "transfer_amount" /\ input \in Amounts
  <2>1. Ussd!DataAfter(s, input) = [s.data EXCEPT !["amount"] = input]
    BY <1>1, <1>2, <1>4 DEF Ussd!DataAfter
  <2> QED
    BY <1>4, <2>1 DEF Ussd!Fields
<1>5. CASE (s.step = "transfer_amount" /\ input \notin Amounts) \/ s.step = "transfer_confirm"
  <2>1. Ussd!DataAfter(s, input) = s.data
    BY <1>1, <1>2, <1>5 DEF Ussd!DataAfter
  <2> QED
    BY <1>5, <2>1
<1>6. DOMAIN Ussd!DataAfter(s, input) = Ussd!Fields
    BY DEF Ussd!DataAfter
<1> QED
    BY <1>3, <1>4, <1>5, <1>6

\* A session, an action and a text that say what session s says.
UssdFollows(s, after, act, text, screens) ==
    /\ UssdKnown(after, screens \cup text)
    /\ text = {} \/ \E t \in UssdComplete : text = {t}
    /\ act = "transfer" => Ussd!TransferOf(after) \in screens \cap UssdComplete
    /\ act = "transfer" \/ (after.step = "transfer_confirm" /\ text = {}) =>
         s.step = "transfer_confirm" /\ Ussd!TransferOf(after) = Ussd!TransferOf(s)
    /\ text # {} => act = "none" /\ text = {Ussd!TransferOf(after)}

\* The menu tree keeps what the screens said.
LEMMA UssdRendered ==
    ASSUME NEW s, NEW input, NEW screens, UssdKnown(s, screens),
           NEW after, after = Ussd!Rendered(s, input),
           NEW act, act = Ussd!ActionOf(s.step, input),
           NEW text,
           text = IF after.step = "transfer_confirm" /\ act = "none" THEN {Ussd!ConfirmText(s, input)}
                  ELSE {}
    PROVE  UssdFollows(s, after, act, text, screens)
<1>1. after.step = Ussd!StepAfter(s.step, input) /\ after.data = Ussd!DataAfter(s, input)
    BY DEF Ussd!Rendered
<1>2. DOMAIN s.data = Ussd!Fields
    BY DEF UssdKnown
<1>3. DOMAIN after.data = Ussd!Fields
    BY <1>1, <1>2, UssdData
<1>4. after.step = "transfer_amount" => after.data["recipient"] \in Recipients
  <2> SUFFICES ASSUME after.step = "transfer_amount" PROVE after.data["recipient"] \in Recipients
    OBVIOUS
  <2>1. CASE s.step = "transfer_recipient" /\ input \in Recipients
    BY <1>1, <1>2, <2>1, UssdData
  <2>2. CASE s.step = "transfer_amount" /\ input \notin Amounts
    <3>1. after.data = s.data
        BY <1>1, <1>2, <2>2, UssdData
    <3> QED
        BY <2>2, <3>1 DEF UssdKnown
  <2> QED
    BY <1>1, <2>1, <2>2, UssdSteps
<1>5. s.step = "transfer_confirm" =>
        /\ Ussd!TransferOf(after) = Ussd!TransferOf(s)
        /\ Ussd!TransferOf(after) \in screens \cap UssdComplete
  <2>1. s.step = "transfer_confirm" => after.data = s.data
    BY <1>1, <1>2, UssdData
  <2> QED
    BY <2>1 DEF UssdKnown, Ussd!TransferOf
<1>6. after.step = "transfer_confirm" =>
        /\ Ussd!TransferOf(after) = Ussd!ConfirmText(s, input)
        /\ Ussd!TransferOf(after) \in UssdComplete
        /\ s.step = "transfer_confirm" \/ act = "none"
  <2> SUFFICES ASSUME after.step = "transfer_confirm"
               PROVE  /\ Ussd!TransferOf(after) = Ussd!ConfirmText(s, input)
                      /\ Ussd!TransferOf(after) \in UssdComplete
                      /\ s.step = "transfer_confirm" \/ act = "none"
    OBVIOUS
  <2>1. CASE s.step = "transfer_amount" /\ input \in Amounts
    <3>1. after.data["recipient"] = s.data["recipient"] /\ after.data["amount"] = input
        BY <1>1, <1>2, <2>1, UssdData
    <3>2. s.data["recipient"] \in Recipients
        BY <2>1 DEF UssdKnown
    <3>3. act = "none"
        BY <2>1, UssdSteps
    <3> QED
        BY <2>1, <3>1, <3>2, <3>3 DEF Ussd!TransferOf, Ussd!ConfirmText, UssdComplete
  <2>2. CASE s.step = "transfer_confirm"
    <3>1. after.data = s.data
        BY <1>1, <1>2, <2>2, UssdData
    <3> QED
        BY <1>5, <2>2, <3>1 DEF Ussd!TransferOf, Ussd!ConfirmText
  <2> QED
    BY <1>1, <2>1, <2>2, UssdSteps
<1>7. UssdKnown(after, screens \cup text)
    BY <1>3, <1>4, <1>5, <1>6 DEF UssdKnown
<1>8. act = "transfer" => s.step = "transfer_confirm"
    BY UssdSteps
<1>9. text = {} \/ \E t \in UssdComplete : text = {t}
    BY <1>6
<1>10. after.step = "transfer_confirm" /\ text = {} => s.step = "transfer_confirm"
    BY <1>6
<1>11. text # {} => act = "none" /\ text = {Ussd!TransferOf(after)}
    BY <1>6
<1> QED
    BY <1>5, <1>7, <1>8, <1>9, <1>10, <1>11 DEF UssdFollows

\* A dialogue without a session, and a handler that does nothing, hold no transfer.
LEMMA UssdEmpty ==
    \A screens : /\ UssdKnown(Ussd!NoSession, screens) /\ UssdKnown(Ussd!NewSession, screens)
                 /\ UssdWork(Ussd!Nothing, screens)
BY DEF UssdKnown, UssdWork, Ussd!NoSession, Ussd!NewSession, Ussd!NoData, Ussd!Nothing

\* A handler ends.
LEMMA UssdEnds ==
    ASSUME UssdSound, NEW h \in Keypads, Ussd!End(h)
    PROVE  /\ DOMAIN at' = Keypads /\ at'[h] = "idle"
           /\ \A g \in Keypads : g # h => at'[g] = at[g]
           /\ DOMAIN working' = Keypads /\ \A g \in Keypads : UssdWork(working'[g], composed)
<1>1. at' = [at EXCEPT ![h] = "idle"] /\ working' = [working EXCEPT ![h] = Ussd!Nothing]
    BY DEF Ussd!End, Ussd!Goto
<1>2. DOMAIN at = Keypads /\ DOMAIN working = Keypads
      /\ \A g \in Keypads : UssdWork(working[g], composed)
    BY DEF UssdSound
<1>3. DOMAIN working' = Keypads /\ working'[h] = Ussd!Nothing
      /\ \A g \in Keypads : g # h => working'[g] = working[g]
    BY <1>1, <1>2
<1>4. \A g \in Keypads : UssdWork(working'[g], composed)
    BY <1>2, <1>3, UssdEmpty
<1>5. DOMAIN at' = Keypads /\ at'[h] = "idle" /\ \A g \in Keypads : g # h => at'[g] = at[g]
    BY <1>1, <1>2
<1> QED
    BY <1>3, <1>4, <1>5

\* A handler goes on.
LEMMA UssdGoes ==
    ASSUME UssdSound, NEW h \in Keypads, NEW label, Ussd!Goto(h, label)
    PROVE  /\ DOMAIN at' = Keypads /\ at'[h] = label
           /\ \A g \in Keypads : g # h => at'[g] = at[g]
BY DEF UssdSound, Ussd!Goto

\* What the menu tree made of a session.
UssdMade(h, s) ==
    \E after, act, text :
      /\ working'[h].session = after /\ working'[h].act = act /\ working'[h].text = text
      /\ composed' = composed \cup text
      /\ act = "transfer" \/ (after.step = "transfer_confirm" /\ text = {}) =>
           s.step = "transfer_confirm" /\ Ussd!TransferOf(after) = Ussd!TransferOf(s)
      /\ text # {} => act = "none" /\ text = {Ussd!TransferOf(after)}

\* The menu tree answers: the screens of before are still known, and at most one is new.
LEMMA UssdRenders ==
    ASSUME UssdSound, NEW h \in Keypads, NEW s, UssdKnown(s, composed), Ussd!Render(h, s),
           UNCHANGED <<session, orders>>
    PROVE  UssdSound' /\ UssdMade(h, s) /\ \A g \in Keypads : g # h => working'[g] = working[g]
<1> DEFINE input == working[h].input
<1>1. PICK after : after = Ussd!Rendered(s, input)
    OBVIOUS
<1>2. PICK act : act = Ussd!ActionOf(s.step, input)
    OBVIOUS
<1>3. PICK text :
        text = IF after.step = "transfer_confirm" /\ act = "none" THEN {Ussd!ConfirmText(s, input)}
               ELSE {}
    OBVIOUS
<1>4. PICK w : w = [input |-> input, session |-> after, act |-> act, text |-> text]
    OBVIOUS
<1>5. /\ working' = [working EXCEPT ![h] = w]
      /\ composed' = composed \cup text
      /\ Ussd!Goto(h, "set")
    BY <1>1, <1>2, <1>3, <1>4 DEF Ussd!Render
<1>6. UssdFollows(s, after, act, text, composed)
    BY <1>1, <1>2, <1>3, UssdRendered
<1>7. /\ DOMAIN at = Keypads /\ DOMAIN working = Keypads /\ UssdKnown(session, composed)
      /\ orders \in Seq(UssdComplete) /\ \A n \in DOMAIN orders : orders[n] \in composed
      /\ \A g \in Keypads : UssdWork(working[g], composed)
    BY DEF UssdSound
<1>8. /\ DOMAIN w = {"input", "session", "act", "text"}
      /\ w.session = after /\ w.act = act /\ w.text = text
    BY <1>4
<1>9. UssdWork(w, composed')
    BY <1>5, <1>6, <1>8 DEF UssdFollows, UssdWork
<1>10. DOMAIN working' = Keypads /\ working'[h] = w
       /\ \A g \in Keypads : g # h => working'[g] = working[g]
    BY <1>5, <1>7
<1>11. composed \subseteq composed'
    BY <1>5
<1>12. \A g \in Keypads : UssdWork(working'[g], composed')
    BY <1>7, <1>9, <1>10, <1>11, UssdScreensStay
<1>13. UssdKnown(session', composed')
    BY <1>7, <1>11, UssdScreensStay
<1>14. DOMAIN at' = Keypads
    BY <1>5, UssdGoes
<1>15. UssdSound'
    BY <1>7, <1>10, <1>11, <1>12, <1>13, <1>14 DEF UssdSound
<1>16. UssdMade(h, s)
    BY <1>5, <1>6, <1>8, <1>10 DEF UssdFollows, UssdMade
<1> QED
    BY <1>10, <1>15, <1>16

\* What a step makes of what was composed and sent: nothing, or a step of the promise.
UssdTold ==
    UNCHANGED <<shown, orders>> \/ \E t \in UssdComplete : Ussd!Promise!Show(t) \/ Ussd!Promise!Send(t)

\* A key arrives.
LEMMA UssdPress ==
    ASSUME UssdSound, UssdCalm => UssdOnce, NEW h \in Keypads, NEW input, Ussd!Press(h, input)
    PROVE  UssdSound' /\ (UssdCalm' => UssdOnce') /\ UssdTold
<1>1. /\ at[h] = "idle" /\ Ussd!Goto(h, "get") /\ working' = [working EXCEPT ![h].input = input]
      /\ UNCHANGED <<setting, session, marked, composed, shown, orders>>
      /\ "overlap" \in setting.faults \/ \A g \in Keypads : at[g] = "idle"
    BY DEF Ussd!Press, Ussd!Fault
<1>2. DOMAIN at' = Keypads /\ at'[h] = "get" /\ \A g \in Keypads : g # h => at'[g] = at[g]
    BY <1>1, UssdGoes
<1>3. DOMAIN working = Keypads /\ \A g \in Keypads : UssdWork(working[g], composed)
    BY DEF UssdSound
<1>4. PICK was : was = working[h]
    OBVIOUS
<1>5. PICK w : w = [was EXCEPT !.input = input]
    OBVIOUS
<1>6. DOMAIN was = {"input", "session", "act", "text"}
    BY <1>3, <1>4 DEF UssdWork
<1>7. DOMAIN w = DOMAIN was /\ w.session = was.session /\ w.act = was.act /\ w.text = was.text
    BY <1>5, <1>6
<1>8. UssdWork(w, composed)
    BY <1>3, <1>4, <1>6, <1>7 DEF UssdWork
<1>9. working' = [working EXCEPT ![h] = w]
    BY <1>1, <1>4, <1>5
<1>10. DOMAIN working' = Keypads /\ \A g \in Keypads : UssdWork(working'[g], composed)
    BY <1>3, <1>8, <1>9
<1>11. UssdSound'
    BY <1>1, <1>2, <1>10 DEF UssdSound
<1>12. UssdCalm' => UssdOnce'
  <2> SUFFICES ASSUME UssdCalm' PROVE UssdOnce'
    OBVIOUS
  <2>1. UssdCalm /\ UssdOnce /\ \A g \in Keypads : at[g] = "idle"
    BY <1>1 DEF UssdCalm
  <2> QED
    BY <1>1, <1>2, <2>1 DEF UssdOnce
<1> QED
    BY <1>1, <1>11, <1>12 DEF UssdTold

\* The session is read: the menu tree answers, or the marker is asked for.
LEMMA UssdGetSession ==
    ASSUME UssdSound, UssdCalm => UssdOnce, NEW h \in Keypads, Ussd!GetSession(h)
    PROVE  UssdSound' /\ (UssdCalm' => UssdOnce') /\ (UssdCalm => UssdTold)
<1>1. at[h] = "get" /\ UNCHANGED <<setting, session, marked, shown, orders>>
    BY DEF Ussd!GetSession
<1>2. CASE session = Ussd!NoSession
  <2>1. Ussd!Goto(h, "seen?") /\ UNCHANGED <<working, composed>>
    BY <1>2 DEF Ussd!GetSession
  <2>2. DOMAIN at' = Keypads /\ at'[h] = "seen?" /\ \A g \in Keypads : g # h => at'[g] = at[g]
    BY <2>1, UssdGoes
  <2>3. UssdSound'
    BY <1>1, <2>1, <2>2 DEF UssdSound
  <2>4. UssdCalm' => UssdOnce'
    <3> SUFFICES ASSUME UssdCalm' PROVE UssdOnce'
        OBVIOUS
    <3>1. UssdCalm /\ UssdOnce
        BY <1>1 DEF UssdCalm
    <3> QED
        BY <1>1, <1>2, <2>2, <3>1 DEF UssdOnce
  <2> QED
    BY <1>1, <2>1, <2>3, <2>4 DEF UssdTold
<1>3. CASE session # Ussd!NoSession
  <2>1. Ussd!Render(h, session)
    BY <1>3 DEF Ussd!GetSession
  <2>2. UssdKnown(session, composed)
    BY DEF UssdSound
  <2>3. UssdSound'
    BY <1>1, <2>1, <2>2, UssdRenders
  <2>4. DOMAIN at' = Keypads /\ at'[h] = "set" /\ \A g \in Keypads : g # h => at'[g] = at[g]
    BY <2>1, UssdGoes DEF Ussd!Render
  <2>5. UssdCalm' => UssdOnce'
    <3> SUFFICES ASSUME UssdCalm' PROVE UssdOnce'
        OBVIOUS
    <3>1. UssdCalm /\ UssdOnce
        BY <1>1 DEF UssdCalm
    <3>2. orders = << >>
        BY <1>1, <1>3, <3>1 DEF UssdOnce
    <3> QED
        BY <1>1, <2>4, <3>1, <3>2 DEF UssdOnce
  <2>6. UssdTold
    BY <1>1 DEF UssdTold
  <2> QED
    BY <2>3, <2>5, <2>6
<1> QED
    BY <1>2, <1>3

\* The marker ends an old dialogue; without it a new one begins.
LEMMA UssdHasSeen ==
    ASSUME UssdSound, UssdCalm => UssdOnce, NEW h \in Keypads, Ussd!HasSeen(h)
    PROVE  UssdSound' /\ (UssdCalm' => UssdOnce') /\ UssdTold
<1>1. at[h] = "seen?" /\ UNCHANGED <<setting, session, marked, shown, orders>>
    BY DEF Ussd!HasSeen
<1>2. CASE marked
  <2>1. Ussd!End(h) /\ UNCHANGED composed
    BY <1>2 DEF Ussd!HasSeen
  <2>2. /\ DOMAIN at' = Keypads /\ at'[h] = "idle" /\ \A g \in Keypads : g # h => at'[g] = at[g]
        /\ DOMAIN working' = Keypads /\ \A g \in Keypads : UssdWork(working'[g], composed)
    BY <2>1, UssdEnds
  <2>3. UssdSound'
    BY <1>1, <2>1, <2>2 DEF UssdSound
  <2>4. UssdCalm' => UssdOnce'
    <3> SUFFICES ASSUME UssdCalm' PROVE UssdOnce'
        OBVIOUS
    <3>1. UssdCalm /\ UssdOnce
        BY <1>1 DEF UssdCalm
    <3> QED
        BY <1>1, <1>2, <2>2, <3>1 DEF UssdOnce
  <2> QED
    BY <1>1, <2>1, <2>3, <2>4 DEF UssdTold
<1>3. CASE ~ marked
  <2>1. Ussd!Render(h, Ussd!NewSession)
    BY <1>3 DEF Ussd!HasSeen
  <2>2. UssdKnown(Ussd!NewSession, composed)
    BY UssdEmpty
  <2>3. UssdSound'
    BY <1>1, <2>1, <2>2, UssdRenders
  <2>4. DOMAIN at' = Keypads /\ at'[h] = "set" /\ \A g \in Keypads : g # h => at'[g] = at[g]
    BY <2>1, UssdGoes DEF Ussd!Render
  <2>5. UssdCalm' => UssdOnce'
    <3> SUFFICES ASSUME UssdCalm' PROVE UssdOnce'
        OBVIOUS
    <3>1. UssdCalm /\ UssdOnce
        BY <1>1 DEF UssdCalm
    <3>2. orders = << >>
        BY <1>3, <3>1 DEF UssdOnce
    <3> QED
        BY <1>1, <2>4, <3>1, <3>2 DEF UssdOnce
  <2>6. UssdTold
    BY <1>1 DEF UssdTold
  <2> QED
    BY <2>3, <2>5, <2>6
<1> QED
    BY <1>2, <1>3

\* The session is written, with the transfer its handler rendered.
LEMMA UssdSetSession ==
    ASSUME UssdSound, UssdCalm => UssdOnce, NEW h \in Keypads, Ussd!SetSession(h)
    PROVE  UssdSound' /\ (UssdCalm' => UssdOnce') /\ UssdTold
<1>1. /\ at[h] = "set" /\ session' = working[h].session /\ Ussd!Goto(h, "mark")
      /\ UNCHANGED <<setting, marked, working, composed, shown, orders>>
    BY DEF Ussd!SetSession
<1>2. DOMAIN at' = Keypads /\ at'[h] = "mark" /\ \A g \in Keypads : g # h => at'[g] = at[g]
    BY <1>1, UssdGoes
<1>3. UssdKnown(working[h].session, composed)
    BY DEF UssdSound, UssdWork
<1>4. UssdSound'
    BY <1>1, <1>2, <1>3 DEF UssdSound
<1>5. UssdCalm' => UssdOnce'
  <2> SUFFICES ASSUME UssdCalm' PROVE UssdOnce'
    OBVIOUS
  <2>1. UssdCalm /\ UssdOnce
    BY <1>1 DEF UssdCalm
  <2>2. orders = << >>
    BY <1>1, <2>1 DEF UssdOnce
  <2> QED
    BY <1>1, <1>2, <2>1, <2>2 DEF UssdOnce
<1> QED
    BY <1>1, <1>4, <1>5 DEF UssdTold

\* The marker is set, before anything leaves.
LEMMA UssdMarkSeen ==
    ASSUME UssdSound, UssdCalm => UssdOnce, NEW h \in Keypads, Ussd!MarkSeen(h)
    PROVE  UssdSound' /\ (UssdCalm' => UssdOnce') /\ UssdTold
<1>1. at[h] = "mark" /\ marked' = TRUE /\ UNCHANGED <<setting, session, composed, orders>>
    BY DEF Ussd!MarkSeen
<1>2. /\ DOMAIN at' = Keypads /\ at'[h] \in {"idle", "act"}
      /\ \A g \in Keypads : g # h => at'[g] = at[g]
      /\ DOMAIN working' = Keypads /\ \A g \in Keypads : UssdWork(working'[g], composed)
  <2>1. CASE working[h].act = "none"
    <3>1. Ussd!End(h)
        BY <2>1 DEF Ussd!MarkSeen
    <3> QED
        BY <3>1, UssdEnds
  <2>2. CASE working[h].act # "none"
    <3>1. Ussd!Goto(h, "act") /\ UNCHANGED working
        BY <2>2 DEF Ussd!MarkSeen
    <3>2. DOMAIN working = Keypads /\ \A g \in Keypads : UssdWork(working[g], composed)
        BY DEF UssdSound
    <3> QED
        BY <3>1, <3>2, UssdGoes
  <2> QED
    BY <2>1, <2>2
<1>3. UssdSound'
    BY <1>1, <1>2 DEF UssdSound
<1>4. UssdTold
  <2>1. working[h].text = {} \/ \E t \in UssdComplete : working[h].text = {t}
    BY DEF UssdSound, UssdWork
  <2>2. shown' = shown \/ shown' = shown \cup working[h].text
    BY DEF Ussd!MarkSeen
  <2>3. shown' = shown \/ \E t \in UssdComplete : shown' = shown \cup {t}
    BY <2>1, <2>2
  <2> QED
    BY <1>1, <2>3 DEF UssdTold, Ussd!Promise!Show
<1>5. UssdCalm' => UssdOnce'
  <2> SUFFICES ASSUME UssdCalm' PROVE UssdOnce'
    OBVIOUS
  <2>1. UssdCalm /\ UssdOnce
    BY <1>1 DEF UssdCalm
  <2>2. orders = << >>
    BY <1>1, <2>1 DEF UssdOnce
  <2> QED
    BY <1>1, <1>2, <2>1, <2>2 DEF UssdOnce
<1> QED
    BY <1>3, <1>4, <1>5

\* The only step that sends: what it sends is what its handler rendered, and in a calm
\* dialogue nothing was sent before.
LEMMA UssdAct ==
    ASSUME UssdSound, UssdAlone => UssdSeen, UssdCalm => UssdOnce, NEW h \in Keypads, Ussd!Act(h)
    PROVE  UssdSound' /\ (UssdCalm' => UssdOnce') /\ (UssdCalm => UssdTold)
<1>1. /\ at[h] = "act" /\ Ussd!Goto(h, "clear")
      /\ UNCHANGED <<setting, session, marked, working, composed, shown>>
    BY DEF Ussd!Act
<1>2. DOMAIN at' = Keypads /\ at'[h] = "clear" /\ \A g \in Keypads : g # h => at'[g] = at[g]
    BY <1>1, UssdGoes
<1>3. PICK t : t = Ussd!TransferOf(working[h].session)
    OBVIOUS
<1>4. UNCHANGED orders \/ (orders' = Append(orders, t) /\ t \in composed \cap UssdComplete)
  <2>1. CASE working[h].act = "transfer"
    <3>1. t \in composed \cap UssdComplete
        BY <1>3, <2>1 DEF UssdSound, UssdWork
    <3> QED
        BY <1>3, <2>1, <3>1 DEF Ussd!Act, Ussd!request
  <2>2. CASE working[h].act # "transfer"
    BY <2>2 DEF Ussd!Act
  <2> QED
    BY <2>1, <2>2
<1>5. orders \in Seq(UssdComplete) /\ \A n \in DOMAIN orders : orders[n] \in composed
    BY DEF UssdSound
<1>6. orders' \in Seq(UssdComplete) /\ \A n \in DOMAIN orders' : orders'[n] \in composed
  <2>1. CASE orders' = Append(orders, t) /\ t \in composed \cap UssdComplete
    <3>1. /\ orders' \in Seq(UssdComplete) /\ DOMAIN orders' = 1..(Len(orders) + 1)
          /\ orders'[Len(orders) + 1] = t /\ \A n \in 1..Len(orders) : orders'[n] = orders[n]
        BY <1>5, <2>1, Appended
    <3>2. DOMAIN orders = 1..Len(orders) /\ Len(orders) \in Nat
        BY <1>5, Indices
    <3>3. \A n \in 1..(Len(orders) + 1) : n = Len(orders) + 1 \/ n \in 1..Len(orders)
        BY <3>2
    <3> QED
        BY <1>5, <2>1, <3>1, <3>2, <3>3
  <2> QED
    BY <1>4, <1>5, <2>1
<1>7. UssdSound'
    BY <1>1, <1>2, <1>6 DEF UssdSound
<1>8. UssdCalm => UssdOnce /\ orders = << >>
    BY <1>1 DEF UssdOnce
<1>9. UssdCalm' => UssdOnce'
  <2> SUFFICES ASSUME UssdCalm' PROVE UssdOnce'
    OBVIOUS
  <2>1. UssdCalm /\ UssdOnce
    BY <1>1, <1>8 DEF UssdCalm
  <2>2. marked /\ \A g \in Keypads : g # h => at[g] = "idle"
    BY <1>1, <2>1 DEF UssdOnce
  <2> QED
    BY <1>1, <1>2, <2>2 DEF UssdOnce
<1>10. UssdCalm => UssdTold
  <2> SUFFICES ASSUME UssdCalm PROVE UssdTold
    OBVIOUS
  <2>1. CASE orders' = Append(orders, t) /\ t \in composed \cap UssdComplete
    <3>1. orders = << >> /\ orders' = << t >>
        BY <1>8, <2>1
    <3>2. working[h].act = "transfer"
        BY <3>1 DEF Ussd!Act
    <3>3. t \in shown
        BY <1>3, <3>2 DEF UssdCalm, UssdAlone, UssdSeen, UssdShows
    <3>4. Ussd!Promise!Send(t)
        BY <1>1, <3>1, <3>3 DEF Ussd!Promise!Send
    <3> QED
        BY <2>1, <3>4 DEF UssdTold
  <2>2. CASE UNCHANGED orders
    BY <1>1, <2>2 DEF UssdTold
  <2> QED
    BY <1>4, <2>1, <2>2
<1> QED
    BY <1>7, <1>9, <1>10

\* The session is gone, the marker stays.
LEMMA UssdClearSession ==
    ASSUME UssdSound, UssdCalm => UssdOnce, NEW h \in Keypads, Ussd!ClearSession(h)
    PROVE  UssdSound' /\ (UssdCalm' => UssdOnce') /\ UssdTold
<1>1. /\ at[h] = "clear" /\ session' = Ussd!NoSession /\ Ussd!End(h)
      /\ UNCHANGED <<setting, marked, composed, shown, orders>>
    BY DEF Ussd!ClearSession
<1>2. /\ DOMAIN at' = Keypads /\ at'[h] = "idle" /\ \A g \in Keypads : g # h => at'[g] = at[g]
      /\ DOMAIN working' = Keypads /\ \A g \in Keypads : UssdWork(working'[g], composed)
    BY <1>1, UssdEnds
<1>3. UssdSound'
    BY <1>1, <1>2, UssdEmpty DEF UssdSound
<1>4. UssdCalm' => UssdOnce'
  <2> SUFFICES ASSUME UssdCalm' PROVE UssdOnce'
    OBVIOUS
  <2>1. UssdCalm /\ UssdOnce
    BY <1>1 DEF UssdCalm
  <2> QED
    BY <1>1, <1>2, <2>1 DEF UssdOnce
<1> QED
    BY <1>1, <1>3, <1>4 DEF UssdTold

\* What happens beside the handlers, and a handler that dies.
LEMMA UssdLapses ==
    ASSUME UssdSound, UssdCalm => UssdOnce,
           \/ Ussd!SessionExpires \/ Ussd!MarkerExpires \/ \E h \in Keypads : Ussd!Dies(h)
           \/ Ussd!Quiet \/ UNCHANGED <<setting, ussdVars>>
    PROVE  UssdSound' /\ (UssdCalm' => UssdOnce') /\ UssdTold
<1>1. CASE Ussd!SessionExpires
  <2>1. session' = Ussd!NoSession /\ UNCHANGED <<setting, marked, at, working, composed, shown, orders>>
    BY <1>1 DEF Ussd!SessionExpires, Ussd!handlers
  <2>2. UssdSound'
    BY <2>1, UssdEmpty DEF UssdSound
  <2>3. UssdCalm' => UssdOnce'
    BY <2>1 DEF UssdCalm, UssdOnce
  <2> QED
    BY <2>1, <2>2, <2>3 DEF UssdTold
<1>2. CASE Ussd!MarkerExpires
  <2>1. "day passes" \in setting.faults /\ UNCHANGED <<setting, session, at, working, composed, shown, orders>>
    BY <1>2 DEF Ussd!MarkerExpires, Ussd!handlers, Ussd!Fault
  <2>2. UssdSound'
    BY <2>1 DEF UssdSound
  <2>3. ~ UssdCalm'
    BY <2>1 DEF UssdCalm
  <2> QED
    BY <2>1, <2>2, <2>3 DEF UssdTold
<1>3. ASSUME NEW h \in Keypads, Ussd!Dies(h) PROVE UssdSound' /\ (UssdCalm' => UssdOnce') /\ UssdTold
  <2>1. "dies" \in setting.faults /\ Ussd!End(h) /\ UNCHANGED <<setting, session, marked, composed, shown, orders>>
    BY <1>3 DEF Ussd!Dies, Ussd!Fault
  <2>2. /\ DOMAIN at' = Keypads
        /\ DOMAIN working' = Keypads /\ \A g \in Keypads : UssdWork(working'[g], composed)
    BY <2>1, UssdEnds
  <2>3. UssdSound'
    BY <2>1, <2>2 DEF UssdSound
  <2>4. ~ UssdCalm'
    BY <2>1 DEF UssdCalm
  <2> QED
    BY <2>1, <2>3, <2>4 DEF UssdTold
<1>4. CASE Ussd!Quiet \/ UNCHANGED <<setting, ussdVars>>
  <2>1. UNCHANGED <<setting, session, marked, at, working, composed, shown, orders>>
    BY <1>4 DEF Ussd!Quiet, Ussd!vars, Ussd!handlers, ussdVars
  <2> QED
    BY <2>1 DEF UssdSound, UssdCalm, UssdOnce, UssdTold
<1> QED
    BY <1>1, <1>2, <1>3, <1>4

\* One at a time, and each to its end: what was shown stays ahead of what is sent.
LEMMA UssdSeenKept ==
    ASSUME UssdSound, UssdAlone, UssdSeen, Ussd!Next \/ UNCHANGED <<setting, ussdVars>>
    PROVE  UssdSeen'
<1>1. /\ DOMAIN at = Keypads /\ DOMAIN working = Keypads
      /\ \A h \in Keypads : UssdWork(working[h], composed)
    BY DEF UssdSound
<1>2. /\ \A g, h \in Keypads : g # h /\ at[g] # "idle" => at[h] = "idle"
      /\ \A h \in Keypads : UssdShows(working[h], shown)
      /\ \A n \in DOMAIN orders : orders[n] \in shown
    BY DEF UssdSeen
<1>3. ASSUME NEW h \in Keypads, at[h] \notin {"idle", "mark"} \/ (at[h] = "idle" /\ \A g \in Keypads : at[g] = "idle"),
             session.step = "transfer_confirm"
      PROVE  Ussd!TransferOf(session) \in shown
  <2>1. \A g \in Keypads : at[g] # "mark"
    BY <1>2, <1>3
  <2> QED
    BY <1>3, <2>1 DEF UssdSeen, UssdAnswers
<1>4. (\A screens : UssdShows(Ussd!Nothing, screens)) /\ Ussd!NoSession.step # "transfer_confirm"
      /\ Ussd!NewSession.step # "transfer_confirm"
    BY DEF UssdShows, Ussd!Nothing, Ussd!NoSession, Ussd!NewSession
<1>5. ASSUME NEW h \in Keypads, NEW input \in Inputs, Ussd!Press(h, input) PROVE UssdSeen'
  <2>1. /\ at[h] = "idle" /\ Ussd!Goto(h, "get") /\ working' = [working EXCEPT ![h].input = input]
        /\ UNCHANGED <<session, shown, orders>> /\ \A g \in Keypads : at[g] = "idle"
    BY <1>5 DEF Ussd!Press, Ussd!Fault, UssdAlone
  <2>2. DOMAIN at' = Keypads /\ at'[h] = "get" /\ \A g \in Keypads : g # h => at'[g] = at[g]
    BY <2>1, UssdGoes
  <2>3. PICK was : was = working[h]
    OBVIOUS
  <2>4. PICK w : w = [was EXCEPT !.input = input]
    OBVIOUS
  <2>5. DOMAIN was = {"input", "session", "act", "text"}
    BY <1>1, <2>3 DEF UssdWork
  <2>6. w.session = was.session /\ w.act = was.act /\ w.text = was.text
    BY <2>4, <2>5
  <2>7. UssdShows(w, shown)
    BY <1>2, <2>3, <2>6 DEF UssdShows
  <2>8. working' = [working EXCEPT ![h] = w]
    BY <2>1, <2>3, <2>4
  <2>9. \A g \in Keypads : UssdShows(working'[g], shown')
    BY <1>1, <1>2, <2>1, <2>7, <2>8
  <2>10. session.step = "transfer_confirm" => Ussd!TransferOf(session) \in shown
    BY <1>3, <2>1
  <2> QED
    BY <1>2, <2>1, <2>2, <2>9, <2>10 DEF UssdSeen
<1>6. ASSUME NEW h \in Keypads, NEW s, Ussd!Render(h, s), UssdKnown(s, composed),
             at[h] \in {"get", "seen?"}, UNCHANGED <<session, shown, orders>>,
             s.step = "transfer_confirm" => Ussd!TransferOf(s) \in shown
      PROVE  UssdSeen'
  <2>1. UssdMade(h, s) /\ \A g \in Keypads : g # h => working'[g] = working[g]
    BY <1>6, UssdRenders
  <2>2. DOMAIN at' = Keypads /\ at'[h] = "set" /\ \A g \in Keypads : g # h => at'[g] = at[g]
    BY <1>6, UssdGoes DEF Ussd!Render
  <2>3. UssdShows(working'[h], shown')
    BY <1>6, <2>1 DEF UssdMade, UssdShows
  <2>4. \A g \in Keypads : UssdShows(working'[g], shown')
    BY <1>2, <1>6, <2>1, <2>3
  <2>5. session.step = "transfer_confirm" => Ussd!TransferOf(session) \in shown
    BY <1>3, <1>6
  <2> QED
    BY <1>2, <1>6, <2>2, <2>4, <2>5 DEF UssdSeen
<1>7. ASSUME NEW h \in Keypads, Ussd!End(h), UNCHANGED orders, shown \subseteq shown',
             session'.step = "transfer_confirm" => Ussd!TransferOf(session') \in shown'
      PROVE  UssdSeen'
  <2>1. at' = [at EXCEPT ![h] = "idle"] /\ working' = [working EXCEPT ![h] = Ussd!Nothing]
    BY <1>7 DEF Ussd!End, Ussd!Goto
  <2>2. \A g \in Keypads : UssdShows(working'[g], shown')
    <3>1. \A g \in Keypads : working'[g] = working[g] \/ working'[g] = Ussd!Nothing
        BY <1>1, <2>1
    <3> QED
        BY <1>2, <1>4, <1>7, <3>1 DEF UssdShows
  <2>3. \A g, other \in Keypads : g # other /\ at'[g] # "idle" => at'[other] = "idle"
    BY <1>1, <1>2, <2>1
  <2> QED
    BY <1>2, <1>7, <2>2, <2>3 DEF UssdSeen
<1>8. ASSUME NEW h \in Keypads, NEW label, at[h] # "idle", Ussd!Goto(h, label),
             UNCHANGED <<working, shown>>, \A n \in DOMAIN orders' : orders'[n] \in shown,
             session'.step = "transfer_confirm" =>
               \/ Ussd!TransferOf(session') \in shown
               \/ label = "mark" /\ working[h].act = "none" /\ Ussd!TransferOf(session') \in working[h].text
      PROVE  UssdSeen'
  <2>1. DOMAIN at' = Keypads /\ at'[h] = label /\ \A g \in Keypads : g # h => at'[g] = at[g]
    BY <1>8, UssdGoes
  <2>2. \A g, other \in Keypads : g # other /\ at'[g] # "idle" => at'[other] = "idle"
    BY <1>2, <1>8, <2>1
  <2>3. session'.step = "transfer_confirm" =>
          \/ Ussd!TransferOf(session') \in shown'
          \/ UssdAnswers(h, Ussd!TransferOf(session))'
    BY <1>8, <2>1 DEF UssdAnswers
  <2> QED
    BY <1>2, <1>8, <2>2, <2>3 DEF UssdSeen
<1>9. ASSUME NEW h \in Keypads, Ussd!GetSession(h) PROVE UssdSeen'
  <2>1. at[h] = "get" /\ UNCHANGED <<session, shown, orders>>
    BY <1>9 DEF Ussd!GetSession
  <2>2. CASE session = Ussd!NoSession
    <3>1. Ussd!Goto(h, "seen?") /\ UNCHANGED working
        BY <1>9, <2>2 DEF Ussd!GetSession
    <3>2. session'.step # "transfer_confirm"
        BY <1>4, <2>1, <2>2
    <3>3. \A n \in DOMAIN orders' : orders'[n] \in shown
        BY <1>2, <2>1
    <3> QED
        BY <1>8, <2>1, <3>1, <3>2, <3>3
  <2>3. CASE session # Ussd!NoSession
    <3>1. Ussd!Render(h, session)
        BY <1>9, <2>3 DEF Ussd!GetSession
    <3>2. UssdKnown(session, composed)
        BY DEF UssdSound
    <3>3. session.step = "transfer_confirm" => Ussd!TransferOf(session) \in shown
        BY <1>3, <2>1
    <3> QED
        BY <1>6, <2>1, <3>1, <3>2, <3>3
  <2> QED
    BY <2>2, <2>3
<1>10. ASSUME NEW h \in Keypads, Ussd!HasSeen(h) PROVE UssdSeen'
  <2>1. at[h] = "seen?" /\ UNCHANGED <<session, shown, orders>>
    BY <1>10 DEF Ussd!HasSeen
  <2>2. CASE marked
    <3>1. Ussd!End(h)
        BY <1>10, <2>2 DEF Ussd!HasSeen
    <3>2. session.step = "transfer_confirm" => Ussd!TransferOf(session) \in shown
        BY <1>3, <2>1
    <3> QED
        BY <1>7, <2>1, <3>1, <3>2
  <2>3. CASE ~ marked
    <3>1. Ussd!Render(h, Ussd!NewSession)
        BY <1>10, <2>3 DEF Ussd!HasSeen
    <3>2. UssdKnown(Ussd!NewSession, composed)
        BY UssdEmpty
    <3> QED
        BY <1>4, <1>6, <2>1, <3>1, <3>2
  <2> QED
    BY <2>2, <2>3
<1>11. ASSUME NEW h \in Keypads, Ussd!SetSession(h) PROVE UssdSeen'
  <2>1. at[h] = "set" /\ Ussd!Goto(h, "mark") /\ session' = working[h].session
        /\ UNCHANGED <<working, shown, orders>>
    BY <1>11 DEF Ussd!SetSession
  <2>2. session'.step = "transfer_confirm" =>
          \/ Ussd!TransferOf(session') \in shown
          \/ working[h].act = "none" /\ Ussd!TransferOf(session') \in working[h].text
    BY <1>2, <2>1 DEF UssdShows
  <2>3. \A n \in DOMAIN orders' : orders'[n] \in shown
    BY <1>2, <2>1
  <2> QED
    BY <1>8, <2>1, <2>2, <2>3
<1>12. ASSUME NEW h \in Keypads, Ussd!MarkSeen(h) PROVE UssdSeen'
  <2>1. at[h] = "mark" /\ UNCHANGED <<session, orders>>
    BY <1>12 DEF Ussd!MarkSeen
  <2>2. \A g \in Keypads : g # h => at[g] # "mark"
    BY <1>2, <2>1
  <2>3. session.step = "transfer_confirm" =>
          \/ Ussd!TransferOf(session) \in shown
          \/ working[h].act = "none" /\ Ussd!TransferOf(session) \in working[h].text
    BY <2>2 DEF UssdSeen, UssdAnswers
  <2>4. CASE working[h].act = "none"
    <3>1. Ussd!End(h) /\ shown' = shown \cup working[h].text
        BY <1>12, <2>4 DEF Ussd!MarkSeen
    <3> QED
        BY <1>7, <2>1, <2>3, <3>1
  <2>5. CASE working[h].act # "none"
    <3>1. Ussd!Goto(h, "act") /\ UNCHANGED <<working, shown>>
        BY <1>12, <2>5 DEF Ussd!MarkSeen
    <3>2. \A n \in DOMAIN orders' : orders'[n] \in shown
        BY <1>2, <2>1
    <3> QED
        BY <1>8, <2>1, <2>3, <2>5, <3>1, <3>2
  <2> QED
    BY <2>4, <2>5
<1>13. ASSUME NEW h \in Keypads, Ussd!Act(h) PROVE UssdSeen'
  <2>1. at[h] = "act" /\ Ussd!Goto(h, "clear") /\ UNCHANGED <<session, working, shown>>
    BY <1>13 DEF Ussd!Act
  <2>2. PICK t : t = Ussd!TransferOf(working[h].session)
    OBVIOUS
  <2>3. UNCHANGED orders \/ (orders' = Append(orders, t) /\ t \in shown)
    <3>1. CASE working[h].act = "transfer"
      <4>1. t \in shown
        BY <1>2, <2>2, <3>1 DEF UssdShows
      <4> QED
        BY <1>13, <2>2, <3>1, <4>1 DEF Ussd!Act, Ussd!request
    <3>2. CASE working[h].act # "transfer"
        BY <1>13, <3>2 DEF Ussd!Act
    <3> QED
        BY <3>1, <3>2
  <2>4. \A n \in DOMAIN orders' : orders'[n] \in shown
    <3>1. CASE orders' = Append(orders, t) /\ t \in shown
      <4>1. orders \in Seq(UssdComplete)
        BY DEF UssdSound
      <4>2. /\ DOMAIN orders = 1..Len(orders) /\ Len(orders) \in Nat
            /\ DOMAIN orders' = 1..(Len(orders) + 1)
            /\ orders'[Len(orders) + 1] = t /\ \A n \in 1..Len(orders) : orders'[n] = orders[n]
        BY <3>1, <4>1
      <4>3. \A n \in 1..(Len(orders) + 1) : n = Len(orders) + 1 \/ n \in 1..Len(orders)
        BY <4>2
      <4> QED
        BY <1>2, <3>1, <4>2, <4>3
    <3> QED
        BY <1>2, <2>3, <3>1
  <2>5. session.step = "transfer_confirm" => Ussd!TransferOf(session) \in shown
    BY <1>3, <2>1
  <2> QED
    BY <1>8, <2>1, <2>4, <2>5
<1>14. ASSUME NEW h \in Keypads, Ussd!ClearSession(h) PROVE UssdSeen'
  <2>1. session' = Ussd!NoSession /\ Ussd!End(h) /\ UNCHANGED <<shown, orders>>
    BY <1>14 DEF Ussd!ClearSession
  <2> QED
    BY <1>4, <1>7, <2>1
<1>15. CASE Ussd!SessionExpires \/ Ussd!MarkerExpires \/ Ussd!Quiet \/ UNCHANGED <<setting, ussdVars>>
  <2>1. /\ session' \in {session, Ussd!NoSession}
        /\ UNCHANGED <<at, working, composed, shown, orders>>
    BY <1>15 DEF Ussd!SessionExpires, Ussd!MarkerExpires, Ussd!Quiet, Ussd!vars, Ussd!handlers, ussdVars
  <2> QED
    BY <1>4, <2>1 DEF UssdSeen, UssdShows, UssdAnswers
<1>16. \A h \in Keypads : ~ Ussd!Dies(h)
    BY DEF Ussd!Dies, Ussd!Fault, UssdAlone
<1> QED
    BY <1>5, <1>9, <1>10, <1>11, <1>12, <1>13, <1>14, <1>15, <1>16 DEF Ussd!Next

\* Every step of a dialogue keeps the invariant, and a calm one's is a step of the promise.
LEMMA UssdStep ==
    ASSUME UssdInv, [Next]_vars, part' = "ussd"
    PROVE  /\ UssdSound' /\ (UssdAlone' => UssdSeen') /\ (UssdCalm' => UssdOnce')
           /\ UssdCalm => UssdTold
<1>1. part = "ussd" /\ (Ussd!Next \/ UNCHANGED <<setting, ussdVars>>)
    BY UssdRuns
<1>2. UssdSound /\ (UssdAlone => UssdSeen) /\ (UssdCalm => UssdOnce)
    BY <1>1 DEF UssdInv
<1>3. ASSUME NEW h \in Keypads, \E input \in Inputs : Ussd!Press(h, input)
      PROVE  UssdSound' /\ (UssdCalm' => UssdOnce') /\ (UssdCalm => UssdTold)
    BY <1>2, <1>3, UssdPress
<1>4. ASSUME NEW h \in Keypads, Ussd!GetSession(h) \/ Ussd!HasSeen(h)
      PROVE  UssdSound' /\ (UssdCalm' => UssdOnce') /\ (UssdCalm => UssdTold)
    BY <1>2, <1>4, UssdGetSession, UssdHasSeen
<1>5. ASSUME NEW h \in Keypads, Ussd!SetSession(h) \/ Ussd!MarkSeen(h)
      PROVE  UssdSound' /\ (UssdCalm' => UssdOnce') /\ (UssdCalm => UssdTold)
    BY <1>2, <1>5, UssdSetSession, UssdMarkSeen
<1>6. ASSUME NEW h \in Keypads, Ussd!Act(h) \/ Ussd!ClearSession(h)
      PROVE  UssdSound' /\ (UssdCalm' => UssdOnce') /\ (UssdCalm => UssdTold)
    BY <1>2, <1>6, UssdAct, UssdClearSession
<1>7. ASSUME \/ Ussd!SessionExpires \/ Ussd!MarkerExpires \/ \E h \in Keypads : Ussd!Dies(h)
             \/ Ussd!Quiet \/ UNCHANGED <<setting, ussdVars>>
      PROVE  UssdSound' /\ (UssdCalm' => UssdOnce') /\ (UssdCalm => UssdTold)
    BY <1>2, <1>7, UssdLapses
<1>8. UssdSound' /\ (UssdCalm' => UssdOnce') /\ (UssdCalm => UssdTold)
    BY <1>1, <1>3, <1>4, <1>5, <1>6, <1>7 DEF Ussd!Next
<1>9. UssdAlone' => UssdSeen'
  <2>1. UNCHANGED setting
    BY <1>1 DEF Ussd!Next, Ussd!Press, Ussd!GetSession, Ussd!HasSeen, Ussd!SetSession, Ussd!MarkSeen,
       Ussd!Act, Ussd!ClearSession, Ussd!Dies, Ussd!SessionExpires, Ussd!MarkerExpires, Ussd!Quiet,
       Ussd!vars
  <2> QED
    BY <1>1, <1>2, <2>1, UssdSeenKept DEF UssdAlone
<1> QED
    BY <1>8, <1>9

\* At the start nobody is at work and nothing was sent.
LEMMA UssdStarts == Init => UssdInv
<1> SUFFICES ASSUME Init, part = "ussd" PROVE UssdSound /\ UssdSeen /\ UssdOnce
    BY DEF UssdInv
<1>1. Ussd!Idle
    BY DEF Init
<1>2. /\ session = Ussd!NoSession /\ composed = {} /\ shown = {} /\ orders = << >>
      /\ DOMAIN at = Keypads /\ \A h \in Keypads : at[h] = "idle"
      /\ DOMAIN working = Keypads /\ \A h \in Keypads : working[h] = Ussd!Nothing
    BY <1>1 DEF Ussd!Idle
<1>3. << >> \in Seq(UssdComplete) /\ DOMAIN << >> = {}
    OBVIOUS
<1>4. UssdSound
    BY <1>2, <1>3, UssdEmpty DEF UssdSound
<1>5. UssdOnce
    BY <1>2 DEF UssdOnce
<1>6. UssdSeen
  <2>1. UssdShows(Ussd!Nothing, shown) /\ Ussd!NoSession.step # "transfer_confirm"
    BY DEF UssdShows, Ussd!Nothing, Ussd!NoSession
  <2> QED
    BY <1>2, <1>3, <2>1 DEF UssdSeen
<1> QED
    BY <1>4, <1>5, <1>6

\* Every step keeps the invariant.
LEMMA UssdKept == UssdInv /\ [Next]_vars => UssdInv'
BY UssdStep DEF UssdInv

\* However keypresses of a dialogue overlap, are repeated or lost, and whoever dies, a
\* transfer leaves only if one confirmation screen was composed for its recipient and
\* amount; when keypresses come one at a time and nobody dies, that screen was answered.
THEOREM SentWasShown == Spec => []SentAsShown
<1>1. UssdInv => SentAsShown
  <2> SUFFICES ASSUME UssdInv, part = "ussd" PROVE Ussd!SentAsShown
    BY DEF SentAsShown
  <2>1. orders \in Seq(UssdComplete) /\ \A n \in DOMAIN orders : orders[n] \in composed
    BY DEF UssdInv, UssdSound
  <2>2. \A n \in DOMAIN orders : orders[n] \in UssdComplete
    BY <2>1, Elements
  <2>3. UssdAlone => \A n \in DOMAIN orders : orders[n] \in shown
    BY DEF UssdInv, UssdSeen
  <2> QED
    BY <2>1, <2>2, <2>3 DEF Ussd!SentAsShown, UssdComplete, UssdAlone
<1> QED
    BY <1>1, UssdStarts, UssdKept, PTL DEF Spec

\* A dialogue that is posted in turn, whose handlers live and whose marker lasts, does
\* what was promised to its user: every transfer is shown first, and at most one leaves.
THEOREM OneOrderLeaves == Spec => ImplementsOneOrder
<1>1. UssdInv /\ [Next]_vars => [UssdCalm => Ussd!Promise!Next]_<<shown, orders>>
  <2> SUFFICES ASSUME UssdInv, [Next]_vars, UssdCalm
               PROVE  Ussd!Promise!Next \/ UNCHANGED <<shown, orders>>
    OBVIOUS
  <2>1. CASE part' = "ussd"
    <3>1. UssdTold
        BY <2>1, UssdStep
    <3>2. UssdComplete \subseteq Ussd!Transfers
        BY DEF UssdComplete, Ussd!Transfers
    <3> QED
        BY <3>1, <3>2 DEF UssdTold, Ussd!Promise!Next
  <2>2. CASE part' # "ussd"
    BY <2>2 DEF Next, vars, ussdVars
  <2> QED
    BY <2>1, <2>2
<1> QED
    BY <1>1, UssdStarts, UssdKept, PTL DEF Spec, ImplementsOneOrder, Ussd!ImplementsOneOrder, UssdCalm
=============================================================================
