------------------------- MODULE TransactionsProofs -------------------------
(***************************************************************************)
(* For any number of handlers, requests, wallets and faults, a transfer's  *)
(* row moves PENDING -> SUCCESS or FAILED, SUCCESS -> REVERSED and in no   *)
(* other way, although no write looks at the status it replaces.  The      *)
(* argument: a PENDING transfer belongs to the one handler that created    *)
(* it, and a reversal under way is about a row that is past SUCCESS.       *)
(***************************************************************************)
EXTENDS Transactions, FoldFacts, SequenceTheorems, TLAPS

\* The labels between the check of a row and the write of its outcome.
Committed(h) == pc[h] \in {"call", "wait", "error", "done"}

Ops == {"transfer", "cashIn", "confirm", "cashOut", "reverse"}

\* Shapes, as far as the argument needs them.
ShapeInv ==
    /\ txn \in [Txs -> [ status : Statuses, type : Types, key : ClientKeys,
                         from : Wallets, to : Wallets, amount : Nat \ {0}, fee : Nat,
                         day : Nat ]]
    /\ pc \in [Handlers -> Labels]
    /\ cur \in [Handlers -> Txs \cup {NoTx}]
    /\ req \in [Handlers -> Requests \cup {NoRequest}]

\* Which operations come by which label.
PathInv ==
    \A h \in Handlers :
        /\ pc[h] # "idle" => req[h] \in Requests
        /\ pc[h] \in {"lookup", "create"} => req[h].op \in {"transfer", "cashIn"}
        /\ pc[h] \in {"balance", "limits"} => req[h].op = "transfer"
        /\ pc[h] \in {"otp", "otpDel", "read"} =>
             req[h].op \in {"confirm", "cashOut", "reverse"} /\ cur[h] \in Txs
        /\ Committed(h) =>
             req[h].op \in {"transfer", "confirm", "cashOut", "reverse"} /\ cur[h] \in Txs

\* What a handler with its ledger call before, under or behind it knows.
TransferOf(h) == Committed(h) /\ req[h].op = "transfer"

KnownInv ==
    \A h \in Handlers :
        Committed(h) =>
          /\ req[h].op = "transfer" =>
               txn[cur[h]].status = "PENDING" /\ txn[cur[h]].type = "transfer"
          /\ req[h].op \in {"confirm", "cashOut"} =>
               txn[cur[h]].status # "NONE" /\ txn[cur[h]].type = "cashIn"
          /\ req[h].op = "reverse" =>
               /\ txn[cur[h]].status # "NONE"
               /\ txn[cur[h]].type = "transfer" => txn[cur[h]].status \in {"SUCCESS", "REVERSED"}

\* A transfer under way is the work of one handler.
OwnedInv ==
    \A g, h \in Handlers : TransferOf(g) /\ TransferOf(h) /\ cur[g] = cur[h] => g = h

StatusInv == ShapeInv /\ PathInv /\ KnownInv /\ OwnedInv

(***************************************************************************)
(* Steps that leave the rows alone.                                        *)
(***************************************************************************)
\* A handler that ends takes no knowledge with it.
LEMMA EndKeeps ==
    ASSUME StatusInv, NEW h \in Handlers, End(h), UNCHANGED txn
    PROVE  StatusInv'
<1>1. /\ pc' = [pc EXCEPT ![h] = "idle"]
      /\ req' = [req EXCEPT ![h] = NoRequest]
      /\ cur' = [cur EXCEPT ![h] = NoTx]
    BY DEF End, Goto
<1>2. ShapeInv'
    BY <1>1 DEF StatusInv, ShapeInv, Labels
<1>3. \A g \in Handlers : g # h => pc'[g] = pc[g] /\ req'[g] = req[g] /\ cur'[g] = cur[g]
    BY <1>1 DEF StatusInv, ShapeInv
<1>4. pc'[h] = "idle"
    BY <1>1 DEF StatusInv, ShapeInv
<1>5. PathInv'
    BY <1>3, <1>4 DEF StatusInv, PathInv, Committed
<1>6. KnownInv'
    BY <1>3, <1>4 DEF StatusInv, KnownInv, Committed
<1>7. OwnedInv'
    BY <1>3, <1>4 DEF StatusInv, OwnedInv, TransferOf, Committed
<1> QED
    BY <1>2, <1>5, <1>6, <1>7 DEF StatusInv

\* What the invariant says of one handler, were it at label l.
PathAt(h, l) ==
    /\ l \in {"lookup", "create"} => req[h].op \in {"transfer", "cashIn"}
    /\ l \in {"balance", "limits"} => req[h].op = "transfer"
    /\ l \in {"otp", "otpDel", "read"} =>
         req[h].op \in {"confirm", "cashOut", "reverse"} /\ cur[h] \in Txs
    /\ l \in {"call", "wait", "error", "done"} =>
         req[h].op \in {"transfer", "confirm", "cashOut", "reverse"} /\ cur[h] \in Txs

KnownAt(h) ==
    /\ req[h].op = "transfer" =>
         txn[cur[h]].status = "PENDING" /\ txn[cur[h]].type = "transfer"
    /\ req[h].op \in {"confirm", "cashOut"} =>
         txn[cur[h]].status # "NONE" /\ txn[cur[h]].type = "cashIn"
    /\ req[h].op = "reverse" =>
         /\ txn[cur[h]].status # "NONE"
         /\ txn[cur[h]].type = "transfer" => txn[cur[h]].status \in {"SUCCESS", "REVERSED"}

\* A handler that moves on with the same request and row knows what the next
\* label asks for; a transfer does not come to its ledger call this way.
LEMMA GotoKeeps ==
    ASSUME StatusInv, NEW h \in Handlers, NEW l \in Labels, Goto(h, l),
           UNCHANGED <<txn, req, cur>>, pc[h] # "idle", PathAt(h, l),
           l \in {"call", "wait", "error", "done"} =>
             Committed(h) \/ (req[h].op # "transfer" /\ KnownAt(h))
    PROVE  StatusInv'
<1>1. pc' = [pc EXCEPT ![h] = l]
    BY DEF Goto
<1>2. ShapeInv'
    BY <1>1 DEF StatusInv, ShapeInv
<1>3. (\A g \in Handlers : g # h => pc'[g] = pc[g]) /\ pc'[h] = l
    BY <1>1 DEF StatusInv, ShapeInv
<1>4. PathInv'
    BY <1>3 DEF StatusInv, PathInv, PathAt, Committed
<1>5. KnownInv'
    BY <1>3 DEF StatusInv, KnownInv, KnownAt, Committed
<1>6. OwnedInv'
    BY <1>3 DEF StatusInv, OwnedInv, TransferOf, Committed
<1> QED
    BY <1>2, <1>4, <1>5, <1>6 DEF StatusInv

\* Requests have the five operations and name rows that exist.
LEMMA RequestShape ==
    ASSUME NEW r \in Requests
    PROVE  r.op \in Ops /\ r.tx \in Txs /\ r.key \in ClientKeys /\ r.from \in Wallets
           /\ r.to \in Wallets /\ r.amount \in Nat \ {0}
<1>1. r \in Request
    BY TransactionsAssumption DEF TransactionsAssumption
<1> QED
    BY <1>1 DEF Request, Ops

LEMMA ReceiveKeeps ==
    ASSUME StatusInv, NEW h \in Handlers, NEW r \in Requests, Receive(h, r)
    PROVE  StatusInv'
<1> DEFINE l == pc'[h]
<1>1. /\ req' = [req EXCEPT ![h] = r]
      /\ txn' = txn
      /\ pc[h] = "idle"
    BY DEF Receive
<1>2. r.op \in Ops /\ r.tx \in Txs
    BY RequestShape
<1>3. /\ \/ r.op \in {"transfer", "cashIn"} /\ pc' = [pc EXCEPT ![h] = "lookup"] /\ cur' = cur
         \/ /\ r.op \in {"confirm", "cashOut"} /\ pc' = [pc EXCEPT ![h] = "otp"]
            /\ cur' = [cur EXCEPT ![h] = r.tx]
         \/ /\ r.op = "reverse" /\ pc' = [pc EXCEPT ![h] = "read"]
            /\ cur' = [cur EXCEPT ![h] = r.tx]
    BY DEF Receive, Goto
<1>4. ShapeInv'
    BY <1>1, <1>2, <1>3 DEF StatusInv, ShapeInv, Labels
<1>5. \A g \in Handlers : g # h => pc'[g] = pc[g] /\ req'[g] = req[g] /\ cur'[g] = cur[g]
    BY <1>1, <1>3 DEF StatusInv, ShapeInv
<1>6. /\ req'[h] = r
      /\ \/ r.op \in {"transfer", "cashIn"} /\ pc'[h] = "lookup"
         \/ /\ r.op \in {"confirm", "cashOut", "reverse"} /\ pc'[h] \in {"otp", "read"}
            /\ cur'[h] \in Txs
    BY <1>1, <1>2, <1>3 DEF StatusInv, ShapeInv
<1>7. PathInv'
    BY <1>5, <1>6 DEF StatusInv, PathInv, Committed
<1>8. KnownInv'
    BY <1>1, <1>5, <1>6 DEF StatusInv, KnownInv, Committed
<1>9. OwnedInv'
    BY <1>5, <1>6 DEF StatusInv, OwnedInv, TransferOf, Committed
<1> QED
    BY <1>4, <1>7, <1>8, <1>9 DEF StatusInv

LEMMA LookupKeeps ==
    ASSUME StatusInv, NEW h \in Handlers, Lookup(h)
    PROVE  StatusInv'
<1>1. UNCHANGED txn /\ pc[h] = "lookup"
    BY DEF Lookup
<1>2. CASE End(h)
    BY <1>1, <1>2, EndKeeps
<1>3. CASE ~End(h)
    <2> DEFINE l == IF req[h].op = "transfer" THEN "balance" ELSE "create"
    <2>1. Goto(h, l) /\ UNCHANGED <<req, cur>>
        BY <1>3 DEF Lookup, handler
    <2>2. l \in Labels /\ l \notin {"call", "wait", "error", "done"}
        BY DEF Labels
    <2>3. PathAt(h, l)
        BY <1>1 DEF StatusInv, PathInv, PathAt
    <2> HIDE DEF l
    <2> QED
        BY <1>1, <2>1, <2>2, <2>3, GotoKeeps
<1> QED
    BY <1>2, <1>3

LEMMA ReadBalanceKeeps ==
    ASSUME StatusInv, NEW h \in Handlers, ReadBalance(h)
    PROVE  StatusInv'
<1>1. UNCHANGED txn /\ pc[h] = "balance"
    BY DEF ReadBalance
<1>2. CASE End(h)
    BY <1>1, <1>2, EndKeeps
<1>3. CASE Goto(h, "limits") /\ UNCHANGED <<req, cur>>
    <2>1. PathAt(h, "limits")
        BY <1>1 DEF StatusInv, PathInv, PathAt
    <2> QED
        BY <1>1, <1>3, <2>1, GotoKeeps DEF Labels
<1> QED
    BY <1>2, <1>3 DEF ReadBalance

LEMMA CheckLimitsKeeps ==
    ASSUME StatusInv, NEW h \in Handlers, CheckLimits(h)
    PROVE  StatusInv'
<1>1. UNCHANGED txn /\ pc[h] = "limits"
    BY DEF CheckLimits
<1>2. CASE End(h)
    BY <1>1, <1>2, EndKeeps
<1>3. CASE Goto(h, "create") /\ UNCHANGED <<req, cur>>
    <2>1. PathAt(h, "create")
        BY <1>1 DEF StatusInv, PathInv, PathAt
    <2> QED
        BY <1>1, <1>3, <2>1, GotoKeeps DEF Labels
<1> QED
    BY <1>2, <1>3 DEF CheckLimits, handler

LEMMA VerifyOtpKeeps ==
    ASSUME StatusInv, NEW h \in Handlers, VerifyOtp(h) \/ DeleteOtp(h)
    PROVE  StatusInv'
<1>1. UNCHANGED txn /\ pc[h] \in {"otp", "otpDel"}
    BY DEF VerifyOtp, DeleteOtp
<1>2. PathAt(h, "otpDel") /\ PathAt(h, "read")
    BY <1>1 DEF StatusInv, PathInv, PathAt
<1>3. CASE End(h)
    BY <1>1, <1>3, EndKeeps
<1>4. CASE Goto(h, "otpDel") /\ UNCHANGED <<req, cur>>
    BY <1>1, <1>2, <1>4, GotoKeeps DEF Labels
<1>5. CASE Goto(h, "read") /\ UNCHANGED <<req, cur>>
    BY <1>1, <1>2, <1>5, GotoKeeps DEF Labels
<1> QED
    BY <1>3, <1>4, <1>5 DEF VerifyOtp, DeleteOtp, handler

\* The check of the row gives a confirmation or a reversal what it knows.
LEMMA ReadKeeps ==
    ASSUME StatusInv, NEW h \in Handlers, Read(h)
    PROVE  StatusInv'
<1>1. UNCHANGED txn /\ pc[h] = "read"
    BY DEF Read
<1>2. CASE End(h)
    BY <1>1, <1>2, EndKeeps
<1>3. CASE ~End(h)
    <2>1. Goto(h, "call") /\ UNCHANGED <<req, cur>>
        BY <1>3 DEF Read, handler
    <2>2. req[h].op \in {"confirm", "cashOut", "reverse"} /\ cur[h] \in Txs
        BY <1>1 DEF StatusInv, PathInv
    <2>3. txn[cur[h]].status \in Statuses
        BY <2>2 DEF StatusInv, ShapeInv
    <2>4. ASSUME req[h].op = "reverse" PROVE txn[cur[h]].status = "SUCCESS"
        <3>1. CanBecome(txn[cur[h]].status, "REVERSED")
            BY <1>3, <2>4 DEF Read
        <3> QED
            BY <2>3, <3>1 DEF CanBecome, NextStatuses, Statuses
    <2>5. ASSUME req[h].op # "reverse"
          PROVE  txn[cur[h]].type = "cashIn" /\ txn[cur[h]].status # "NONE"
        <3>1. txn[cur[h]].type = "cashIn" /\ CanBecome(txn[cur[h]].status, "PROCESSING")
            BY <1>3, <2>5 DEF Read
        <3> QED
            BY <2>3, <3>1 DEF CanBecome, NextStatuses, Statuses
    <2>6. KnownAt(h)
        BY <2>2, <2>4, <2>5 DEF KnownAt
    <2>7. PathAt(h, "call")
        BY <2>2 DEF PathAt
    <2> QED
        BY <1>1, <2>1, <2>2, <2>6, <2>7, GotoKeeps DEF Labels
<1> QED
    BY <1>2, <1>3

\* Between the call and its outcome a handler keeps its request and its row.
LEMMA CallKeeps ==
    ASSUME StatusInv, NEW h \in Handlers, Call(h) \/ Return(h) \/ Timeout(h)
    PROVE  StatusInv'
<1>1. UNCHANGED <<txn, req, cur>> /\ pc[h] \in {"call", "wait"}
    BY DEF Call, Return, Timeout, handler
<1>2. PICK l \in {"wait", "error", "done"} : Goto(h, l)
    BY DEF Call, Return, Timeout
<1>3. Committed(h)
    BY <1>1 DEF Committed
<1>4. PathAt(h, l)
    BY <1>3 DEF StatusInv, PathInv, PathAt
<1> QED
    BY <1>1, <1>2, <1>3, <1>4, GotoKeeps DEF Labels

(***************************************************************************)
(* Steps that write a row.                                                 *)
(***************************************************************************)
\* Which outcome which operation writes.
OutcomeOf(op, s) ==
    \/ op = "transfer" /\ s \in {"SUCCESS", "FAILED"}
    \/ op \in {"confirm", "cashOut"} /\ s = "SUCCESS"
    \/ op = "reverse" /\ s = "REVERSED"

LEMMA SetStatusRow ==
    ASSUME StatusInv, NEW h \in Handlers, Committed(h), NEW s \in Statuses, SetStatus(h, s)
    PROVE  /\ cur[h] \in Txs
           /\ txn'[cur[h]].status = s /\ txn'[cur[h]].type = txn[cur[h]].type
           /\ \A i \in Txs : i # cur[h] => txn'[i] = txn[i]
           /\ txn' \in [Txs -> [ status : Statuses, type : Types, key : ClientKeys,
                                 from : Wallets, to : Wallets, amount : Nat \ {0},
                                 fee : Nat, day : Nat ]]
<1>1. cur[h] \in Txs
    BY DEF StatusInv, PathInv
<1> QED
    BY <1>1 DEF StatusInv, ShapeInv, SetStatus

\* The outcome one handler writes contradicts nothing another one knows.
LEMMA OutcomeKeeps ==
    ASSUME StatusInv, NEW h \in Handlers, Committed(h), NEW s \in Statuses, SetStatus(h, s),
           OutcomeOf(req[h].op, s),
           End(h) \/ (Goto(h, "publish") /\ UNCHANGED <<req, cur>>)
    PROVE  StatusInv'
<1>1. /\ cur[h] \in Txs
      /\ txn'[cur[h]].status = s /\ txn'[cur[h]].type = txn[cur[h]].type
      /\ \A i \in Txs : i # cur[h] => txn'[i] = txn[i]
    BY SetStatusRow
<1>2. /\ pc' = [pc EXCEPT ![h] = pc'[h]] /\ pc'[h] \in {"idle", "publish"}
      /\ req' = [req EXCEPT ![h] = req'[h]] /\ cur' = [cur EXCEPT ![h] = cur'[h]]
      /\ req'[h] \in Requests \cup {NoRequest} /\ cur'[h] \in Txs \cup {NoTx}
      /\ pc'[h] # "idle" => req'[h] \in Requests
    <2>1. req[h] \in Requests
        BY DEF StatusInv, PathInv, Committed
    <2>2. CASE End(h)
        BY <1>1, <2>1, <2>2 DEF StatusInv, ShapeInv, End, Goto
    <2>3. CASE Goto(h, "publish") /\ UNCHANGED <<req, cur>>
        BY <1>1, <2>1, <2>3 DEF StatusInv, ShapeInv, Goto
    <2> QED
        BY <2>2, <2>3
<1>3. ShapeInv'
    <2>1. txn' \in [Txs -> [ status : Statuses, type : Types, key : ClientKeys,
                            from : Wallets, to : Wallets, amount : Nat \ {0},
                            fee : Nat, day : Nat ]]
        BY SetStatusRow
    <2>2. pc' \in [Handlers -> Labels]
        BY <1>2 DEF StatusInv, ShapeInv, Labels
    <2>3. cur' \in [Handlers -> Txs \cup {NoTx}]
        BY <1>2 DEF StatusInv, ShapeInv
    <2>4. req' \in [Handlers -> Requests \cup {NoRequest}]
        BY <1>2 DEF StatusInv, ShapeInv
    <2> QED
        BY <2>1, <2>2, <2>3, <2>4 DEF ShapeInv
<1>4. \A g \in Handlers : g # h => pc'[g] = pc[g] /\ req'[g] = req[g] /\ cur'[g] = cur[g]
    BY <1>2 DEF StatusInv, ShapeInv
<1>5. PathInv'
    BY <1>2, <1>4 DEF StatusInv, PathInv, Committed
<1>6. KnownInv'
    <2> SUFFICES ASSUME NEW g \in Handlers, Committed(g)' PROVE KnownAt(g)'
        BY DEF KnownInv, KnownAt
    <2>1. g # h /\ Committed(g) /\ req'[g] = req[g] /\ cur'[g] = cur[g] /\ cur[g] \in Txs
        BY <1>2, <1>4 DEF Committed, StatusInv, PathInv
    <2>2. KnownAt(g) /\ KnownAt(h)
        BY <2>1 DEF StatusInv, KnownInv, KnownAt
    <2>3. CASE cur[g] # cur[h]
        BY <1>1, <2>1, <2>2, <2>3 DEF KnownAt
    <2>4. CASE cur[g] = cur[h]
        <3>1. ~(req[g].op = "transfer" /\ req[h].op = "transfer")
            BY <2>1, <2>4 DEF StatusInv, OwnedInv, TransferOf
        <3> QED
            BY <1>1, <2>1, <2>2, <2>4, <3>1 DEF KnownAt, OutcomeOf
    <2> QED
        BY <2>3, <2>4
<1>7. OwnedInv'
    BY <1>2, <1>4 DEF StatusInv, OwnedInv, TransferOf, Committed
<1> QED
    BY <1>3, <1>5, <1>6, <1>7 DEF StatusInv

LEMMA FailKeeps ==
    ASSUME StatusInv, NEW h \in Handlers, Fail(h)
    PROVE  StatusInv'
<1>1. Committed(h) /\ End(h)
    BY DEF Fail, Committed
<1>2. CASE req[h].op = "transfer"
    <2>1. SetStatus(h, "FAILED") /\ OutcomeOf(req[h].op, "FAILED")
        BY <1>2 DEF Fail, OutcomeOf
    <2> QED
        BY <1>1, <2>1, OutcomeKeeps DEF Statuses
<1>3. CASE req[h].op # "transfer"
    BY <1>1, <1>3, EndKeeps DEF Fail
<1> QED
    BY <1>2, <1>3

LEMMA SucceedKeeps ==
    ASSUME StatusInv, NEW h \in Handlers, Succeed(h)
    PROVE  StatusInv'
<1>1. Committed(h)
    BY DEF Succeed, Committed
<1>2. CASE req[h].op = "reverse"
    <2>1. SetStatus(h, "REVERSED") /\ End(h) /\ OutcomeOf(req[h].op, "REVERSED")
        BY <1>2 DEF Succeed, OutcomeOf
    <2> QED
        BY <1>1, <2>1, OutcomeKeeps DEF Statuses
<1>3. CASE req[h].op # "reverse"
    <2>1. /\ SetStatus(h, "SUCCESS")
          /\ Goto(h, "publish") /\ UNCHANGED <<req, cur>>
        BY <1>3 DEF Succeed, handler
    <2>2. OutcomeOf(req[h].op, "SUCCESS")
        BY <1>1, <1>3 DEF StatusInv, PathInv, OutcomeOf
    <2> QED
        BY <1>1, <2>1, <2>2, OutcomeKeeps DEF Statuses
<1> QED
    BY <1>2, <1>3

\* The fee of an amount in centimes is a whole number of centimes.
LEMMA FeeIsNat ==
    ASSUME NEW a \in Nat
    PROVE  FeeFor(a) \in Nat
<1> DEFINE p == a * FeePercent
<1>1. p \in Nat
    BY TransactionsAssumption DEF TransactionsAssumption
<1> HIDE DEF p
<1>2. (p + 50) \div 100 \in Nat
    BY <1>1
<1> QED
    BY <1>2 DEF FeeFor, p

\* A new row was nobody's: every row a handler holds a call for exists.
LEMMA CreateKeeps ==
    ASSUME StatusInv, today \in Nat, NEW h \in Handlers, Create(h)
    PROVE  StatusInv'
<1>1. CASE End(h) /\ UNCHANGED txn
    BY <1>1, EndKeeps
<1>2. CASE ~(End(h) /\ UNCHANGED txn)
    <2> DEFINE r == req[h]
               id == CHOOSE i \in Unused : TRUE
    <2>1. /\ Unused # {}
          /\ txn' = [txn EXCEPT ![id] =
               [ status |-> "PENDING", type |-> r.op, key |-> r.key,
                 from |-> r.from, to |-> r.to, amount |-> r.amount,
                 fee |-> IF r.op = "transfer" THEN FeeFor(r.amount) ELSE 0,
                 day |-> today ]]
          /\ cur' = [cur EXCEPT ![h] = id]
          /\ Goto(h, IF r.op = "transfer" THEN "call" ELSE "sendOtp")
          /\ req' = req
        BY <1>2 DEF Create
    <2>2. id \in Txs /\ txn[id].status = "NONE"
        BY <2>1 DEF Unused
    <2>3. r \in Requests /\ r.op \in {"transfer", "cashIn"} /\ pc[h] = "create"
        BY DEF Create, StatusInv, PathInv
    <2> DEFINE row == [ status |-> "PENDING", type |-> r.op, key |-> r.key,
                        from |-> r.from, to |-> r.to, amount |-> r.amount,
                        fee |-> IF r.op = "transfer" THEN FeeFor(r.amount) ELSE 0,
                        day |-> today ]
    <2>4. row \in [ status : Statuses, type : Types, key : ClientKeys, from : Wallets,
                     to : Wallets, amount : Nat \ {0}, fee : Nat, day : Nat ]
        <3>1. r.amount \in Nat \ {0} /\ r.key \in ClientKeys /\ r.from \in Wallets /\ r.to \in Wallets
            BY <2>3, RequestShape
        <3>2. (IF r.op = "transfer" THEN FeeFor(r.amount) ELSE 0) \in Nat
            BY <3>1, FeeIsNat
        <3> QED
            BY <2>3, <3>1, <3>2 DEF Statuses, Types
    <2>5. row.status = "PENDING" /\ row.type = r.op
        OBVIOUS
    <2>6. txn' = [txn EXCEPT ![id] = row]
        BY <2>1
    <2> HIDE DEF row, id
    <2>7. /\ txn'[id].status = "PENDING" /\ txn'[id].type = r.op
          /\ \A i \in Txs : i # id => txn'[i] = txn[i]
        BY <2>2, <2>5, <2>6 DEF StatusInv, ShapeInv
    <2> DEFINE l == IF r.op = "transfer" THEN "call" ELSE "sendOtp"
    <2>8. /\ (\A g \in Handlers : g # h => pc'[g] = pc[g] /\ req'[g] = req[g] /\ cur'[g] = cur[g])
          /\ pc'[h] = l /\ cur'[h] = id /\ req'[h] = r
        BY <2>1 DEF StatusInv, ShapeInv, Goto
    <2>9. ShapeInv'
        <3>1. l \in Labels
            BY DEF Labels
        <3>2. pc' = [pc EXCEPT ![h] = l]
            BY <2>1 DEF Goto
        <3> HIDE DEF l
        <3>3. txn' \in [Txs -> [ status : Statuses, type : Types, key : ClientKeys,
                                from : Wallets, to : Wallets, amount : Nat \ {0},
                                fee : Nat, day : Nat ]]
            BY <2>2, <2>4, <2>6 DEF StatusInv, ShapeInv
        <3>4. pc' \in [Handlers -> Labels] /\ cur' \in [Handlers -> Txs \cup {NoTx}]
              /\ req' \in [Handlers -> Requests \cup {NoRequest}]
            BY <2>1, <2>2, <3>1, <3>2 DEF StatusInv, ShapeInv
        <3> QED
            BY <3>3, <3>4 DEF ShapeInv
    <2>10. PathInv'
        BY <2>2, <2>3, <2>8 DEF StatusInv, PathInv, Committed
    <2>11. KnownInv'
        <3> SUFFICES ASSUME NEW g \in Handlers, Committed(g)' PROVE KnownAt(g)'
            BY DEF KnownInv, KnownAt
        <3>1. CASE g = h
            BY <2>3, <2>7, <2>8, <3>1 DEF KnownAt, Committed
        <3>2. CASE g # h
            <4>1. Committed(g) /\ cur[g] \in Txs /\ req'[g] = req[g] /\ cur'[g] = cur[g]
                BY <2>8, <3>2 DEF Committed, StatusInv, PathInv
            <4>2. KnownAt(g) /\ req[g].op \in {"transfer", "confirm", "cashOut", "reverse"}
                BY <4>1 DEF StatusInv, KnownInv, KnownAt, PathInv
            <4>3. cur[g] # id
                BY <2>2, <4>2 DEF KnownAt
            <4> QED
                BY <2>7, <4>1, <4>2, <4>3 DEF KnownAt
        <3> QED
            BY <3>1, <3>2
    <2>12. OwnedInv'
        <3>1. \A g \in Handlers : g # h /\ TransferOf(g)' => TransferOf(g) /\ cur'[g] # id
            BY <2>2, <2>8 DEF StatusInv, KnownInv, TransferOf, Committed
        <3> QED
            BY <2>8, <3>1 DEF StatusInv, OwnedInv
    <2> QED
        BY <2>9, <2>10, <2>11, <2>12 DEF StatusInv
<1> QED
    BY <1>1, <1>2

(***************************************************************************)
(* The theorems.                                                           *)
(***************************************************************************)
\* No step of the ledger, of the clock or of Redis touches rows or handlers.
LEMMA OthersKeep ==
    ASSUME StatusInv, LedgerStep \/ Midnight \/ Quiet \/ UNCHANGED vars
                      \/ \E slot \in Purposes \X Wallets : OtpExpires(slot)
    PROVE  StatusInv' /\ UNCHANGED txn
<1>1. UNCHANGED <<txn, pc, req, cur>>
    <2>1. CASE LedgerStep
        BY <2>1 DEF LedgerStep, LedgerEnters, LedgerPosts, LedgerLosesCommit, LedgerFails,
                    LedgerReplays, LedgerRefuses, AnswerExpires, Answer
    <2>2. CASE Midnight \/ Quiet \/ UNCHANGED vars
        BY <2>2 DEF Midnight, Quiet, vars, handler
    <2>3. CASE \E slot \in Purposes \X Wallets : OtpExpires(slot)
        BY <2>3 DEF OtpExpires, handler
    <2> QED
        BY <2>1, <2>2, <2>3
<1>2. ShapeInv'
    BY <1>1 DEF StatusInv, ShapeInv
<1>3. PathInv'
    BY <1>1 DEF StatusInv, PathInv, Committed
<1>4. KnownInv'
    BY <1>1 DEF StatusInv, KnownInv, Committed
<1>5. OwnedInv'
    BY <1>1 DEF StatusInv, OwnedInv, TransferOf, Committed
<1> QED
    BY <1>1, <1>2, <1>3, <1>4, <1>5 DEF StatusInv

LEMMA HandlerKeeps ==
    ASSUME StatusInv, today \in Nat, NEW h \in Handlers,
           Step(h) \/ Dies(h) \/ \E r \in Requests : Receive(h, r)
    PROVE  StatusInv'
<1>1. CASE Lookup(h)
    BY <1>1, LookupKeeps
<1>2. CASE ReadBalance(h)
    BY <1>2, ReadBalanceKeeps
<1>3. CASE CheckLimits(h)
    BY <1>3, CheckLimitsKeeps
<1>4. CASE Create(h)
    BY <1>4, CreateKeeps
<1>5. CASE SendOtp(h)
    BY <1>5, EndKeeps DEF SendOtp
<1>6. CASE VerifyOtp(h) \/ DeleteOtp(h)
    BY <1>6, VerifyOtpKeeps
<1>7. CASE Read(h)
    BY <1>7, ReadKeeps
<1>8. CASE Call(h) \/ Return(h) \/ Timeout(h)
    BY <1>8, CallKeeps
<1>9. CASE Fail(h)
    BY <1>9, FailKeeps
<1>10. CASE Succeed(h)
    BY <1>10, SucceedKeeps
<1>11. CASE Publish(h) \/ Dies(h)
    BY <1>11, EndKeeps DEF Publish, Dies
<1>12. CASE \E r \in Requests : Receive(h, r)
    BY <1>12, ReceiveKeeps
<1> QED
    BY <1>1, <1>2, <1>3, <1>4, <1>5, <1>6, <1>7, <1>8, <1>9, <1>10, <1>11, <1>12 DEF Step

\* The day only moves on at midnight.
LEMMA DayKeeps ==
    ASSUME today \in Nat, [Next]_vars
    PROVE  today' \in Nat
<1>1. today' = today \/ today' = today + 1
    <2>1. CASE \E h \in Handlers : Step(h)
        BY <2>1 DEF Step, Lookup, ReadBalance, CheckLimits, Create, SendOtp, VerifyOtp,
                    DeleteOtp, Read, Call, Return, Timeout, Fail, Succeed, Publish
    <2>2. CASE \E h \in Handlers : Dies(h) \/ \E r \in Requests : Receive(h, r)
        BY <2>2 DEF Dies, Receive
    <2>3. CASE LedgerStep
        BY <2>3 DEF LedgerStep, LedgerEnters, LedgerPosts, LedgerLosesCommit, LedgerFails,
                    LedgerReplays, LedgerRefuses, AnswerExpires, Answer
    <2>4. CASE Midnight \/ Quiet \/ UNCHANGED vars
        BY <2>4 DEF Midnight, Quiet, vars
    <2>5. CASE \E slot \in Purposes \X Wallets : OtpExpires(slot)
        BY <2>5 DEF OtpExpires
    <2> QED
        BY <2>1, <2>2, <2>3, <2>4, <2>5 DEF Next
<1> QED
    BY <1>1

\* In every reachable state a transfer with its ledger call under way is PENDING
\* and the work of one handler, a confirmation is about a cash-in, and a reversal
\* about a row that is SUCCESS or REVERSED.
THEOREM RowsAreKnown == Spec => []StatusInv
<1> DEFINE IInv == StatusInv /\ today \in Nat
<1>1. Init => IInv
    <2> SUFFICES ASSUME Init PROVE IInv
        OBVIOUS
    <2>1. ShapeInv
        <3>1. NoRow \in [ status : Statuses, type : Types, key : ClientKeys, from : Wallets,
                          to : Wallets, amount : Nat \ {0}, fee : Nat, day : Nat ]
            BY TransactionsAssumption DEF TransactionsAssumption, NoRow, Statuses, Types
        <3> QED
            BY <3>1 DEF Init, ShapeInv, Labels
    <2>2. \A h \in Handlers : pc[h] = "idle"
        BY DEF Init
    <2>3. PathInv /\ KnownInv /\ OwnedInv
        BY <2>2 DEF PathInv, KnownInv, OwnedInv, TransferOf, Committed
    <2> QED
        BY <2>1, <2>3 DEF Init, StatusInv
<1>2. IInv /\ [Next]_vars => IInv'
    <2> SUFFICES ASSUME IInv, [Next]_vars PROVE IInv'
        OBVIOUS
    <2>1. today' \in Nat
        BY DayKeeps
    <2>2. StatusInv'
        BY HandlerKeeps, OthersKeep DEF Next
    <2> QED
        BY <2>1, <2>2
<1> QED
    BY <1>1, <1>2, PTL DEF Spec

\* A handler's step moves at most its own row, and a transfer only along the order.
LEMMA HandlerMoves ==
    ASSUME StatusInv, NEW h \in Handlers, Step(h), NEW i \in Txs, NEW a, NEW b,
           Moves(i, a, b), txn'[i].type = "transfer"
    PROVE  <<a, b>> \in { <<"NONE", "PENDING">>, <<"PENDING", "SUCCESS">>,
                          <<"PENDING", "FAILED">>, <<"SUCCESS", "REVERSED">> }
<1>1. txn' # txn
    BY DEF Moves
<1>2. CASE Create(h)
    <2>1. PICK row : /\ row.status = "PENDING" /\ Unused # {}
                     /\ txn' = [txn EXCEPT ![CHOOSE j \in Unused : TRUE] = row]
        BY <1>1, <1>2 DEF Create
    <2>2. (CHOOSE j \in Unused : TRUE) \in Txs /\ txn[CHOOSE j \in Unused : TRUE].status = "NONE"
        BY <2>1 DEF Unused
    <2> QED
        BY <2>1, <2>2 DEF Moves, StatusInv, ShapeInv
<1>3. CASE Fail(h) \/ Succeed(h)
    <2>1. Committed(h)
        BY <1>3 DEF Fail, Succeed, Committed
    <2>2. PICK s \in {"FAILED", "SUCCESS", "REVERSED"} :
            SetStatus(h, s) /\ OutcomeOf(req[h].op, s)
        BY <1>1, <1>3, <2>1 DEF Fail, Succeed, OutcomeOf, StatusInv, PathInv
    <2>3. /\ cur[h] \in Txs /\ txn'[cur[h]].status = s /\ txn'[cur[h]].type = txn[cur[h]].type
          /\ \A j \in Txs : j # cur[h] => txn'[j] = txn[j]
        BY <2>1, <2>2, SetStatusRow DEF Statuses
    <2>4. i = cur[h] /\ b = s /\ a = txn[cur[h]].status /\ txn[cur[h]].type = "transfer" /\ a # b
        BY <2>3 DEF Moves
    <2>5. KnownAt(h)
        BY <2>1 DEF StatusInv, KnownInv, KnownAt
    <2> QED
        BY <2>2, <2>4, <2>5 DEF KnownAt, OutcomeOf
<1>4. CASE UNCHANGED txn
    BY <1>1, <1>4
<1> QED
    BY <1>2, <1>3, <1>4
    DEF Step, Lookup, ReadBalance, CheckLimits, SendOtp, VerifyOtp, DeleteOtp, Read, Call,
        Return, Timeout, Publish

\* The status of a transfer moves PENDING -> SUCCESS or FAILED, SUCCESS -> REVERSED
\* only, for any number of concurrent handlers, retries, late answers and crashes:
\* no check is made when an outcome is written, and none is needed.
THEOREM TransfersMoveInOrder == Spec => StatusOrder
<1>1. StatusInv /\ [Next]_vars =>
        [\A id \in Txs, a, b \in Statuses :
           Moves(id, a, b) /\ txn'[id].type = "transfer" =>
             <<a, b>> \in { <<"NONE", "PENDING">>, <<"PENDING", "SUCCESS">>,
                            <<"PENDING", "FAILED">>, <<"SUCCESS", "REVERSED">> }]_vars
    <2> SUFFICES ASSUME StatusInv, Next, NEW id \in Txs, NEW a \in Statuses, NEW b \in Statuses,
                        Moves(id, a, b), txn'[id].type = "transfer"
                 PROVE  <<a, b>> \in { <<"NONE", "PENDING">>, <<"PENDING", "SUCCESS">>,
                                       <<"PENDING", "FAILED">>, <<"SUCCESS", "REVERSED">> }
        OBVIOUS
    <2>1. txn' # txn
        BY DEF Moves
    <2>2. PICK h \in Handlers : Step(h)
        BY <2>1, OthersKeep DEF Next, Receive, Dies
    <2> QED
        BY <2>2, HandlerMoves
<1> QED
    BY <1>1, RowsAreKnown, PTL DEF Spec, StatusOrder

-----------------------------------------------------------------------------
(***************************************************************************)
(* The second part: what api-core's rows say of the money is what the      *)
(* ledger's books say.  The argument, MoneyInv, ties four things together: *)
(* a row, the calls about it on their way, what the ledger remembers of    *)
(* having executed and what its books hold.  It derives from the ledger's  *)
(* own promise, LedgerBook, which entries a posting adds; at the end it    *)
(* adds up what a sender has moved and keeps it within the daily limit.    *)
(* A transfer is called once under its ledger key, by the handler that     *)
(* made its row; cash-ins and reversals may be called again, and are tied  *)
(* to the books as far as the ledger's memory of their key held.           *)
(***************************************************************************)
-----------------------------------------------------------------------------
(***************************************************************************)
(* What a posting does to the ledger's tables.                             *)
(***************************************************************************)
Books == [Wallets -> Seq(Entry)]
Pages == [ok : BOOLEAN, balance : [Wallets -> Int], book : Books]
LedgerTyped == balance \in [Wallets -> Int] /\ book \in Books

\* The ledger means by a word what api-core's model does.
LEMMA SameWords ==
  /\ \A c : Book!LegsOf(c) = LegsOf(c) /\ Book!TotalDebit(c) = TotalDebit(c)
  /\ \A b, tx : Book!PlacesOf(b, tx) = PlacesOf(b, tx) /\ Book!ReversalsOf(b, tx) = ReversalsOf(b, tx)
  /\ \A w, e : Book!MirrorOf(w, e) = MirrorOf(w, e)
  /\ \A leg, n : Book!Covered(leg, n) <=> Covered(leg, n)
  /\ \A tx, leg, n : Book!EntryOf(tx, leg, n) = EntryOf(tx, leg, n)
PROOF
<1>1. \A c : Book!LegsOf(c) = LegsOf(c) /\ Book!TotalDebit(c) = TotalDebit(c)
  BY DEF Book!LegsOf, Book!TransferLegs, Book!PrincipalLegs, Book!FeeLegs, Book!LegOf, Book!TotalDebit,
         LegsOf, TransferLegs, PrincipalLegs, FeeLegs, LegOf, TotalDebit
<1>2. \A b, tx : Book!PlacesOf(b, tx) = PlacesOf(b, tx)
  BY DEF Book!PlacesOf, PlacesOf
<1>3. \A b, tx : Book!ReversalsOf(b, tx) = ReversalsOf(b, tx)
  BY <1>2 DEF Book!ReversalsOf, ReversalsOf
<1>4. \A w, e : Book!MirrorOf(w, e) = MirrorOf(w, e)
  BY DEF Book!MirrorOf, Book!LegOf, Book!Opposite, MirrorOf, LegOf, Opposite
<1>5. \A leg, n : Book!Covered(leg, n) <=> Covered(leg, n)
  BY DEF Book!Covered, Covered
<1>6. \A tx, leg, n : Book!EntryOf(tx, leg, n) = EntryOf(tx, leg, n)
  BY DEF Book!EntryOf, Book!After, EntryOf, After
<1> QED BY <1>1, <1>2, <1>3, <1>4, <1>5, <1>6

LEMMA EntryTyped ==
  ASSUME NEW tx \in Txs, NEW leg \in Leg, NEW n \in Int
  PROVE  /\ EntryOf(tx, leg, n) \in Entry /\ EntryOf(tx, leg, n).after \in Int
         /\ EntryOf(tx, leg, n).tx = tx
         /\ EntryOf(tx, leg, n).dir = leg.dir /\ EntryOf(tx, leg, n).amount = leg.amount
         /\ EntryOf(tx, leg, n).type = leg.type
PROOF
<1>1. leg.dir \in Directions /\ leg.amount \in Nat /\ leg.type \in EntryTypes
  BY DEF Leg
<1>2. After(leg.dir, leg.amount, n) \in Int
  BY <1>1 DEF After
<1> QED BY <1>1, <1>2 DEF EntryOf, Entry

\* Posting one leg keeps a page a page.
LEMMA PostOnTyped ==
  ASSUME NEW tx \in Txs, NEW leg \in Leg, NEW p \in Pages
  PROVE  Book!PostOn(tx, leg, p) \in Pages
PROOF
<1> DEFINE w == leg.wallet
           e == EntryOf(tx, leg, p.balance[w])
<1>1. CASE p.ok /\ w \in Wallets /\ Covered(leg, p.balance[w])
  <2>1. Book!PostOn(tx, leg, p) =
          [ ok |-> TRUE, balance |-> [p.balance EXCEPT ![w] = e.after],
            book |-> [p.book EXCEPT ![w] = Append(@, e)] ]
    BY <1>1, SameWords DEF Book!PostOn
  <2>2. e \in Entry /\ e.after \in Int
    BY <1>1, EntryTyped DEF Pages
  <2> HIDE DEF e, w
  <2>4. [p.balance EXCEPT ![w] = e.after] \in [Wallets -> Int]
    BY <2>2 DEF Pages
  <2>5. [p.book EXCEPT ![w] = Append(@, e)] \in Books
    <3>1. \A v \in Wallets : p.book[v] \in Seq(Entry) /\ Append(p.book[v], e) \in Seq(Entry)
      BY <2>2, AppendProperties DEF Pages, Books
    <3> QED BY <3>1 DEF Pages, Books
  <2> QED BY <2>1, <2>4, <2>5 DEF Pages
<1>2. CASE ~(p.ok /\ w \in Wallets /\ Covered(leg, p.balance[w]))
  <2>1. Book!PostOn(tx, leg, p) = [p EXCEPT !.ok = FALSE]
    BY <1>2, SameWords DEF Book!PostOn
  <2> QED BY <2>1 DEF Pages
<1> QED BY <1>1, <1>2

\* The largest number up to n in a set.
LEMMA LargestIn ==
  ASSUME NEW n \in Nat, NEW s \in SUBSET (1..n), s # {}
  PROVE  Max(s) \in s /\ \A y \in s : Max(s) >= y
PROOF
<1> DEFINE T == {n - x : x \in s}
<1>0. \A x \in s : x \in Nat /\ x <= n
  OBVIOUS
<1>1. T \subseteq Nat /\ T # {}
  <2>1. \A x \in s : n - x \in Nat
    BY <1>0
  <2>2. PICK x \in s : TRUE
    OBVIOUS
  <2>3. n - x \in T
    OBVIOUS
  <2> QED BY <2>1, <2>3
<1>2. PICK m \in T : \A k \in T : m <= k
  <2> HIDE DEF T
  <2> QED BY <1>1, LeastNumber, Zenon
<1>3. PICK x \in s : m = n - x
  BY <1>2
<1>4. \A y \in s : x >= y
  <2> TAKE y \in s
  <2>1. n - x <= n - y
    BY <1>2, <1>3
  <2> QED BY <1>0, <1>3, <2>1
<1> QED BY <1>3, <1>4 DEF Max

\* The pages the fold of LedgerBook goes through, leg by leg.
Walk(F, tx, legs) ==
    /\ F \in [0..Len(legs) -> Pages]
    /\ F[0] = [ok |-> TRUE, balance |-> balance, book |-> book]
    /\ \A i \in 1..Len(legs) : F[i] = Book!PostOn(tx, legs[i], F[i - 1])

LEMMA PostAllWalks ==
  ASSUME LedgerTyped, NEW tx \in Txs, NEW legs \in Seq(Leg)
  PROVE  \E F : Walk(F, tx, legs) /\ Book!PostAll(tx, legs) = F[Len(legs)]
PROOF
<1> DEFINE n == Len(legs)
           D == DOMAIN legs
           base == [ok |-> TRUE, balance |-> balance, book |-> book]
           Def(h) == [s \in SUBSET D |->
                        IF s = {} THEN base
                        ELSE Book!PostOn(tx, legs[Max(s)], h[s \ {Max(s)}])]
           it == CHOOSE h : h = Def(h)
<1>1. n \in Nat /\ D = 1..n /\ \A i \in D : legs[i] \in Leg
  OBVIOUS
<1>2. Book!PostAll(tx, legs) = it[D]
  BY DEF Book!PostAll, Book!FoldLeft, Book!MapThenFoldSet, Book!Max, Max
<1>3. base \in Pages
  BY DEF Pages, LedgerTyped
<1> DEFINE ch == [s \in SUBSET D |-> Max(s)]
           step == [p \in D \X Pages |-> Book!PostOn(tx, legs[p[1]], p[2])]
<1>4. \A s \in SUBSET D : s # {} => ch[s] \in s /\ ch[s] = Max(s)
  BY <1>1, LargestIn
<1>5. step \in [D \X Pages -> Pages]
  BY <1>1, PostOnTyped
<1>6. IsFiniteSet(D)
  BY <1>1, FS_Interval
<1>7. PICK g \in [SUBSET D -> Pages] : Folds(g, D, ch, base, step)
  <2> HIDE DEF D, ch, step, base
  <2> QED BY <1>3, <1>4, <1>5, <1>6, FoldExists
<1>8. g = Def(g)
  <2>1. \A s \in SUBSET D : s # {} =>
          step[<<ch[s], g[s \ {ch[s]}]>>] = Book!PostOn(tx, legs[Max(s)], g[s \ {Max(s)}])
    <3> SUFFICES ASSUME NEW s \in SUBSET D, s # {}
                 PROVE  step[<<ch[s], g[s \ {ch[s]}]>>]
                          = Book!PostOn(tx, legs[Max(s)], g[s \ {Max(s)}])
      OBVIOUS
    <3>1. ch[s] = Max(s) /\ Max(s) \in D /\ s \ {Max(s)} \in SUBSET D
      BY <1>4
    <3>2. g[s \ {Max(s)}] \in Pages
      BY <3>1
    <3> QED BY <3>1, <3>2
  <2> HIDE DEF ch, step, base, D
  <2> QED BY <1>7, <2>1 DEF Folds
<1>9. it = Def(it)
  <2> HIDE DEF Def
  <2> QED BY <1>8
<1>10. \A s \in SUBSET D : it[s] \in Pages
  <2>1. it[{}] \in Pages
    <3>1. it[{}] = base
      <4> HIDE DEF it
      <4> QED BY <1>9
    <3> QED BY <1>3, <3>1
  <2>2. \A s \in SUBSET D : s # {} => it[s] = Book!PostOn(tx, legs[Max(s)], it[s \ {Max(s)}])
    <3> HIDE DEF it
    <3> QED BY <1>9
  <2>3. \A s \in SUBSET D : s # {} /\ it[s \ {Max(s)}] \in Pages => it[s] \in Pages
    <3> SUFFICES ASSUME NEW s \in SUBSET D, s # {}, it[s \ {Max(s)}] \in Pages
                 PROVE  it[s] \in Pages
      OBVIOUS
    <3>1. legs[Max(s)] \in Leg
      BY <1>1, <1>4
    <3> HIDE DEF it
    <3> QED BY <2>2, <3>1, PostOnTyped
  <2> HIDE DEF it
  <2> DEFINE Bad == {s \in SUBSET D : it[s] \notin Pages}
  <2>5. Bad = {}
    <3> SUFFICES ASSUME Bad # {} PROVE FALSE
      OBVIOUS
    <3>1. PICK U \in Bad : \A V \in SUBSET U : V # U => V \notin Bad
      <4>1. Bad \subseteq SUBSET D
        OBVIOUS
      <4> HIDE DEF Bad, D
      <4> QED BY <1>6, <4>1, SmallestSet, Zenon
    <3>2. U # {}
      BY <2>1
    <3>3. Max(U) \in U
      BY <1>4, <3>2
    <3>4. it[U \ {Max(U)}] \in Pages
      BY <3>1, <3>3
    <3> QED BY <2>3, <3>2, <3>4
  <2> QED BY <2>5
<1> HIDE DEF it
<1> DEFINE F == [i \in 0..n |-> it[1..i]]
<1>11. \A i \in 0..n : 1..i \in SUBSET D
  BY <1>1
<1>12. F \in [0..n -> Pages]
  BY <1>10, <1>11
<1>13. F[0] = base
  <2>1. it[{}] = base
    BY <1>9
  <2>3. 1..0 = {}
    OBVIOUS
  <2> QED BY <1>1, <2>1, <2>3
<1>14. ASSUME NEW i \in 1..n PROVE F[i] = Book!PostOn(tx, legs[i], F[i - 1])
  <2> DEFINE s == 1..i
  <2>1. i \in 0..n /\ i - 1 \in 0..n /\ s \in SUBSET D /\ s \in SUBSET (1..n) /\ i \in s /\ s # {}
    <3>1. i \in Nat /\ 1 <= i /\ i <= n
      BY <1>1
    <3>2. i \in s /\ \A y \in s : y \in 1..n
      BY <1>1, <3>1
    <3>3. i \in 0..n /\ i - 1 \in 0..n
      BY <1>1, <3>1
    <3> HIDE DEF s
    <3> QED BY <1>1, <3>2, <3>3
  <2>3. Max(s) = i
    <3>1. Max(s) \in s /\ \A y \in s : Max(s) >= y
      <4> HIDE DEF s
      <4> QED BY <1>1, <2>1, LargestIn
    <3> QED BY <2>1, <3>1
  <2>4. s \ {i} = 1..(i - 1)
    OBVIOUS
  <2>5. it[s] = Book!PostOn(tx, legs[i], it[s \ {i}])
    <3> HIDE DEF s, D, base
    <3> QED BY <1>9, <2>1, <2>3
  <2> QED BY <2>1, <2>4, <2>5
<1>15. Book!PostAll(tx, legs) = F[n]
  BY <1>1, <1>2
<1>16. Walk(F, tx, legs)
  <2> HIDE DEF F
  <2> QED BY <1>12, <1>13, <1>14 DEF Walk
<1>17. n = Len(legs)
  OBVIOUS
<1> HIDE DEF F, n
<1> QED BY <1>15, <1>16, <1>17, Zenon

\* The books c are the books b with n legs more, leg j at the place at[j].
Placed(tx, legs, n, at, b, c) ==
    /\ at \in [1..n -> Wallets \X Nat]
    /\ \A j \in 1..n :
         LET w == at[j][1]
             i == at[j][2]
         IN  /\ w = legs[j].wallet /\ i \in 1..Len(c[w]) /\ i > Len(b[w])
             /\ c[w][i].tx = tx /\ c[w][i].dir = legs[j].dir
             /\ c[w][i].amount = legs[j].amount /\ c[w][i].type = legs[j].type
    /\ \A j, k \in 1..n : at[j] = at[k] => j = k
    /\ \A w \in Wallets :
         /\ Len(b[w]) <= Len(c[w])
         /\ \A i \in 1..Len(b[w]) : c[w][i] = b[w][i]
         /\ \A i \in 1..Len(c[w]) : i > Len(b[w]) => \E j \in 1..n : at[j] = <<w, i>>

LEMMA PlacedNone ==
  ASSUME NEW b \in Books, NEW tx, NEW legs
  PROVE  \E at : Placed(tx, legs, 0, at, b, b)
PROOF
<1> DEFINE at == [j \in 1..0 |-> <<CHOOSE w \in Wallets : TRUE, 0>>]
<1>1. 1..0 = {}
  OBVIOUS
<1>2. at \in [1..0 -> Wallets \X Nat]
  BY <1>1
<1>3. \A w \in Wallets : b[w] \in Seq(Entry)
  BY DEF Books
<1>4. \A w \in Wallets : Len(b[w]) \in Nat
  BY <1>3
<1> HIDE DEF at
<1>5. Placed(tx, legs, 0, at, b, b)
  BY <1>1, <1>2, <1>4 DEF Placed
<1> QED BY <1>5

\* One leg more finds a place of its own.
LEMMA PlacedNext ==
  ASSUME NEW tx \in Txs, NEW legs \in Seq(Leg), NEW n \in 1..Len(legs), NEW b \in Books,
         NEW p \in Pages, NEW at, Placed(tx, legs, n - 1, at, b, p.book),
         Book!PostOn(tx, legs[n], p).ok
  PROVE  p.ok /\ \E on : Placed(tx, legs, n, on, b, Book!PostOn(tx, legs[n], p).book)
PROOF
<1> DEFINE leg == legs[n]
           w == leg.wallet
           e == EntryOf(tx, leg, p.balance[w])
           c == p.book
           q == Book!PostOn(tx, leg, p)
           d == [c EXCEPT ![w] = Append(@, e)]
<1>1. leg \in Leg /\ n \in Nat /\ n - 1 \in Nat
  OBVIOUS
<1>2. p.ok /\ w \in Wallets /\ q = [ ok |-> TRUE, balance |-> [p.balance EXCEPT ![w] = e.after],
                                   book |-> d]
  <2>1. CASE p.ok /\ w \in Wallets /\ Covered(leg, p.balance[w])
    BY <2>1, SameWords DEF Book!PostOn
  <2>2. CASE ~(p.ok /\ w \in Wallets /\ Covered(leg, p.balance[w]))
    <3>1. q = [p EXCEPT !.ok = FALSE]
      BY <2>2, SameWords DEF Book!PostOn
    <3>2. ~q.ok
      BY <3>1 DEF Pages
    <3> QED BY <3>2
  <2> QED BY <2>1, <2>2
<1>3. e \in Entry /\ e.tx = tx /\ e.dir = leg.dir /\ e.amount = leg.amount /\ e.type = leg.type
  BY <1>1, <1>2, EntryTyped DEF Pages
<1>4. c \in Books
  BY DEF Pages
<1>5. q.book = d
  BY <1>2
<1> HIDE DEF q, e
<1>6. \A v \in Wallets : c[v] \in Seq(Entry) /\ b[v] \in Seq(Entry) /\ Len(c[v]) \in Nat /\ Len(b[v]) \in Nat
  BY <1>4 DEF Books
<1>7. /\ \A v \in Wallets : v # w => d[v] = c[v]
      /\ d[w] = Append(c[w], e)
  BY <1>2, <1>4 DEF Books
<1>8. Len(d[w]) = Len(c[w]) + 1 /\ d[w][Len(c[w]) + 1] = e /\ \A i \in 1..Len(c[w]) : d[w][i] = c[w][i]
  BY <1>2, <1>3, <1>6, <1>7, AppendProperties
<1> DEFINE on == [j \in 1..n |-> IF j = n THEN <<w, Len(c[w]) + 1>> ELSE at[j]]
<1>9. /\ on[n] = <<w, Len(c[w]) + 1>> /\ \A j \in 1..(n - 1) : on[j] = at[j]
      /\ \A j \in 1..n : j = n \/ j \in 1..(n - 1)
  BY <1>1
<1>10. on \in [1..n -> Wallets \X Nat]
  BY <1>1, <1>2, <1>6, <1>9 DEF Placed
<1>17. leg = legs[n] /\ w = legs[n].wallet
  OBVIOUS
<1> HIDE DEF on, d, leg, w, c
<1>11. \A v \in Wallets : /\ Len(c[v]) <= Len(d[v]) /\ Len(d[v]) \in Nat
                          /\ \A i \in 1..Len(c[v]) : d[v][i] = c[v][i]
                          /\ \A i \in 1..Len(d[v]) : i \in 1..Len(c[v]) \/ (v = w /\ i = Len(c[w]) + 1)
  <2> TAKE v \in Wallets
  <2>1. CASE v = w
    BY <1>6, <1>8, <2>1
  <2>2. CASE v # w
    BY <1>6, <1>7, <2>2
  <2> QED BY <2>1, <2>2
<1>12. \A j \in 1..(n - 1) : at[j] \in Wallets \X Nat
  BY DEF Placed
<1>13. ASSUME NEW j \in 1..n
       PROVE  /\ on[j][1] = legs[j].wallet /\ on[j][2] \in 1..Len(d[on[j][1]])
              /\ on[j][2] > Len(b[on[j][1]])
              /\ d[on[j][1]][on[j][2]].tx = tx /\ d[on[j][1]][on[j][2]].dir = legs[j].dir
              /\ d[on[j][1]][on[j][2]].amount = legs[j].amount
              /\ d[on[j][1]][on[j][2]].type = legs[j].type
  <2>1. CASE j = n
    <3>1. on[j][1] = w /\ on[j][2] = Len(c[w]) + 1 /\ legs[j] = leg /\ legs[j].wallet = w
      BY <1>9, <1>17, <2>1
    <3>2. Len(b[w]) <= Len(c[w])
      BY <1>2 DEF Placed, c
    <3>3. d[on[j][1]][on[j][2]] = e
      BY <1>8, <3>1
    <3>4. on[j][2] \in 1..Len(d[on[j][1]]) /\ on[j][2] > Len(b[on[j][1]])
      BY <1>2, <1>6, <1>8, <3>1, <3>2
    <3> QED BY <1>3, <3>1, <3>3, <3>4
  <2>2. CASE j \in 1..(n - 1)
    <3>1. on[j] = at[j] /\ at[j][1] \in Wallets
      BY <1>9, <1>12, <2>2
    <3>2. /\ at[j][1] = legs[j].wallet /\ at[j][2] \in 1..Len(c[at[j][1]])
          /\ at[j][2] > Len(b[at[j][1]])
          /\ c[at[j][1]][at[j][2]].tx = tx /\ c[at[j][1]][at[j][2]].dir = legs[j].dir
          /\ c[at[j][1]][at[j][2]].amount = legs[j].amount
          /\ c[at[j][1]][at[j][2]].type = legs[j].type
      BY <2>2 DEF Placed, c
    <3>4. \A v \in Wallets : \A i \in 1..Len(c[v]) : d[v][i] = c[v][i] /\ i \in 1..Len(d[v])
      BY <1>6, <1>11
    <3>3. d[at[j][1]][at[j][2]] = c[at[j][1]][at[j][2]] /\ at[j][2] \in 1..Len(d[at[j][1]])
      BY <3>1, <3>2, <3>4
    <3> QED BY <3>1, <3>2, <3>3
  <2> QED BY <1>9, <2>1, <2>2
<1>14. ASSUME NEW j \in 1..n, NEW k \in 1..n, on[j] = on[k] PROVE j = k
  <2>1. \A i \in 1..(n - 1) : on[i] # on[n]
    <3> TAKE i \in 1..(n - 1)
    <3>1. at[i][2] \in 1..Len(c[at[i][1]])
      BY DEF Placed, c
    <3> QED BY <1>6, <1>9, <1>2, <3>1
  <2>2. \A x, y \in 1..(n - 1) : at[x] = at[y] => x = y
    BY DEF Placed
  <2> QED BY <1>9, <1>14, <2>1, <2>2
<1>15. ASSUME NEW v \in Wallets
       PROVE  /\ Len(b[v]) <= Len(d[v])
              /\ \A i \in 1..Len(b[v]) : d[v][i] = b[v][i]
              /\ \A i \in 1..Len(d[v]) : i > Len(b[v]) => \E j \in 1..n : on[j] = <<v, i>>
  <2>1. /\ Len(b[v]) <= Len(c[v])
        /\ \A i \in 1..Len(b[v]) : c[v][i] = b[v][i]
        /\ \A i \in 1..Len(c[v]) : i > Len(b[v]) => \E j \in 1..(n - 1) : at[j] = <<v, i>>
    BY DEF Placed, c
  <2>2. Len(b[v]) \in Nat /\ Len(c[v]) \in Nat
    BY <1>6
  <2>3. \A i \in 1..Len(b[v]) : d[v][i] = b[v][i]
    BY <1>11, <2>1, <2>2
  <2>4. ASSUME NEW i \in 1..Len(d[v]), i > Len(b[v]) PROVE \E j \in 1..n : on[j] = <<v, i>>
    <3>1. CASE i \in 1..Len(c[v])
      <4>1. PICK j \in 1..(n - 1) : at[j] = <<v, i>>
        BY <2>1, <2>4, <3>1
      <4>2. j \in 1..n
        BY <1>1
      <4> QED BY <1>9, <4>1, <4>2
    <3>2. CASE v = w /\ i = Len(c[w]) + 1
      <4>1. n \in 1..n
        BY <1>1
      <4> QED BY <1>9, <3>2, <4>1
    <3> QED BY <1>11, <3>1, <3>2
  <2>5. Len(b[v]) <= Len(d[v])
    BY <1>11, <2>1, <2>2
  <2> QED BY <2>3, <2>4, <2>5
<1>16. Placed(tx, legs, n, on, b, d)
  <2>1. \A j, k \in 1..n : on[j] = on[k] => j = k
    BY <1>14
  <2> QED BY <1>10, <1>13, <1>15, <2>1 DEF Placed
<1> QED BY <1>2, <1>5, <1>16 DEF q, leg

\* What is posted is in the books, leg by leg, and nothing else is.
LEMMA PostedLegs ==
  ASSUME LedgerTyped, NEW tx \in Txs, NEW legs \in Seq(Leg), Book!PostLegs(tx, legs)
  PROVE  LedgerTyped' /\ \E at : Placed(tx, legs, Len(legs), at, book, book')
PROOF
<1>1. PICK F : Walk(F, tx, legs) /\ Book!PostAll(tx, legs) = F[Len(legs)]
  BY PostAllWalks
<1> DEFINE n == Len(legs)
           T == {i \in Nat : i <= n /\ F[i].ok => \E at : Placed(tx, legs, i, at, book, F[i].book)}
<1>2. n \in Nat /\ \A i \in 1..n : legs[i] \in Leg
  OBVIOUS
<1>3. /\ F \in [0..n -> Pages] /\ F[0] = [ok |-> TRUE, balance |-> balance, book |-> book]
      /\ \A i \in 1..n : F[i] = Book!PostOn(tx, legs[i], F[i - 1])
  BY <1>1 DEF Walk
<1>4. F[n].ok /\ balance' = F[n].balance /\ book' = F[n].book
  BY <1>1 DEF Book!PostLegs
<1>5. 0 \in T
  <2>1. F[0].book = book /\ book \in Books
    BY <1>3 DEF LedgerTyped
  <2>2. \E at : Placed(tx, legs, 0, at, book, book)
    BY <2>1, PlacedNone
  <2> QED BY <2>1, <2>2
<1>6. ASSUME NEW i \in Nat, i \in T PROVE i + 1 \in T
  <2> SUFFICES ASSUME i + 1 <= n, F[i + 1].ok
               PROVE  \E at : Placed(tx, legs, i + 1, at, book, F[i + 1].book)
    OBVIOUS
  <2> DEFINE k == i + 1
  <2>1. k \in 1..n /\ k - 1 = i /\ i \in 0..n /\ i <= n
    BY <1>2
  <2> HIDE DEF k
  <2>2. F[i] \in Pages /\ F[k] = Book!PostOn(tx, legs[k], F[i])
    BY <1>3, <2>1
  <2>3. F[k].ok
    BY DEF k
  <2>4. ASSUME NEW at, Placed(tx, legs, k - 1, at, book, F[i].book)
        PROVE  F[i].ok /\ \E on : Placed(tx, legs, k, on, book, F[k].book)
    <3>1. book \in Books
      BY DEF LedgerTyped
    <3>2. \A p \in Pages : Placed(tx, legs, k - 1, at, book, p.book) /\ Book!PostOn(tx, legs[k], p).ok
             => p.ok /\ \E on : Placed(tx, legs, k, on, book, Book!PostOn(tx, legs[k], p).book)
      BY <2>1, <3>1, PlacedNext
    <3> QED BY <2>2, <2>3, <2>4, <3>2
  <2>5. F[i].ok
    <3>1. CASE F[i].ok
      BY <3>1
    <3>2. CASE ~F[i].ok
      <4>1. F[k] = [F[i] EXCEPT !.ok = FALSE]
        BY <2>2, <3>2 DEF Book!PostOn
      <4> QED BY <2>2, <2>3, <4>1 DEF Pages
    <3> QED BY <3>1, <3>2
  <2>6. PICK at : Placed(tx, legs, i, at, book, F[i].book)
    BY <1>6, <2>1, <2>5
  <2> QED BY <2>1, <2>4, <2>6 DEF k
<1>7. n \in T
  <2> HIDE DEF T
  <2>1. Nat \subseteq T
    BY <1>5, <1>6, NumberSteps, Zenon
  <2> QED BY <1>2, <2>1
<1>8. F[n] \in Pages
  BY <1>2, <1>3
<1>9. LedgerTyped'
  BY <1>4, <1>8 DEF LedgerTyped, Pages, Books
<1> QED BY <1>2, <1>4, <1>7, <1>9

-----------------------------------------------------------------------------
(***************************************************************************)
(* Where the entries of a transaction are, before and after a posting.     *)
(***************************************************************************)
LEMMA PlacesAre ==
  ASSUME NEW b, NEW id, NEW p
  PROVE  /\ p \in PlacesOf(b, id) <=>
              \E w \in Wallets : \E i \in 1..Len(b[w]) : p = <<w, i>> /\ b[w][i].tx = id
         /\ p \in PlacesOf(b, id) =>
              /\ p[1] \in Wallets /\ p[2] \in 1..Len(b[p[1]]) /\ p = <<p[1], p[2]>>
              /\ b[p[1]][p[2]].tx = id
PROOF
<1>1. p \in PlacesOf(b, id) <=>
        \E w \in Wallets : \E i \in 1..Len(b[w]) : p = <<w, i>> /\ b[w][i].tx = id
  BY DEF PlacesOf
<1>2. ASSUME p \in PlacesOf(b, id)
      PROVE  /\ p[1] \in Wallets /\ p[2] \in 1..Len(b[p[1]]) /\ p = <<p[1], p[2]>>
             /\ b[p[1]][p[2]].tx = id
  <2>1. PICK w \in Wallets : \E i \in 1..Len(b[w]) : p = <<w, i>> /\ b[w][i].tx = id
    BY <1>1, <1>2
  <2>2. PICK i \in 1..Len(b[w]) : p = <<w, i>> /\ b[w][i].tx = id
    BY <2>1
  <2>3. p[1] = w /\ p[2] = i
    BY <2>2
  <2> QED BY <2>2, <2>3
<1> QED BY <1>1, <1>2

LEMMA PlacesFinite ==
  ASSUME NEW b \in Books, NEW id
  PROVE  IsFiniteSet(PlacesOf(b, id))
PROOF
<1> DEFINE At(w) == {j \in 1..Len(b[w]) : b[w][j].tx = id}
           Row2(w) == {<<w, i>> : i \in At(w)}
           f == [w \in Wallets |-> Row2(w)]
<1>1. ASSUME NEW w \in Wallets PROVE IsFiniteSet(Row2(w))
  <2>1. Len(b[w]) \in Int
    BY DEF Books
  <2>2. IsFiniteSet(At(w))
    <3>1. IsFiniteSet(1..Len(b[w])) BY <2>1, FS_Interval
    <3> QED BY <3>1, FS_Subset
  <2> DEFINE g == [i \in At(w) |-> <<w, i>>]
  <2>3. g \in Surjection(At(w), Row2(w))
    BY DEF Surjection
  <2> QED BY <2>2, <2>3, FS_Surjection
<1> HIDE DEF Row2
<1>2. f \in Surjection(Wallets, {Row2(w) : w \in Wallets})
  BY DEF Surjection
<1>3. IsFiniteSet({Row2(w) : w \in Wallets})
  BY <1>2, FS_Surjection, CommandsAssumption
<1>4. IsFiniteSet(UNION {Row2(w) : w \in Wallets})
  BY <1>1, <1>3, FS_UNION
<1> QED BY <1>4 DEF PlacesOf, Row2

\* The new places of a posting are its transaction's; the others keep their entries.
LEMMA PlacesAfter ==
  ASSUME NEW b \in Books, NEW c \in Books, NEW tx, NEW legs, NEW n \in Nat, NEW at,
         Placed(tx, legs, n, at, b, c)
  PROVE  /\ \A id : \A p \in PlacesOf(b, id) : p \in PlacesOf(c, id) /\ c[p[1]][p[2]] = b[p[1]][p[2]]
         /\ \A id : id # tx => PlacesOf(c, id) = PlacesOf(b, id)
         /\ \A p \in PlacesOf(c, tx) : p \in PlacesOf(b, tx) \/ \E j \in 1..n : p = at[j]
         /\ \A j \in 1..n : at[j] \in PlacesOf(c, tx) /\ at[j] \notin PlacesOf(b, tx)
PROOF
<1>1. \A w \in Wallets : Len(b[w]) \in Nat /\ Len(c[w]) \in Nat
  <2>1. \A w \in Wallets : b[w] \in Seq(Entry) /\ c[w] \in Seq(Entry)
    BY DEF Books
  <2> QED BY <2>1
<1>2. \A w \in Wallets :
         /\ Len(b[w]) <= Len(c[w])
         /\ \A i \in 1..Len(b[w]) : c[w][i] = b[w][i]
         /\ \A i \in 1..Len(c[w]) : i > Len(b[w]) => \E j \in 1..n : at[j] = <<w, i>>
  BY DEF Placed
<1>3. \A j \in 1..n :
        /\ at[j] \in Wallets \X Nat
        /\ at[j][2] \in 1..Len(c[at[j][1]]) /\ at[j][2] > Len(b[at[j][1]])
        /\ c[at[j][1]][at[j][2]].tx = tx
  BY DEF Placed
<1>4. ASSUME NEW id, NEW p \in PlacesOf(b, id)
      PROVE  p \in PlacesOf(c, id) /\ c[p[1]][p[2]] = b[p[1]][p[2]]
  <2>1. p[1] \in Wallets /\ p[2] \in 1..Len(b[p[1]]) /\ p = <<p[1], p[2]>> /\ b[p[1]][p[2]].tx = id
    BY PlacesAre
  <2>2. p[2] \in 1..Len(c[p[1]]) /\ c[p[1]][p[2]] = b[p[1]][p[2]]
    BY <1>1, <1>2, <2>1
  <2> QED BY <2>1, <2>2, PlacesAre
<1>5. ASSUME NEW id, NEW p \in PlacesOf(c, id)
      PROVE  p \in PlacesOf(b, id) \/ (id = tx /\ \E j \in 1..n : p = at[j])
  <2>1. PICK w \in Wallets : \E i \in 1..Len(c[w]) : p = <<w, i>> /\ c[w][i].tx = id
    BY PlacesAre
  <2>2. PICK i \in 1..Len(c[w]) : p = <<w, i>> /\ c[w][i].tx = id
    BY <2>1
  <2>3. CASE i \in 1..Len(b[w])
    <3>1. b[w][i].tx = id
      BY <1>2, <2>2, <2>3
    <3> QED BY <2>2, <2>3, <3>1, PlacesAre
  <2>4. CASE i > Len(b[w])
    <3>1. PICK j \in 1..n : at[j] = <<w, i>>
      BY <1>2, <2>4
    <3>2. c[w][i].tx = tx
      <4>1. at[j][1] = w /\ at[j][2] = i
        BY <3>1
      <4> QED BY <1>3, <4>1
    <3> QED BY <2>2, <3>1, <3>2
  <2> QED BY <1>1, <2>2, <2>3, <2>4
<1>6. ASSUME NEW j \in 1..n PROVE at[j] \in PlacesOf(c, tx) /\ at[j] \notin PlacesOf(b, tx)
  <2>0. at[j] \in Wallets \X Nat
    BY <1>3
  <2>1. PICK w \in Wallets, i \in Nat : at[j] = <<w, i>>
    BY <2>0
  <2>2. at[j][1] = w /\ at[j][2] = i
    BY <2>1
  <2>3. at[j] \in PlacesOf(c, tx)
    BY <1>3, <2>1, <2>2, PlacesAre
  <2>4. at[j] \notin PlacesOf(b, tx)
    <3> SUFFICES ASSUME at[j] \in PlacesOf(b, tx) PROVE FALSE
      OBVIOUS
    <3>1. i \in 1..Len(b[w])
      BY <2>2, PlacesAre
    <3> QED BY <1>1, <1>3, <2>2, <3>1
  <2> QED BY <2>3, <2>4
<1>7. ASSUME NEW id, id # tx PROVE PlacesOf(c, id) = PlacesOf(b, id)
  BY <1>4, <1>5, <1>7
<1> QED BY <1>4, <1>5, <1>6, <1>7

\* A transaction a posting does not add to.
Stays(id) ==
    /\ OriginalsOf(id)' = OriginalsOf(id)
    /\ \A p \in OriginalsOf(id) : book'[p[1]][p[2]] = book[p[1]][p[2]]

LEMMA PostedStays ==
  ASSUME NEW id \in Txs, Stays(id), PostingOf(id)' = PostingOf(id)
  PROVE  /\ PostedAsAsked(id) => PostedAsAsked(id)'
         /\ OnlyAsAsked(id) => OnlyAsAsked(id)'
PROOF
<1>1. LegsOf(CommandUnder(<<"tx", id>>, id))' = LegsOf(CommandUnder(<<"tx", id>>, id))
  BY DEF PostingOf, LegsOf, TransferLegs, PrincipalLegs, FeeLegs, LegOf
<1> DEFINE legs == LegsOf(CommandUnder(<<"tx", id>>, id))
           O == OriginalsOf(id)
           Is(b, p, leg) == /\ p[1] = leg.wallet /\ b[p[1]][p[2]].dir = leg.dir
                            /\ b[p[1]][p[2]].amount = leg.amount /\ b[p[1]][p[2]].type = leg.type
<1>2. /\ PostedAsAsked(id) <=>
           /\ Cardinality(O) = Len(legs)
           /\ \A j \in 1..Len(legs) : \E p \in O : Is(book, p, legs[j])
      /\ OnlyAsAsked(id) <=> \A p \in O : \E j \in 1..Len(legs) : Is(book, p, legs[j])
  BY DEF PostedAsAsked, OnlyAsAsked, IsLeg
<1>3. /\ PostedAsAsked(id)' <=>
           /\ Cardinality(O') = Len(legs')
           /\ \A j \in 1..Len(legs') : \E p \in O' : Is(book', p, legs'[j])
      /\ OnlyAsAsked(id)' <=> \A p \in O' : \E j \in 1..Len(legs') : Is(book', p, legs'[j])
  BY DEF PostedAsAsked, OnlyAsAsked, IsLeg
<1>4. legs' = legs /\ O' = O /\ \A p \in O : book'[p[1]][p[2]] = book[p[1]][p[2]]
  BY <1>1 DEF Stays
<1> HIDE DEF legs, O
<1>5. \A p \in O : \A leg : Is(book', p, leg) <=> Is(book, p, leg)
  BY <1>4
<1> HIDE DEF Is
<1> QED BY <1>2, <1>3, <1>4, <1>5

LEMMA PlacedEffect ==
  ASSUME LedgerTyped, LedgerTyped', NEW tx, NEW legs, NEW n \in Nat, NEW at,
         Placed(tx, legs, n, at, book, book')
  PROVE  /\ \A id : id # tx => Stays(id) /\ ReversalsOf(book', id) = ReversalsOf(book, id)
         /\ \A p \in OriginalsOf(tx) : book'[p[1]][p[2]] = book[p[1]][p[2]]
         /\ (\A j \in 1..n : legs[j].type # "REVERSAL") =>
              /\ ReversalsOf(book', tx) = ReversalsOf(book, tx)
              /\ \A p : p \in OriginalsOf(tx)' <=> p \in OriginalsOf(tx) \/ \E j \in 1..n : p = at[j]
         /\ (\A j \in 1..n : legs[j].type = "REVERSAL") =>
              /\ Stays(tx)
              /\ \A j \in 1..n : at[j] \in ReversalsOf(book', tx)
PROOF
<1> DEFINE b == book
           c == book'
           Old(id) == PlacesOf(b, id)
           New(id) == PlacesOf(c, id)
<1>1. b \in Books /\ c \in Books
  BY DEF LedgerTyped, Books
<1>2. /\ \A id : \A p \in Old(id) : p \in New(id) /\ c[p[1]][p[2]] = b[p[1]][p[2]]
      /\ \A id : id # tx => New(id) = Old(id)
      /\ \A p \in New(tx) : p \in Old(tx) \/ \E j \in 1..n : p = at[j]
      /\ \A j \in 1..n : at[j] \in New(tx) /\ at[j] \notin Old(tx)
  <2> HIDE DEF b, c
  <2>1. Placed(tx, legs, n, at, b, c)
    BY DEF b, c
  <2> QED BY <1>1, <2>1, PlacesAfter
<1>3. \A j \in 1..n : c[at[j][1]][at[j][2]].type = legs[j].type
  BY DEF Placed
<1>4. /\ \A id, p : p \in ReversalsOf(b, id) <=> p \in Old(id) /\ b[p[1]][p[2]].type = "REVERSAL"
      /\ \A id, p : p \in ReversalsOf(c, id) <=> p \in New(id) /\ c[p[1]][p[2]].type = "REVERSAL"
  BY DEF ReversalsOf
<1>5. /\ \A id : OriginalsOf(id) = Old(id) \ ReversalsOf(b, id)
      /\ \A id : OriginalsOf(id)' = New(id) \ ReversalsOf(c, id)
  BY DEF OriginalsOf
<1> HIDE DEF Old, New
<1>6. \A id : \A p \in OriginalsOf(id) : c[p[1]][p[2]] = b[p[1]][p[2]]
  BY <1>2, <1>5
<1>7. ASSUME NEW id, id # tx PROVE Stays(id) /\ ReversalsOf(book', id) = ReversalsOf(book, id)
  <2>0. \A p : p \in ReversalsOf(c, id) <=> p \in ReversalsOf(b, id)
    BY <1>2, <1>4, <1>7
  <2>1. ReversalsOf(c, id) = ReversalsOf(b, id)
    BY <2>0
  <2>2. OriginalsOf(id)' = OriginalsOf(id)
    BY <1>2, <1>5, <1>7, <2>1
  <2> QED BY <1>6, <2>1, <2>2 DEF Stays
<1>8. ASSUME \A j \in 1..n : legs[j].type # "REVERSAL"
      PROVE  /\ ReversalsOf(book', tx) = ReversalsOf(book, tx)
             /\ \A p : p \in OriginalsOf(tx)' <=> p \in OriginalsOf(tx) \/ \E j \in 1..n : p = at[j]
  <2>1. \A j \in 1..n : at[j] \notin ReversalsOf(c, tx)
    BY <1>3, <1>4, <1>8
  <2>0. \A p : p \in ReversalsOf(c, tx) <=> p \in ReversalsOf(b, tx)
    BY <1>2, <1>4, <2>1
  <2>2. ReversalsOf(c, tx) = ReversalsOf(b, tx)
    BY <2>0
  <2>3. ReversalsOf(b, tx) \subseteq Old(tx)
    BY <1>4
  <2>4. \A p : p \in OriginalsOf(tx)' <=> p \in OriginalsOf(tx) \/ \E j \in 1..n : p = at[j]
    BY <1>2, <1>5, <2>2, <2>3
  <2> QED BY <2>2, <2>4
<1>9. ASSUME \A j \in 1..n : legs[j].type = "REVERSAL"
      PROVE  Stays(tx) /\ \A j \in 1..n : at[j] \in ReversalsOf(book', tx)
  <2>1. \A j \in 1..n : at[j] \in ReversalsOf(c, tx)
    BY <1>2, <1>3, <1>4, <1>9
  <2>2. \A p \in Old(tx) : p \in ReversalsOf(c, tx) <=> p \in ReversalsOf(b, tx)
    BY <1>2, <1>4
  <2>3. \A p \in New(tx) \ Old(tx) : p \in ReversalsOf(c, tx)
    BY <1>2, <2>1
  <2>4. Old(tx) \subseteq New(tx)
    BY <1>2
  <2>5. OriginalsOf(tx)' = OriginalsOf(tx)
    BY <1>5, <2>2, <2>3, <2>4
  <2> QED BY <1>6, <2>1, <2>5 DEF Stays
<1> QED BY <1>6, <1>7, <1>8, <1>9

\* The orders api-core gives are lists of proper legs, none of them a reversal's.
LEMMA OrderLegs ==
  ASSUME ShapeInv, NEW id \in Txs
  PROVE  LET legs == LegsOf(PostingOf(id))
         IN  /\ legs \in Seq(Leg) /\ Len(legs) > 0
             /\ \A j \in 1..Len(legs) : legs[j].type # "REVERSAL"
PROOF
<1> DEFINE row == txn[id]
           c == PostingOf(id)
<1>1. row.from \in WalletIds /\ row.to \in WalletIds /\ row.amount \in Nat /\ row.fee \in Nat
      /\ Platform \in WalletIds
  BY CommandsAssumption, TransactionsAssumption DEF ShapeInv, CommandsAssumption, TransactionsAssumption
<1>2. /\ c.from \in WalletIds /\ c.to \in WalletIds /\ c.fees \in WalletIds /\ c.amount \in Nat
      /\ c.fee \in Nat /\ c.kind \in {"transfer", "credit"}
  BY <1>1 DEF PostingOf, CommandUnder
<1> HIDE DEF c
<1> DEFINE l1 == LegOf(c.from, "DEBIT", c.amount, "PRINCIPAL")
           l2 == LegOf(c.to, "CREDIT", c.amount, "PRINCIPAL")
           l3 == LegOf(c.from, "DEBIT", c.fee, "FEE")
           l4 == LegOf(c.fees, "CREDIT", c.fee, "FEE")
<1>3. /\ l1 \in Leg /\ l2 \in Leg /\ l3 \in Leg /\ l4 \in Leg
      /\ l1.type # "REVERSAL" /\ l2.type # "REVERSAL" /\ l3.type # "REVERSAL" /\ l4.type # "REVERSAL"
  BY <1>2 DEF LegOf, Leg, Directions, EntryTypes
<1>4. LegsOf(c) = <<l1, l2>> \/ LegsOf(c) = <<l2>> \/ LegsOf(c) = <<l1, l2>> \o <<l3, l4>>
  BY <1>2 DEF LegsOf, TransferLegs, PrincipalLegs, FeeLegs
<1> HIDE DEF l1, l2, l3, l4
<1> DEFINE p == <<l1, l2>>
           f == <<l3, l4>>
<1>5. p \in Seq(Leg) /\ f \in Seq(Leg) /\ Len(p) = 2 /\ Len(f) = 2
      /\ (\A j \in 1..2 : p[j].type # "REVERSAL") /\ \A j \in 1..2 : f[j].type # "REVERSAL"
  BY <1>3
<1>6. CASE LegsOf(c) = p
  BY <1>5, <1>6 DEF c
<1>7. CASE LegsOf(c) = <<l2>>
  BY <1>3, <1>7 DEF c
<1>8. CASE LegsOf(c) = p \o f
  <2> HIDE DEF p, f
  <2>0. /\ p \o f \in Seq(Leg)
        /\ Len(p \o f) = Len(p) + Len(f)
        /\ \A i \in 1..(Len(p) + Len(f)) :
             (p \o f)[i] = IF i <= Len(p) THEN p[i] ELSE f[i - Len(p)]
    BY <1>5, ConcatProperties, Zenon
  <2>1. p \o f \in Seq(Leg) /\ Len(p \o f) = 4
    BY <1>5, <2>0
  <2>2. \A j \in 1..4 : (p \o f)[j].type # "REVERSAL"
    <3> TAKE j \in 1..4
    <3>1. (p \o f)[j] = IF j <= 2 THEN p[j] ELSE f[j - 2]
      BY <1>5, <2>0
    <3> QED BY <1>5, <3>1
  <2> QED BY <1>8, <2>1, <2>2 DEF c
<1> QED BY <1>4, <1>6, <1>7, <1>8

\* Posting an order of api-core's adds what it asks for to the books, and nothing else.
LEMMA PostingEffect ==
  ASSUME LedgerTyped, ShapeInv, NEW id \in Txs, Book!Post(PostingOf(id)),
         PostingOf(id)' = PostingOf(id)
  PROVE  /\ LedgerTyped' /\ Posted(id)'
         /\ ~Posted(id) => PostedAsAsked(id)' /\ OnlyAsAsked(id)'
         /\ OnlyAsAsked(id) => OnlyAsAsked(id)'
         /\ \A i : ReversalsOf(book', i) = ReversalsOf(book, i) /\ (i # id => Stays(i))
PROOF
<1>0. PICK legs : legs = LegsOf(PostingOf(id))
  OBVIOUS
<1> DEFINE n == Len(legs)
           Is(b, p, leg) == /\ p[1] = leg.wallet /\ b[p[1]][p[2]].dir = leg.dir
                            /\ b[p[1]][p[2]].amount = leg.amount /\ b[p[1]][p[2]].type = leg.type
<1>1. legs \in Seq(Leg) /\ n > 0 /\ n \in Nat /\ \A j \in 1..n : legs[j].type # "REVERSAL"
  BY <1>0, OrderLegs
<1>2. Book!PostLegs(id, legs)
  <2>1. PostingOf(id).tx = id
    BY DEF PostingOf, CommandUnder
  <2> QED BY <1>0, <2>1, SameWords DEF Book!Post
<1>3. /\ LegsOf(CommandUnder(<<"tx", id>>, id))' = legs
      /\ LegsOf(CommandUnder(<<"tx", id>>, id)) = legs
  BY <1>0 DEF PostingOf, LegsOf, TransferLegs, PrincipalLegs, FeeLegs, LegOf
<1>4. LedgerTyped' /\ \E at : Placed(id, legs, n, at, book, book')
  BY <1>1, <1>2, PostedLegs
<1>5. PICK at : Placed(id, legs, n, at, book, book')
  BY <1>4
<1> HIDE DEF n
<1>6. /\ \A i : i # id => Stays(i) /\ ReversalsOf(book', i) = ReversalsOf(book, i)
      /\ \A p \in OriginalsOf(id) : book'[p[1]][p[2]] = book[p[1]][p[2]]
      /\ ReversalsOf(book', id) = ReversalsOf(book, id)
      /\ \A p : p \in OriginalsOf(id)' <=> p \in OriginalsOf(id) \/ \E j \in 1..n : p = at[j]
  <2>1. n \in Nat /\ \A j \in 1..n : legs[j].type # "REVERSAL"
    BY <1>1
  <2>2. /\ \A i : i # id => Stays(i) /\ ReversalsOf(book', i) = ReversalsOf(book, i)
        /\ \A p \in OriginalsOf(id) : book'[p[1]][p[2]] = book[p[1]][p[2]]
        /\ (\A j \in 1..n : legs[j].type # "REVERSAL") =>
             /\ ReversalsOf(book', id) = ReversalsOf(book, id)
             /\ \A p : p \in OriginalsOf(id)' <=> p \in OriginalsOf(id) \/ \E j \in 1..n : p = at[j]
        /\ (\A j \in 1..n : legs[j].type = "REVERSAL") =>
             /\ Stays(id)
             /\ \A j \in 1..n : at[j] \in ReversalsOf(book', id)
    BY <1>4, <1>5, <2>1, PlacedEffect
  <2> QED BY <2>1, <2>2
<1> DEFINE O == OriginalsOf(id)'
<1>7. \A p : p \in O <=> p \in OriginalsOf(id) \/ \E j \in 1..n : p = at[j]
  BY <1>6
<1>8. \A j \in 1..n : at[j] \in O /\ Is(book', at[j], legs[j])
  <2> TAKE j \in 1..n
  <2>1. /\ at[j][1] = legs[j].wallet /\ book'[at[j][1]][at[j][2]].dir = legs[j].dir
        /\ book'[at[j][1]][at[j][2]].amount = legs[j].amount
        /\ book'[at[j][1]][at[j][2]].type = legs[j].type
    BY <1>5 DEF Placed
  <2>2. at[j] \in O
    BY <1>7
  <2> HIDE DEF O
  <2> QED BY <2>1, <2>2
<1>9. /\ PostedAsAsked(id)' <=> /\ Cardinality(O) = n
                                /\ \A j \in 1..n : \E p \in O : Is(book', p, legs[j])
      /\ OnlyAsAsked(id)' <=> \A p \in O : \E j \in 1..n : Is(book', p, legs[j])
      /\ OnlyAsAsked(id) <=> \A p \in OriginalsOf(id) : \E j \in 1..n : Is(book, p, legs[j])
  BY <1>3 DEF PostedAsAsked, OnlyAsAsked, IsLeg, n
<1>10. \A p \in OriginalsOf(id) : \A leg : Is(book', p, leg) <=> Is(book, p, leg)
  BY <1>6
<1> HIDE DEF Is
<1>11. OnlyAsAsked(id) => OnlyAsAsked(id)'
  <2> HIDE DEF O
  <2> QED BY <1>7, <1>8, <1>9, <1>10
<1>12. ASSUME ~Posted(id) PROVE PostedAsAsked(id)' /\ OnlyAsAsked(id)'
  <2>0. OriginalsOf(id) = {}
    BY <1>12 DEF Posted
  <2>1. at \in [1..n -> O]
    <3>1. DOMAIN at = 1..n /\ at = [j \in 1..n |-> at[j]]
      BY <1>5 DEF Placed
    <3> HIDE DEF O
    <3> QED BY <1>8, <3>1
  <2>2. \A j, k \in 1..n : at[j] = at[k] => j = k
    BY <1>5 DEF Placed
  <2>3. at \in Bijection(1..n, O)
    <3>1. \A p \in O : \E j \in 1..n : at[j] = p
      BY <1>7, <2>0
    <3> HIDE DEF O
    <3>2. at \in Injection(1..n, O)
      BY <2>1, <2>2 DEF Injection, IsInjective
    <3>3. at \in Surjection(1..n, O)
      BY <2>1, <3>1 DEF Surjection
    <3> QED BY <3>2, <3>3 DEF Bijection
  <2>4. IsFiniteSet(1..n) /\ Cardinality(1..n) = n
    BY <1>1, FS_Interval
  <2>5. ExistsBijection(1..n, O)
    BY <2>3 DEF ExistsBijection
  <2> HIDE DEF O
  <2>6. Cardinality(O) = n
    BY <2>4, <2>5, FS_Bijection
  <2>7. OnlyAsAsked(id)
    BY <1>9, <2>0
  <2> QED BY <1>8, <1>9, <1>11, <2>6, <2>7
<1>13. O # {}
  <2>1. 1 \in 1..n
    BY <1>1
  <2> QED BY <1>7, <2>1
<1> QED BY <1>4, <1>6, <1>11, <1>12, <1>13 DEF Posted

\* A reversal leaves the originals alone and mirrors its transaction.
LEMMA ReversalEffect ==
  ASSUME LedgerTyped, NEW id \in Txs, Book!ReverseTx(ReversalOf(id))
  PROVE  /\ LedgerTyped' /\ Mirrored(id)'
         /\ \A i : Stays(i) /\ (i # id => ReversalsOf(book', i) = ReversalsOf(book, i))
PROOF
<1> DEFINE P == PlacesOf(book, id)
<1>1. ReversalOf(id).tx = id
  BY DEF ReversalOf
<1>2. P # {} /\ \E order \in Book!SetToSeqs(P) : Book!PostLegs(id, Book!Mirrors(order))
  BY <1>1, SameWords DEF Book!ReverseTx
<1>3. PICK order \in Book!SetToSeqs(P) : Book!PostLegs(id, Book!Mirrors(order))
  BY <1>2
<1>16. PICK n, legs : n = Cardinality(P) /\ legs = Book!Mirrors(order)
  OBVIOUS
<1>4. IsFiniteSet(P)
  BY PlacesFinite DEF LedgerTyped
<1>5. n \in Nat /\ n # 0
  <2> HIDE DEF P
  <2> QED BY <1>2, <1>4, <1>16, FS_CardinalityType, FS_EmptySet
<1>6. order \in [1..n -> P]
  BY <1>16 DEF Book!SetToSeqs, Book!Cardinality, Cardinality
<1>7. Len(order) = n /\ \A j \in 1..n : order[j] \in P
  BY <1>5, <1>6
<1>8. \A j \in 1..n : order[j][1] \in Wallets /\ book[order[j][1]][order[j][2]] \in Entry
  <2> TAKE j \in 1..n
  <2>1. PICK p \in P : p = order[j]
    BY <1>7
  <2>2. p[1] \in Wallets /\ p[2] \in 1..Len(book[p[1]])
    BY PlacesAre
  <2>3. book[p[1]] \in Seq(Entry)
    BY <2>2 DEF LedgerTyped, Books
  <2> QED BY <2>1, <2>2, <2>3
<1>9. legs = [j \in 1..n |-> MirrorOf(order[j][1], book[order[j][1]][order[j][2]])]
  BY <1>7, <1>16, SameWords DEF Book!Mirrors
<1>10. \A w \in Wallets, e \in Entry : MirrorOf(w, e) \in Leg /\ MirrorOf(w, e).type = "REVERSAL"
  BY CommandsAssumption DEF CommandsAssumption, MirrorOf, LegOf, Leg, Opposite, Entry, Directions, EntryTypes
<1>11. legs \in Seq(Leg) /\ Len(legs) = n /\ \A j \in 1..n : legs[j].type = "REVERSAL"
  <2>1. \A j \in 1..n : MirrorOf(order[j][1], book[order[j][1]][order[j][2]]) \in Leg
    BY <1>8, <1>10
  <2>2. legs \in [1..n -> Leg]
    BY <1>9, <2>1
  <2>3. \A j \in 1..n : legs[j].type = "REVERSAL"
    BY <1>8, <1>9, <1>10
  <2> QED BY <1>5, <2>2, <2>3
<1>12. LedgerTyped' /\ \E at : Placed(id, legs, n, at, book, book')
  BY <1>3, <1>11, <1>16, PostedLegs
<1>13. PICK at : Placed(id, legs, n, at, book, book')
  BY <1>12
<1>14. /\ \A i : i # id => Stays(i) /\ ReversalsOf(book', i) = ReversalsOf(book, i)
       /\ Stays(id) /\ \A j \in 1..n : at[j] \in ReversalsOf(book', id)
  <2>1. n \in Nat /\ \A j \in 1..n : legs[j].type = "REVERSAL"
    BY <1>5, <1>11
  <2>2. /\ \A i : i # id => Stays(i) /\ ReversalsOf(book', i) = ReversalsOf(book, i)
        /\ (\A j \in 1..n : legs[j].type # "REVERSAL") =>
             /\ ReversalsOf(book', id) = ReversalsOf(book, id)
             /\ \A p : p \in OriginalsOf(id)' <=> p \in OriginalsOf(id) \/ \E j \in 1..n : p = at[j]
        /\ (\A j \in 1..n : legs[j].type = "REVERSAL") =>
             /\ Stays(id)
             /\ \A j \in 1..n : at[j] \in ReversalsOf(book', id)
    BY <1>12, <1>13, <2>1, PlacedEffect
  <2> QED BY <2>1, <2>2
<1>15. Mirrored(id)'
  <2>1. 1 \in 1..n
    BY <1>5
  <2> QED BY <1>14, <2>1 DEF Mirrored
<1> QED BY <1>12, <1>14, <1>15

-----------------------------------------------------------------------------
(***************************************************************************)
(* The inductive invariant about the rows, the calls and the books.        *)
(***************************************************************************)
TypeInv ==
    /\ LedgerTyped
    /\ txn \in [Txs -> Row]
    /\ reply \in [Handlers -> {"none", "ok", "error"}]
    /\ otp \in [Purposes \X Wallets -> Nat] /\ issued \in [Purposes \X Wallets -> Nat]
    /\ published \subseteq Txs
    /\ today \in 1..Days
    /\ answers = [k \in Keys |-> answers[k]]
    /\ lapse \in [Keys -> Lapse]

\* What the ledger remembers of a posting and of its reversal, and whether its memory
\* of the posting held.
Remembered(id) == answers[<<"tx", id>>] # << >>
Undone(id) == answers[<<"rev", id>>] # << >>
Held(id) == lapse[<<"tx", id>>] = "none"
Lost(id) == lapse[<<"tx", id>>] = "lost"

Successful(id) == txn[id].status \in {"SUCCESS", "REVERSED"}
Slow == Fault("slow ledger")

\* What "ok" says of a posting: a cash-in's may outlive it.
Credited(id) == Posted(id) \/ (txn[id].type = "cashIn" /\ Lost(id))

\* No call for this transaction is on its way, and none was executed.
Uncalled(id) == \A m \in inbox : m.cmd # PostingOf(id)
Untouched(id) == ~Posted(id) /\ Uncalled(id)

\* The two handlers' rows of one key are one row: the INSERT's UNIQUE constraint.
RowKeysInv ==
    \A i, j \in Txs : txn[i].status # "NONE" /\ txn[j].status # "NONE" /\ txn[i].key = txn[j].key
                        => i = j

\* A row, the ledger's memory and its books.
RowOK(id) ==
    /\ Posted(id) \/ Remembered(id) \/ Lost(id) => txn[id].status # "NONE"
    /\ Posted(id) => OnlyAsAsked(id)
    /\ Posted(id) /\ (txn[id].type = "transfer" \/ Held(id)) => PostedAsAsked(id)
    /\ Remembered(id) => Posted(id) \/ Lost(id)
    /\ Held(id) /\ Posted(id) => Remembered(id)
    /\ Undone(id) => TakenBack(id)
    /\ Mirrored(id) => Successful(id)
    /\ Successful(id) => Credited(id)
    /\ txn[id].status = "REVERSED" => TakenBack(id)
    /\ id \in published => Credited(id)
    /\ txn[id].status = "FAILED" => txn[id].type = "transfer" /\ (~Slow => Untouched(id))

\* A call for the transaction that is past the ledger's memory.
InsideFor(m, id) == m.cmd = PostingOf(id) /\ m.at = "inside"

\* The calls for a transaction: a transfer's is the first and the only one, and past the
\* ledger's memory, as long as it held, there is one call at most.
QueueOK(id) ==
    /\ txn[id].type = "transfer" =>
         /\ Uncalled(id) \/ (~Posted(id) /\ ~Remembered(id))
         /\ \A m, n \in inbox : m.cmd = PostingOf(id) /\ n.cmd = PostingOf(id) => m = n
    /\ Held(id) =>
         /\ \A m \in inbox : InsideFor(m, id) => ~Remembered(id)
         /\ \A m, n \in inbox : InsideFor(m, id) /\ InsideFor(n, id) => m = n

\* The order a handler gives the ledger.
OrderOf(h) == IF req[h].op = "reverse" THEN ReversalOf(cur[h]) ELSE PostingOf(cur[h])

Waits(h) == pc[h] = "wait" /\ reply[h] = "none"
Told(h) == pc[h] = "done" \/ reply[h] = "ok"

\* A call is about a row, and a reversal's about one that succeeded.
CallShape(m) ==
    m = [from |-> m.from, cmd |-> m.cmd, no |-> m.no, at |-> m.at, reason |-> m.reason]

CallOK(m) ==
    /\ m.from \in Handlers \cup {Nobody} /\ m.at \in {"door", "inside"}
    /\ CallShape(m)
    /\ \E id \in Txs : /\ txn[id].status # "NONE"
                       /\ m.cmd = PostingOf(id) \/ (m.cmd = ReversalOf(id) /\ Successful(id))

\* What a handler was told is so, and its own call is the one it waits for.
OutcomeOK(h) ==
    /\ Told(h) => IF req[h].op = "reverse" THEN TakenBack(cur[h]) ELSE Credited(cur[h])
    /\ Committed(h) /\ req[h].op = "reverse" => Successful(cur[h])
    /\ pc[h] = "publish" => cur[h] \in Txs /\ Credited(cur[h])
    /\ pc[h] # "wait" => reply[h] = "none"

OwnCallOK(h) ==
    /\ \A m \in inbox : m.from = h => Waits(h) /\ m.cmd = OrderOf(h)
    /\ \A m, n \in inbox : m.from = h /\ n.from = h => m = n
    /\ Waits(h) => \E m \in inbox : m.from = h

\* A transfer is called for the first time; with a ledger that answers in time its
\* handler knows whether it was posted.
InTimeOK(h) ==
    Committed(h) /\ req[h].op = "transfer" =>
      /\ pc[h] = "call" => Untouched(cur[h]) /\ ~Remembered(cur[h])
      /\ ~Slow /\ (pc[h] = "error" \/ reply[h] = "error") => Untouched(cur[h])

HandlerOK(h) == OutcomeOK(h) /\ OwnCallOK(h) /\ InTimeOK(h)

AgreeInv ==
    /\ RowKeysInv
    /\ \A id \in Txs : RowOK(id) /\ QueueOK(id)
    /\ \A m \in inbox : CallOK(m)
    /\ \A h \in Handlers : HandlerOK(h)

MoneyInv == StatusInv /\ TypeInv /\ AgreeInv

-----------------------------------------------------------------------------
(***************************************************************************)
(* What leaves a row, a call or a handler as the invariant wants it.       *)
(***************************************************************************)
\* The row goes on as the row of the same transaction.
GoesOn(id) ==
    /\ PostingOf(id)' = PostingOf(id) /\ txn'[id].type = txn[id].type
    /\ txn[id].status # "NONE" => txn'[id].status # "NONE"
    /\ Successful(id) => Successful(id)'

BooksSame == UNCHANGED <<setting, book, answers, lapse>>

LEMMA SameBook ==
  ASSUME UNCHANGED book
  PROVE  \A id : Posted(id)' = Posted(id) /\ Mirrored(id)' = Mirrored(id) /\ Stays(id)
PROOF
<1>1. \A id : PlacesOf(book, id)' = PlacesOf(book, id) /\ ReversalsOf(book, id)' = ReversalsOf(book, id)
  BY DEF PlacesOf, ReversalsOf
<1>2. \A id : OriginalsOf(id)' = OriginalsOf(id)
  BY <1>1 DEF OriginalsOf
<1> QED BY <1>1, <1>2 DEF Posted, Mirrored, Stays

LEMMA SameBooks ==
  ASSUME BooksSame
  PROVE  /\ Slow' = Slow
         /\ \A id : /\ Remembered(id)' = Remembered(id) /\ Undone(id)' = Undone(id)
                    /\ Held(id)' = Held(id) /\ Lost(id)' = Lost(id)
         /\ \A id : Posted(id)' = Posted(id) /\ Mirrored(id)' = Mirrored(id) /\ Stays(id)
         /\ \A id : TakenBack(id)' = TakenBack(id)
         /\ \A id : txn'[id].type = txn[id].type => Credited(id)' = Credited(id)
PROOF
<1>1. \A id : Posted(id)' = Posted(id) /\ Mirrored(id)' = Mirrored(id) /\ Stays(id)
  BY SameBook DEF BooksSame
<1>2. \A id : /\ Remembered(id)' = Remembered(id) /\ Undone(id)' = Undone(id)
              /\ Held(id)' = Held(id) /\ Lost(id)' = Lost(id)
  BY DEF BooksSame, Remembered, Undone, Held, Lost
<1>3. \A id : TakenBack(id)' = TakenBack(id)
  BY <1>1 DEF BooksSame, TakenBack
<1>4. \A id : txn'[id].type = txn[id].type => Credited(id)' = Credited(id)
  BY <1>1, <1>2 DEF Credited
<1> QED BY <1>1, <1>2, <1>3, <1>4 DEF BooksSame, Slow, Fault

\* What is said of a handler's row is said of that row.
LEMMA AtRow ==
  ASSUME NEW h, NEW id, cur'[h] = id
  PROVE  /\ Credited(cur[h])' = Credited(id)' /\ TakenBack(cur[h])' = TakenBack(id)'
         /\ Successful(cur[h])' = Successful(id)' /\ Remembered(cur[h])' = Remembered(id)'
         /\ Untouched(cur[h])' = Untouched(id)' /\ PostingOf(cur[h])' = PostingOf(id)'
         /\ ReversalOf(cur[h])' = ReversalOf(id)
PROOF
<1>1. Posted(cur[h])' = Posted(id)' /\ Mirrored(cur[h])' = Mirrored(id)'
  BY DEF Posted, Mirrored, OriginalsOf
<1>2. PostingOf(cur[h])' = PostingOf(id)' /\ ReversalOf(cur[h])' = ReversalOf(id)
  BY DEF PostingOf, CommandUnder, ReversalOf
<1>3. Untouched(cur[h])' = Untouched(id)'
  BY <1>1, <1>2 DEF Untouched, Uncalled
<1> QED BY <1>1, <1>2, <1>3 DEF Credited, TakenBack, Lost, Successful, Remembered

\* Neither the books nor the row change, and nobody calls a failed one anew.
LEMMA RowSame ==
  ASSUME BooksSame, NEW id \in Txs, PostingOf(id)' = PostingOf(id),
         txn[id].status = "FAILED" /\ Uncalled(id) => Uncalled(id)',
         txn'[id].status = txn[id].status, txn'[id].type = txn[id].type,
         id \in published' => id \in published \/ Credited(id), RowOK(id)
  PROVE  RowOK(id)'
PROOF
<1>1. /\ Slow' = Slow /\ Remembered(id)' = Remembered(id) /\ Undone(id)' = Undone(id)
      /\ Held(id)' = Held(id) /\ Lost(id)' = Lost(id) /\ TakenBack(id)' = TakenBack(id)
      /\ Posted(id)' = Posted(id) /\ Mirrored(id)' = Mirrored(id) /\ Stays(id)
      /\ Credited(id)' = Credited(id)
  BY SameBooks
<1>2. (PostedAsAsked(id) => PostedAsAsked(id)') /\ (OnlyAsAsked(id) => OnlyAsAsked(id)')
  BY <1>1, PostedStays
<1> QED BY <1>1, <1>2 DEF RowOK, Successful, Untouched

\* Calls leave the queue, and what the ledger knows of the row stays or ceases to matter.
LEMMA QueueShrinks ==
  ASSUME NEW id, QueueOK(id), inbox' \subseteq inbox,
         PostingOf(id)' = PostingOf(id), txn'[id].type = txn[id].type,
         txn[id].type = "transfer" =>
           Uncalled(id)' \/ ((Posted(id)' => Posted(id)) /\ (Remembered(id)' => Remembered(id))),
         Held(id)' => Held(id),
         Held(id)' /\ Remembered(id)' =>
           Remembered(id) \/ \A m \in inbox' : ~InsideFor(m, id)
  PROVE  QueueOK(id)'
PROOF
<1>1. Uncalled(id) => Uncalled(id)'
  BY DEF Uncalled
<1>2. \A m : InsideFor(m, id)' <=> InsideFor(m, id)
  BY DEF InsideFor
<1>3. txn[id].type = "transfer" =>
        /\ Uncalled(id)' \/ (~Posted(id)' /\ ~Remembered(id)')
        /\ \A m, n \in inbox' : m.cmd = PostingOf(id) /\ n.cmd = PostingOf(id) => m = n
  BY <1>1 DEF QueueOK
<1>4. Held(id)' => \A m, n \in inbox' : InsideFor(m, id) /\ InsideFor(n, id) => m = n
  BY DEF QueueOK
<1>5. ASSUME Held(id)', NEW m \in inbox', InsideFor(m, id), Remembered(id)' PROVE FALSE
  BY <1>5 DEF QueueOK
<1> QED BY <1>2, <1>3, <1>4, <1>5 DEF QueueOK

LEMMA CallSame ==
  ASSUME NEW m, CallOK(m), \A id \in Txs : txn[id].status # "NONE" => GoesOn(id)
  PROVE  CallOK(m)'
PROOF
<1>1. \A id : ReversalOf(id)' = ReversalOf(id)
  BY DEF ReversalOf
<1> QED BY <1>1 DEF CallOK, GoesOn, CallShape

\* A handler that does not move.
Still(h) == pc'[h] = pc[h] /\ req'[h] = req[h] /\ cur'[h] = cur[h] /\ reply'[h] = reply[h]

\* What a handler was told of a row stays true, and nothing is posted that was not
\* called for.
Lasts(id) ==
    /\ (Credited(id) => Credited(id)') /\ (TakenBack(id) => TakenBack(id)')
    /\ Untouched(id) => ~Posted(id)' /\ (Remembered(id)' => Remembered(id))

LEMMA OwnCallStill ==
  ASSUME NEW h, Still(h), OwnCallOK(h), PostingOf(cur[h])' = PostingOf(cur[h]) \/ ~Waits(h),
         \A m : m.from = h => (m \in inbox' <=> m \in inbox)
  PROVE  OwnCallOK(h)'
PROOF
<1>1. Waits(h)' = Waits(h)
  BY DEF Waits, Still
<1>2. ReversalOf(cur[h])' = ReversalOf(cur[h])
  BY DEF ReversalOf, Still
<1>3. Waits(h) => OrderOf(h)' = OrderOf(h)
  BY <1>2 DEF OrderOf, Still
<1> QED BY <1>1, <1>3 DEF OwnCallOK

LEMMA HandlerStill ==
  ASSUME Slow' = Slow, NEW h \in Handlers, Still(h), HandlerOK(h), OwnCallOK(h)',
         Told(h) \/ Committed(h) \/ pc[h] = "publish" => GoesOn(cur[h]) /\ Lasts(cur[h]),
         \A m \in inbox' : Committed(h) /\ req[h].op = "transfer" /\ m.cmd = PostingOf(cur[h]) =>
            \E n \in inbox : n.cmd = m.cmd
  PROVE  HandlerOK(h)'
PROOF
<1>1. pc'[h] = pc[h] /\ req'[h] = req[h] /\ cur'[h] = cur[h] /\ reply'[h] = reply[h]
  BY DEF Still
<1>2. PICK id : id = cur[h]
  OBVIOUS
<1>3. /\ Credited(cur[h])' = Credited(id)' /\ TakenBack(cur[h])' = TakenBack(id)'
      /\ Successful(cur[h])' = Successful(id)' /\ Remembered(cur[h])' = Remembered(id)'
      /\ Untouched(cur[h])' = Untouched(id)' /\ PostingOf(cur[h])' = PostingOf(id)'
  BY <1>1, <1>2, AtRow
<1>4. Committed(h)' = Committed(h) /\ Told(h)' = Told(h) /\ Waits(h)' = Waits(h)
  BY <1>1 DEF Committed, Told, Waits
<1>5. OutcomeOK(h)'
  <2>1. OutcomeOK(h)
    BY DEF HandlerOK
  <2>2. Told(h) \/ Committed(h) \/ pc[h] = "publish" => GoesOn(id) /\ Lasts(id)
    BY <1>2
  <2> QED BY <1>1, <1>2, <1>3, <1>4, <2>1, <2>2 DEF OutcomeOK, GoesOn, Lasts
<1>6. InTimeOK(h)'
  <2> SUFFICES ASSUME Committed(h), req[h].op = "transfer"
               PROVE  /\ pc[h] = "call" => Untouched(id)' /\ ~Remembered(id)'
                      /\ ~Slow /\ (pc[h] = "error" \/ reply[h] = "error") => Untouched(id)'
    BY <1>1, <1>3, <1>4 DEF InTimeOK
  <2>1. GoesOn(id) /\ Lasts(id)
    BY <1>2
  <2>2. \A m \in inbox' : m.cmd = PostingOf(id) => \E n \in inbox : n.cmd = m.cmd
    BY <1>2
  <2>3. Untouched(id) => Untouched(id)'
    BY <2>1, <2>2 DEF Untouched, Uncalled, GoesOn, Lasts
  <2>4. InTimeOK(h)
    BY DEF HandlerOK
  <2> QED BY <1>2, <2>1, <2>3, <2>4 DEF InTimeOK, Lasts
<1> QED BY <1>5, <1>6 DEF HandlerOK

\* A handler that is not about a call, and whose calls nobody answers it, claims nothing.
LEMMA HandlerRests ==
  ASSUME NEW h \in Handlers, ~Committed(h)', pc'[h] # "publish", reply'[h] = "none",
         \A m \in inbox' : m.from # h
  PROVE  HandlerOK(h)'
BY DEF HandlerOK, OutcomeOK, OwnCallOK, InTimeOK, Told, Waits, Committed

\* No call is lost but those of h, which are abandoned.
OnlyMoves(h) ==
    \A g \in Handlers : g # h => pc'[g] = pc[g] /\ req'[g] = req[g] /\ cur'[g] = cur[g] /\ reply'[g] = reply[g]

\* A call of h that is answered to nobody.
Gone(m) == [m EXCEPT !.from = Nobody]
Left(h, m) == IF m.from = h THEN Gone(m) ELSE m

LEMMA GoneCall ==
  ASSUME NEW m, CallShape(m)
  PROVE  /\ Gone(m).from = Nobody /\ Gone(m).cmd = m.cmd /\ Gone(m).at = m.at
         /\ CallShape(Gone(m))
PROOF
<1>1. m = [from |-> m.from, cmd |-> m.cmd, no |-> m.no, at |-> m.at, reason |-> m.reason]
  BY DEF CallShape
<1>2. Gone(m) = [from |-> Nobody, cmd |-> m.cmd, no |-> m.no, at |-> m.at, reason |-> m.reason]
  BY <1>1 DEF Gone
<1> QED BY <1>2 DEF CallShape

LEMMA LeftCall ==
  ASSUME NEW h \in Handlers, NEW m, CallShape(m)
  PROVE  /\ Left(h, m).cmd = m.cmd /\ Left(h, m).at = m.at /\ Left(h, m).from # h
         /\ CallShape(Left(h, m))
         /\ m.from # h => Left(h, m) = m
         /\ m.from = h => Left(h, m).from = Nobody
PROOF
<1>0. Nobody \notin Handlers
  BY TransactionsAssumption DEF TransactionsAssumption
<1>1. CASE m.from = h
  <2>1. Left(h, m) = Gone(m)
    BY <1>1 DEF Left
  <2>2. /\ Gone(m).from = Nobody /\ Gone(m).cmd = m.cmd /\ Gone(m).at = m.at
        /\ CallShape(Gone(m))
    BY GoneCall
  <2> QED BY <1>0, <1>1, <2>1, <2>2
<1>2. CASE m.from # h
  BY <1>2 DEF Left
<1> QED BY <1>1, <1>2

\* The calls after h is gone.
LEMMA Abandons ==
  ASSUME NEW h \in Handlers, \A m \in inbox : CallOK(m), inbox' = Abandoned(h)
  PROVE  /\ \A m \in inbox' : \E n \in inbox : m = Left(h, n)
         /\ \A m \in inbox' : /\ m.from # h /\ CallOK(m)
                              /\ \E n \in inbox : n.cmd = m.cmd
         /\ \A m : m.from # h /\ m.from \in Handlers => (m \in inbox' <=> m \in inbox)
PROOF
<1>0. Nobody \notin Handlers
  BY TransactionsAssumption DEF TransactionsAssumption
<1>1. \A m : m \in inbox' <=> \E n \in inbox : m = Left(h, n)
  BY DEF Abandoned, Left, Gone
<1>2. \A n \in inbox : /\ Left(h, n).cmd = n.cmd /\ Left(h, n).at = n.at /\ Left(h, n).from # h
                       /\ CallShape(Left(h, n))
                       /\ (n.from # h => Left(h, n) = n) /\ (n.from = h => Left(h, n).from = Nobody)
  <2> TAKE n \in inbox
  <2>1. CallShape(n)
    BY DEF CallOK
  <2> QED BY <2>1, LeftCall
<1>3. ASSUME NEW m \in inbox' PROVE m.from # h /\ CallOK(m) /\ \E n \in inbox : n.cmd = m.cmd
  <2>1. PICK n \in inbox : m = Left(h, n)
    BY <1>1
  <2>2. /\ m.cmd = n.cmd /\ m.at = n.at /\ m.from # h /\ CallShape(m) /\ CallOK(n)
        /\ (n.from # h => m = n) /\ (n.from = h => m.from = Nobody)
    BY <1>2, <2>1
  <2>3. m.from \in Handlers \cup {Nobody}
    BY <2>2 DEF CallOK
  <2>4. CallOK(m)
    BY <2>2, <2>3 DEF CallOK
  <2> QED BY <2>2, <2>4
<1>4. ASSUME NEW m, m.from # h, m.from \in Handlers PROVE m \in inbox' <=> m \in inbox
  BY <1>0, <1>1, <1>2, <1>4
<1> QED BY <1>1, <1>3, <1>4

LEMMA QueueLeft ==
  ASSUME BooksSame, NEW h \in Handlers, \A m \in inbox : CallOK(m), inbox' = Abandoned(h),
         NEW id, QueueOK(id), PostingOf(id)' = PostingOf(id), txn'[id].type = txn[id].type
  PROVE  QueueOK(id)'
PROOF
<1>1. Remembered(id)' = Remembered(id) /\ Held(id)' = Held(id) /\ Posted(id)' = Posted(id)
  BY SameBooks
<1>2. \A m \in inbox' : \E n \in inbox : m = Left(h, n) /\ m.cmd = n.cmd /\ m.at = n.at
  <2> TAKE m \in inbox'
  <2>1. PICK n \in inbox : m = Left(h, n)
    BY Abandons
  <2>2. CallShape(n)
    BY DEF CallOK
  <2> QED BY <2>1, <2>2, LeftCall
<1>3. Uncalled(id) => Uncalled(id)'
  BY <1>2 DEF Uncalled
<1>4. ASSUME NEW m \in inbox', NEW n \in inbox', m.cmd = PostingOf(id), n.cmd = PostingOf(id)
      PROVE  \E a, b \in inbox : /\ m = Left(h, a) /\ n = Left(h, b)
                                /\ a.cmd = m.cmd /\ b.cmd = n.cmd /\ a.at = m.at /\ b.at = n.at
  BY <1>2
<1>5. txn[id].type = "transfer" =>
         \A m, n \in inbox' : m.cmd = PostingOf(id) /\ n.cmd = PostingOf(id) => m = n
  BY <1>4 DEF QueueOK
<1>6. Held(id) =>
         /\ \A m \in inbox' : InsideFor(m, id) => ~Remembered(id)
         /\ \A m, n \in inbox' : InsideFor(m, id) /\ InsideFor(n, id) => m = n
  BY <1>2, <1>4 DEF QueueOK, InsideFor
<1>7. \A m : InsideFor(m, id)' <=> InsideFor(m, id)
  BY DEF InsideFor
<1> QED BY <1>1, <1>3, <1>5, <1>6, <1>7 DEF QueueOK

\* A step of one handler that writes no row and sends no call.
LEMMA AgreeKept ==
  ASSUME AgreeInv, BooksSame, UNCHANGED txn, NEW h \in Handlers, OnlyMoves(h),
         inbox' = Abandoned(h) \/ (UNCHANGED inbox /\ \A m \in inbox : m.from # h),
         \A id \in published' : id \in published \/ Credited(id),
         HandlerOK(h)'
  PROVE  AgreeInv'
PROOF
<1>1. \A id : GoesOn(id) /\ PostingOf(id)' = PostingOf(id) /\ Lasts(id)
  <2>1. \A id : GoesOn(id) /\ PostingOf(id)' = PostingOf(id)
    BY DEF GoesOn, PostingOf, CommandUnder, Successful
  <2>2. \A id : Lasts(id)
    BY SameBooks DEF Lasts, Untouched
  <2> QED BY <2>1, <2>2
<1>2. RowKeysInv'
  BY DEF AgreeInv, RowKeysInv
<1>3. \A m \in inbox : CallOK(m)
  BY DEF AgreeInv
<1>4. /\ \A m \in inbox' : CallOK(m) /\ \E n \in inbox : n.cmd = m.cmd
      /\ \A m : m.from # h /\ m.from \in Handlers => (m \in inbox' <=> m \in inbox)
  <2>1. CASE inbox' = Abandoned(h)
    BY <1>3, <2>1, Abandons
  <2>2. CASE UNCHANGED inbox
    BY <1>3, <2>2
  <2> QED BY <2>1, <2>2
<1>5. ASSUME NEW id \in Txs PROVE QueueOK(id)'
  <2>0. QueueOK(id) /\ PostingOf(id)' = PostingOf(id) /\ txn'[id].type = txn[id].type
    BY <1>1 DEF AgreeInv
  <2>1. CASE inbox' = Abandoned(h)
    BY <1>3, <2>0, <2>1, QueueLeft
  <2>2. CASE UNCHANGED inbox
    <3>1. /\ Posted(id)' = Posted(id) /\ Remembered(id)' = Remembered(id) /\ Held(id)' = Held(id)
          /\ inbox' \subseteq inbox
      BY <2>2, SameBooks
    <3> QED BY <2>0, <3>1, QueueShrinks
  <2> QED BY <2>1, <2>2
<1>6. ASSUME NEW id \in Txs PROVE RowOK(id)'
  <2>1. Uncalled(id) => Uncalled(id)'
    BY <1>1, <1>4 DEF Uncalled
  <2> QED BY <1>1, <2>1, RowSame DEF AgreeInv
<1>7. ASSUME NEW m \in inbox' PROVE CallOK(m)'
  <2>1. CallOK(m)
    BY <1>4
  <2> QED BY <1>1, <2>1, CallSame
<1>8. ASSUME NEW g \in Handlers, g # h PROVE HandlerOK(g)'
  <2>1. Still(g)
    BY <1>8 DEF Still, OnlyMoves
  <2>2. HandlerOK(g)
    BY DEF AgreeInv
  <2>3. OwnCallOK(g)'
    <3>1. \A m : m.from = g => (m \in inbox' <=> m \in inbox)
      BY <1>4, <1>8
    <3>2. PostingOf(cur[g])' = PostingOf(cur[g])
      BY <2>1 DEF PostingOf, CommandUnder, Still
    <3>3. OwnCallOK(g)
      BY <2>2 DEF HandlerOK
    <3> QED BY <2>1, <3>1, <3>2, <3>3, OwnCallStill
  <2>4. GoesOn(cur[g]) /\ Lasts(cur[g])
    BY <1>1
  <2>5. Slow' = Slow
    BY SameBooks
  <2> QED BY <1>4, <2>1, <2>2, <2>3, <2>4, <2>5, HandlerStill
<1>9. \A g \in Handlers : HandlerOK(g)'
  BY <1>8
<1> QED BY <1>2, <1>5, <1>6, <1>7, <1>9 DEF AgreeInv

-----------------------------------------------------------------------------
(***************************************************************************)
(* The handlers' steps.                                                    *)
(***************************************************************************)
LEMMA EndFacts ==
  ASSUME StatusInv, TypeInv, NEW h \in Handlers, End(h)
  PROVE  /\ pc'[h] = "idle" /\ reply'[h] = "none" /\ OnlyMoves(h)
         /\ reply' \in [Handlers -> {"none", "ok", "error"}]
BY DEF End, Goto, StatusInv, ShapeInv, TypeInv, OnlyMoves

LEMMA GotoFacts ==
  ASSUME StatusInv, TypeInv, NEW h \in Handlers, NEW l, Goto(h, l), UNCHANGED <<req, cur, reply>>
  PROVE  /\ pc'[h] = l /\ reply'[h] = reply[h] /\ req'[h] = req[h] /\ cur'[h] = cur[h] /\ OnlyMoves(h)
         /\ reply' \in [Handlers -> {"none", "ok", "error"}]
BY DEF Goto, StatusInv, ShapeInv, TypeInv, OnlyMoves

LEMMA NoCalls ==
  ASSUME AgreeInv, NEW h \in Handlers, pc[h] # "wait"
  PROVE  reply[h] = "none" /\ \A m \in inbox : m.from # h
BY DEF AgreeInv, HandlerOK, OutcomeOK, OwnCallOK, Waits

\* A step before the ledger call, or one that ends the handler.
LEMMA RestingKeeps ==
  ASSUME MoneyInv, NEW h \in Handlers, pc[h] # "wait", BooksSame, UNCHANGED <<txn, inbox>>,
         OnlyMoves(h), pc'[h] \notin {"call", "wait", "error", "done", "publish"}, reply'[h] = "none",
         \A id \in published' : id \in published \/ Credited(id)
  PROVE  AgreeInv'
PROOF
<1>1. AgreeInv
  BY DEF MoneyInv
<1>2. \A m \in inbox : m.from # h
  BY <1>1, NoCalls
<1>4. ~Committed(h)' /\ pc'[h] # "publish" /\ \A m \in inbox' : m.from # h
  BY <1>2 DEF Committed
<1>5. HandlerOK(h)'
  BY <1>4, HandlerRests
<1> QED BY <1>1, <1>2, <1>5, AgreeKept

LEMMA ReceiveMoney ==
  ASSUME MoneyInv, UNCHANGED setting, NEW h \in Handlers, NEW r \in Requests, Receive(h, r)
  PROVE  TypeInv' /\ AgreeInv'
PROOF
<1>1. /\ pc[h] = "idle" /\ req' = [req EXCEPT ![h] = r]
      /\ UNCHANGED <<balance, book, answers, lapse, inbox, reply, txn, otp, issued, published, today>>
  BY DEF Receive, ledger, redis
<1>2. \E l \in {"lookup", "otp", "read"} : Goto(h, l)
  BY DEF Receive
<1>3. cur' = cur \/ cur' = [cur EXCEPT ![h] = r.tx]
  BY DEF Receive
<1>4. pc'[h] \in {"lookup", "otp", "read"} /\ OnlyMoves(h)
  BY <1>1, <1>2, <1>3 DEF Goto, OnlyMoves, MoneyInv, StatusInv, ShapeInv
<1>5. reply'[h] = "none"
  BY <1>1, NoCalls DEF MoneyInv
<1>6. BooksSame
  BY <1>1 DEF BooksSame
<1>7. AgreeInv'
  BY <1>1, <1>4, <1>5, <1>6, RestingKeeps
<1>8. TypeInv'
  BY <1>1 DEF MoneyInv, TypeInv, LedgerTyped
<1> QED BY <1>7, <1>8

\* The steps before the call that write nothing but, perhaps, a password.
LEMMA EarlyMoney ==
  ASSUME MoneyInv, UNCHANGED setting, NEW h \in Handlers,
         Lookup(h) \/ ReadBalance(h) \/ CheckLimits(h) \/ SendOtp(h) \/ VerifyOtp(h) \/ DeleteOtp(h)
  PROVE  TypeInv' /\ AgreeInv'
PROOF
<1>1. /\ pc[h] \in {"lookup", "balance", "limits", "sendOtp", "otp", "otpDel"}
      /\ UNCHANGED <<balance, book, answers, lapse, inbox, txn, published, today>>
  BY DEF Lookup, ReadBalance, CheckLimits, SendOtp, VerifyOtp, DeleteOtp, ledger, redis
<1>2. End(h) \/ \E l \in {"balance", "create", "limits", "otpDel", "read"} :
                   Goto(h, l) /\ UNCHANGED <<req, cur, reply>>
  BY DEF Lookup, ReadBalance, CheckLimits, SendOtp, VerifyOtp, DeleteOtp, handler
<1>3. /\ OnlyMoves(h) /\ pc'[h] \notin {"call", "wait", "error", "done", "publish"}
      /\ reply'[h] = "none" /\ reply' \in [Handlers -> {"none", "ok", "error"}]
  <2>1. StatusInv /\ TypeInv /\ AgreeInv /\ reply[h] = "none"
    BY <1>1, NoCalls DEF MoneyInv
  <2>2. CASE End(h)
    BY <2>1, <2>2, EndFacts
  <2>3. CASE \E l \in {"balance", "create", "limits", "otpDel", "read"} :
                   Goto(h, l) /\ UNCHANGED <<req, cur, reply>>
    <3>1. PICK l \in {"balance", "create", "limits", "otpDel", "read"} :
                   Goto(h, l) /\ UNCHANGED <<req, cur, reply>>
      BY <2>3
    <3>2. pc'[h] = l /\ reply'[h] = reply[h] /\ OnlyMoves(h)
          /\ reply' \in [Handlers -> {"none", "ok", "error"}]
      BY <2>1, <3>1, GotoFacts
    <3> QED BY <2>1, <3>2
  <2> QED BY <1>2, <2>2, <2>3
<1>4. BooksSame
  BY <1>1 DEF BooksSame
<1>5. AgreeInv'
  BY <1>1, <1>3, <1>4, RestingKeeps
<1>6. otp' \in [Purposes \X Wallets -> Nat] /\ issued' \in [Purposes \X Wallets -> Nat]
  <2>1. otp \in [Purposes \X Wallets -> Nat] /\ issued \in [Purposes \X Wallets -> Nat]
    BY DEF MoneyInv, TypeInv
  <2>2. CASE SendOtp(h)
    <3>1. req[h] \in Requests
      BY <2>2 DEF MoneyInv, StatusInv, PathInv, SendOtp
    <3>2. <<"CASH_IN", req[h].to>> \in Purposes \X Wallets
      BY <3>1, RequestShape DEF Purposes
    <3>3. PICK slot \in Purposes \X Wallets :
             /\ issued' = [issued EXCEPT ![slot] = @ + 1]
             /\ otp' = [otp EXCEPT ![slot] = issued[slot] + 1]
      BY <2>2, <3>2 DEF SendOtp
    <3> QED BY <2>1, <3>3
  <2>3. CASE DeleteOtp(h)
    <3>1. PICK slot : otp' = [otp EXCEPT ![slot] = 0] /\ issued' = issued
      BY <2>3 DEF DeleteOtp
    <3> QED BY <2>1, <3>1
  <2>4. CASE Lookup(h) \/ ReadBalance(h) \/ CheckLimits(h) \/ VerifyOtp(h)
    BY <2>1, <2>4 DEF Lookup, ReadBalance, CheckLimits, VerifyOtp, redis
  <2> QED BY <2>2, <2>3, <2>4
<1>7. TypeInv'
  BY <1>1, <1>3, <1>6 DEF MoneyInv, TypeInv, LedgerTyped
<1> QED BY <1>5, <1>7

\* What the rules of the rows say of a handler about a call.
LEMMA KnownFacts ==
  ASSUME MoneyInv, NEW h \in Handlers, Committed(h)
  PROVE  /\ cur[h] \in Txs /\ req[h] \in Requests /\ txn[cur[h]].status # "NONE"
         /\ req[h].op \in {"transfer", "confirm", "cashOut", "reverse"}
         /\ req[h].op = "transfer" =>
              txn[cur[h]].status = "PENDING" /\ txn[cur[h]].type = "transfer"
         /\ req[h].op \in {"confirm", "cashOut"} => txn[cur[h]].type = "cashIn"
         /\ req[h].op = "reverse" => Successful(cur[h])
PROOF
<1>1. OutcomeOK(h) /\ PathInv /\ KnownInv
  BY DEF MoneyInv, StatusInv, AgreeInv, HandlerOK
<1> QED BY <1>1 DEF PathInv, KnownInv, OutcomeOK, Committed

\* Orders tell their transaction and are no reversals.
LEMMA OrdersDiffer ==
  /\ \A i, j : PostingOf(i) # ReversalOf(j)
  /\ \A i, j : PostingOf(i) = PostingOf(j) => i = j
  /\ \A i, j : ReversalOf(i) = ReversalOf(j) => i = j
PROOF
<1>1. \A i : PostingOf(i).tx = i /\ PostingOf(i).kind # "reverse"
  BY DEF PostingOf, CommandUnder
<1>2. \A i : ReversalOf(i).tx = i /\ ReversalOf(i).kind = "reverse"
  BY DEF ReversalOf
<1>3. \A i, j : PostingOf(i) # ReversalOf(j)
  BY <1>1, <1>2
<1>4. \A i, j : PostingOf(i) = PostingOf(j) => i = j
  <2> SUFFICES ASSUME NEW i, NEW j, PostingOf(i) = PostingOf(j) PROVE i = j
    OBVIOUS
  <2> QED BY <1>1
<1>5. \A i, j : ReversalOf(i) = ReversalOf(j) => i = j
  <2> SUFFICES ASSUME NEW i, NEW j, ReversalOf(i) = ReversalOf(j) PROVE i = j
    OBVIOUS
  <2> QED BY <1>2
<1> QED BY <1>3, <1>4, <1>5

LEMMA ReadMoney ==
  ASSUME MoneyInv, UNCHANGED setting, NEW h \in Handlers, Read(h)
  PROVE  TypeInv' /\ AgreeInv'
PROOF
<1>1. pc[h] = "read" /\ UNCHANGED <<balance, book, answers, lapse, inbox, txn, otp, issued, published, today>>
  BY DEF Read, ledger, redis
<1>2. StatusInv /\ TypeInv /\ AgreeInv /\ reply[h] = "none" /\ \A m \in inbox : m.from # h
  BY <1>1, NoCalls DEF MoneyInv
<1>3. BooksSame
  BY <1>1 DEF BooksSame
<1>4. CASE End(h)
  <2>1. pc'[h] = "idle" /\ reply'[h] = "none" /\ OnlyMoves(h)
        /\ reply' \in [Handlers -> {"none", "ok", "error"}]
    BY <1>2, <1>4, EndFacts
  <2>2. AgreeInv'
    BY <1>1, <1>3, <2>1, RestingKeeps
  <2> QED BY <1>1, <1>2, <2>1, <2>2 DEF TypeInv, LedgerTyped
<1>5. CASE /\ Goto(h, "call") /\ UNCHANGED handler
           /\ req[h].op = "reverse" => CanBecome(txn[cur[h]].status, "REVERSED")
  <2>1. /\ pc'[h] = "call" /\ reply'[h] = "none" /\ req'[h] = req[h] /\ cur'[h] = cur[h] /\ OnlyMoves(h)
        /\ reply' \in [Handlers -> {"none", "ok", "error"}]
    BY <1>2, <1>5, GotoFacts DEF handler
  <2>2. req[h].op # "transfer"
    BY <1>1, <1>2 DEF StatusInv, PathInv
  <2>3. req[h].op = "reverse" => Successful(cur[h])
    BY <1>5 DEF CanBecome, NextStatuses, Successful
  <2>4. OutcomeOK(h)'
    BY <1>1, <2>1, <2>3 DEF OutcomeOK, Told, Successful
  <2>5. OwnCallOK(h)' /\ InTimeOK(h)'
    BY <1>1, <1>2, <2>1, <2>2 DEF OwnCallOK, InTimeOK, Waits
  <2>6. HandlerOK(h)'
    BY <2>4, <2>5 DEF HandlerOK
  <2>7. AgreeInv'
    BY <1>1, <1>2, <1>3, <2>1, <2>6, AgreeKept
  <2> QED BY <1>1, <1>2, <2>1, <2>7 DEF TypeInv, LedgerTyped
<1> QED BY <1>4, <1>5 DEF Read

LEMMA ReturnMoney ==
  ASSUME MoneyInv, UNCHANGED setting, NEW h \in Handlers, Return(h)
  PROVE  TypeInv' /\ AgreeInv'
PROOF
<1> DEFINE l == IF reply[h] = "ok" THEN "done" ELSE "error"
<1>1. /\ pc[h] = "wait" /\ reply[h] # "none" /\ reply' = [reply EXCEPT ![h] = "none"] /\ Goto(h, l)
      /\ UNCHANGED <<balance, book, answers, lapse, inbox, txn, otp, issued, published, req, cur, today>>
  BY DEF Return, ledger, redis
<1>2. StatusInv /\ TypeInv /\ AgreeInv /\ HandlerOK(h)
  BY DEF MoneyInv, AgreeInv
<1>3. /\ pc'[h] = l /\ reply'[h] = "none" /\ req'[h] = req[h] /\ cur'[h] = cur[h] /\ OnlyMoves(h)
      /\ reply' \in [Handlers -> {"none", "ok", "error"}]
  BY <1>1, <1>2 DEF Goto, StatusInv, ShapeInv, TypeInv, OnlyMoves
<1>4. BooksSame
  BY <1>1 DEF BooksSame
<1>5. Committed(h) /\ reply[h] \in {"ok", "error"}
  BY <1>1, <1>2 DEF Committed, TypeInv
<1>6. PICK id : id = cur[h]
  OBVIOUS
<1>7. /\ Credited(cur[h])' = Credited(id) /\ TakenBack(cur[h])' = TakenBack(id)
      /\ Successful(cur[h])' = Successful(id) /\ Untouched(cur[h])' = Untouched(id) /\ Slow' = Slow
  <2>1. /\ Credited(id)' = Credited(id) /\ TakenBack(id)' = TakenBack(id) /\ Slow' = Slow
        /\ Posted(id)' = Posted(id)
    BY <1>1, <1>4, SameBooks
  <2>2. PostingOf(id)' = PostingOf(id) /\ Successful(id)' = Successful(id)
    BY <1>1 DEF PostingOf, CommandUnder, Successful
  <2>3. Untouched(id)' = Untouched(id)
    BY <1>1, <2>1, <2>2 DEF Untouched, Uncalled
  <2>4. cur'[h] = id
    BY <1>3, <1>6
  <2> QED BY <2>1, <2>2, <2>3, <2>4, AtRow
<1>8. OutcomeOK(h)'
  <2>1. l = "done" => Told(h)
    BY DEF Told
  <2> QED BY <1>2, <1>3, <1>5, <1>6, <1>7, <2>1 DEF HandlerOK, OutcomeOK, Told, Committed
<1>9. \A m \in inbox : m.from # h
  BY <1>1, <1>2 DEF HandlerOK, OwnCallOK, Waits
<1>10. OwnCallOK(h)'
  BY <1>1, <1>3, <1>9 DEF OwnCallOK, Waits
<1>11. InTimeOK(h)'
  <2>1. l = "error" => reply[h] = "error"
    BY <1>5
  <2> QED BY <1>2, <1>3, <1>5, <1>6, <1>7, <2>1 DEF HandlerOK, InTimeOK, Committed
<1>12. HandlerOK(h)'
  BY <1>8, <1>10, <1>11 DEF HandlerOK
<1>13. AgreeInv'
  BY <1>1, <1>2, <1>3, <1>4, <1>9, <1>12, AgreeKept
<1> QED BY <1>1, <1>2, <1>3, <1>13 DEF TypeInv, LedgerTyped

LEMMA TimeoutMoney ==
  ASSUME MoneyInv, UNCHANGED setting, NEW h \in Handlers, Timeout(h)
  PROVE  TypeInv' /\ AgreeInv'
PROOF
<1>1. /\ Slow /\ pc[h] = "wait" /\ reply[h] = "none" /\ inbox' = Abandoned(h) /\ Goto(h, "error")
      /\ UNCHANGED <<balance, book, answers, lapse, txn, otp, issued, published, req, cur, reply, today>>
  BY DEF Timeout, ledger, redis, handler, Slow
<1>2. StatusInv /\ TypeInv /\ AgreeInv /\ HandlerOK(h) /\ \A m \in inbox : CallOK(m)
  BY DEF MoneyInv, AgreeInv
<1>3. /\ pc'[h] = "error" /\ reply'[h] = reply[h] /\ req'[h] = req[h] /\ cur'[h] = cur[h] /\ OnlyMoves(h)
      /\ reply' \in [Handlers -> {"none", "ok", "error"}]
  BY <1>1, <1>2, GotoFacts
<1>4. \A m \in inbox' : m.from # h
  BY <1>1, <1>2, Abandons
<1>5. BooksSame
  BY <1>1 DEF BooksSame
<1>6. Slow' = Slow /\ Committed(h) /\ Successful(cur[h])' = Successful(cur[h])
  BY <1>1 DEF Slow, Fault, Committed, Successful
<1>7. HandlerOK(h)'
  BY <1>1, <1>2, <1>3, <1>4, <1>6 DEF HandlerOK, OutcomeOK, OwnCallOK, InTimeOK, Told, Waits, Committed
<1>8. AgreeInv'
  BY <1>1, <1>2, <1>3, <1>4, <1>5, <1>7, AgreeKept
<1> QED BY <1>1, <1>2, <1>3, <1>8 DEF TypeInv, LedgerTyped

LEMMA PublishMoney ==
  ASSUME MoneyInv, UNCHANGED setting, NEW h \in Handlers, Publish(h)
  PROVE  TypeInv' /\ AgreeInv'
PROOF
<1>1. /\ pc[h] = "publish" /\ published' = published \cup {cur[h]} /\ End(h)
      /\ UNCHANGED <<balance, book, answers, lapse, inbox, txn, otp, issued, today>>
  BY DEF Publish, ledger
<1>2. StatusInv /\ TypeInv /\ OutcomeOK(h)
  BY DEF MoneyInv, AgreeInv, HandlerOK
<1>3. pc'[h] = "idle" /\ reply'[h] = "none" /\ OnlyMoves(h)
      /\ reply' \in [Handlers -> {"none", "ok", "error"}]
  BY <1>1, <1>2, EndFacts
<1>4. cur[h] \in Txs /\ Credited(cur[h])
  BY <1>1, <1>2 DEF OutcomeOK
<1>5. BooksSame
  BY <1>1 DEF BooksSame
<1>6. AgreeInv'
  BY <1>1, <1>3, <1>4, <1>5, RestingKeeps
<1> QED BY <1>1, <1>2, <1>3, <1>4, <1>6 DEF TypeInv, LedgerTyped

LEMMA DiesMoney ==
  ASSUME MoneyInv, UNCHANGED setting, NEW h \in Handlers, Dies(h)
  PROVE  TypeInv' /\ AgreeInv'
PROOF
<1>1. /\ End(h) /\ inbox' = Abandoned(h)
      /\ UNCHANGED <<balance, book, answers, lapse, txn, otp, issued, published, today>>
  BY DEF Dies, ledger, redis
<1>2. StatusInv /\ TypeInv /\ AgreeInv /\ \A m \in inbox : CallOK(m)
  BY DEF MoneyInv, AgreeInv
<1>3. pc'[h] = "idle" /\ reply'[h] = "none" /\ OnlyMoves(h)
      /\ reply' \in [Handlers -> {"none", "ok", "error"}]
  BY <1>1, <1>2, EndFacts
<1>4. \A m \in inbox' : m.from # h
  BY <1>1, <1>2, Abandons
<1>5. BooksSame
  BY <1>1 DEF BooksSame
<1>6. HandlerOK(h)'
  <2>1. ~Committed(h)' /\ pc'[h] # "publish"
    BY <1>3 DEF Committed
  <2> QED BY <1>3, <1>4, <2>1, HandlerRests
<1>7. AgreeInv'
  BY <1>1, <1>2, <1>3, <1>4, <1>5, <1>6, AgreeKept
<1> QED BY <1>1, <1>2, <1>3, <1>7 DEF TypeInv, LedgerTyped

\* A handler puts its call on its way; a transfer's is the first for its row.
LEMMA CallMoney ==
  ASSUME MoneyInv, UNCHANGED setting, NEW h \in Handlers, Call(h)
  PROVE  TypeInv' /\ AgreeInv'
PROOF
<1> DEFINE order == OrderOf(h)
           new == [ from |-> h, cmd |-> order, no |-> NumberFor(order), at |-> "door",
                    reason |-> IF req[h].op = "reverse" THEN req[h].reason ELSE "none" ]
<1>1. /\ pc[h] = "call"
      /\ UNCHANGED <<balance, book, answers, lapse, txn, otp, issued, published, req, cur, reply, today>>
      /\ \/ inbox' = inbox \cup {new} /\ Goto(h, "wait")
         \/ Goto(h, "error") /\ UNCHANGED inbox
  BY DEF Call, ledger, redis, handler, OrderOf
<1>2. StatusInv /\ TypeInv /\ AgreeInv /\ HandlerOK(h) /\ reply[h] = "none" /\ \A m \in inbox : m.from # h
  BY <1>1, NoCalls DEF MoneyInv, AgreeInv
<1>3. BooksSame
  BY <1>1 DEF BooksSame
<1>4. Committed(h)
  BY <1>1 DEF Committed
<1>5. /\ cur[h] \in Txs /\ txn[cur[h]].status # "NONE"
      /\ req[h].op = "transfer" => txn[cur[h]].status = "PENDING" /\ txn[cur[h]].type = "transfer"
      /\ req[h].op \in {"confirm", "cashOut"} => txn[cur[h]].type = "cashIn"
      /\ req[h].op = "reverse" => Successful(cur[h])
      /\ req[h].op \in {"transfer", "confirm", "cashOut", "reverse"}
  BY <1>4, KnownFacts
<1>6. \A id : GoesOn(id) /\ PostingOf(id)' = PostingOf(id) /\ Lasts(id)
  <2>1. \A id : GoesOn(id) /\ PostingOf(id)' = PostingOf(id)
    BY <1>1 DEF GoesOn, PostingOf, CommandUnder, Successful
  <2>2. \A id : Lasts(id)
    BY <1>1, <1>3, SameBooks DEF Lasts, Untouched
  <2> QED BY <2>1, <2>2
<1>7. Slow' = Slow
  BY <1>3, SameBooks
<1>8. req[h].op = "transfer" => Untouched(cur[h]) /\ ~Remembered(cur[h])
  BY <1>1, <1>2, <1>4 DEF HandlerOK, InTimeOK
<1>9. PICK id0 \in Txs : id0 = cur[h]
  BY <1>5
<1> HIDE DEF new, order
<1>10. CASE Goto(h, "error") /\ UNCHANGED inbox
  <2>1. /\ pc'[h] = "error" /\ reply'[h] = "none" /\ req'[h] = req[h] /\ cur'[h] = cur[h] /\ OnlyMoves(h)
        /\ reply' \in [Handlers -> {"none", "ok", "error"}]
    BY <1>1, <1>2, <1>10, GotoFacts
  <2>2. Untouched(cur[h])' = Untouched(id0) /\ Successful(cur[h])' = Successful(id0)
    <3>1. Posted(id0)' = Posted(id0)
      BY <1>3, SameBooks
    <3>2. Untouched(id0)' = Untouched(id0) /\ Successful(id0)' = Successful(id0)
      BY <1>1, <1>6, <1>10, <3>1 DEF Untouched, Uncalled, Successful
    <3>3. cur'[h] = id0
      BY <1>9, <2>1
    <3> QED BY <3>2, <3>3, AtRow
  <2>3. OutcomeOK(h)'
    BY <1>5, <1>9, <2>1, <2>2 DEF OutcomeOK, Told
  <2>4. OwnCallOK(h)' /\ InTimeOK(h)'
    BY <1>2, <1>7, <1>8, <1>9, <1>10, <2>1, <2>2 DEF OwnCallOK, InTimeOK, Waits
  <2>5. HandlerOK(h)'
    BY <2>3, <2>4 DEF HandlerOK
  <2>6. AgreeInv'
    BY <1>1, <1>2, <1>3, <1>10, <2>1, <2>5, AgreeKept
  <2> QED BY <1>1, <1>2, <2>1, <2>6 DEF TypeInv, LedgerTyped
<1>11. CASE inbox' = inbox \cup {new} /\ Goto(h, "wait")
  <2>1. /\ pc'[h] = "wait" /\ reply'[h] = "none" /\ req'[h] = req[h] /\ cur'[h] = cur[h] /\ OnlyMoves(h)
        /\ reply' \in [Handlers -> {"none", "ok", "error"}]
    BY <1>1, <1>2, <1>11, GotoFacts
  <2>2. PICK c : c = new
    OBVIOUS
  <2>3. inbox' = inbox \cup {c} /\ c.from = h /\ c.cmd = order /\ c.at = "door" /\ CallShape(c)
    BY <1>11, <2>2 DEF new, CallShape
  <2>4. order = IF req[h].op = "reverse" THEN ReversalOf(id0) ELSE PostingOf(id0)
    BY <1>9 DEF order, OrderOf
  \* A row the new call could be about is the caller's.
  <2>5. \A id : c.cmd = PostingOf(id) => id = id0 /\ req[h].op # "reverse"
    BY <2>3, <2>4, OrdersDiffer
  <2>6. \A id : txn[id].type = "transfer" /\ c.cmd = PostingOf(id) =>
                  id = id0 /\ req[h].op = "transfer"
    BY <1>5, <1>9, <2>5
  <2>7. RowKeysInv'
    BY <1>1, <1>2 DEF AgreeInv, RowKeysInv
  <2>8. ASSUME NEW id \in Txs PROVE RowOK(id)'
    <3>1. RowOK(id)
      BY <1>2 DEF AgreeInv
    <3>2. ASSUME txn[id].status = "FAILED", Uncalled(id) PROVE Uncalled(id)'
      <4>1. txn[id].type = "transfer"
        BY <3>1, <3>2 DEF RowOK
      <4>2. c.cmd # PostingOf(id)
        BY <1>5, <1>9, <2>6, <3>2, <4>1
      <4> QED BY <1>6, <2>3, <3>2, <4>2 DEF Uncalled
    <3>3. PostingOf(id)' = PostingOf(id)
      BY <1>6
    <3> QED BY <1>1, <1>3, <3>1, <3>2, <3>3, RowSame
  <2>9. ASSUME NEW id \in Txs PROVE QueueOK(id)'
    <3>1. QueueOK(id)
      BY <1>2 DEF AgreeInv
    <3>2. /\ Posted(id)' = Posted(id) /\ Remembered(id)' = Remembered(id) /\ Held(id)' = Held(id)
          /\ PostingOf(id)' = PostingOf(id) /\ txn' = txn
      BY <1>1, <1>3, <1>6, SameBooks
    <3>3. ASSUME txn[id].type = "transfer"
          PROVE  /\ Uncalled(id)' \/ (~Posted(id) /\ ~Remembered(id))
                 /\ \A m, n \in inbox' : m.cmd = PostingOf(id) /\ n.cmd = PostingOf(id) => m = n
      <4>1. CASE c.cmd = PostingOf(id)
        <5>1. ~Posted(id) /\ ~Remembered(id) /\ \A m \in inbox : m.cmd # PostingOf(id)
          BY <1>8, <1>9, <2>6, <3>3, <4>1 DEF Untouched, Uncalled
        <5> QED BY <2>3, <5>1
      <4>2. CASE c.cmd # PostingOf(id)
        <5>1. Uncalled(id) => Uncalled(id)'
          BY <2>3, <3>2, <4>2 DEF Uncalled
        <5> QED BY <2>3, <3>1, <3>3, <4>2, <5>1 DEF QueueOK
      <4> QED BY <4>1, <4>2
    <3>4. \A m \in inbox' : InsideFor(m, id) => m \in inbox
      BY <2>3 DEF InsideFor
    <3>5. \A m : InsideFor(m, id)' <=> InsideFor(m, id)
      BY <3>2 DEF InsideFor
    <3>6. Held(id) => /\ \A m \in inbox' : InsideFor(m, id) => ~Remembered(id)
                      /\ \A m, n \in inbox' : InsideFor(m, id) /\ InsideFor(n, id) => m = n
      BY <3>1, <3>4 DEF QueueOK
    <3> QED BY <3>2, <3>3, <3>5, <3>6 DEF QueueOK
  <2>10. ASSUME NEW m \in inbox' PROVE CallOK(m)'
    <3>1. CallOK(c)
      <4>1. c.cmd = PostingOf(id0) \/ (c.cmd = ReversalOf(id0) /\ Successful(id0))
        BY <1>5, <1>9, <2>3, <2>4
      <4> QED BY <1>5, <1>9, <2>3, <4>1 DEF CallOK
    <3>2. CallOK(m)
      BY <1>2, <2>3, <3>1 DEF AgreeInv
    <3> QED BY <1>6, <3>2, CallSame
  <2>11. ASSUME NEW g \in Handlers, g # h PROVE HandlerOK(g)'
    <3>1. Still(g)
      BY <2>1, <2>11 DEF Still, OnlyMoves
    <3>2. \A m \in inbox' : Committed(g) /\ req[g].op = "transfer" /\ m.cmd = PostingOf(cur[g]) =>
            \E n \in inbox : n.cmd = m.cmd
      <4> SUFFICES ASSUME Committed(g), req[g].op = "transfer", c.cmd = PostingOf(cur[g]) PROVE FALSE
        BY <2>3
      <4>1. cur[g] \in Txs /\ txn[cur[g]].type = "transfer"
        BY KnownFacts
      <4>2. cur[g] = cur[h] /\ req[h].op = "transfer"
        BY <1>9, <2>6, <4>1
      <4> QED BY <1>2, <1>4, <2>11, <4>2 DEF StatusInv, OwnedInv, TransferOf
    <3>3. HandlerOK(g)
      BY <1>2 DEF AgreeInv
    <3>4. GoesOn(cur[g]) /\ Lasts(cur[g]) /\ PostingOf(cur[g])' = PostingOf(cur[g])
      <4>1. PostingOf(cur[g])' = PostingOf(cur[g])
        BY <1>1 DEF PostingOf, CommandUnder
      <4> QED BY <1>6, <4>1
    <3>5. \A m : m.from = g => (m \in inbox' <=> m \in inbox)
      BY <2>3, <2>11
    <3>6. OwnCallOK(g)'
      BY <3>1, <3>3, <3>4, <3>5, OwnCallStill DEF HandlerOK
    <3> QED BY <1>7, <3>1, <3>2, <3>3, <3>4, <3>6, HandlerStill
  <2>12. HandlerOK(h)'
    <3>1. cur'[h] = id0 /\ Successful(id0)' = Successful(id0)
      BY <1>1, <1>9, <2>1 DEF Successful
    <3>2. OutcomeOK(h)'
      <4>1. Successful(cur[h])' = Successful(id0)
        BY <3>1, AtRow
      <4> QED BY <1>5, <1>9, <2>1, <4>1 DEF OutcomeOK, Told
    <3>3. OwnCallOK(h)'
      <4>1. OrderOf(h)' = order
        <5>1. PostingOf(cur[h])' = PostingOf(id0) /\ ReversalOf(cur[h])' = ReversalOf(id0)
          BY <1>6, <3>1, AtRow
        <5> QED BY <2>1, <2>4, <5>1 DEF OrderOf
      <4> QED BY <1>2, <2>1, <2>3, <4>1 DEF OwnCallOK, Waits
    <3>4. InTimeOK(h)'
      BY <2>1 DEF InTimeOK
    <3> QED BY <3>2, <3>3, <3>4 DEF HandlerOK
  <2>13. \A g \in Handlers : HandlerOK(g)'
    BY <2>11, <2>12
  <2>14. AgreeInv'
    BY <2>7, <2>8, <2>9, <2>10, <2>13 DEF AgreeInv
  <2> QED BY <1>1, <1>2, <2>1, <2>14 DEF TypeInv, LedgerTyped
<1> QED BY <1>1, <1>10, <1>11

\* The outcome a handler writes is what it knows of its row; every row goes on.
LEMMA OutcomeMoney ==
  ASSUME MoneyInv, UNCHANGED setting, NEW h \in Handlers, pc[h] \in {"error", "done"},
         NEW s \in {"SUCCESS", "FAILED", "REVERSED"}, SetStatus(h, s), OutcomeOf(req[h].op, s),
         s = "FAILED" <=> pc[h] = "error",
         UNCHANGED <<balance, book, answers, lapse, inbox, otp, issued, published, today>>,
         OnlyMoves(h), reply' \in [Handlers -> {"none", "ok", "error"}],
         ~Committed(h)', reply'[h] = "none",
         pc'[h] = "publish" => cur'[h] = cur[h] /\ s = "SUCCESS"
  PROVE  TypeInv' /\ AgreeInv'
PROOF
<1>1. Committed(h)
  BY DEF Committed
<1>2. StatusInv /\ TypeInv /\ AgreeInv /\ HandlerOK(h) /\ reply[h] = "none" /\ \A m \in inbox : m.from # h
  BY NoCalls DEF MoneyInv, AgreeInv
<1>3. BooksSame
  BY DEF BooksSame
<1>4. PICK id \in Txs : id = cur[h]
  BY <1>1, KnownFacts
<1>5. /\ txn[id].status # "NONE"
      /\ req[h].op = "transfer" => txn[id].status = "PENDING" /\ txn[id].type = "transfer"
      /\ req[h].op = "reverse" => Successful(id)
  BY <1>1, <1>4, KnownFacts
<1>6. txn' = [txn EXCEPT ![id].status = s] /\ s \in Statuses
  BY <1>4 DEF SetStatus, Statuses
<1>7. txn' \in [Txs -> Row]
  <2>1. txn \in [Txs -> Row]
    BY <1>2 DEF TypeInv
  <2> QED BY <1>6, <2>1 DEF Row
<1>8. /\ \A i \in Txs : i # id => txn'[i] = txn[i]
      /\ txn'[id].status = s /\ txn'[id].type = txn[id].type /\ txn'[id].key = txn[id].key
      /\ txn'[id].from = txn[id].from /\ txn'[id].to = txn[id].to
      /\ txn'[id].amount = txn[id].amount /\ txn'[id].fee = txn[id].fee
  <2>1. txn \in [Txs -> Row]
    BY <1>2 DEF TypeInv
  <2> QED BY <1>6, <2>1 DEF Row
<1>9. \A i \in Txs : PostingOf(i)' = PostingOf(i)
  BY <1>8 DEF PostingOf, CommandUnder
<1>10. \A i \in Txs : GoesOn(i)
  <2>1. s = "FAILED" => ~Successful(id)
    BY <1>5 DEF OutcomeOf, Successful
  <2>2. GoesOn(id)
    BY <1>8, <1>9, <2>1 DEF GoesOn, Successful
  <2> QED BY <1>8, <1>9, <2>2 DEF GoesOn, Successful
<1>11. /\ Slow' = Slow
       /\ \A i : /\ Remembered(i)' = Remembered(i) /\ Undone(i)' = Undone(i)
                 /\ Held(i)' = Held(i) /\ Lost(i)' = Lost(i)
       /\ \A i : Posted(i)' = Posted(i) /\ Mirrored(i)' = Mirrored(i) /\ Stays(i)
       /\ \A i : TakenBack(i)' = TakenBack(i)
       /\ \A i : txn'[i].type = txn[i].type => Credited(i)' = Credited(i)
  BY <1>3, SameBooks
<1>12. \A i \in Txs : Uncalled(i)' = Uncalled(i) /\ txn'[i].type = txn[i].type
  BY <1>8, <1>9 DEF Uncalled
<1>13. \A i \in Txs : Lasts(i)
  BY <1>11, <1>12 DEF Lasts, Untouched
<1>14. /\ s = "FAILED" /\ ~Slow => Untouched(id)
       /\ s = "SUCCESS" => Credited(id)
       /\ s = "REVERSED" => TakenBack(id) /\ Credited(id)
  <2>1. OutcomeOK(h) /\ InTimeOK(h)
    BY <1>2 DEF HandlerOK
  <2>2. s = "FAILED" /\ ~Slow => Untouched(id)
    BY <1>1, <1>4, <2>1 DEF InTimeOK, OutcomeOf
  <2>3. s # "FAILED" => IF req[h].op = "reverse" THEN TakenBack(id) ELSE Credited(id)
    BY <1>4, <2>1 DEF OutcomeOK, Told
  <2>4. s = "REVERSED" => Credited(id)
    <3>1. RowOK(id)
      BY <1>2 DEF AgreeInv
    <3> QED BY <1>5, <3>1 DEF RowOK, OutcomeOf
  <2> QED BY <2>2, <2>3, <2>4 DEF OutcomeOf
<1>15. RowKeysInv'
  <2>1. \A i \in Txs : txn'[i].key = txn[i].key /\ (txn'[i].status # "NONE" => txn[i].status # "NONE")
    BY <1>5, <1>8
  <2> QED BY <1>2, <2>1 DEF AgreeInv, RowKeysInv
<1>16. RowOK(id)'
  <2>1. RowOK(id)
    BY <1>2 DEF AgreeInv
  <2>2. (PostedAsAsked(id) => PostedAsAsked(id)') /\ (OnlyAsAsked(id) => OnlyAsAsked(id)')
    BY <1>9, <1>11, PostedStays
  <2>3. Successful(id)' <=> s # "FAILED"
    BY <1>8 DEF Successful
  <2>4. /\ Remembered(id)' = Remembered(id) /\ Undone(id)' = Undone(id) /\ Posted(id)' = Posted(id)
        /\ Held(id)' = Held(id) /\ Lost(id)' = Lost(id) /\ TakenBack(id)' = TakenBack(id)
        /\ Credited(id)' = Credited(id) /\ Mirrored(id)' = Mirrored(id) /\ Uncalled(id)' = Uncalled(id)
    BY <1>8, <1>11, <1>12
  <2>5. Mirrored(id) => s # "FAILED"
    BY <1>5, <2>1 DEF RowOK, Successful, OutcomeOf
  <2>6. s = "FAILED" => txn'[id].type = "transfer"
    BY <1>5, <1>8 DEF OutcomeOf
  <2>7. s = "FAILED" => (~Slow => Untouched(id))'
    BY <1>11, <1>14, <2>4 DEF Untouched
  <2> QED BY <1>8, <1>14, <2>1, <2>2, <2>3, <2>4, <2>5, <2>6, <2>7 DEF RowOK
<1>17. ASSUME NEW i \in Txs, i # id PROVE RowOK(i)'
  <2>1. RowOK(i)
    BY <1>2 DEF AgreeInv
  <2> QED BY <1>3, <1>8, <1>9, <1>12, <1>17, <2>1, RowSame
<1>18. ASSUME NEW i \in Txs PROVE QueueOK(i)'
  <2>1. QueueOK(i)
    BY <1>2 DEF AgreeInv
  <2> QED BY <1>9, <1>11, <1>12, <2>1, QueueShrinks
<1>19. ASSUME NEW m \in inbox' PROVE CallOK(m)'
  BY <1>2, <1>10, CallSame DEF AgreeInv
<1>20. ASSUME NEW g \in Handlers, g # h PROVE HandlerOK(g)'
  <2>1. Still(g)
    BY <1>20 DEF Still, OnlyMoves
  <2>2. HandlerOK(g) /\ OwnCallOK(g) /\ OutcomeOK(g)
    BY <1>2 DEF AgreeInv, HandlerOK
  <2>3. Told(g) \/ Committed(g) \/ pc[g] = "publish" => cur[g] \in Txs
    <3>1. Told(g) => Committed(g)
      BY <1>2, <2>2 DEF Told, Committed, OutcomeOK, TypeInv
    <3> QED BY <2>2, <3>1, KnownFacts DEF OutcomeOK
  <2>4. PostingOf(cur[g])' = PostingOf(cur[g]) \/ ~Waits(g)
    <3>1. Waits(g) => cur[g] \in Txs
      BY <2>3 DEF Waits, Committed
    <3>2. cur'[g] = cur[g]
      BY <2>1 DEF Still
    <3>3. PICK i : i = cur[g]
      OBVIOUS
    <3>4. PostingOf(cur[g])' = PostingOf(i)'
      BY <3>2, <3>3, AtRow
    <3> QED BY <1>9, <3>1, <3>3, <3>4
  <2>5. OwnCallOK(g)'
    BY <2>1, <2>2, <2>4, OwnCallStill
  <2> QED BY <1>10, <1>11, <1>13, <2>1, <2>2, <2>3, <2>5, HandlerStill
<1>21. HandlerOK(h)'
  <2>1. CASE pc'[h] # "publish"
    BY <1>2, <2>1, HandlerRests
  <2>2. CASE pc'[h] = "publish"
    <3>1. Credited(cur[h])' /\ cur'[h] \in Txs
      <4>1. Credited(id)' /\ cur'[h] = id
        BY <1>4, <1>8, <1>11, <1>14, <2>2
      <4> QED BY <4>1, AtRow
    <3> QED BY <1>2, <2>2, <3>1 DEF HandlerOK, OutcomeOK, OwnCallOK, InTimeOK, Told, Waits, Committed
  <2> QED BY <2>1, <2>2
<1>22. AgreeInv'
  BY <1>15, <1>16, <1>17, <1>18, <1>19, <1>20, <1>21 DEF AgreeInv
<1> QED BY <1>2, <1>7, <1>22 DEF TypeInv, LedgerTyped

LEMMA FailMoney ==
  ASSUME MoneyInv, UNCHANGED setting, NEW h \in Handlers, Fail(h)
  PROVE  TypeInv' /\ AgreeInv'
PROOF
<1>1. /\ pc[h] = "error" /\ End(h)
      /\ IF req[h].op = "transfer" THEN SetStatus(h, "FAILED") ELSE UNCHANGED txn
      /\ UNCHANGED <<balance, book, answers, lapse, inbox, otp, issued, published, today>>
  BY DEF Fail, ledger, redis
<1>2. StatusInv /\ TypeInv
  BY DEF MoneyInv
<1>3. pc'[h] = "idle" /\ reply'[h] = "none" /\ OnlyMoves(h)
      /\ reply' \in [Handlers -> {"none", "ok", "error"}]
  BY <1>1, <1>2, EndFacts
<1>4. ~Committed(h)'
  BY <1>3 DEF Committed
<1>5. CASE req[h].op = "transfer"
  <2>1. SetStatus(h, "FAILED") /\ OutcomeOf(req[h].op, "FAILED")
    BY <1>1, <1>5 DEF OutcomeOf
  <2> QED BY <1>1, <1>3, <1>4, <2>1, OutcomeMoney
<1>6. CASE UNCHANGED txn
  <2>1. AgreeInv'
    BY <1>1, <1>3, <1>6, RestingKeeps DEF BooksSame
  <2> QED BY <1>1, <1>2, <1>3, <1>6, <2>1 DEF TypeInv, LedgerTyped
<1> QED BY <1>1, <1>5, <1>6

LEMMA SucceedMoney ==
  ASSUME MoneyInv, UNCHANGED setting, NEW h \in Handlers, Succeed(h)
  PROVE  TypeInv' /\ AgreeInv'
PROOF
<1>1. /\ pc[h] = "done"
      /\ UNCHANGED <<balance, book, answers, lapse, inbox, otp, issued, published, today>>
  BY DEF Succeed, ledger, redis
<1>2. StatusInv /\ TypeInv /\ AgreeInv /\ Committed(h) /\ reply[h] = "none"
  BY <1>1, NoCalls DEF MoneyInv, Committed
<1>3. req[h].op \in {"transfer", "confirm", "cashOut", "reverse"}
  BY <1>2, KnownFacts
<1>4. CASE req[h].op = "reverse"
  <2>1. SetStatus(h, "REVERSED") /\ End(h) /\ OutcomeOf(req[h].op, "REVERSED")
    BY <1>4 DEF Succeed, OutcomeOf
  <2>2. pc'[h] = "idle" /\ reply'[h] = "none" /\ OnlyMoves(h)
        /\ reply' \in [Handlers -> {"none", "ok", "error"}]
    BY <1>2, <2>1, EndFacts
  <2>3. ~Committed(h)'
    BY <2>2 DEF Committed
  <2> QED BY <1>1, <2>1, <2>2, <2>3, OutcomeMoney
<1>5. CASE req[h].op # "reverse"
  <2>1. /\ SetStatus(h, "SUCCESS") /\ OutcomeOf(req[h].op, "SUCCESS")
        /\ Goto(h, "publish") /\ UNCHANGED <<req, cur, reply>>
    BY <1>3, <1>5 DEF Succeed, OutcomeOf, handler
  <2>2. /\ pc'[h] = "publish" /\ reply'[h] = "none" /\ cur'[h] = cur[h] /\ OnlyMoves(h)
        /\ reply' \in [Handlers -> {"none", "ok", "error"}]
    BY <1>2, <2>1, GotoFacts
  <2>3. ~Committed(h)'
    BY <2>2 DEF Committed
  <2> QED BY <1>1, <2>1, <2>2, <2>3, OutcomeMoney
<1> QED BY <1>4, <1>5

\* The new row was nobody's, and its key no other row's: nothing is known of it.
LEMMA CreateMoney ==
  ASSUME MoneyInv, UNCHANGED setting, NEW h \in Handlers, Create(h)
  PROVE  TypeInv' /\ AgreeInv'
PROOF
<1>1. pc[h] = "create" /\ UNCHANGED <<balance, book, answers, lapse, inbox, otp, issued, published, today>>
  BY DEF Create, ledger, redis
<1>2. StatusInv /\ TypeInv /\ AgreeInv /\ reply[h] = "none" /\ \A m \in inbox : m.from # h
  BY <1>1, NoCalls DEF MoneyInv
<1>3. BooksSame
  BY <1>1 DEF BooksSame
<1>4. CASE End(h) /\ UNCHANGED txn
  <2>1. pc'[h] = "idle" /\ reply'[h] = "none" /\ OnlyMoves(h)
        /\ reply' \in [Handlers -> {"none", "ok", "error"}]
    BY <1>2, <1>4, EndFacts
  <2>2. AgreeInv'
    BY <1>1, <1>3, <1>4, <2>1, RestingKeeps
  <2> QED BY <1>1, <1>2, <1>4, <2>1, <2>2 DEF TypeInv, LedgerTyped
<1>5. CASE ~(End(h) /\ UNCHANGED txn)
  <2> DEFINE r == req[h]
             Cell == [ status |-> "PENDING", type |-> r.op, key |-> r.key,
                          from |-> r.from, to |-> r.to, amount |-> r.amount,
                          fee |-> IF r.op = "transfer" THEN FeeFor(r.amount) ELSE 0,
                          day |-> today ]
  <2>1. /\ Unused # {} /\ KeyIsFree(r.key)
        /\ txn' = [txn EXCEPT ![CHOOSE i \in Unused : TRUE] = Cell]
        /\ cur' = [cur EXCEPT ![h] = CHOOSE i \in Unused : TRUE]
        /\ Goto(h, IF r.op = "transfer" THEN "call" ELSE "sendOtp")
        /\ req' = req /\ reply' = reply
    BY <1>5 DEF Create
  <2>2. PICK id : id = CHOOSE i \in Unused : TRUE
    OBVIOUS
  <2>3. id \in Txs /\ txn[id].status = "NONE"
    BY <2>1, <2>2 DEF Unused
  <2>4. PICK row : row = Cell
    OBVIOUS
  <2>5. r \in Requests /\ r.op \in {"transfer", "cashIn"}
    BY <1>1, <1>2 DEF StatusInv, PathInv
  <2>6. row \in Row /\ row.status = "PENDING" /\ row.type = r.op /\ row.key = r.key
    <3>1. r.amount \in Nat \ {0} /\ r.key \in ClientKeys /\ r.from \in Wallets /\ r.to \in Wallets
      BY <2>5, RequestShape
    <3>2. (IF r.op = "transfer" THEN FeeFor(r.amount) ELSE 0) \in Nat
      BY <3>1, FeeIsNat
    <3>3. today \in 1..Days
      BY <1>2 DEF TypeInv
    <3> QED BY <2>4, <2>5, <3>1, <3>2, <3>3 DEF Row, Statuses, Types
  <2>7. /\ txn' = [txn EXCEPT ![id] = row] /\ cur' = [cur EXCEPT ![h] = id]
    BY <2>1, <2>2, <2>4
  <2>8. txn \in [Txs -> Row] /\ cur \in [Handlers -> Txs \cup {NoTx}] /\ pc \in [Handlers -> Labels]
    BY <1>2 DEF TypeInv, StatusInv, ShapeInv
  <2>9. txn'[id] = row /\ txn' \in [Txs -> Row] /\ \A i \in Txs : i # id => txn'[i] = txn[i]
    BY <2>3, <2>6, <2>7, <2>8
  <2>10. /\ pc'[h] = (IF r.op = "transfer" THEN "call" ELSE "sendOtp") /\ cur'[h] = id
         /\ req'[h] = req[h] /\ reply'[h] = "none" /\ OnlyMoves(h)
    BY <1>2, <2>1, <2>7, <2>8 DEF Goto, OnlyMoves
  <2> HIDE DEF Cell
  <2>11. \A i \in Txs : txn[i].status # "NONE" => i # id /\ GoesOn(i) /\ PostingOf(i)' = PostingOf(i)
    BY <2>3, <2>9 DEF GoesOn, PostingOf, CommandUnder, Successful
  <2>12. /\ Slow' = Slow
         /\ \A i : /\ Remembered(i)' = Remembered(i) /\ Undone(i)' = Undone(i)
                   /\ Held(i)' = Held(i) /\ Lost(i)' = Lost(i)
         /\ \A i : Posted(i)' = Posted(i) /\ Mirrored(i)' = Mirrored(i) /\ Stays(i)
         /\ \A i : TakenBack(i)' = TakenBack(i)
         /\ \A i : txn'[i].type = txn[i].type => Credited(i)' = Credited(i)
    BY <1>3, SameBooks
  <2>13. ~Remembered(id) /\ ~Posted(id) /\ ~Lost(id) /\ ~Mirrored(id)
         /\ (Undone(id) => TakenBack(id)) /\ id \notin published
    <3>1. RowOK(id)
      BY <1>2, <2>3 DEF AgreeInv
    <3> QED BY <2>3, <3>1 DEF RowOK, Successful, Credited
  <2>14. Uncalled(id)'
    <3> SUFFICES ASSUME NEW m \in inbox, m.cmd = PostingOf(id)' PROVE FALSE
      BY <1>1 DEF Uncalled
    <3>1. CallOK(m)
      BY <1>2 DEF AgreeInv
    <3>2. PICK j \in Txs : txn[j].status # "NONE" /\ (m.cmd = PostingOf(j) \/ m.cmd = ReversalOf(j))
      BY <3>1 DEF CallOK
    <3>3. PostingOf(id)'.tx = id /\ PostingOf(j).tx = j /\ ReversalOf(j).tx = j
      BY DEF PostingOf, CommandUnder, ReversalOf
    <3> QED BY <2>3, <3>2, <3>3
  <2>15. RowKeysInv'
    <3>1. \A i \in Txs : txn[i].status # "NONE" => txn[i].key # row.key
      BY <2>1, <2>6 DEF KeyIsFree, RowsWithKey
    <3>2. RowKeysInv
      BY <1>2 DEF AgreeInv
    <3> SUFFICES ASSUME NEW i \in Txs, NEW j \in Txs, txn'[i].status # "NONE", txn'[j].status # "NONE",
                        txn'[i].key = txn'[j].key, i # j PROVE FALSE
      BY DEF RowKeysInv
    <3>3. CASE i = id
      BY <2>9, <3>1, <3>3
    <3>4. CASE j = id
      BY <2>9, <3>1, <3>4
    <3>5. CASE i # id /\ j # id
      BY <2>9, <3>2, <3>5 DEF RowKeysInv
    <3> QED BY <3>3, <3>4, <3>5
  <2>16. RowOK(id)'
    <3>1. txn'[id].status = "PENDING" /\ ~Successful(id)'
      BY <2>6, <2>9 DEF Successful
    <3>2. /\ ~Remembered(id)' /\ ~Posted(id)' /\ ~Lost(id)' /\ ~Mirrored(id)' /\ id \notin published'
          /\ (Undone(id)' => TakenBack(id)')
      BY <1>1, <2>12, <2>13
    <3> QED BY <3>1, <3>2 DEF RowOK
  <2>17. ASSUME NEW i \in Txs, i # id PROVE RowOK(i)'
    <3>1. RowOK(i)
      BY <1>2 DEF AgreeInv
    <3>2. PostingOf(i)' = PostingOf(i)
      BY <2>9, <2>17 DEF PostingOf, CommandUnder
    <3>3. Uncalled(i)' = Uncalled(i)
      BY <1>1, <3>2 DEF Uncalled
    <3> QED BY <1>1, <1>3, <2>9, <2>17, <3>1, <3>2, <3>3, RowSame
  <2>18. ASSUME NEW m \in inbox' PROVE CallOK(m)'
    <3>1. CallOK(m)
      BY <1>1, <1>2 DEF AgreeInv
    <3> QED BY <2>11, <3>1, CallSame
  <2>19. ASSUME NEW g \in Handlers, g # h PROVE HandlerOK(g)'
    <3>1. Still(g)
      BY <1>1, <2>10, <2>19 DEF Still, OnlyMoves
    <3>2. HandlerOK(g) /\ OutcomeOK(g) /\ OwnCallOK(g) /\ \A i \in Txs : RowOK(i)
      BY <1>2 DEF AgreeInv, HandlerOK
    <3>3. Told(g) \/ Committed(g) \/ pc[g] = "publish" => cur[g] \in Txs /\ txn[cur[g]].status # "NONE"
      <4>1. Told(g) => Committed(g)
        BY <1>2, <3>2 DEF Told, Committed, OutcomeOK, TypeInv
      <4>2. \A i \in Txs : Credited(i) => txn[i].status # "NONE"
        BY <3>2 DEF RowOK, Credited
      <4> QED BY <3>2, <4>1, <4>2, KnownFacts DEF OutcomeOK
    <3>4. PICK i : i = cur[g]
      OBVIOUS
    <3>5. Told(g) \/ Committed(g) \/ pc[g] = "publish" =>
            GoesOn(i) /\ Lasts(i) /\ PostingOf(i)' = PostingOf(i)
      <4>1. Told(g) \/ Committed(g) \/ pc[g] = "publish" =>
              GoesOn(i) /\ PostingOf(i)' = PostingOf(i)
        BY <2>11, <3>3, <3>4
      <4>2. txn'[i].type = txn[i].type => Lasts(i)
        BY <2>12 DEF Lasts, Untouched
      <4> QED BY <4>1, <4>2 DEF GoesOn
    <3>6. PostingOf(cur[g])' = PostingOf(cur[g]) \/ ~Waits(g)
      <4>1. cur'[g] = i
        BY <3>1, <3>4 DEF Still
      <4>2. PostingOf(cur[g])' = PostingOf(i)'
        BY <4>1, AtRow
      <4> QED BY <3>4, <3>5, <4>2 DEF Waits, Committed
    <3>7. OwnCallOK(g)'
      BY <1>1, <3>1, <3>2, <3>6, OwnCallStill
    <3> QED BY <1>1, <2>12, <3>1, <3>2, <3>4, <3>5, <3>7, HandlerStill
  <2>20. HandlerOK(h)'
    <3>1. CASE r.op # "transfer"
      <4>1. ~Committed(h)' /\ pc'[h] # "publish" /\ \A m \in inbox' : m.from # h
        BY <1>1, <1>2, <2>10, <3>1 DEF Committed
      <4> QED BY <2>10, <4>1, HandlerRests
    <3>2. CASE r.op = "transfer"
      <4>1. Untouched(cur[h])' /\ ~Remembered(cur[h])'
        <5>1. Untouched(id)' /\ ~Remembered(id)'
          BY <2>12, <2>13, <2>14 DEF Untouched
        <5> QED BY <2>10, <5>1, AtRow
      <4>2. OutcomeOK(h)'
        BY <2>10, <3>2 DEF OutcomeOK, Told
      <4>3. OwnCallOK(h)'
        BY <1>1, <1>2, <2>10, <3>2 DEF OwnCallOK, Waits
      <4>4. InTimeOK(h)'
        BY <2>10, <4>1 DEF InTimeOK
      <4> QED BY <4>2, <4>3, <4>4 DEF HandlerOK
    <3> QED BY <3>1, <3>2
  <2>21. ASSUME NEW i \in Txs PROVE QueueOK(i)'
    <3>1. CASE i = id
      BY <2>14, <3>1 DEF QueueOK, Uncalled, InsideFor
    <3>2. CASE i # id
      <4>1. /\ QueueOK(i) /\ PostingOf(i)' = PostingOf(i) /\ txn'[i].type = txn[i].type
            /\ Posted(i)' = Posted(i) /\ Remembered(i)' = Remembered(i) /\ Held(i)' = Held(i)
        BY <1>2, <2>9, <2>12, <3>2 DEF AgreeInv, PostingOf, CommandUnder
      <4> QED BY <1>1, <4>1, QueueShrinks
    <3> QED BY <3>1, <3>2
  <2>22. AgreeInv'
    BY <2>15, <2>16, <2>17, <2>18, <2>19, <2>20, <2>21 DEF AgreeInv
  <2> QED BY <1>1, <1>2, <2>1, <2>9, <2>22 DEF TypeInv, LedgerTyped
<1> QED BY <1>4, <1>5

-----------------------------------------------------------------------------
(***************************************************************************)
(* The ledger's steps.                                                     *)
(***************************************************************************)
\* The order of a call and the transaction it is about.
LEMMA OrderFacts ==
  ASSUME NEW m, CallOK(m)
  PROVE  /\ m.cmd.key \in Keys
         /\ \A id \in Txs : /\ m.cmd = PostingOf(id) => m.cmd.key = <<"tx", id>>
                            /\ m.cmd = ReversalOf(id) => m.cmd.key = <<"rev", id>>
                            /\ m.cmd.key = <<"tx", id>> => m.cmd = PostingOf(id)
                            /\ m.cmd.key = <<"rev", id>> => m.cmd = ReversalOf(id)
PROOF
<1>1. \A i : PostingOf(i).key = <<"tx", i>> /\ ReversalOf(i).key = <<"rev", i>>
  BY DEF PostingOf, CommandUnder, ReversalOf
<1>2. PICK id \in Txs : m.cmd = PostingOf(id) \/ m.cmd = ReversalOf(id)
  BY DEF CallOK
<1>3. <<"tx", id>> \in Keys /\ <<"rev", id>> \in Keys
  BY TransactionsAssumption DEF TransactionsAssumption
<1>4. \A i, j : /\ <<"tx", i>> # <<"rev", j>>
                /\ <<"tx", i>> = <<"tx", j>> => i = j
                /\ <<"rev", i>> = <<"rev", j>> => i = j
  OBVIOUS
<1> QED BY <1>1, <1>2, <1>3, <1>4

\* What a step leaves alone of the ledger's memory.
MemoryOf(id) == <<answers[<<"tx", id>>], lapse[<<"tx", id>>]>>
UndoingOf(id) == <<answers[<<"rev", id>>], lapse[<<"rev", id>>]>>

LEMMA MemoryStays ==
  ASSUME NEW id
  PROVE  /\ MemoryOf(id)' = MemoryOf(id) =>
              Remembered(id)' = Remembered(id) /\ Held(id)' = Held(id) /\ Lost(id)' = Lost(id)
         /\ UndoingOf(id)' = UndoingOf(id) =>
              /\ Undone(id)' = Undone(id)
              /\ lapse'[<<"rev", id>>] = lapse[<<"rev", id>>]
BY DEF MemoryOf, UndoingOf, Remembered, Held, Lost, Undone

LEMMA Elsewhere ==
  ASSUME NEW m, CallOK(m),
         \A k \in Keys : k # m.cmd.key => answers'[k] = answers[k] /\ lapse'[k] = lapse[k],
         NEW id \in Txs
  PROVE  /\ m.cmd # PostingOf(id) => MemoryOf(id)' = MemoryOf(id)
         /\ m.cmd # ReversalOf(id) => UndoingOf(id)' = UndoingOf(id)
PROOF
<1>1. <<"tx", id>> \in Keys /\ <<"rev", id>> \in Keys
  BY TransactionsAssumption DEF TransactionsAssumption
<1>2. /\ m.cmd # PostingOf(id) => <<"tx", id>> # m.cmd.key
      /\ m.cmd # ReversalOf(id) => <<"rev", id>> # m.cmd.key
  BY OrderFacts
<1> QED BY <1>1, <1>2 DEF MemoryOf, UndoingOf

\* A row whose entries stay, past what the ledger remembers of it.
LEMMA RowStays ==
  ASSUME UNCHANGED <<setting, txn, published>>, NEW id \in Txs, RowOK(id), Stays(id),
         Mirrored(id)' = Mirrored(id), \A n \in inbox' : \E m \in inbox : m.cmd = n.cmd,
         Held(id)' => Held(id), Lost(id) => Lost(id)', TakenBack(id) => TakenBack(id)',
         Lost(id)' => Lost(id) \/ txn[id].status # "NONE",
         Remembered(id)' => Remembered(id) \/ Lost(id)',
         Held(id)' /\ Posted(id) => Remembered(id)',
         Undone(id)' => Undone(id) \/ TakenBack(id)'
  PROVE  RowOK(id)'
PROOF
<1>1. PostingOf(id)' = PostingOf(id) /\ Slow' = Slow /\ Successful(id)' = Successful(id)
  BY DEF PostingOf, CommandUnder, Slow, Fault, Successful
<1>2. (PostedAsAsked(id) => PostedAsAsked(id)') /\ (OnlyAsAsked(id) => OnlyAsAsked(id)')
  BY <1>1, PostedStays
<1>3. Posted(id)' = Posted(id)
  BY DEF Posted, Stays
<1>4. Untouched(id) => Untouched(id)'
  BY <1>1, <1>3 DEF Untouched, Uncalled
<1>5. Credited(id) => Credited(id)'
  BY <1>3 DEF Credited
<1> QED BY <1>1, <1>2, <1>3, <1>4, <1>5 DEF RowOK

\* What an answer means: what was said stays true, only what the answered call asked
\* for can have been posted or remembered, an "ok" is about what was, and with an
\* error nothing was posted.
Means(m, outcome) ==
    /\ \A id \in Txs : (Credited(id) => Credited(id)') /\ (TakenBack(id) => TakenBack(id)')
    /\ \A id \in Txs : m.cmd # PostingOf(id) =>
          (Posted(id)' => Posted(id)) /\ (Remembered(id)' => Remembered(id))
    /\ \A id \in Txs : /\ Held(id)' => Held(id)
                       /\ Held(id)' /\ Remembered(id)' => Remembered(id) \/ InsideFor(m, id)
    /\ outcome = "ok" => \A id \in Txs : /\ m.cmd = PostingOf(id) => Credited(id)'
                                         /\ m.cmd = ReversalOf(id) => TakenBack(id)'
    /\ outcome = "error" => \A id \in Txs : Posted(id)' => Posted(id)

\* A handler whose call was answered, or another's.
LEMMA AnswerHandler ==
  ASSUME MoneyInv, UNCHANGED setting, NEW m \in inbox, NEW outcome \in {"ok", "error"},
         Answer(m, outcome), Means(m, outcome), NEW g \in Handlers
  PROVE  HandlerOK(g)'
PROOF
<1>0. Nobody \notin Handlers
  BY TransactionsAssumption DEF TransactionsAssumption
<1>1. /\ inbox' = inbox \ {m} /\ UNCHANGED <<txn, pc, req, cur>>
      /\ reply' = IF m.from = Nobody THEN reply ELSE [reply EXCEPT ![m.from] = outcome]
  BY DEF Answer
<1>2. /\ HandlerOK(g) /\ CallOK(m) /\ m.from \in Handlers \cup {Nobody}
      /\ reply \in [Handlers -> {"none", "ok", "error"}]
  BY DEF MoneyInv, AgreeInv, CallOK, TypeInv
<1>3. Committed(g)' = Committed(g) /\ Slow' = Slow /\ (\A i : PostingOf(i)' = PostingOf(i))
  BY <1>1 DEF Committed, Slow, Fault, PostingOf, CommandUnder
<1>4. PICK id : id = cur[g]
  OBVIOUS
<1>5. /\ Credited(cur[g])' = Credited(id)' /\ TakenBack(cur[g])' = TakenBack(id)'
      /\ Untouched(cur[g])' = Untouched(id)' /\ Successful(cur[g])' = Successful(id)'
  <2>1. cur'[g] = id
    BY <1>1, <1>4
  <2> QED BY <2>1, AtRow
<1>6. Committed(g) => id \in Txs
  BY <1>4, KnownFacts
<1>7. CASE m.from = g
  <2>1. Waits(g) /\ m.cmd = OrderOf(g) /\ reply'[g] = outcome /\ pc'[g] = "wait" /\ Committed(g)
    BY <1>0, <1>1, <1>2, <1>7 DEF HandlerOK, OwnCallOK, Waits, Committed
  <2>2. \A n \in inbox' : n.from # g
    BY <1>1, <1>2, <1>7 DEF HandlerOK, OwnCallOK
  <2>3. m.cmd = IF req[g].op = "reverse" THEN ReversalOf(id) ELSE PostingOf(id)
    BY <1>4, <2>1 DEF OrderOf
  <2>4. id \in Txs
    BY <1>6, <2>1
  <2>5. OutcomeOK(g)'
    <3>1. /\ outcome = "ok" /\ req[g].op = "reverse" => TakenBack(id)'
          /\ outcome = "ok" /\ req[g].op # "reverse" => Credited(id)'
      <4>1. outcome = "ok" => /\ m.cmd = PostingOf(id) => Credited(id)'
                              /\ m.cmd = ReversalOf(id) => TakenBack(id)'
        BY <2>4 DEF Means
      <4> QED BY <2>3, <4>1
    <3>2. Told(g)' => outcome = "ok"
      BY <2>1 DEF Told
    <3>3. OutcomeOK(g)
      BY <1>2 DEF HandlerOK
    <3>4. Successful(id)' = Successful(id)
      BY <1>1 DEF Successful
    <3> QED BY <1>1, <1>3, <1>4, <1>5, <2>1, <3>1, <3>2, <3>3, <3>4 DEF OutcomeOK
  <2>6. ~Waits(g)'
    BY <2>1 DEF Waits
  <2>7. OwnCallOK(g)'
    BY <2>2, <2>6 DEF OwnCallOK
  <2>8. InTimeOK(g)'
    <3> SUFFICES ASSUME req[g].op = "transfer", outcome = "error" PROVE Untouched(id)'
      BY <1>1, <1>5, <2>1 DEF InTimeOK
    <3>1. txn[id].type = "transfer" /\ QueueOK(id) /\ m.cmd = PostingOf(id)
      BY <1>4, <2>1, <2>3, <2>4, KnownFacts DEF MoneyInv, AgreeInv
    <3>2. ~Posted(id) /\ \A n \in inbox' : n.cmd # PostingOf(id)
      BY <1>1, <3>1 DEF QueueOK, Uncalled
    <3>3. ~Posted(id)'
      BY <2>4, <3>2 DEF Means
    <3> QED BY <1>3, <3>2, <3>3 DEF Untouched, Uncalled
  <2> QED BY <2>5, <2>7, <2>8 DEF HandlerOK
<1>8. CASE m.from # g
  <2>1. Still(g)
    BY <1>1, <1>2, <1>8 DEF Still
  <2>2. OwnCallOK(g)'
    <3>1. PostingOf(cur[g])' = PostingOf(cur[g])
      BY <1>1 DEF PostingOf, CommandUnder
    <3>2. \A n : n.from = g => (n \in inbox' <=> n \in inbox)
      BY <1>1, <1>8
    <3> QED BY <1>2, <2>1, <3>1, <3>2, OwnCallStill DEF HandlerOK
  <2>3. Told(g) \/ Committed(g) \/ pc[g] = "publish" => id \in Txs
    <3>1. OutcomeOK(g)
      BY <1>2 DEF HandlerOK
    <3>2. Told(g) => Committed(g)
      BY <1>2, <3>1 DEF Told, Committed, OutcomeOK
    <3> QED BY <1>4, <1>6, <3>1, <3>2 DEF OutcomeOK
  <2>4. id \in Txs => Lasts(id)
    <3> SUFFICES ASSUME id \in Txs PROVE Lasts(id)
      OBVIOUS
    <3>1. Untouched(id) => m.cmd # PostingOf(id) /\ ~Posted(id)
      BY DEF Untouched, Uncalled
    <3> QED BY <3>1 DEF Means, Lasts
  <2>5. GoesOn(id)
    BY <1>1, <1>3 DEF GoesOn, Successful
  <2>6. \A n \in inbox' : \E x \in inbox : x.cmd = n.cmd
    BY <1>1
  <2>7. Told(g) \/ Committed(g) \/ pc[g] = "publish" => GoesOn(cur[g]) /\ Lasts(cur[g])
    BY <1>4, <2>3, <2>4, <2>5
  <2> QED BY <1>2, <1>3, <2>1, <2>2, <2>6, <2>7, HandlerStill
<1> QED BY <1>7, <1>8

LEMMA AnswerKeeps ==
  ASSUME MoneyInv, UNCHANGED setting, NEW m \in inbox, NEW outcome \in {"ok", "error"},
         Answer(m, outcome), Means(m, outcome), LedgerTyped', answers' = [k \in Keys |-> answers'[k]],
         lapse' \in [Keys -> Lapse],
         \A id \in Txs : RowOK(id)'
  PROVE  TypeInv' /\ AgreeInv'
PROOF
<1>1. /\ inbox' = inbox \ {m} /\ UNCHANGED <<txn, otp, issued, published, today>>
      /\ reply' = IF m.from = Nobody THEN reply ELSE [reply EXCEPT ![m.from] = outcome]
  BY DEF Answer, redis
<1>2. AgreeInv /\ TypeInv
  BY DEF MoneyInv
<1>3. RowKeysInv'
  BY <1>1, <1>2 DEF AgreeInv, RowKeysInv
<1>4. ASSUME NEW n \in inbox' PROVE CallOK(n)'
  <2>1. CallOK(n)
    BY <1>1, <1>2 DEF AgreeInv
  <2>2. \A i : GoesOn(i)
    BY <1>1 DEF GoesOn, PostingOf, CommandUnder, Successful
  <2> QED BY <2>1, <2>2, CallSame
<1>5. \A g \in Handlers : HandlerOK(g)'
  BY AnswerHandler
<1>6. ASSUME NEW id \in Txs PROVE QueueOK(id)'
  <2>1. QueueOK(id) /\ PostingOf(id)' = PostingOf(id) /\ txn'[id].type = txn[id].type
    BY <1>1, <1>2 DEF AgreeInv, PostingOf, CommandUnder
  <2>2. inbox' \subseteq inbox
    BY <1>1
  <2>3. txn[id].type = "transfer" =>
          Uncalled(id)' \/ ((Posted(id)' => Posted(id)) /\ (Remembered(id)' => Remembered(id)))
    <3>1. CASE m.cmd = PostingOf(id)
      BY <1>1, <2>1, <3>1 DEF QueueOK, Uncalled
    <3>2. CASE m.cmd # PostingOf(id)
      BY <3>2 DEF Means
    <3> QED BY <3>1, <3>2
  <2>4. Held(id)' => Held(id)
    BY DEF Means
  <2>5. Held(id)' /\ Remembered(id)' =>
          Remembered(id) \/ \A n \in inbox' : ~InsideFor(n, id)
    <3>1. Held(id)' /\ Remembered(id)' => Remembered(id) \/ InsideFor(m, id)
      BY DEF Means
    <3>2. Held(id) /\ InsideFor(m, id) => \A n \in inbox' : ~InsideFor(n, id)
      BY <1>1, <2>1 DEF QueueOK
    <3> QED BY <2>4, <3>1, <3>2
  <2> QED BY <2>1, <2>2, <2>3, <2>4, <2>5, QueueShrinks
<1>7. AgreeInv'
  BY <1>3, <1>4, <1>5, <1>6 DEF AgreeInv
<1>8. reply' \in [Handlers -> {"none", "ok", "error"}]
  BY <1>1, <1>2 DEF TypeInv
<1> QED BY <1>1, <1>2, <1>7, <1>8 DEF TypeInv

\* A call that is turned away, or answered from memory: the books stay as they are.
LEMMA LedgerAnswers ==
  ASSUME MoneyInv, UNCHANGED setting, NEW m \in inbox, LedgerReplays(m) \/ LedgerRefuses(m)
  PROVE  TypeInv' /\ AgreeInv'
PROOF
<1>1. /\ UNCHANGED <<balance, book, answers, lapse, txn, published>> /\ inbox' = inbox \ {m}
      /\ \/ answers[m.cmd.key] = ContentOf(m) /\ Answer(m, "ok")
         \/ Answer(m, "error")
  BY DEF LedgerReplays, LedgerRefuses, Answer, ledger, redis
<1>2. AgreeInv /\ TypeInv /\ CallOK(m)
  BY DEF MoneyInv, AgreeInv
<1>3. BooksSame
  BY <1>1 DEF BooksSame
<1>4. /\ \A i : /\ Remembered(i)' = Remembered(i) /\ Undone(i)' = Undone(i)
                /\ Held(i)' = Held(i) /\ Lost(i)' = Lost(i)
      /\ \A i : Posted(i)' = Posted(i) /\ Mirrored(i)' = Mirrored(i) /\ Stays(i)
      /\ \A i : TakenBack(i)' = TakenBack(i)
      /\ \A i : Credited(i)' = Credited(i)
  BY <1>1, <1>3, SameBooks
<1>5. \A id \in Txs : RowOK(id)'
  <2> TAKE id \in Txs
  <2>1. RowOK(id)
    BY <1>2 DEF AgreeInv
  <2>2. \A n \in inbox' : \E x \in inbox : x.cmd = n.cmd
    BY <1>1
  <2>3. Held(id) /\ Posted(id) => Remembered(id)
    BY <2>1 DEF RowOK
  <2> QED BY <1>1, <1>4, <2>1, <2>2, <2>3, RowStays
<1>6. LedgerTyped' /\ answers' = [k \in Keys |-> answers'[k]] /\ lapse' \in [Keys -> Lapse]
  BY <1>1, <1>2 DEF TypeInv, LedgerTyped
<1>7. CASE Answer(m, "error")
  <2>1. Means(m, "error")
    BY <1>4 DEF Means
  <2> QED BY <1>5, <1>6, <1>7, <2>1, AnswerKeeps
<1>8. CASE answers[m.cmd.key] = ContentOf(m) /\ Answer(m, "ok")
  <2>1. ASSUME NEW id \in Txs
        PROVE  /\ m.cmd = PostingOf(id) => Credited(id)
               /\ m.cmd = ReversalOf(id) => TakenBack(id)
    <3>1. ContentOf(m) # << >>
      BY DEF ContentOf
    <3>2. /\ m.cmd = PostingOf(id) => m.cmd.key = <<"tx", id>>
          /\ m.cmd = ReversalOf(id) => m.cmd.key = <<"rev", id>>
      BY <1>2, OrderFacts
    <3>3. RowOK(id) /\ QueueOK(id) /\ txn[id].type \in Types
      BY <1>2 DEF AgreeInv, TypeInv, Row
    <3>4. m.cmd = PostingOf(id) => Remembered(id) /\ ~Uncalled(id)
      BY <1>8, <3>1, <3>2 DEF Remembered, Uncalled
    <3>5. m.cmd = ReversalOf(id) => Undone(id)
      BY <1>8, <3>1, <3>2 DEF Undone
    <3> QED BY <3>3, <3>4, <3>5 DEF RowOK, QueueOK, Credited, Types
  <2>2. Means(m, "ok")
    <3>1. \A id \in Txs : /\ m.cmd = PostingOf(id) => Credited(id)'
                          /\ m.cmd = ReversalOf(id) => TakenBack(id)'
      BY <1>4, <2>1
    <3> QED BY <1>4, <3>1 DEF Means
  <2> QED BY <1>5, <1>6, <1>8, <2>2, AnswerKeeps
<1> QED BY <1>1, <1>7, <1>8

\* What a call that was executed, or failed, leaves in the ledger's memory.
LEMMA Rewrites ==
  ASSUME TypeInv, NEW m, CallOK(m), NEW c, answers' = [answers EXCEPT ![m.cmd.key] = c],
         \/ UNCHANGED lapse
         \/ lapse' = [lapse EXCEPT ![m.cmd.key] = "lost"]
         \/ lapse' = Twice(m.cmd.key)
  PROVE  /\ answers' = [k \in Keys |-> answers'[k]] /\ lapse' \in [Keys -> Lapse]
         /\ answers'[m.cmd.key] = c
         /\ \A k \in Keys : k # m.cmd.key => answers'[k] = answers[k] /\ lapse'[k] = lapse[k]
PROOF
<1>1. m.cmd.key \in Keys
  BY OrderFacts
<1>2. answers = [k \in Keys |-> answers[k]] /\ lapse \in [Keys -> Lapse]
  BY DEF TypeInv
<1>3. PICK k : k = m.cmd.key
  OBVIOUS
<1>4. lapse' \in [Keys -> Lapse] /\ \A j \in Keys : j # k => lapse'[j] = lapse[j]
  <2>1. CASE UNCHANGED lapse
    BY <1>2, <2>1
  <2>2. CASE lapse' = [lapse EXCEPT ![m.cmd.key] = "lost"]
    BY <1>1, <1>2, <1>3, <2>2 DEF Lapse
  <2>3. CASE lapse' = Twice(m.cmd.key)
    BY <1>1, <1>2, <1>3, <2>3 DEF Lapse, Twice
  <2> QED BY <2>1, <2>2, <2>3
<1>5. answers'[k] = c /\ \A j \in Keys : j # k => answers'[j] = answers[j]
  BY <1>1, <1>2, <1>3
<1>6. answers' = [j \in Keys |-> answers'[j]]
  BY <1>2
<1> QED BY <1>3, <1>4, <1>5, <1>6

\* A commit that fails behind a stored answer, and a command that cannot be executed:
\* neither happens to a posting that the ledger still remembers as done.
LEMMA LedgerErrsMoney ==
  ASSUME MoneyInv, UNCHANGED setting, NEW m \in inbox, LedgerLosesCommit(m) \/ LedgerFails(m)
  PROVE  TypeInv' /\ AgreeInv'
PROOF
<1> DEFINE key == m.cmd.key
<1>1. /\ UNCHANGED <<balance, book, txn, published>> /\ inbox' = inbox \ {m} /\ Answer(m, "error")
      /\ m.at = "inside"
      /\ \/ answers' = [answers EXCEPT ![key] = ContentOf(m)] /\ lapse' = [lapse EXCEPT ![key] = "lost"]
         \/ answers' = [answers EXCEPT ![key] = << >>] /\ UNCHANGED lapse
  BY DEF LedgerLosesCommit, LedgerFails, Claimed, Answer, tables, redis
<1>2. AgreeInv /\ TypeInv /\ CallOK(m)
  BY DEF MoneyInv, AgreeInv
<1>3. /\ answers' = [k \in Keys |-> answers'[k]] /\ lapse' \in [Keys -> Lapse]
      /\ \A k \in Keys : k # key => answers'[k] = answers[k] /\ lapse'[k] = lapse[k]
      /\ (answers'[key] = << >> /\ lapse'[key] = lapse[key]) \/ lapse'[key] = "lost"
  <2>1. CASE answers' = [answers EXCEPT ![key] = ContentOf(m)] /\ lapse' = [lapse EXCEPT ![key] = "lost"]
    <3>1. lapse'[key] = "lost"
      BY <1>2, <2>1, OrderFacts DEF TypeInv
    <3> QED BY <1>2, <2>1, <3>1, Rewrites
  <2>2. CASE answers' = [answers EXCEPT ![key] = << >>] /\ UNCHANGED lapse
    <3>1. lapse'[key] = lapse[key]
      BY <2>2
    <3> QED BY <1>2, <2>2, <3>1, Rewrites
  <2> QED BY <1>1, <2>1, <2>2
<1> HIDE DEF key
<1>4. ASSUME NEW id \in Txs
      PROVE  /\ m.cmd # PostingOf(id) => /\ Remembered(id)' = Remembered(id)
                                         /\ Held(id)' = Held(id) /\ Lost(id)' = Lost(id)
             /\ m.cmd # ReversalOf(id) => /\ Undone(id)' = Undone(id)
                                          /\ lapse'[<<"rev", id>>] = lapse[<<"rev", id>>]
             /\ m.cmd = PostingOf(id) =>
                  \/ ~Remembered(id)' /\ Held(id)' = Held(id) /\ Lost(id)' = Lost(id)
                  \/ Lost(id)' /\ ~Held(id)'
             /\ m.cmd = ReversalOf(id) =>
                  \/ ~Undone(id)' /\ lapse'[<<"rev", id>>] = lapse[<<"rev", id>>]
                  \/ lapse'[<<"rev", id>>] = "lost"
  <2>1. /\ m.cmd # PostingOf(id) => MemoryOf(id)' = MemoryOf(id)
        /\ m.cmd # ReversalOf(id) => UndoingOf(id)' = UndoingOf(id)
    BY <1>2, <1>3, Elsewhere DEF key
  <2>2. /\ m.cmd = PostingOf(id) => key = <<"tx", id>>
        /\ m.cmd = ReversalOf(id) => key = <<"rev", id>>
    BY <1>2, OrderFacts DEF key
  <2>3. m.cmd = PostingOf(id) =>
          \/ ~Remembered(id)' /\ Held(id)' = Held(id) /\ Lost(id)' = Lost(id)
          \/ Lost(id)' /\ ~Held(id)'
    BY <1>3, <2>2 DEF Remembered, Held, Lost
  <2>4. m.cmd = ReversalOf(id) =>
          \/ ~Undone(id)' /\ lapse'[<<"rev", id>>] = lapse[<<"rev", id>>]
          \/ lapse'[<<"rev", id>>] = "lost"
    BY <1>3, <2>2 DEF Undone
  <2> QED BY <2>1, <2>3, <2>4, MemoryStays
<1>5. \A id : Posted(id)' = Posted(id) /\ Mirrored(id)' = Mirrored(id) /\ Stays(id)
  BY <1>1, SameBook
<1>6. ASSUME NEW id \in Txs
      PROVE  /\ Held(id)' => (Held(id) /\ m.cmd # PostingOf(id)) \/ ~Remembered(id)'
             /\ Lost(id) => Lost(id)'
             /\ TakenBack(id) => TakenBack(id)'
             /\ Undone(id)' => Undone(id) \/ TakenBack(id)'
             /\ Credited(id) => Credited(id)'
             /\ Remembered(id)' => Remembered(id) \/ Lost(id)'
             /\ Held(id)' => Held(id)
  <2>1. lapse[<<"rev", id>>] = "lost" => lapse'[<<"rev", id>>] = "lost"
    BY <1>4
  <2>2. TakenBack(id) => TakenBack(id)'
    BY <1>5, <2>1 DEF TakenBack
  <2>3. Undone(id)' => Undone(id) \/ TakenBack(id)'
    BY <1>4 DEF TakenBack
  <2>4. Lost(id) => Lost(id)'
    BY <1>4
  <2>5. txn'[id].type = txn[id].type
    BY <1>1
  <2>6. Credited(id) => Credited(id)'
    BY <1>5, <2>4, <2>5 DEF Credited
  <2>7. /\ Held(id)' => (Held(id) /\ m.cmd # PostingOf(id)) \/ ~Remembered(id)'
        /\ Remembered(id)' => Remembered(id) \/ Lost(id)'
        /\ Held(id)' => Held(id)
    BY <1>4
  <2> QED BY <2>2, <2>3, <2>4, <2>6, <2>7
<1>7. \A id \in Txs : RowOK(id)'
  <2> TAKE id \in Txs
  <2>1. RowOK(id) /\ QueueOK(id)
    BY <1>2 DEF AgreeInv
  <2>2. \A n \in inbox' : \E x \in inbox : x.cmd = n.cmd
    BY <1>1
  <2>3. m.cmd = PostingOf(id) => txn[id].status # "NONE"
    BY <1>2, OrdersDiffer DEF CallOK
  <2>4. Lost(id)' => Lost(id) \/ txn[id].status # "NONE"
    BY <1>4, <2>3
  <2>5. Held(id)' /\ Posted(id) => Remembered(id)'
    <3>1. Held(id) /\ Posted(id) => m.cmd # PostingOf(id) /\ Remembered(id)
      BY <1>1, <2>1 DEF RowOK, QueueOK, InsideFor
    <3> QED BY <1>4, <1>6, <3>1
  <2> QED BY <1>1, <1>5, <1>6, <2>1, <2>2, <2>4, <2>5, RowStays
<1>8. Means(m, "error")
  <2>1. \A id \in Txs : m.cmd # PostingOf(id) => (Remembered(id)' => Remembered(id))
    BY <1>4
  <2>2. \A id \in Txs : Held(id)' /\ Remembered(id)' => Remembered(id) \/ InsideFor(m, id)
    BY <1>1, <1>4 DEF InsideFor
  <2> QED BY <1>5, <1>6, <2>1, <2>2 DEF Means
<1>9. LedgerTyped'
  BY <1>1, <1>2 DEF TypeInv, LedgerTyped
<1> QED BY <1>1, <1>3, <1>7, <1>8, <1>9, AnswerKeeps

LEMMA LedgerPostsMoney ==
  ASSUME MoneyInv, UNCHANGED setting, NEW m \in inbox, LedgerPosts(m)
  PROVE  TypeInv' /\ AgreeInv'
PROOF
<1>1. /\ UNCHANGED <<lapse, txn, published>> /\ inbox' = inbox \ {m} /\ Answer(m, "ok")
      /\ m.at = "inside" /\ answers' = [answers EXCEPT ![m.cmd.key] = ContentOf(m)]
      /\ Book!Post(m.cmd) \/ Book!ReverseTx(m.cmd)
  BY DEF LedgerPosts, Claimed, Answer, redis
<1>2. /\ AgreeInv /\ TypeInv /\ LedgerTyped /\ ShapeInv /\ CallOK(m)
      /\ \A i \in Txs : RowOK(i) /\ QueueOK(i)
  BY DEF MoneyInv, AgreeInv, TypeInv, StatusInv
<1>3. PICK id \in Txs : /\ txn[id].status # "NONE"
                        /\ m.cmd = PostingOf(id) \/ (m.cmd = ReversalOf(id) /\ Successful(id))
  BY <1>2 DEF AgreeInv, CallOK
<1>4. /\ answers' = [k \in Keys |-> answers'[k]] /\ lapse' \in [Keys -> Lapse]
      /\ answers'[m.cmd.key] # << >>
      /\ \A k \in Keys : k # m.cmd.key => answers'[k] = answers[k] /\ lapse'[k] = lapse[k]
  <2>1. ContentOf(m) # << >>
    BY DEF ContentOf
  <2>2. PICK c : c = ContentOf(m)
    OBVIOUS
  <2> QED BY <1>1, <1>2, <2>1, <2>2, Rewrites
<1>5. ASSUME NEW i \in Txs
      PROVE  /\ m.cmd # PostingOf(i) => Remembered(i)' = Remembered(i)
             /\ m.cmd # ReversalOf(i) => Undone(i)' = Undone(i)
             /\ Held(i)' = Held(i) /\ Lost(i)' = Lost(i)
             /\ lapse'[<<"rev", i>>] = lapse[<<"rev", i>>]
  <2>1. /\ m.cmd # PostingOf(i) => MemoryOf(i)' = MemoryOf(i)
        /\ m.cmd # ReversalOf(i) => UndoingOf(i)' = UndoingOf(i)
    BY <1>2, <1>4, Elsewhere
  <2>2. Held(i)' = Held(i) /\ Lost(i)' = Lost(i) /\ lapse'[<<"rev", i>>] = lapse[<<"rev", i>>]
    BY <1>1 DEF Held, Lost
  <2> QED BY <2>1, <2>2, MemoryStays
<1>6. \A n \in inbox' : \E x \in inbox : x.cmd = n.cmd
  BY <1>1
<1>7. PostingOf(id)' = PostingOf(id) /\ Slow' = Slow /\ Successful(id)' = Successful(id)
  BY <1>1 DEF PostingOf, CommandUnder, Slow, Fault, Successful
<1>8. PostingOf(id).kind # "reverse" /\ ReversalOf(id).kind = "reverse"
  BY DEF PostingOf, CommandUnder, ReversalOf
<1>9. CASE m.cmd = PostingOf(id)
  <2>0. \A i \in Txs : m.cmd # ReversalOf(i) /\ (m.cmd = PostingOf(i) => i = id)
    BY <1>9, OrdersDiffer
  <2>1. Book!Post(PostingOf(id))
    BY <1>1, <1>8, <1>9 DEF Book!ReverseTx
  <2>2. Remembered(id)'
    <3>1. m.cmd.key = <<"tx", id>>
      BY <1>2, <1>9, OrderFacts
    <3> QED BY <1>4, <3>1 DEF Remembered
  <2>3. /\ LedgerTyped' /\ Posted(id)'
        /\ ~Posted(id) => PostedAsAsked(id)' /\ OnlyAsAsked(id)'
        /\ OnlyAsAsked(id) => OnlyAsAsked(id)'
        /\ \A i : ReversalsOf(book', i) = ReversalsOf(book, i) /\ (i # id => Stays(i))
    BY <1>2, <1>7, <2>1, PostingEffect
  <2>4. \A i : Mirrored(i)' = Mirrored(i)
    <3>1. \A i : Mirrored(i)' = (ReversalsOf(book', i) # {})
      BY DEF Mirrored
    <3>2. \A i : Mirrored(i) = (ReversalsOf(book, i) # {})
      BY DEF Mirrored
    <3> QED BY <2>3, <3>1, <3>2
  <2>5. \A i \in Txs : TakenBack(i)' = TakenBack(i)
    BY <1>5, <2>4 DEF TakenBack
  <2>6. ASSUME NEW i \in Txs, i # id PROVE RowOK(i)'
    <3>1. Stays(i) /\ RowOK(i) /\ Remembered(i)' = Remembered(i) /\ Undone(i)' = Undone(i)
          /\ Mirrored(i)' = Mirrored(i) /\ TakenBack(i)' = TakenBack(i)
      BY <1>2, <1>5, <2>0, <2>3, <2>4, <2>5, <2>6
    <3>2. Held(i) /\ Posted(i) => Remembered(i)
      BY <3>1 DEF RowOK
    <3> QED BY <1>1, <1>5, <1>6, <3>1, <3>2, RowStays
  \* Where the ledger's memory held, and for a transfer, this is the first posting.
  <2>7. txn[id].type = "transfer" \/ Held(id) => ~Posted(id)
    <3>1. RowOK(id) /\ QueueOK(id) /\ InsideFor(m, id) /\ ~Uncalled(id)
      BY <1>1, <1>2, <1>9 DEF InsideFor, Uncalled
    <3>2. Held(id) => ~Remembered(id)
      BY <3>1 DEF QueueOK
    <3> QED BY <3>1, <3>2 DEF RowOK, QueueOK
  <2>8. RowOK(id)'
    <3>1. ~Uncalled(id)
      BY <1>9 DEF Uncalled
    <3>2. RowOK(id) /\ Undone(id)' = Undone(id) /\ Mirrored(id)' = Mirrored(id)
          /\ TakenBack(id)' = TakenBack(id) /\ Held(id)' = Held(id)
      BY <1>2, <1>5, <2>0, <2>4, <2>5
    <3>3. OnlyAsAsked(id)' /\ (txn[id].type = "transfer" \/ Held(id) => PostedAsAsked(id)')
      BY <2>3, <2>7, <3>2 DEF RowOK
    <3>4. Credited(id)'
      BY <2>3 DEF Credited
    <3> QED BY <1>1, <1>3, <1>7, <2>2, <2>3, <3>1, <3>2, <3>3, <3>4 DEF RowOK, Untouched
  <2>9. Means(m, "ok")
    <3>1. \A i \in Txs : Credited(i) => Credited(i)'
      <4>1. ASSUME NEW i \in Txs, i # id PROVE Posted(i)' = Posted(i)
        BY <2>3, <4>1 DEF Posted, Stays
      <4> QED BY <1>1, <1>5, <2>3, <4>1 DEF Credited
    <3>2. \A i \in Txs : m.cmd # PostingOf(i) => (Posted(i)' => Posted(i))
      <4>1. \A i \in Txs : m.cmd # PostingOf(i) => Stays(i)
        BY <1>9, <2>3
      <4> QED BY <4>1 DEF Posted, Stays
    <3>3. Credited(id)'
      BY <2>3 DEF Credited
    <3>4. \A i \in Txs : Held(i)' /\ Remembered(i)' => Remembered(i) \/ InsideFor(m, i)
      BY <1>1, <1>5 DEF InsideFor
    <3> QED BY <1>5, <2>0, <2>5, <3>1, <3>2, <3>3, <3>4 DEF Means
  <2>10. \A i \in Txs : RowOK(i)'
    BY <2>6, <2>8
  <2> QED BY <1>1, <1>4, <2>3, <2>9, <2>10, AnswerKeeps
<1>10. CASE m.cmd = ReversalOf(id) /\ Successful(id)
  <2>0. \A i \in Txs : m.cmd # PostingOf(i) /\ (m.cmd = ReversalOf(i) => i = id)
    BY <1>10, OrdersDiffer
  <2>1. Book!ReverseTx(ReversalOf(id))
    BY <1>1, <1>8, <1>10 DEF Book!Post
  <2>2. /\ LedgerTyped' /\ Mirrored(id)'
        /\ \A i : Stays(i) /\ (i # id => ReversalsOf(book', i) = ReversalsOf(book, i))
    BY <1>2, <2>1, ReversalEffect
  <2>3. \A i : i # id => Mirrored(i)' = Mirrored(i)
    <3>1. \A i : Mirrored(i)' = (ReversalsOf(book', i) # {})
      BY DEF Mirrored
    <3>2. \A i : Mirrored(i) = (ReversalsOf(book, i) # {})
      BY DEF Mirrored
    <3> QED BY <2>2, <3>1, <3>2
  <2>4. TakenBack(id)' /\ \A i \in Txs : i # id => TakenBack(i)' = TakenBack(i)
    BY <1>5, <2>2, <2>3 DEF TakenBack
  <2>5. \A i : Posted(i)' = Posted(i)
    BY <2>2 DEF Posted, Stays
  <2>6. ASSUME NEW i \in Txs, i # id PROVE RowOK(i)'
    <3>1. Stays(i) /\ RowOK(i) /\ Remembered(i)' = Remembered(i) /\ Undone(i)' = Undone(i)
          /\ Mirrored(i)' = Mirrored(i) /\ TakenBack(i)' = TakenBack(i)
      BY <1>2, <1>5, <2>0, <2>2, <2>3, <2>4, <2>6
    <3>2. Held(i) /\ Posted(i) => Remembered(i)
      BY <3>1 DEF RowOK
    <3> QED BY <1>1, <1>5, <1>6, <3>1, <3>2, RowStays
  <2>7. RowOK(id)'
    <3>1. RowOK(id) /\ Remembered(id)' = Remembered(id) /\ Stays(id) /\ Posted(id)' = Posted(id)
          /\ Held(id)' = Held(id) /\ Lost(id)' = Lost(id)
      BY <1>2, <1>5, <2>0, <2>2, <2>5
    <3>2. (PostedAsAsked(id) => PostedAsAsked(id)') /\ (OnlyAsAsked(id) => OnlyAsAsked(id)')
      BY <1>7, <3>1, PostedStays
    <3>3. Credited(id)' = Credited(id)
      BY <1>1, <3>1 DEF Credited
    <3>4. txn[id].status # "FAILED"
      BY <1>10 DEF Successful
    <3> QED BY <1>1, <1>7, <1>10, <2>2, <2>4, <3>1, <3>2, <3>3, <3>4 DEF RowOK
  <2>8. Means(m, "ok")
    <3>1. \A i \in Txs : Remembered(i)' = Remembered(i)
      BY <1>5, <2>0
    <3>2. \A i \in Txs : Credited(i)' = Credited(i)
      BY <1>1, <1>5, <2>5 DEF Credited
    <3> QED BY <1>5, <2>0, <2>4, <2>5, <3>1, <3>2 DEF Means
  <2>9. \A i \in Txs : RowOK(i)'
    BY <2>6, <2>7
  <2> QED BY <1>1, <1>4, <2>2, <2>8, <2>9, AnswerKeeps
<1> QED BY <1>3, <1>9, <1>10

\* A call that gets past the ledger's memory, and an answer that expires, are remembered
\* in the history of the key; nothing is posted.
LEMMA LedgerEntersMoney ==
  ASSUME MoneyInv, UNCHANGED setting, NEW m \in inbox, LedgerEnters(m)
  PROVE  TypeInv' /\ AgreeInv'
PROOF
<1> DEFINE key == m.cmd.key
<1>1. /\ UNCHANGED <<balance, book, answers, reply, txn, otp, issued, published, pc, req, cur, today>>
      /\ answers[key] = << >> /\ inbox' = (inbox \ {m}) \cup {[m EXCEPT !.at = "inside"]}
      /\ lapse' = IF Inside(key) = {} THEN lapse ELSE Twice(key)
  BY DEF LedgerEnters, tables, redis
<1>2. /\ AgreeInv /\ TypeInv /\ CallOK(m) /\ CallShape(m)
      /\ \A i \in Txs : RowOK(i) /\ QueueOK(i)
  BY DEF MoneyInv, AgreeInv, CallOK
<1>3. PICK n : n = [m EXCEPT !.at = "inside"]
  OBVIOUS
<1>4. n.from = m.from /\ n.cmd = m.cmd /\ n.at = "inside" /\ CallShape(n)
  <2>1. m = [from |-> m.from, cmd |-> m.cmd, no |-> m.no, at |-> m.at, reason |-> m.reason]
    BY <1>2 DEF CallShape
  <2>2. n = [from |-> m.from, cmd |-> m.cmd, no |-> m.no, at |-> "inside", reason |-> m.reason]
    BY <1>3, <2>1
  <2> QED BY <2>2 DEF CallShape
<1>5. inbox' = (inbox \ {m}) \cup {n}
  BY <1>1, <1>3
<1>6. \A i : GoesOn(i) /\ PostingOf(i)' = PostingOf(i)
  BY <1>1 DEF GoesOn, PostingOf, CommandUnder, Successful
<1>7. \A i : Posted(i)' = Posted(i) /\ Mirrored(i)' = Mirrored(i) /\ Stays(i)
  BY <1>1, SameBook
<1>8. key \in Keys /\ lapse \in [Keys -> Lapse]
  BY <1>2, OrderFacts DEF TypeInv
<1>9. PICK k : k = key
  OBVIOUS
<1>10. /\ lapse' \in [Keys -> Lapse] /\ \A j \in Keys : lapse'[j] = "lost" <=> lapse[j] = "lost"
       /\ \A j \in Keys : lapse'[j] = "none" => lapse[j] = "none"
       /\ lapse'[key] = "none" => Inside(key) = {}
  <2>1. CASE Inside(key) = {}
    BY <1>1, <1>8, <2>1
  <2>2. CASE Inside(key) # {}
    <3>1. lapse' = [lapse EXCEPT ![k] = IF lapse[k] = "none" THEN "twice" ELSE lapse[k]]
      BY <1>1, <1>9, <2>2 DEF Twice
    <3> HIDE DEF key
    <3>2. lapse' \in [Keys -> Lapse] /\ lapse'[k] # "none"
          /\ \A j \in Keys : lapse'[j] = lapse[j] \/ (lapse[j] = "none" /\ lapse'[j] = "twice")
      BY <1>8, <1>9, <3>1 DEF Lapse
    <3>3. \A j \in Keys : lapse'[j] = "lost" <=> lapse[j] = "lost"
      BY <3>2
    <3> QED BY <1>9, <3>2, <3>3
  <2> QED BY <2>1, <2>2
<1> HIDE DEF key
<1>11. ASSUME NEW i \in Txs
       PROVE  /\ Held(i)' => Held(i) /\ (m.cmd = PostingOf(i) => Inside(key) = {})
              /\ Lost(i)' = Lost(i) /\ TakenBack(i)' = TakenBack(i)
              /\ Remembered(i)' = Remembered(i) /\ Undone(i)' = Undone(i)
              /\ Credited(i)' = Credited(i)
              /\ m.cmd = PostingOf(i) => ~Remembered(i)
  <2>1. <<"tx", i>> \in Keys /\ <<"rev", i>> \in Keys
    BY TransactionsAssumption DEF TransactionsAssumption
  <2>2. m.cmd = PostingOf(i) => key = <<"tx", i>>
    BY <1>2, OrderFacts DEF key
  <2>3. Lost(i)' = Lost(i) /\ TakenBack(i)' = TakenBack(i)
    BY <1>7, <1>10, <2>1 DEF Lost, TakenBack
  <2>4. Remembered(i)' = Remembered(i) /\ Undone(i)' = Undone(i)
    BY <1>1 DEF Remembered, Undone
  <2>5. Credited(i)' = Credited(i)
    BY <1>1, <1>7, <2>3 DEF Credited
  <2>6. Held(i)' => Held(i) /\ (m.cmd = PostingOf(i) => Inside(key) = {})
    BY <1>10, <2>1, <2>2 DEF Held
  <2>7. m.cmd = PostingOf(i) => ~Remembered(i)
    BY <1>1, <2>2 DEF Remembered, key
  <2> QED BY <2>3, <2>4, <2>5, <2>6, <2>7
<1>12. RowKeysInv'
  BY <1>1, <1>2 DEF AgreeInv, RowKeysInv
<1>13. \A x \in inbox' : \E y \in inbox : y.cmd = x.cmd
  BY <1>4, <1>5
<1>14. \A i \in Txs : RowOK(i)'
  <2> TAKE i \in Txs
  <2>1. RowOK(i)
    BY <1>2
  <2>2. Held(i) /\ Posted(i) => Remembered(i)
    BY <2>1 DEF RowOK
  <2> QED BY <1>1, <1>7, <1>11, <1>13, <2>1, <2>2, RowStays
<1>15. ASSUME NEW i \in Txs PROVE QueueOK(i)'
  <2>1. QueueOK(i)
    BY <1>2
  <2>2. \A x : InsideFor(x, i)' <=> InsideFor(x, i)
    BY <1>6 DEF InsideFor
  <2>3. txn[i].type = "transfer" =>
          /\ Uncalled(i)' \/ (~Posted(i) /\ ~Remembered(i))
          /\ \A x, y \in inbox' : x.cmd = PostingOf(i) /\ y.cmd = PostingOf(i) => x = y
    <3>1. Uncalled(i) => Uncalled(i)'
      BY <1>6, <1>13 DEF Uncalled
    <3>2. CASE m.cmd = PostingOf(i)
      BY <1>5, <2>1, <3>1, <3>2 DEF QueueOK
    <3>3. CASE m.cmd # PostingOf(i)
      BY <1>4, <1>5, <2>1, <3>1, <3>3 DEF QueueOK
    <3> QED BY <3>2, <3>3
  <2>4. ASSUME Held(i)'
        PROVE  /\ \A x \in inbox' : InsideFor(x, i) => ~Remembered(i)
               /\ \A x, y \in inbox' : InsideFor(x, i) /\ InsideFor(y, i) => x = y
    <3>1. Held(i)
      BY <1>11, <2>4
    <3>2. CASE m.cmd = PostingOf(i)
      <4>1. Inside(key) = {} /\ ~Remembered(i) /\ key = PostingOf(i).key
        BY <1>11, <2>4, <3>2 DEF key
      <4>2. \A x \in inbox : ~InsideFor(x, i)
        BY <4>1 DEF Inside, InsideFor
      <4>3. \A x \in inbox' : InsideFor(x, i) => x = n
        BY <1>5, <4>2
      <4> QED BY <4>1, <4>3
    <3>3. CASE m.cmd # PostingOf(i)
      <4>1. \A x \in inbox' : InsideFor(x, i) => x \in inbox
        BY <1>4, <1>5, <3>3 DEF InsideFor
      <4> QED BY <2>1, <3>1, <4>1 DEF QueueOK
    <3> QED BY <3>2, <3>3
  <2> QED BY <1>1, <1>6, <1>7, <1>11, <2>2, <2>3, <2>4 DEF QueueOK
<1>16. ASSUME NEW x \in inbox' PROVE CallOK(x)'
  <2>1. CallOK(n)
    BY <1>2, <1>4 DEF CallOK
  <2>2. CallOK(x)
    BY <1>2, <1>5, <2>1 DEF AgreeInv
  <2> QED BY <1>6, <2>2, CallSame
<1>17. ASSUME NEW g \in Handlers PROVE HandlerOK(g)'
  <2>1. Still(g)
    BY <1>1 DEF Still
  <2>2. HandlerOK(g) /\ OwnCallOK(g) /\ OutcomeOK(g)
    BY <1>2 DEF AgreeInv, HandlerOK
  <2>3. OwnCallOK(g)'
    <3>1. Waits(g)' = Waits(g) /\ OrderOf(g)' = OrderOf(g)
      BY <1>1 DEF Waits, OrderOf, PostingOf, CommandUnder, ReversalOf
    <3>2. \A x \in inbox' : x.from = g => \E y \in inbox : y.from = g /\ y.cmd = x.cmd
      BY <1>4, <1>5
    <3>3. \A x, y \in inbox' : x.from = g /\ y.from = g => x = y
      <4>1. CASE m.from = g
        <5>1. \A x \in inbox : x.from = g => x = m
          BY <2>2, <4>1 DEF OwnCallOK
        <5> QED BY <1>5, <5>1
      <4>2. CASE m.from # g
        BY <1>4, <1>5, <2>2, <4>2 DEF OwnCallOK
      <4> QED BY <4>1, <4>2
    <3>4. Waits(g) => \E x \in inbox' : x.from = g
      <4>1. ASSUME NEW y \in inbox, y.from = g PROVE \E x \in inbox' : x.from = g
        BY <1>4, <1>5, <4>1
      <4> QED BY <2>2, <4>1 DEF OwnCallOK
    <3> QED BY <2>2, <3>1, <3>2, <3>3, <3>4 DEF OwnCallOK
  <2>4. Told(g) \/ Committed(g) \/ pc[g] = "publish" => cur[g] \in Txs
    <3>1. Told(g) => Committed(g)
      BY <1>2, <2>2 DEF Told, Committed, OutcomeOK, TypeInv
    <3> QED BY <2>2, <3>1, KnownFacts DEF OutcomeOK
  <2>5. \A i \in Txs : Lasts(i)
    BY <1>7, <1>11 DEF Lasts, Untouched
  <2>6. Slow' = Slow
    BY DEF Slow, Fault
  <2> QED BY <1>6, <1>13, <2>1, <2>2, <2>3, <2>4, <2>5, <2>6, HandlerStill
<1>18. AgreeInv'
  BY <1>12, <1>14, <1>15, <1>16, <1>17 DEF AgreeInv
<1> QED BY <1>1, <1>2, <1>10, <1>18 DEF TypeInv, LedgerTyped

LEMMA ExpiresMoney ==
  ASSUME MoneyInv, UNCHANGED setting, NEW key \in Keys, AnswerExpires(key)
  PROVE  TypeInv' /\ AgreeInv'
PROOF
<1>1. /\ UNCHANGED <<balance, book, inbox, reply, txn, otp, issued, published, pc, req, cur, today>>
      /\ answers' = [answers EXCEPT ![key] = << >>] /\ lapse' = Twice(key)
  BY DEF AnswerExpires, tables, redis
<1>2. AgreeInv /\ TypeInv
  BY DEF MoneyInv
<1>3. \A i : GoesOn(i) /\ PostingOf(i)' = PostingOf(i) /\ Uncalled(i)' = Uncalled(i)
  BY <1>1 DEF GoesOn, PostingOf, CommandUnder, Successful, Uncalled
<1>4. \A i : Posted(i)' = Posted(i) /\ Mirrored(i)' = Mirrored(i) /\ Stays(i)
  BY <1>1, SameBook
<1>5. /\ lapse' \in [Keys -> Lapse] /\ lapse'[key] # "none"
      /\ \A j \in Keys : /\ lapse'[j] = lapse[j] \/ (lapse[j] = "none" /\ lapse'[j] = "twice")
                         /\ j # key => lapse'[j] = lapse[j]
  <2>1. lapse \in [Keys -> Lapse] /\ lapse' = [lapse EXCEPT ![key] = IF lapse[key] = "none" THEN "twice" ELSE lapse[key]]
    BY <1>1, <1>2 DEF TypeInv, Twice
  <2> QED BY <2>1 DEF Lapse
<1>6. /\ answers' = [k \in Keys |-> answers'[k]]
      /\ \A j \in Keys : answers'[j] = answers[j] \/ (j = key /\ answers'[j] = << >>)
  BY <1>1, <1>2 DEF TypeInv
<1>7. ASSUME NEW i \in Txs
      PROVE  /\ Held(i)' => Held(i) /\ Remembered(i)' = Remembered(i)
             /\ Lost(i)' = Lost(i) /\ TakenBack(i)' = TakenBack(i)
             /\ Remembered(i)' => Remembered(i)
             /\ Undone(i)' => Undone(i)
             /\ Credited(i)' = Credited(i)
  <2>1. <<"tx", i>> \in Keys /\ <<"rev", i>> \in Keys
    BY TransactionsAssumption DEF TransactionsAssumption
  <2>2. Lost(i)' = Lost(i)
    BY <1>5, <2>1 DEF Lost
  <2>3. TakenBack(i)' = TakenBack(i)
    BY <1>4, <1>5, <2>1 DEF TakenBack
  <2>4. (Remembered(i)' => Remembered(i)) /\ (Undone(i)' => Undone(i))
    BY <1>6, <2>1 DEF Remembered, Undone
  <2>5. Held(i)' => Held(i) /\ Remembered(i)' = Remembered(i)
    <3>1. Held(i)' => Held(i) /\ <<"tx", i>> # key
      BY <1>5, <2>1 DEF Held
    <3>2. <<"tx", i>> # key => answers'[<<"tx", i>>] = answers[<<"tx", i>>]
      BY <1>6, <2>1
    <3> QED BY <3>1, <3>2 DEF Remembered
  <2>6. Credited(i)' = Credited(i)
    BY <1>1, <1>4, <2>2 DEF Credited
  <2> QED BY <2>2, <2>3, <2>4, <2>5, <2>6
<1>8. RowKeysInv'
  BY <1>1, <1>2 DEF AgreeInv, RowKeysInv
<1>9. \A x \in inbox' : \E y \in inbox : y.cmd = x.cmd
  BY <1>1
<1>10. \A i \in Txs : RowOK(i)'
  <2> TAKE i \in Txs
  <2>1. RowOK(i)
    BY <1>2 DEF AgreeInv
  <2>2. Held(i) /\ Posted(i) => Remembered(i)
    BY <2>1 DEF RowOK
  <2> QED BY <1>1, <1>4, <1>7, <1>9, <2>1, <2>2, RowStays
<1>11. \A i \in Txs : QueueOK(i)'
  <2> TAKE i \in Txs
  <2>1. QueueOK(i) /\ PostingOf(i)' = PostingOf(i) /\ txn'[i].type = txn[i].type /\ inbox' \subseteq inbox
    BY <1>1, <1>2, <1>3 DEF AgreeInv
  <2>2. /\ (Posted(i)' => Posted(i)) /\ (Remembered(i)' => Remembered(i)) /\ (Held(i)' => Held(i))
    BY <1>4, <1>7
  <2> QED BY <2>1, <2>2, QueueShrinks
<1>12. ASSUME NEW x \in inbox' PROVE CallOK(x)'
  <2>1. CallOK(x)
    BY <1>1, <1>2 DEF AgreeInv
  <2> QED BY <1>3, <2>1, CallSame
<1>13. ASSUME NEW g \in Handlers PROVE HandlerOK(g)'
  <2>1. Still(g)
    BY <1>1 DEF Still
  <2>2. HandlerOK(g) /\ OwnCallOK(g) /\ OutcomeOK(g)
    BY <1>2 DEF AgreeInv, HandlerOK
  <2>3. OwnCallOK(g)'
    <3>1. PostingOf(cur[g])' = PostingOf(cur[g])
      BY <1>1 DEF PostingOf, CommandUnder
    <3> QED BY <1>1, <2>1, <2>2, <3>1, OwnCallStill
  <2>4. Told(g) \/ Committed(g) \/ pc[g] = "publish" => cur[g] \in Txs
    <3>1. Told(g) => Committed(g)
      BY <1>2, <2>2 DEF Told, Committed, OutcomeOK, TypeInv
    <3> QED BY <2>2, <3>1, KnownFacts DEF OutcomeOK
  <2>5. \A i \in Txs : Lasts(i)
    BY <1>4, <1>7 DEF Lasts, Untouched
  <2>6. Slow' = Slow
    BY DEF Slow, Fault
  <2> QED BY <1>3, <1>9, <2>1, <2>2, <2>3, <2>4, <2>5, <2>6, HandlerStill
<1>14. AgreeInv'
  BY <1>8, <1>10, <1>11, <1>12, <1>13 DEF AgreeInv
<1> QED BY <1>1, <1>2, <1>5, <1>6, <1>14 DEF TypeInv, LedgerTyped

\* Expiring passwords, midnight and rest.
LEMMA OthersMoney ==
  ASSUME MoneyInv, UNCHANGED setting,
         \/ \E slot \in Purposes \X Wallets : OtpExpires(slot)
         \/ Midnight \/ Quiet \/ UNCHANGED vars
  PROVE  TypeInv' /\ AgreeInv'
PROOF
<1>1. UNCHANGED <<balance, book, answers, lapse, inbox, reply, txn, published, pc, req, cur>>
  BY DEF OtpExpires, Midnight, Quiet, vars, ledger, redis, handler
<1>2. AgreeInv /\ TypeInv
  BY DEF MoneyInv
<1>3. BooksSame
  BY <1>1 DEF BooksSame
<1>4. \A i : GoesOn(i) /\ PostingOf(i)' = PostingOf(i) /\ Uncalled(i)' = Uncalled(i)
  BY <1>1 DEF GoesOn, PostingOf, CommandUnder, Successful, Uncalled
<1>5. RowKeysInv'
  BY <1>1, <1>2 DEF AgreeInv, RowKeysInv
<1>6. ASSUME NEW i \in Txs PROVE RowOK(i)'
  <2>1. RowOK(i)
    BY <1>2 DEF AgreeInv
  <2> QED BY <1>1, <1>3, <1>4, <2>1, RowSame
<1>7. ASSUME NEW m \in inbox' PROVE CallOK(m)'
  <2>1. CallOK(m)
    BY <1>1, <1>2 DEF AgreeInv
  <2> QED BY <1>4, <2>1, CallSame
<1>8. ASSUME NEW g \in Handlers PROVE HandlerOK(g)'
  <2>1. Still(g) /\ HandlerOK(g) /\ OwnCallOK(g) /\ GoesOn(cur[g])
    BY <1>1, <1>2, <1>4 DEF Still, AgreeInv, HandlerOK
  <2>2. Lasts(cur[g]) /\ Slow' = Slow
    BY <1>1, <1>3, SameBooks DEF Lasts, Untouched
  <2>3. OwnCallOK(g)'
    <3>1. PostingOf(cur[g])' = PostingOf(cur[g])
      BY <1>1 DEF PostingOf, CommandUnder
    <3> QED BY <1>1, <2>1, <3>1, OwnCallStill
  <2> QED BY <1>1, <2>1, <2>2, <2>3, HandlerStill
<1>9. ASSUME NEW i \in Txs PROVE QueueOK(i)'
  <2>1. QueueOK(i) /\ PostingOf(i)' = PostingOf(i) /\ txn'[i].type = txn[i].type /\ inbox' \subseteq inbox
    BY <1>1, <1>2, <1>4 DEF AgreeInv
  <2>2. Posted(i)' = Posted(i) /\ Remembered(i)' = Remembered(i) /\ Held(i)' = Held(i)
    BY <1>3, SameBooks
  <2> QED BY <2>1, <2>2, QueueShrinks
<1>12. AgreeInv'
  BY <1>5, <1>6, <1>7, <1>8, <1>9 DEF AgreeInv
<1>10. today' \in 1..Days
  <2>1. today' = today \/ (today < Days /\ today' = today + 1)
    BY DEF OtpExpires, Midnight, Quiet, vars
  <2> QED BY <1>2, <2>1, TransactionsAssumption DEF TypeInv, TransactionsAssumption
<1>11. otp' \in [Purposes \X Wallets -> Nat] /\ issued' \in [Purposes \X Wallets -> Nat]
  <2>1. CASE \E slot \in Purposes \X Wallets : OtpExpires(slot)
    BY <1>2, <2>1 DEF TypeInv, OtpExpires
  <2>2. CASE Midnight \/ Quiet \/ UNCHANGED vars
    BY <1>2, <2>2 DEF TypeInv, Midnight, Quiet, vars, redis
  <2> QED BY <2>1, <2>2
<1> QED BY <1>1, <1>2, <1>10, <1>11, <1>12 DEF TypeInv, LedgerTyped

LEMMA MoneyNext ==
  ASSUME MoneyInv, [Next]_vars
  PROVE  MoneyInv'
PROOF
<1>1. StatusInv /\ today \in Nat
  BY DEF MoneyInv, TypeInv, TransactionsAssumption
<1>2. StatusInv'
  BY <1>1, HandlerKeeps, OthersKeep DEF Next
<1>3. UNCHANGED setting
  BY DEF Next, vars
<1>4. TypeInv' /\ AgreeInv'
  <2>1. ASSUME NEW h \in Handlers, Step(h) PROVE TypeInv' /\ AgreeInv'
    <3>1. CASE Lookup(h) \/ ReadBalance(h) \/ CheckLimits(h) \/ SendOtp(h) \/ VerifyOtp(h) \/ DeleteOtp(h)
      BY <1>3, <3>1, EarlyMoney
    <3>2. CASE Create(h)
      BY <1>3, <3>2, CreateMoney
    <3>3. CASE Read(h)
      BY <1>3, <3>3, ReadMoney
    <3>4. CASE Call(h)
      BY <1>3, <3>4, CallMoney
    <3>5. CASE Return(h)
      BY <1>3, <3>5, ReturnMoney
    <3>6. CASE Timeout(h)
      BY <1>3, <3>6, TimeoutMoney
    <3>7. CASE Fail(h)
      BY <1>3, <3>7, FailMoney
    <3>8. CASE Succeed(h)
      BY <1>3, <3>8, SucceedMoney
    <3>9. CASE Publish(h)
      BY <1>3, <3>9, PublishMoney
    <3> QED BY <2>1, <3>1, <3>2, <3>3, <3>4, <3>5, <3>6, <3>7, <3>8, <3>9 DEF Step
  <2>2. ASSUME NEW h \in Handlers, Dies(h) \/ \E r \in Requests : Receive(h, r)
        PROVE  TypeInv' /\ AgreeInv'
    BY <1>3, <2>2, DiesMoney, ReceiveMoney
  <2>3. ASSUME LedgerStep PROVE TypeInv' /\ AgreeInv'
    <3>1. ASSUME NEW m \in inbox,
                 \/ LedgerEnters(m) \/ LedgerPosts(m) \/ LedgerLosesCommit(m) \/ LedgerFails(m)
                 \/ LedgerReplays(m) \/ LedgerRefuses(m)
          PROVE  TypeInv' /\ AgreeInv'
      BY <1>3, <3>1, LedgerEntersMoney, LedgerPostsMoney, LedgerErrsMoney, LedgerAnswers
    <3> QED BY <1>3, <2>3, <3>1, ExpiresMoney DEF LedgerStep
  <2>4. ASSUME \/ \E slot \in Purposes \X Wallets : OtpExpires(slot)
               \/ Midnight \/ Quiet \/ UNCHANGED vars
        PROVE  TypeInv' /\ AgreeInv'
    BY <1>3, <2>4, OthersMoney
  <2> QED BY <2>1, <2>2, <2>3, <2>4 DEF Next
<1> QED BY <1>2, <1>4 DEF MoneyInv

LEMMA MoneyInit ==
  ASSUME Init
  PROVE  MoneyInv
PROOF
<1>1. \A h \in Handlers : pc[h] = "idle" /\ reply[h] = "none"
  BY DEF Init
<1>2. NoRow \in Row /\ NoRow.status = "NONE"
  <2>1. 1 \in 1..Days
    BY TransactionsAssumption DEF TransactionsAssumption
  <2> QED BY <2>1, TransactionsAssumption DEF TransactionsAssumption, NoRow, Row, Statuses, Types
<1>3. \A i \in Txs : txn[i].status = "NONE"
  BY <1>2 DEF Init
<1>4. StatusInv
  <2>1. ShapeInv
    <3>1. txn \in [Txs -> Row]
      BY <1>2 DEF Init
    <3>2. Row \subseteq [ status : Statuses, type : Types, key : ClientKeys,
                         from : Wallets, to : Wallets, amount : Nat \ {0}, fee : Nat, day : Nat ]
      BY DEF Row
    <3>3. pc \in [Handlers -> Labels] /\ cur \in [Handlers -> Txs \cup {NoTx}]
          /\ req \in [Handlers -> Requests \cup {NoRequest}]
      BY DEF Init, Labels
    <3> QED BY <3>1, <3>2, <3>3 DEF ShapeInv
  <2>2. PathInv /\ KnownInv /\ OwnedInv
    BY <1>1 DEF PathInv, KnownInv, OwnedInv, TransferOf, Committed
  <2> QED BY <2>1, <2>2 DEF StatusInv
<1>5. book = [w \in Wallets |-> << >>] /\ balance = Opening
  BY DEF Init, Book!Init
<1>6. TypeInv
  <2>1. balance \in [Wallets -> Int]
    BY <1>5, CommandsAssumption DEF CommandsAssumption
  <2>2. book \in Books
    BY <1>5 DEF Books
  <2>3. today \in 1..Days
    BY TransactionsAssumption DEF TransactionsAssumption, Init
  <2> QED BY <1>2, <2>1, <2>2, <2>3 DEF Init, TypeInv, LedgerTyped, Lapse
<1>7. \A id : PlacesOf(book, id) = {}
  BY <1>5 DEF PlacesOf
<1>8. \A id \in Txs : /\ ~Posted(id) /\ ~Mirrored(id) /\ ~Remembered(id) /\ ~Undone(id)
                     /\ Held(id) /\ ~Lost(id)
  <2>1. \A id : ReversalsOf(book, id) = {} /\ OriginalsOf(id) = {}
    BY <1>7 DEF ReversalsOf, OriginalsOf
  <2>2. \A id \in Txs : /\ answers[<<"tx", id>>] = << >> /\ answers[<<"rev", id>>] = << >>
                        /\ lapse[<<"tx", id>>] = "none"
    BY TransactionsAssumption DEF TransactionsAssumption, Init
  <2> QED BY <2>1, <2>2 DEF Posted, Mirrored, Remembered, Undone, Held, Lost
<1>9. RowKeysInv /\ \A id \in Txs : RowOK(id)
  BY <1>3, <1>8 DEF Init, RowKeysInv, RowOK, Successful
<1>10. inbox = {} /\ \A h \in Handlers : HandlerOK(h)
  BY <1>1 DEF Init, HandlerOK, OutcomeOK, OwnCallOK, InTimeOK, Told, Waits, Committed
<1>11. \A id \in Txs : QueueOK(id)
  BY <1>10 DEF QueueOK, Uncalled
<1> QED BY <1>4, <1>6, <1>9, <1>10, <1>11 DEF MoneyInv, AgreeInv

-----------------------------------------------------------------------------
(***************************************************************************)
(* The theorems about money.                                               *)
(***************************************************************************)
\* In every reachable state the rows, the calls under way, what each handler was told
\* and the ledger's memory and books are about the same postings.
THEOREM MoneyIsKnown == Spec => []MoneyInv
BY MoneyInit, MoneyNext, PTL DEF Spec

\* Every variable has its declared shape; a handler that waits has exactly one call on
\* its way or one answer back.
THEOREM RowsAreTyped == Spec => []TypeOK
<1>1. MoneyInv => TypeOK
  <2> SUFFICES ASSUME MoneyInv PROVE TypeOK
    OBVIOUS
  <2>1. TypeInv /\ StatusInv /\ AgreeInv
    BY DEF MoneyInv
  <2>2. ASSUME NEW h \in Handlers
        PROVE  Cardinality({m \in inbox : m.from = h}) + (IF reply[h] = "none" THEN 0 ELSE 1)
                 = IF pc[h] = "wait" THEN 1 ELSE 0
    <3> DEFINE C == {m \in inbox : m.from = h}
    <3>1. OwnCallOK(h) /\ OutcomeOK(h)
      BY <2>1 DEF AgreeInv, HandlerOK
    <3>3. CASE Waits(h)
      <4>1. PICK m \in inbox : m.from = h
        BY <3>1, <3>3 DEF OwnCallOK
      <4>2. C = {m}
        BY <3>1, <4>1 DEF OwnCallOK
      <4>3. Cardinality(C) = 1
        BY <4>2, FS_Singleton
      <4> QED BY <3>3, <4>3 DEF Waits
    <3>4. CASE ~Waits(h)
      <4>1. C = {}
        BY <3>1, <3>4 DEF OwnCallOK
      <4>2. Cardinality(C) = 0
        BY <4>1, FS_EmptySet
      <4> QED BY <3>1, <3>4, <4>2 DEF Waits, OutcomeOK
    <3> QED BY <3>3, <3>4
  <2>3. \A w \in Wallets : \A i \in 1..Len(book[w]) : book[w][i] \in Entry
    BY <2>1 DEF TypeInv, LedgerTyped, Books
  <2>4. \A m \in inbox : m.at \in {"door", "inside"}
    BY <2>1 DEF AgreeInv, CallOK
  <2> QED BY <2>1, <2>2, <2>3, <2>4 DEF TypeOK, TypeInv, LedgerTyped, StatusInv, ShapeInv
<1> QED BY <1>1, MoneyIsKnown, PTL

\* Whatever was lost, late, refused, interrupted or repeated, a transfer's row is SUCCESS,
\* REVERSED or announced only if the ledger has posted it as asked, and once, and FAILED
\* only if nothing was posted, unless the ledger may answer late.  A cash-in's is SUCCESS
\* or announced only if it was credited, once while the ledger's memory of its key held;
\* more than once where calls got past it, and perhaps not at all where an answer
\* outlived its posting.  What is mirrored was a SUCCESS, and a REVERSED row is mirrored
\* unless the answer to its reversal outlived that.
THEOREM RowsTellTheBooks == Spec => []RowsAgree
<1>1. MoneyInv => RowsAgree
  <2> SUFFICES ASSUME MoneyInv PROVE RowsAgree
    OBVIOUS
  <2>1. \A id \in Txs : RowOK(id)
    BY DEF MoneyInv, AgreeInv
  <2>2. ASSUME NEW id \in Txs, Credited(id) PROVE AsAsked(id)
    <3>1. RowOK(id)
      BY <2>1
    <3>2. ~Posted(id) => OnlyAsAsked(id)
      BY DEF Posted, OnlyAsAsked
    <3> QED BY <2>2, <3>1, <3>2 DEF RowOK, Credited, AsAsked, Held, Lost
  <2>3. SuccessIsPosted
    BY <2>1, <2>2 DEF SuccessIsPosted, RowOK, Successful
  <2>4. MirroredIsOfSuccess
    BY <2>1 DEF MirroredIsOfSuccess, RowOK, Successful
  <2>5. FailedIsUnpostedInTime
    BY <2>1 DEF FailedIsUnpostedInTime, FailedIsUnposted, RowOK, Slow, Untouched
  <2> QED BY <2>3, <2>4, <2>5 DEF RowsAgree
<1> QED BY <1>1, MoneyIsKnown, PTL

\* Of the rows that requests with one client key made, at most one moves money, and as
\* it asks: a transfer once, however many requests are under way or retried; a cash-in
\* once while the ledger's memory of its key held, however often it is confirmed.  Where
\* two of its calls were inside the ledger at once, or its answer expired or outlived its
\* posting, it may be credited again, and never with anything it does not ask for.
THEOREM OneKeyMovesOnce == Spec => []OncePerKey
<1>1. MoneyInv => OncePerKey
  <2> SUFFICES ASSUME MoneyInv PROVE OncePerKey
    OBVIOUS
  <2>1. RowKeysInv /\ \A id \in Txs : RowOK(id)
    BY DEF MoneyInv, AgreeInv
  <2>2. ASSUME NEW i \in Txs, Posted(i) PROVE AsAsked(i) /\ txn[i].status # "NONE"
    <3>1. RowOK(i)
      BY <2>1
    <3> QED BY <2>2, <3>1 DEF RowOK, AsAsked, Held
  <2> QED BY <2>1, <2>2 DEF OncePerKey, RowKeysInv
<1> QED BY <1>1, MoneyIsKnown, PTL

-----------------------------------------------------------------------------
(***************************************************************************)
(* The daily limit.                                                        *)
(***************************************************************************)
\* One request at a time, answered in time, by handlers that live.
Calm == {"overlap", "slow ledger", "handler dies"} \cap setting.faults = {}

\* Rows that exist, those sumSuccess adds up, and the SUCCESS transfers of a day.
Made(rows) == {i \in Txs : rows[i].status # "NONE"}
Since(rows, w, d) == {i \in Txs : rows[i].status = "SUCCESS" /\ rows[i].from = w /\ rows[i].day >= d}
On(rows, w, d) == {i \in Txs : /\ rows[i].status = "SUCCESS" /\ rows[i].type = "transfer"
                               /\ rows[i].from = w /\ rows[i].day = d}

Amounts(rows) == [i \in Txs |-> rows[i].amount]
Spend(rows, S) == Total(Amounts(rows), S)

\* Nobody else is served, no call is abandoned.
AloneInv ==
    /\ \A g, h \in Handlers : pc[g] # "idle" /\ pc[h] # "idle" => g = h
    /\ \A m \in inbox : m.from # Nobody

\* A transfer the ledger has posted succeeded or is being worked on.
TracedInv ==
    \A i \in Txs : Posted(i) /\ txn[i].type = "transfer" =>
        Successful(i) \/ \E h \in Handlers : TransferOf(h) /\ cur[h] = i

\* A transfer to be created had room on a day that is not over or just was; one that was
\* created has it on its own day.
HasRoom(h) == \E d \in 1..today : Spend(txn, Since(txn, req[h].from, d)) + req[h].amount <= Limits.daily
CheckedInv == \A h \in Handlers : pc[h] = "create" /\ req[h].op = "transfer" => HasRoom(h)

RoomInv ==
    \A h \in Handlers : TransferOf(h) =>
        Spend(txn, On(txn, txn[cur[h]].from, txn[cur[h]].day)) + txn[cur[h]].amount <= Limits.daily

KeptInv == \A w \in Wallets, d \in 1..Days : Spend(txn, On(txn, w, d)) <= Limits.daily

CalmInv == AloneInv /\ TracedInv /\ CheckedInv /\ RoomInv /\ KeptInv

LimitInv == IsFiniteSet(Made(txn)) /\ (Calm => CalmInv)

LEMMA SpendFacts ==
  ASSUME NEW rows \in [Txs -> Row], IsFiniteSet(Made(rows)), NEW S, S \subseteq Made(rows)
  PROVE  /\ IsFiniteSet(S) /\ Spend(rows, S) \in Nat
         /\ \A i \in S : Amounts(rows)[i] \in Nat /\ Amounts(rows)[i] = rows[i].amount
         /\ \A R \in SUBSET S : Spend(rows, R) <= Spend(rows, S)
PROOF
<1>1. IsFiniteSet(S)
  BY FS_Subset
<1>2. \A i \in S : Amounts(rows)[i] \in Nat /\ Amounts(rows)[i] = rows[i].amount
  BY DEF Amounts, Made, Row
<1>3. PICK f : f = Amounts(rows)
  OBVIOUS
<1>4. \A i \in S : f[i] \in Nat
  BY <1>2, <1>3
<1>5. Total(f, S) \in Nat /\ \A R \in SUBSET S : Total(f, R) <= Total(f, S)
  BY <1>1, <1>4, TotalLess
<1> QED BY <1>1, <1>2, <1>3, <1>5 DEF Spend

LEMMA SetsMade ==
  ASSUME NEW rows \in [Txs -> Row], NEW w, NEW d
  PROVE  Since(rows, w, d) \subseteq Made(rows) /\ On(rows, w, d) \subseteq Made(rows)
BY DEF Since, On, Made

\* The sums the model writes.
LEMMA SumIsSpend ==
  ASSUME txn \in [Txs -> Row], IsFiniteSet(Made(txn)), NEW S, S \subseteq Made(txn)
  PROVE  MapThenSumSet(LAMBDA i : txn[i].amount, S) = Spend(txn, S)
PROOF
<1> DEFINE k == Amounts(txn)
           f == [p \in S |-> txn[p].amount]
           Def(h) == [s \in SUBSET S |->
                        IF s = {} THEN 0 ELSE txn[AnyOf(s)].amount + h[s \ {AnyOf(s)}]]
           it == CHOOSE h : h = Def(h)
<1>1. IsFiniteSet(S) /\ \A p \in S : k[p] = txn[p].amount /\ k[p] \in Int
  BY SpendFacts
<1>2. \A p \in S : f[p] \in Int /\ f[p] = k[p]
  BY <1>1
<1>3. MapThenSumSet(LAMBDA i : txn[i].amount, S) = it[S]
  BY DEF MapThenSumSet, MapThenFoldSet, AnyOf
<1>4. PICK g : SumsUp(g, f, S)
  <2> HIDE DEF f
  <2> QED BY <1>1, <1>2, SumExists
<1>5. \A s \in SUBSET S : s # {} => f[AnyOf(s)] = txn[AnyOf(s)].amount
  BY DEF AnyOf
<1>6. \A h : Adds(h, f, S) <=> h = Def(h)
  <2> TAKE h
  <2>1. [s \in SUBSET S |-> IF s = {} THEN 0 ELSE f[AnyOf(s)] + h[s \ {AnyOf(s)}]] = Def(h)
    <3> HIDE DEF f, k
    <3> QED BY <1>5
  <2> HIDE DEF f, Def
  <2> QED BY <2>1 DEF Adds
<1>7. g = Def(g)
  <2> HIDE DEF f, Def
  <2> QED BY <1>4, <1>6 DEF SumsUp
<1>8. it = Def(it)
  <2> HIDE DEF Def
  <2> QED BY <1>7
<1> HIDE DEF f, k, Def, it
<1>9. it = g
  BY <1>1, <1>2, <1>4, <1>6, <1>8, SumUnique DEF SumsUp
<1>10. Total(f, S) = g[S]
  BY <1>1, <1>4, TotalIs
<1>11. Total(k, S) = Total(f, S)
  BY <1>1, <1>2, TotalSame
<1> QED BY <1>3, <1>9, <1>10, <1>11 DEF Spend, k

\* A step that writes no row.
LEMMA LimitStill ==
  ASSUME MoneyInv, LimitInv, UNCHANGED <<setting, txn>>, 1..today \subseteq 1..today',
         Calm => /\ AloneInv'
                 /\ \A g \in Handlers : TransferOf(g)' <=> TransferOf(g)
                 /\ \A g \in Handlers : TransferOf(g) => cur'[g] = cur[g]
                 /\ \A i \in Txs : Posted(i)' /\ txn[i].type = "transfer" =>
                      Posted(i) \/ \E g \in Handlers : TransferOf(g) /\ cur[g] = i
                 /\ \A g \in Handlers : pc'[g] = "create" /\ req'[g].op = "transfer" =>
                      req'[g] = req[g] /\ HasRoom(g)
  PROVE  LimitInv'
PROOF
<1>1. IsFiniteSet(Made(txn))' /\ Calm' = Calm
  BY DEF LimitInv, Calm
<1>2. ASSUME Calm PROVE CalmInv'
  <2>1. CalmInv
    BY <1>2 DEF LimitInv
  <2>2. \A g \in Handlers : TransferOf(g)' <=> TransferOf(g)
    BY <1>2
  <2>3. \A g \in Handlers : TransferOf(g) => cur'[g] = cur[g]
    BY <1>2
  <2>4. TracedInv'
    <3> SUFFICES ASSUME NEW i \in Txs, Posted(i)', txn[i].type = "transfer"
                 PROVE  Successful(i)' \/ \E h \in Handlers : TransferOf(h)' /\ cur'[h] = i
      BY DEF TracedInv
    <3>1. Posted(i) \/ \E g \in Handlers : TransferOf(g) /\ cur[g] = i
      BY <1>2
    <3>2. Posted(i) => Successful(i) \/ \E g \in Handlers : TransferOf(g) /\ cur[g] = i
      BY <2>1 DEF CalmInv, TracedInv
    <3>3. Successful(i)' = Successful(i)
      BY DEF Successful
    <3> QED BY <2>2, <2>3, <3>1, <3>2, <3>3
  <2>5. CheckedInv'
    <3> SUFFICES ASSUME NEW g \in Handlers, pc'[g] = "create", req'[g].op = "transfer" PROVE HasRoom(g)'
      BY DEF CheckedInv
    <3>1. req'[g] = req[g] /\ HasRoom(g)
      BY <1>2
    <3> QED BY <3>1 DEF HasRoom
  <2>6. RoomInv'
    <3> SUFFICES ASSUME NEW h \in Handlers, TransferOf(h)'
                 PROVE  Spend(txn, On(txn, txn[cur'[h]].from, txn[cur'[h]].day)) + txn[cur'[h]].amount <= Limits.daily
      BY DEF RoomInv
    <3>1. TransferOf(h) /\ cur'[h] = cur[h]
      BY <2>2, <2>3
    <3> QED BY <2>1, <3>1 DEF CalmInv, RoomInv
  <2>7. KeptInv'
    BY <2>1 DEF CalmInv, KeptInv
  <2> QED BY <1>2, <2>4, <2>5, <2>6, <2>7 DEF CalmInv
<1> QED BY <1>1, <1>2 DEF LimitInv

\* A handler at work, alone, leaves the others where they are: idle.
LEMMA AloneKeeps ==
  ASSUME MoneyInv, LimitInv, Calm, NEW h \in Handlers, OnlyMoves(h),
         pc[h] # "idle" \/ \A g \in Handlers : pc[g] = "idle",
         \A m \in inbox' : m \in inbox \/ m.from = h
  PROVE  /\ AloneInv' /\ \A g \in Handlers : g # h => pc[g] = "idle" /\ pc'[g] = "idle"
         /\ \A g \in Handlers : g # h => ~TransferOf(g) /\ ~TransferOf(g)'
PROOF
<1>0. Nobody \notin Handlers
  BY TransactionsAssumption DEF TransactionsAssumption
<1>1. AloneInv
  BY DEF LimitInv, CalmInv
<1>2. \A g \in Handlers : g # h => pc[g] = "idle"
  BY <1>1 DEF AloneInv
<1>3. \A g \in Handlers : g # h => pc'[g] = "idle"
  BY <1>2 DEF OnlyMoves
<1> QED BY <1>0, <1>1, <1>2, <1>3 DEF AloneInv, TransferOf, Committed

\* A handler's step before the ledger call, or from the call to the answer.
LEMMA LimitWalks ==
  ASSUME MoneyInv, LimitInv, NEW h \in Handlers, UNCHANGED <<setting, txn, book, today>>,
         Calm => /\ OnlyMoves(h)
                 /\ pc[h] # "idle" \/ \A g \in Handlers : pc[g] = "idle"
                 /\ \A m \in inbox' : m \in inbox \/ m.from = h
                 /\ TransferOf(h)' <=> TransferOf(h)
                 /\ TransferOf(h) => cur'[h] = cur[h]
                 /\ pc'[h] = "create" /\ req'[h].op = "transfer" => req'[h] = req[h] /\ HasRoom(h)
  PROVE  LimitInv'
PROOF
<1>1. ASSUME Calm
      PROVE  /\ AloneInv'
             /\ \A g \in Handlers : TransferOf(g)' <=> TransferOf(g)
             /\ \A g \in Handlers : TransferOf(g) => cur'[g] = cur[g]
             /\ \A g \in Handlers : pc'[g] = "create" /\ req'[g].op = "transfer" =>
                      req'[g] = req[g] /\ HasRoom(g)
  <2>1. /\ AloneInv' /\ \A g \in Handlers : g # h => pc[g] = "idle" /\ pc'[g] = "idle"
        /\ \A g \in Handlers : g # h => ~TransferOf(g) /\ ~TransferOf(g)'
    BY <1>1, AloneKeeps
  <2>2. TransferOf(h)' <=> TransferOf(h)
    BY <1>1
  <2>3. pc'[h] = "create" /\ req'[h].op = "transfer" => req'[h] = req[h] /\ HasRoom(h)
    BY <1>1
  <2> QED BY <1>1, <2>1, <2>2, <2>3
<1>2. \A i \in Txs : Posted(i)' = Posted(i)
  BY SameBook
<1>3. 1..today \subseteq 1..today'
  OBVIOUS
<1> QED BY <1>1, <1>2, <1>3, LimitStill

LEMMA EndLimit ==
  ASSUME MoneyInv, LimitInv, NEW h \in Handlers, UNCHANGED <<setting, txn, book, today, inbox>>,
         End(h), pc[h] # "idle", Calm => ~TransferOf(h)
  PROVE  LimitInv'
PROOF
<1>1. pc'[h] = "idle" /\ OnlyMoves(h)
  BY EndFacts DEF MoneyInv
<1>2. ~TransferOf(h)' /\ pc'[h] # "create"
  BY <1>1 DEF TransferOf, Committed
<1> QED BY <1>1, <1>2, LimitWalks

LEMMA GotoLimit ==
  ASSUME MoneyInv, LimitInv, NEW h \in Handlers, UNCHANGED <<setting, txn, book, today>>,
         NEW l, Goto(h, l), UNCHANGED <<req, cur, reply>>, pc[h] # "idle",
         \A m \in inbox' : m \in inbox \/ m.from = h,
         req[h].op = "transfer" => (l \in {"call", "wait", "error", "done"} <=> Committed(h)),
         Calm /\ l = "create" /\ req[h].op = "transfer" => HasRoom(h)
  PROVE  LimitInv'
PROOF
<1>1. pc'[h] = l /\ req'[h] = req[h] /\ cur'[h] = cur[h] /\ OnlyMoves(h)
  BY GotoFacts DEF MoneyInv
<1>2. TransferOf(h)' <=> TransferOf(h)
  BY <1>1 DEF TransferOf, Committed
<1> QED BY <1>1, <1>2, LimitWalks

LEMMA ReceiveLimit ==
  ASSUME MoneyInv, LimitInv, UNCHANGED setting, NEW h \in Handlers, NEW r \in Requests, Receive(h, r)
  PROVE  LimitInv'
PROOF
<1>1. /\ pc[h] = "idle" /\ req' = [req EXCEPT ![h] = r]
      /\ Fault("overlap") \/ \A g \in Handlers : pc[g] = "idle"
      /\ UNCHANGED <<book, inbox, reply, txn, today>>
  BY DEF Receive, ledger
<1>2. \E l \in {"lookup", "otp", "read"} : Goto(h, l)
  BY DEF Receive
<1>3. cur' = cur \/ cur' = [cur EXCEPT ![h] = r.tx]
  BY DEF Receive
<1>4. pc'[h] \in {"lookup", "otp", "read"} /\ OnlyMoves(h)
  BY <1>1, <1>2, <1>3 DEF Goto, OnlyMoves, MoneyInv, StatusInv, ShapeInv
<1>5. ~TransferOf(h) /\ ~TransferOf(h)' /\ pc'[h] # "create"
  BY <1>1, <1>4 DEF TransferOf, Committed
<1>6. Calm => \A g \in Handlers : pc[g] = "idle"
  BY <1>1 DEF Calm, Fault
<1> QED BY <1>1, <1>4, <1>5, <1>6, LimitWalks

\* The check of the limits is what gives a transfer its room.
LEMMA ChecksRoom ==
  ASSUME MoneyInv, LimitInv, NEW h \in Handlers, WithinLimits(req[h].from, req[h].amount, seen[h])
  PROVE  HasRoom(h)
PROOF
<1>1. txn \in [Txs -> Row] /\ IsFiniteSet(Made(txn)) /\ today \in 1..Days /\ Days \in Nat
  BY TransactionsAssumption DEF MoneyInv, TypeInv, LimitInv, TransactionsAssumption
<1>2. PICK w : w = req[h].from
  OBVIOUS
<1>3. Since(txn, w, today) \subseteq Made(txn)
  BY <1>1, SetsMade
<1>4. MapThenSumSet(LAMBDA i : txn[i].amount, Since(txn, w, today)) = Spend(txn, Since(txn, w, today))
  BY <1>1, <1>3, SumIsSpend
<1>5. SpentSince(w, today) = MapThenSumSet(LAMBDA i : txn[i].amount, Since(txn, w, today))
  BY DEF SpentSince, Since
<1>6. SpentSince(w, today) + req[h].amount <= Limits.daily
  BY <1>2 DEF WithinLimits
<1>7. today \in 1..today
  BY <1>1
<1> QED BY <1>2, <1>4, <1>5, <1>6, <1>7 DEF HasRoom

LEMMA EarlyLimit ==
  ASSUME MoneyInv, LimitInv, UNCHANGED setting, NEW h \in Handlers,
         \/ Lookup(h) \/ ReadBalance(h) \/ CheckLimits(h) \/ SendOtp(h) \/ VerifyOtp(h)
         \/ DeleteOtp(h) \/ Read(h)
  PROVE  LimitInv'
PROOF
<1>1. /\ pc[h] \in {"lookup", "balance", "limits", "sendOtp", "otp", "otpDel", "read"}
      /\ UNCHANGED <<book, inbox, txn, today>>
  BY DEF Lookup, ReadBalance, CheckLimits, SendOtp, VerifyOtp, DeleteOtp, Read, ledger
<1>2. ~Committed(h) /\ pc[h] # "idle" /\ ~TransferOf(h)
  BY <1>1 DEF Committed, TransferOf
<1>3. CASE End(h)
  BY <1>1, <1>2, <1>3, EndLimit
<1>4. CASE ~End(h)
  <2>1. PICK l \in {"balance", "create", "limits", "otpDel", "read", "call"} :
            /\ Goto(h, l) /\ UNCHANGED <<req, cur, reply>>
            /\ l = "call" => pc[h] = "read"
            /\ l = "create" => req[h].op # "transfer" \/ WithinLimits(req[h].from, req[h].amount, seen[h])
    BY <1>4 DEF Lookup, ReadBalance, CheckLimits, SendOtp, VerifyOtp, DeleteOtp, Read, handler
  <2>2. l = "call" => req[h].op # "transfer"
    BY <2>1 DEF MoneyInv, StatusInv, PathInv
  <2>3. l = "create" /\ req[h].op = "transfer" => HasRoom(h)
    BY <2>1, ChecksRoom
  <2> QED BY <1>1, <1>2, <2>1, <2>2, <2>3, GotoLimit
<1> QED BY <1>3, <1>4

LEMMA CallLimit ==
  ASSUME MoneyInv, LimitInv, UNCHANGED setting, NEW h \in Handlers, Call(h)
  PROVE  LimitInv'
PROOF
<1>1. /\ pc[h] = "call" /\ UNCHANGED <<book, txn, today, req, cur, reply>>
      /\ \A m \in inbox' : m \in inbox \/ m.from = h
  BY DEF Call, ledger, handler
<1>2. PICK l \in {"wait", "error"} : Goto(h, l)
  BY DEF Call
<1>3. Committed(h) /\ pc[h] # "idle"
  BY <1>1 DEF Committed
<1> QED BY <1>1, <1>2, <1>3, GotoLimit

LEMMA ReturnLimit ==
  ASSUME MoneyInv, LimitInv, UNCHANGED setting, NEW h \in Handlers, Return(h)
  PROVE  LimitInv'
PROOF
<1>1. /\ pc[h] = "wait" /\ UNCHANGED <<book, inbox, txn, today, req, cur>>
      /\ reply' = [reply EXCEPT ![h] = "none"]
  BY DEF Return, ledger
<1>2. PICK l \in {"done", "error"} : Goto(h, l)
  BY DEF Return
<1>3. pc'[h] = l /\ OnlyMoves(h) /\ req'[h] = req[h] /\ cur'[h] = cur[h]
  BY <1>1, <1>2 DEF Goto, OnlyMoves, MoneyInv, StatusInv, ShapeInv, TypeInv
<1>4. (TransferOf(h)' <=> TransferOf(h)) /\ pc[h] # "idle"
  BY <1>1, <1>3 DEF TransferOf, Committed
<1> QED BY <1>1, <1>3, <1>4, LimitWalks

\* The clients that give up and the handlers that die are not in a calm environment.
LEMMA StormLimit ==
  ASSUME MoneyInv, LimitInv, UNCHANGED setting, NEW h \in Handlers, Timeout(h) \/ Dies(h)
  PROVE  LimitInv'
PROOF
<1>1. UNCHANGED <<book, txn, today>> /\ (Fault("slow ledger") \/ Fault("handler dies"))
  BY DEF Timeout, Dies, ledger
<1>2. ~Calm
  BY <1>1 DEF Calm, Fault
<1> QED BY <1>1, <1>2, LimitWalks

LEMMA PublishLimit ==
  ASSUME MoneyInv, LimitInv, UNCHANGED setting, NEW h \in Handlers, Publish(h)
  PROVE  LimitInv'
PROOF
<1>1. pc[h] = "publish" /\ End(h) /\ UNCHANGED <<book, inbox, txn, today>>
  BY DEF Publish, ledger
<1>2. ~TransferOf(h) /\ pc[h] # "idle"
  BY <1>1 DEF TransferOf, Committed
<1> QED BY <1>1, <1>2, EndLimit

\* A step of the ledger's that takes the call m on: its sender goes on waiting or has its
\* answer, and what is posted is what m asks for.
LEMMA TakesOn ==
  ASSUME MoneyInv, LimitInv, UNCHANGED <<setting, txn, pc, req, cur, today>>, NEW m \in inbox,
         \A n \in inbox' : \E x \in inbox : n.from = x.from,
         \A i \in Txs : Posted(i)' => Posted(i) \/ m.cmd = PostingOf(i)
  PROVE  LimitInv'
PROOF
<1>1. ASSUME Calm
      PROVE  /\ AloneInv'
             /\ \A i \in Txs : Posted(i)' /\ txn[i].type = "transfer" =>
                  Posted(i) \/ \E g \in Handlers : TransferOf(g) /\ cur[g] = i
  <2>1. AloneInv
    BY <1>1 DEF LimitInv, CalmInv
  <2>2. AloneInv'
    BY <2>1 DEF AloneInv
  <2>3. CallOK(m) /\ m.from # Nobody
    BY <2>1 DEF MoneyInv, AgreeInv, AloneInv
  <2>4. PICK h \in Handlers : m.from = h
    BY <2>3 DEF CallOK
  <2>5. m.cmd = OrderOf(h) /\ Committed(h)
    BY <2>4 DEF MoneyInv, AgreeInv, HandlerOK, OwnCallOK, Waits, Committed
  <2>6. ASSUME NEW i \in Txs, m.cmd = PostingOf(i), txn[i].type = "transfer"
        PROVE  TransferOf(h) /\ cur[h] = i
    <3>1. req[h].op # "reverse" /\ cur[h] = i
      BY <2>5, <2>6, OrdersDiffer DEF OrderOf
    <3>2. req[h].op = "transfer"
      BY <2>5, <2>6, <3>1, KnownFacts
    <3> QED BY <2>5, <3>1, <3>2 DEF TransferOf
  <2> QED BY <2>2, <2>6
<1>2. Calm => \A g \in Handlers : pc'[g] = "create" /\ req'[g].op = "transfer" => req'[g] = req[g] /\ HasRoom(g)
  BY DEF LimitInv, CalmInv, CheckedInv
<1>3. \A g \in Handlers : (TransferOf(g)' <=> TransferOf(g)) /\ cur'[g] = cur[g]
  BY DEF TransferOf, Committed
<1> QED BY <1>1, <1>2, <1>3, LimitStill

LEMMA PostsOnly ==
  ASSUME MoneyInv, NEW m \in inbox, LedgerPosts(m)
  PROVE  \A i \in Txs : Posted(i)' => Posted(i) \/ m.cmd = PostingOf(i)
PROOF
<1>1. UNCHANGED txn /\ LedgerTyped /\ ShapeInv /\ CallOK(m)
  BY DEF LedgerPosts, Answer, MoneyInv, AgreeInv, TypeInv, StatusInv
<1>2. Book!Post(m.cmd) \/ Book!ReverseTx(m.cmd)
  BY DEF LedgerPosts
<1>3. PICK id \in Txs : m.cmd = PostingOf(id) \/ m.cmd = ReversalOf(id)
  BY <1>1 DEF CallOK
<1>4. PostingOf(id)' = PostingOf(id) /\ PostingOf(id).kind # "reverse" /\ ReversalOf(id).kind = "reverse"
  BY <1>1 DEF PostingOf, CommandUnder, ReversalOf
<1>5. \A i : Stays(i) => Posted(i)' = Posted(i)
  BY DEF Stays, Posted
<1>6. CASE m.cmd = PostingOf(id)
  <2>1. Book!Post(PostingOf(id))
    BY <1>2, <1>4, <1>6 DEF Book!ReverseTx
  <2>2. \A i : i # id => Stays(i)
    BY <1>1, <1>4, <2>1, PostingEffect
  <2> QED BY <1>5, <1>6, <2>2
<1>7. CASE m.cmd = ReversalOf(id)
  <2>1. Book!ReverseTx(ReversalOf(id))
    BY <1>2, <1>4, <1>7 DEF Book!Post
  <2>2. \A i : Stays(i)
    BY <1>1, <2>1, ReversalEffect
  <2> QED BY <1>5, <2>2
<1> QED BY <1>3, <1>6, <1>7

\* In a calm environment every call on its way is the one its handler waits for.
LEMMA LedgerLimit ==
  ASSUME MoneyInv, LimitInv, UNCHANGED setting, LedgerStep
  PROVE  LimitInv'
PROOF
<1>1. ASSUME NEW m \in inbox, LedgerEnters(m) PROVE LimitInv'
  <2>1. UNCHANGED <<setting, txn, pc, req, cur, today, book>>
    BY <1>1 DEF LedgerEnters, tables
  <2>2. [m EXCEPT !.at = "inside"].from = m.from
    <3>1. CallShape(m)
      BY DEF MoneyInv, AgreeInv, CallOK
    <3>2. m = [from |-> m.from, cmd |-> m.cmd, no |-> m.no, at |-> m.at, reason |-> m.reason]
      BY <3>1 DEF CallShape
    <3> QED BY <3>2
  <2>3. \A n \in inbox' : \E x \in inbox : n.from = x.from
    <3>1. PICK e : e = [m EXCEPT !.at = "inside"]
      OBVIOUS
    <3>2. inbox' = (inbox \ {m}) \cup {e}
      BY <1>1, <3>1 DEF LedgerEnters
    <3>3. e.from = m.from
      BY <2>2, <3>1
    <3> QED BY <3>2, <3>3
  <2>4. \A i \in Txs : Posted(i)' = Posted(i)
    BY <2>1, SameBook
  <2> QED BY <2>1, <2>3, <2>4, TakesOn
<1>2. ASSUME NEW m \in inbox, LedgerPosts(m) PROVE LimitInv'
  <2>1. UNCHANGED <<setting, txn, pc, req, cur, today>> /\ inbox' = inbox \ {m}
    BY <1>2 DEF LedgerPosts, Answer
  <2> QED BY <1>2, <2>1, PostsOnly, TakesOn
<1>3. ASSUME NEW m \in inbox,
             LedgerLosesCommit(m) \/ LedgerFails(m) \/ LedgerReplays(m) \/ LedgerRefuses(m)
      PROVE  LimitInv'
  <2>1. UNCHANGED <<setting, txn, pc, req, cur, today, book>> /\ inbox' = inbox \ {m}
    BY <1>3 DEF LedgerLosesCommit, LedgerFails, LedgerReplays, LedgerRefuses, Answer, tables, ledger
  <2>2. \A i \in Txs : Posted(i)' = Posted(i)
    BY <2>1, SameBook
  <2> QED BY <2>1, <2>2, TakesOn
<1>4. ASSUME NEW key \in Keys, AnswerExpires(key) PROVE LimitInv'
  <2>1. UNCHANGED <<setting, txn, pc, req, cur, today, book, inbox>>
    BY <1>4 DEF AnswerExpires, tables
  <2>2. \A i \in Txs : Posted(i)' = Posted(i)
    BY <2>1, SameBook
  <2>3. Calm => AloneInv'
    BY <2>1 DEF LimitInv, CalmInv, AloneInv
  <2>4. Calm => \A g \in Handlers : pc'[g] = "create" /\ req'[g].op = "transfer" => req'[g] = req[g] /\ HasRoom(g)
    BY <2>1 DEF LimitInv, CalmInv, CheckedInv
  <2>5. \A g \in Handlers : (TransferOf(g)' <=> TransferOf(g)) /\ cur'[g] = cur[g]
    BY <2>1 DEF TransferOf, Committed
  <2> QED BY <2>1, <2>2, <2>3, <2>4, <2>5, LimitStill
<1> QED BY <1>1, <1>2, <1>3, <1>4 DEF LedgerStep

LEMMA OthersLimit ==
  ASSUME MoneyInv, LimitInv, UNCHANGED setting,
         \/ \E slot \in Purposes \X Wallets : OtpExpires(slot)
         \/ Midnight \/ Quiet \/ UNCHANGED vars
  PROVE  LimitInv'
PROOF
<1>1. UNCHANGED <<book, inbox, txn, pc, req, cur>> /\ (today' = today \/ today' = today + 1)
  BY DEF OtpExpires, Midnight, Quiet, vars, ledger, handler
<1>2. 1..today \subseteq 1..today'
  <2>1. today \in Nat
    BY TransactionsAssumption DEF MoneyInv, TypeInv, TransactionsAssumption
  <2> QED BY <1>1, <2>1
<1>3. Calm => AloneInv'
  BY <1>1 DEF LimitInv, CalmInv, AloneInv
<1>4. Calm => \A g \in Handlers : pc'[g] = "create" /\ req'[g].op = "transfer" => req'[g] = req[g] /\ HasRoom(g)
  BY <1>1 DEF LimitInv, CalmInv, CheckedInv
<1>5. \A g \in Handlers : (TransferOf(g)' <=> TransferOf(g)) /\ cur'[g] = cur[g]
  BY <1>1 DEF TransferOf, Committed
<1>6. \A i \in Txs : Posted(i)' = Posted(i)
  BY <1>1, SameBook
<1> QED BY <1>1, <1>2, <1>3, <1>4, <1>5, <1>6, LimitStill

\* A row with its outcome: the amount of a transfer that succeeds had room.
LEMMA OutcomeLimit ==
  ASSUME MoneyInv, LimitInv, UNCHANGED <<setting, book, inbox, today>>,
         NEW h \in Handlers, pc[h] \in {"error", "done"},
         NEW s \in {"SUCCESS", "FAILED", "REVERSED"}, SetStatus(h, s), OutcomeOf(req[h].op, s),
         s = "FAILED" <=> pc[h] = "error", OnlyMoves(h), pc'[h] \in {"idle", "publish"}
  PROVE  LimitInv'
PROOF
<1>1. Committed(h) /\ StatusInv /\ txn \in [Txs -> Row] /\ IsFiniteSet(Made(txn)) /\ HandlerOK(h)
  BY DEF Committed, MoneyInv, TypeInv, LimitInv, AgreeInv
<1>2. PICK id \in Txs : id = cur[h]
  BY <1>1, KnownFacts
<1>3. /\ txn[id].status # "NONE" /\ req[h].op \in {"transfer", "confirm", "cashOut", "reverse"}
      /\ req[h].op = "transfer" => txn[id].status = "PENDING"
      /\ req[h].op \in {"confirm", "cashOut"} => txn[id].type = "cashIn"
      /\ req[h].op = "reverse" => Successful(id)
  BY <1>1, <1>2, KnownFacts
<1>4. txn' = [txn EXCEPT ![id].status = s] /\ s \in Statuses
  BY <1>2 DEF SetStatus, Statuses
<1>5. /\ \A i \in Txs : i # id => txn'[i] = txn[i]
      /\ txn'[id].status = s /\ txn'[id].type = txn[id].type /\ txn'[id].from = txn[id].from
      /\ txn'[id].amount = txn[id].amount /\ txn'[id].day = txn[id].day
  BY <1>1, <1>4 DEF Row
<1>6. Made(txn') = Made(txn) /\ Amounts(txn') = Amounts(txn)
  BY <1>3, <1>5 DEF Made, Amounts
<1>7. Calm' = Calm
  BY DEF Calm
<1>8. ASSUME Calm PROVE CalmInv'
  <2>1. CalmInv
    BY <1>8 DEF LimitInv
  <2>2. /\ AloneInv' /\ \A g \in Handlers : g # h => pc[g] = "idle" /\ pc'[g] = "idle"
        /\ \A g \in Handlers : g # h => ~TransferOf(g) /\ ~TransferOf(g)'
    BY <1>8, AloneKeeps
  <2>3. \A g \in Handlers : ~TransferOf(g)' /\ pc'[g] # "create"
    BY <2>2 DEF TransferOf, Committed
  <2>4. CheckedInv' /\ RoomInv'
    BY <2>3 DEF CheckedInv, RoomInv
  <2>5. TracedInv'
    <3> SUFFICES ASSUME NEW i \in Txs, Posted(i)', txn'[i].type = "transfer" PROVE Successful(i)'
      BY DEF TracedInv
    <3>1. Posted(i) /\ txn[i].type = "transfer"
      BY <1>5, SameBook
    <3>2. CASE Successful(i)
      BY <1>3, <1>5, <3>2 DEF Successful, OutcomeOf
    <3>3. CASE ~Successful(i)
      <4>1. PICK g \in Handlers : TransferOf(g) /\ cur[g] = i
        BY <2>1, <3>1, <3>3 DEF CalmInv, TracedInv
      <4>2. g = h /\ i = id /\ req[h].op = "transfer"
        BY <1>2, <2>2, <4>1 DEF TransferOf
      <4>3. ~Slow
        BY <1>8 DEF Calm, Slow, Fault
      <4>4. s # "FAILED"
        BY <1>1, <1>2, <3>1, <4>2, <4>3 DEF HandlerOK, InTimeOK, Untouched
      <4>5. s = "SUCCESS"
        BY <4>2, <4>4 DEF OutcomeOf
      <4> QED BY <1>5, <4>2, <4>5 DEF Successful
    <3> QED BY <3>2, <3>3
  <2>6. KeptInv'
    <3> SUFFICES ASSUME NEW w \in Wallets, NEW d \in 1..Days
                 PROVE  Spend(txn', On(txn', w, d)) <= Limits.daily
      BY DEF KeptInv
    <3>1. PICK S, T, f : S = On(txn, w, d) /\ T = On(txn', w, d) /\ f = Amounts(txn)
      OBVIOUS
    <3>2. S \subseteq Made(txn) /\ T \subseteq S \cup {id}
      BY <1>5, <3>1 DEF On, Made
    <3>3. IsFiniteSet(S) /\ Total(f, S) \in Nat /\ \A i \in S : f[i] \in Nat
      BY <1>1, <3>1, <3>2, SpendFacts DEF Spend
    <3>4. Total(f, S) <= Limits.daily
      BY <2>1, <3>1 DEF CalmInv, KeptInv, Spend
    <3>5. Spend(txn', On(txn', w, d)) = Total(f, T)
      BY <1>6, <3>1 DEF Spend
    <3>6. Limits.daily \in Nat
      BY TransactionsAssumption DEF TransactionsAssumption
    <3>7. CASE id \notin T
      <4>1. T \in SUBSET S
        BY <3>2, <3>7
      <4>2. Total(f, T) <= Total(f, S) /\ Total(f, T) \in Nat
        BY <1>1, <3>1, <3>2, <4>1, SpendFacts DEF Spend
      <4> QED BY <3>3, <3>4, <3>5, <3>6, <4>2
    <3>8. CASE id \in T
      <4>1. s = "SUCCESS" /\ txn[id].type = "transfer" /\ txn[id].from = w /\ txn[id].day = d
        BY <1>5, <3>1, <3>8 DEF On
      <4>2. TransferOf(h) /\ txn[id].status = "PENDING"
        BY <1>1, <1>3, <4>1 DEF TransferOf, OutcomeOf
      <4>3. Total(f, S) + txn[id].amount <= Limits.daily
        BY <1>2, <2>1, <3>1, <4>1, <4>2 DEF CalmInv, RoomInv, Spend
      <4>4. id \notin S /\ T = S \cup {id}
        <5>1. id \notin S
          BY <3>1, <4>2 DEF On
        <5>2. S \subseteq T
          BY <1>5, <3>1, <5>1 DEF On
        <5> QED BY <3>2, <3>8, <5>1, <5>2
      <4>5. f[id] = txn[id].amount /\ txn[id].amount \in Nat
        BY <1>1, <3>1 DEF Amounts, Row
      <4>6. Total(f, S \cup {id}) = Total(f, S) + f[id]
        <5>1. \A i \in S \cup {id} : f[i] \in Int
          BY <3>3, <4>5
        <5> QED BY <3>3, <4>4, <5>1, TotalAdd
      <4> QED BY <3>5, <4>3, <4>4, <4>5, <4>6
    <3> QED BY <3>7, <3>8
  <2> QED BY <2>2, <2>4, <2>5, <2>6 DEF CalmInv
<1> QED BY <1>1, <1>6, <1>7, <1>8 DEF LimitInv

LEMMA FailLimit ==
  ASSUME MoneyInv, LimitInv, UNCHANGED setting, NEW h \in Handlers, Fail(h)
  PROVE  LimitInv'
PROOF
<1>1. /\ pc[h] = "error" /\ End(h) /\ UNCHANGED <<book, inbox, today>>
      /\ IF req[h].op = "transfer" THEN SetStatus(h, "FAILED") ELSE UNCHANGED txn
  BY DEF Fail, ledger
<1>2. CASE req[h].op = "transfer"
  <2>1. SetStatus(h, "FAILED") /\ OutcomeOf(req[h].op, "FAILED")
    BY <1>1, <1>2 DEF OutcomeOf
  <2>2. pc'[h] = "idle" /\ OnlyMoves(h)
    BY <1>1, EndFacts DEF MoneyInv
  <2> QED BY <1>1, <2>1, <2>2, OutcomeLimit
<1>3. CASE req[h].op # "transfer"
  BY <1>1, <1>3, EndLimit DEF TransferOf
<1> QED BY <1>2, <1>3

LEMMA SucceedLimit ==
  ASSUME MoneyInv, LimitInv, UNCHANGED setting, NEW h \in Handlers, Succeed(h)
  PROVE  LimitInv'
PROOF
<1>1. pc[h] = "done" /\ UNCHANGED <<book, inbox, today>> /\ StatusInv /\ TypeInv
  BY DEF Succeed, ledger, MoneyInv
<1>2. req[h].op \in {"transfer", "confirm", "cashOut", "reverse"}
  BY <1>1, KnownFacts DEF Committed
<1>3. CASE req[h].op = "reverse"
  <2>1. SetStatus(h, "REVERSED") /\ End(h) /\ OutcomeOf(req[h].op, "REVERSED")
    BY <1>3 DEF Succeed, OutcomeOf
  <2>2. pc'[h] = "idle" /\ OnlyMoves(h)
    BY <1>1, <2>1, EndFacts
  <2> QED BY <1>1, <2>1, <2>2, OutcomeLimit
<1>4. CASE req[h].op # "reverse"
  <2>1. /\ SetStatus(h, "SUCCESS") /\ OutcomeOf(req[h].op, "SUCCESS")
        /\ Goto(h, "publish") /\ UNCHANGED <<req, cur, reply>>
    BY <1>2, <1>4 DEF Succeed, OutcomeOf, handler
  <2>2. pc'[h] = "publish" /\ OnlyMoves(h)
    BY <1>1, <2>1, GotoFacts
  <2> QED BY <1>1, <2>1, <2>2, OutcomeLimit
<1> QED BY <1>3, <1>4

\* The row a transfer creates has room on its day: what was added up for an earlier day
\* was no less.
LEMMA CreateLimit ==
  ASSUME MoneyInv, LimitInv, UNCHANGED setting, NEW h \in Handlers, Create(h)
  PROVE  LimitInv'
PROOF
<1>1. pc[h] = "create" /\ UNCHANGED <<book, inbox, today>>
  BY DEF Create, ledger
<1>2. /\ txn \in [Txs -> Row] /\ IsFiniteSet(Made(txn)) /\ cur \in [Handlers -> Txs \cup {NoTx}]
      /\ pc \in [Handlers -> Labels] /\ ~TransferOf(h) /\ pc[h] # "idle"
      /\ today \in 1..Days /\ Days \in Nat /\ Limits.daily \in Nat
  BY <1>1, TransactionsAssumption
  DEF MoneyInv, TypeInv, LimitInv, StatusInv, ShapeInv, TransferOf, Committed, TransactionsAssumption
<1>3. CASE End(h) /\ UNCHANGED txn
  BY <1>1, <1>2, <1>3, EndLimit
<1>4. CASE ~(End(h) /\ UNCHANGED txn)
  <2> DEFINE r == req[h]
  <2>1. PICK row, id :
        /\ Unused # {} /\ id = CHOOSE i \in Unused : TRUE
        /\ row = [ status |-> "PENDING", type |-> r.op, key |-> r.key,
                   from |-> r.from, to |-> r.to, amount |-> r.amount,
                   fee |-> IF r.op = "transfer" THEN FeeFor(r.amount) ELSE 0,
                   day |-> today ]
        /\ txn' = [txn EXCEPT ![id] = row]
        /\ cur' = [cur EXCEPT ![h] = id]
        /\ Goto(h, IF r.op = "transfer" THEN "call" ELSE "sendOtp")
        /\ req' = req /\ reply' = reply
    BY <1>4 DEF Create
  <2>2. id \in Txs /\ txn[id].status = "NONE"
    BY <2>1 DEF Unused
  <2>3. row.status = "PENDING" /\ row.type = r.op /\ row.from = r.from /\ row.amount = r.amount /\ row.day = today
    BY <2>1
  <2>4. txn'[id] = row /\ \A i \in Txs : i # id => txn'[i] = txn[i]
    BY <1>2, <2>1, <2>2
  <2>5. /\ pc'[h] = (IF r.op = "transfer" THEN "call" ELSE "sendOtp") /\ cur'[h] = id
        /\ req'[h] = req[h] /\ OnlyMoves(h)
    BY <1>2, <2>1 DEF Goto, OnlyMoves
  <2>6. IsFiniteSet(Made(txn'))
    <3>1. Made(txn') = Made(txn) \cup {id}
      BY <2>2, <2>3, <2>4 DEF Made
    <3> QED BY <1>2, <3>1, FS_AddElement
  <2>7. Calm' = Calm
    BY DEF Calm
  <2>8. \A w, d : On(txn', w, d) = On(txn, w, d) /\ id \notin On(txn, w, d)
    BY <2>2, <2>3, <2>4 DEF On
  <2>9. \A w, d : Spend(txn', On(txn', w, d)) = Spend(txn, On(txn, w, d))
    <3> TAKE w, d
    <3>1. PICK S, f, k : S = On(txn, w, d) /\ f = Amounts(txn) /\ k = Amounts(txn')
      OBVIOUS
    <3>2. IsFiniteSet(S) /\ \A i \in S : f[i] \in Nat
      BY <1>2, <3>1, SetsMade, SpendFacts
    <3>3. \A i \in S : f[i] \in Int /\ k[i] = f[i]
      <4>1. S \subseteq Txs
        BY <3>1 DEF On
      <4> QED BY <2>4, <2>8, <3>1, <3>2, <4>1 DEF Amounts
    <3>4. Total(k, S) = Total(f, S)
      BY <3>2, <3>3, TotalSame
    <3> QED BY <2>8, <3>1, <3>4 DEF Spend
  <2>10. ASSUME Calm PROVE CalmInv'
    <3>1. CalmInv
      BY <2>10 DEF LimitInv
    <3>2. /\ AloneInv' /\ \A g \in Handlers : g # h => pc[g] = "idle" /\ pc'[g] = "idle"
          /\ \A g \in Handlers : g # h => ~TransferOf(g) /\ ~TransferOf(g)'
      BY <1>1, <1>2, <2>5, <2>10, AloneKeeps
    <3>3. CheckedInv'
      BY <2>5, <3>2 DEF CheckedInv
    <3>4. TracedInv'
      <4> SUFFICES ASSUME NEW i \in Txs, Posted(i)', txn'[i].type = "transfer"
                   PROVE  Successful(i)'
        BY DEF TracedInv
      <4>1. Posted(i) /\ RowOK(i)
        BY <1>1, SameBook DEF MoneyInv, AgreeInv
      <4>2. i # id
        BY <2>2, <4>1 DEF RowOK
      <4>3. Successful(i)
        BY <1>2, <2>4, <3>1, <3>2, <4>1, <4>2 DEF CalmInv, TracedInv
      <4> QED BY <2>4, <4>2, <4>3 DEF Successful
    <3>5. KeptInv'
      BY <2>9, <3>1 DEF CalmInv, KeptInv
    <3>6. RoomInv'
      <4> SUFFICES ASSUME TransferOf(h)'
                   PROVE  Spend(txn', On(txn', txn'[cur'[h]].from, txn'[cur'[h]].day)) + txn'[cur'[h]].amount <= Limits.daily
        BY <3>2 DEF RoomInv
      <4>1. r.op = "transfer"
        BY <2>5 DEF TransferOf
      <4>2. PICK d \in 1..today : Spend(txn, Since(txn, r.from, d)) + r.amount <= Limits.daily
        BY <1>1, <3>1, <4>1 DEF CalmInv, CheckedInv, HasRoom
      <4>3. On(txn, r.from, today) \in SUBSET Since(txn, r.from, d)
        BY <1>2 DEF On, Since
      <4>4. /\ Spend(txn, On(txn, r.from, today)) <= Spend(txn, Since(txn, r.from, d))
            /\ Spend(txn, Since(txn, r.from, d)) \in Nat /\ Spend(txn, On(txn, r.from, today)) \in Nat
        BY <1>2, <4>3, SetsMade, SpendFacts
      <4>5. r.amount \in Nat
        <5>1. r \in Requests
          BY <1>1 DEF MoneyInv, StatusInv, PathInv
        <5> QED BY <5>1, RequestShape
      <4>6. txn'[cur'[h]].from = r.from /\ txn'[cur'[h]].day = today /\ txn'[cur'[h]].amount = r.amount
        BY <2>3, <2>4, <2>5
      <4>7. Spend(txn', On(txn', r.from, today)) = Spend(txn, On(txn, r.from, today))
        BY <2>9
      <4>8. Spend(txn, On(txn, r.from, today)) + r.amount <= Limits.daily
        <5>1. PICK a, b : a = Spend(txn, On(txn, r.from, today)) /\ b = Spend(txn, Since(txn, r.from, d))
          OBVIOUS
        <5> QED BY <1>2, <4>2, <4>4, <4>5, <5>1
      <4> QED BY <4>6, <4>7, <4>8
    <3> QED BY <3>2, <3>3, <3>4, <3>5, <3>6 DEF CalmInv
  <2> QED BY <2>6, <2>7, <2>10 DEF LimitInv
<1> QED BY <1>3, <1>4

LEMMA LimitNext ==
  ASSUME MoneyInv, LimitInv, [Next]_vars
  PROVE  LimitInv'
PROOF
<1>1. UNCHANGED setting
  BY DEF Next, vars
<1>2. ASSUME NEW h \in Handlers, Step(h) PROVE LimitInv'
  <2>1. CASE Lookup(h) \/ ReadBalance(h) \/ CheckLimits(h) \/ SendOtp(h) \/ VerifyOtp(h) \/ DeleteOtp(h) \/ Read(h)
    BY <1>1, <2>1, EarlyLimit
  <2>2. CASE Create(h)
    BY <1>1, <2>2, CreateLimit
  <2>3. CASE Call(h)
    BY <1>1, <2>3, CallLimit
  <2>4. CASE Return(h)
    BY <1>1, <2>4, ReturnLimit
  <2>5. CASE Timeout(h)
    BY <1>1, <2>5, StormLimit
  <2>6. CASE Fail(h)
    BY <1>1, <2>6, FailLimit
  <2>7. CASE Succeed(h)
    BY <1>1, <2>7, SucceedLimit
  <2>8. CASE Publish(h)
    BY <1>1, <2>8, PublishLimit
  <2> QED BY <1>2, <2>1, <2>2, <2>3, <2>4, <2>5, <2>6, <2>7, <2>8 DEF Step
<1>3. ASSUME NEW h \in Handlers, Dies(h) \/ \E r \in Requests : Receive(h, r) PROVE LimitInv'
  BY <1>1, <1>3, StormLimit, ReceiveLimit
<1>4. ASSUME LedgerStep PROVE LimitInv'
  BY <1>1, <1>4, LedgerLimit
<1>5. ASSUME \/ \E slot \in Purposes \X Wallets : OtpExpires(slot)
             \/ Midnight \/ Quiet \/ UNCHANGED vars
      PROVE  LimitInv'
  BY <1>1, <1>5, OthersLimit
<1> QED BY <1>2, <1>3, <1>4, <1>5 DEF Next

LEMMA LimitInit ==
  ASSUME Init
  PROVE  LimitInv
PROOF
<1>1. \A i \in Txs : txn[i].status = "NONE"
  BY DEF Init, NoRow
<1>2. Made(txn) = {} /\ \A w, d : On(txn, w, d) = {}
  BY <1>1 DEF Made, On
<1>3. \A h \in Handlers : pc[h] = "idle" /\ ~TransferOf(h)
  BY DEF Init, TransferOf, Committed
<1>4. AloneInv /\ CheckedInv /\ RoomInv
  BY <1>3 DEF Init, AloneInv, CheckedInv, RoomInv
<1>5. TracedInv
  <2>1. \A i \in Txs : ~Posted(i)
    BY <1>1, MoneyInit DEF MoneyInv, AgreeInv, RowOK
  <2> QED BY <2>1 DEF TracedInv
<1>6. KeptInv
  <2>1. \A w, d : Spend(txn, On(txn, w, d)) = 0
    BY <1>2, TotalEmpty DEF Spend
  <2> QED BY <2>1, TransactionsAssumption DEF TransactionsAssumption, KeptInv
<1> QED BY <1>2, <1>4, <1>5, <1>6, FS_EmptySet DEF LimitInv, CalmInv

\* One request at a time, answered in time, by handlers that live: what a sender's
\* transfers of a day have moved in the ledger, and no reversal took back, stays within the daily limit.
THEOREM LimitHoldsOneByOne == Spec => []WithinLimitOneByOne
<1>1. MoneyInv /\ LimitInv => WithinLimitOneByOne
  <2> SUFFICES ASSUME MoneyInv, LimitInv, Calm, NEW w \in Wallets, NEW d \in 1..Days
               PROVE  MapThenSumSet(LAMBDA i : txn[i].amount, Moved(w, d)) <= Limits.daily
    BY DEF WithinLimitOneByOne, WithinLimit, Calm
  <2>1. CalmInv /\ txn \in [Txs -> Row] /\ IsFiniteSet(Made(txn)) /\ \A i \in Txs : RowOK(i)
    BY DEF LimitInv, MoneyInv, TypeInv, AgreeInv
  <2>2. PICK S, T, f : S = On(txn, w, d) /\ T = Moved(w, d) /\ f = Amounts(txn)
    OBVIOUS
  <2>3. T \subseteq Made(txn) /\ S \subseteq Made(txn)
    BY <2>1, <2>2, SetsMade DEF Moved, Made, RowOK
  <2>4. MapThenSumSet(LAMBDA i : txn[i].amount, Moved(w, d)) = Total(f, T)
    BY <2>1, <2>2, <2>3, SumIsSpend DEF Spend
  <2>5. Total(f, S) <= Limits.daily /\ Total(f, S) \in Nat /\ IsFiniteSet(S) /\ \A i \in S : f[i] \in Nat
    BY <2>1, <2>2, <2>3, SpendFacts DEF CalmInv, KeptInv, Spend
  <2>6. Limits.daily \in Nat /\ Total(f, T) \in Nat
    BY <2>1, <2>2, <2>3, SpendFacts, TransactionsAssumption DEF TransactionsAssumption, Spend
  <2>7. ASSUME NEW i \in T, i \notin S
        PROVE  \E h \in Handlers : TransferOf(h) /\ cur[h] = i
    <3>1. i \in Txs /\ Posted(i) /\ ~TakenBack(i) /\ txn[i].type = "transfer" /\ txn[i].from = w /\ txn[i].day = d
      BY <2>2 DEF Moved
    <3>2. txn[i].status # "SUCCESS"
      BY <2>2, <2>7, <3>1 DEF On
    <3>3. ~Successful(i)
      BY <2>1, <3>1, <3>2 DEF RowOK, Successful
    <3> QED BY <2>1, <3>1, <3>3 DEF CalmInv, TracedInv
  <2>8. CASE T \subseteq S
    <3>1. Total(f, T) <= Total(f, S)
      BY <2>1, <2>2, <2>3, <2>8, SpendFacts DEF Spend
    <3> QED BY <2>4, <2>5, <2>6, <3>1
  <2>9. CASE ~(T \subseteq S)
    <3>1. PICK i \in T : i \notin S
      BY <2>9
    <3>2. PICK h \in Handlers : TransferOf(h) /\ cur[h] = i
      BY <2>7, <3>1
    <3>3. \A j \in T : j \notin S => j = i
      <4> SUFFICES ASSUME NEW j \in T, j \notin S PROVE j = i
        OBVIOUS
      <4>1. PICK g \in Handlers : TransferOf(g) /\ cur[g] = j
        BY <2>7
      <4>2. g = h
        BY <2>1, <3>2, <4>1 DEF CalmInv, AloneInv, TransferOf, Committed
      <4> QED BY <3>2, <4>1, <4>2
    <3>4. i \in Txs /\ txn[i].from = w /\ txn[i].day = d
      BY <2>2 DEF Moved
    <3>5. Total(f, S) + txn[i].amount <= Limits.daily
      BY <2>1, <2>2, <3>2, <3>4 DEF CalmInv, RoomInv, Spend
    <3>6. f[i] = txn[i].amount /\ txn[i].amount \in Nat
      BY <2>1, <2>2, <3>4 DEF Amounts, Row
    <3>7. Total(f, S \cup {i}) = Total(f, S) + f[i]
      <4>1. \A x \in S \cup {i} : f[x] \in Int
        BY <2>5, <3>6
      <4> QED BY <2>5, <3>1, <4>1, TotalAdd
    <3>8. Total(f, T) <= Total(f, S \cup {i})
      <4>1. T \in SUBSET (S \cup {i})
        BY <3>3
      <4>2. IsFiniteSet(S \cup {i}) /\ \A x \in S \cup {i} : f[x] \in Nat
        BY <2>5, <3>6, FS_AddElement
      <4> QED BY <4>1, <4>2, TotalLess
    <3> QED BY <2>4, <2>5, <2>6, <3>5, <3>6, <3>7, <3>8
  <2> QED BY <2>8, <2>9
<1>2. Init => LimitInv
  BY LimitInit
<1>3. MoneyInv /\ LimitInv /\ [Next]_vars => LimitInv'
  BY LimitNext
<1> QED BY <1>1, <1>2, <1>3, MoneyIsKnown, PTL DEF Spec
=============================================================================
