---------------------------- MODULE Transactions ----------------------------
(***************************************************************************)
(* api-core's TransactionsService: transfers, cash-ins confirmed by a      *)
(* one-time password, cash-outs and reversals.  Each request is served by  *)
(* an asynchronous handler; handlers interleave at every await.  The       *)
(* ledger-service is reached by HTTP and the caller may give up waiting;   *)
(* it is LedgerBook behind its idempotency keys, which do not always hold: *)
(* calls that overlap, a commit that fails after its answer was stored and *)
(* an answer that expired get past them as in LedgerWrite.                 *)
(*                                                                         *)
(* A user has one wallet (register creates it), so wallets stand for users.*)
(***************************************************************************)
EXTENDS LedgerCommands, SequencesExt

CONSTANTS
    Handlers,    \* concurrent request handlers, of one or of several processes
    Nobody,      \* addressee of an answer its caller no longer waits for
    NoRequest,   \* request of an idle handler
    NoTx,        \* transaction of a handler that has none yet
    ClientKeys,  \* idempotency keys clients choose
    Requests,    \* what clients, agents and support send
    Active,      \* wallets whose status is ACTIVE
    Platform,    \* the PLATFORM_FEES wallet
    FeePercent,  \* FEE_TABLE: percentage of a P2P transfer
    Limits,      \* KYC_LIMITS of the level everybody has
    Days,        \* bound: days the model runs
    Settings     \* the environments to consider, see Setting

FaultKinds ==
    { "overlap",        \* requests are served at the same time
      "midnight",       \* a day ends
      "slow ledger",    \* an answer may come after the 10 s of the HTTP client
      "unreachable",    \* a call may fail before it reaches the ledger
      "ledger error",   \* the ledger may refuse or fail: claim left, deadlock, 500
      "commit fails",   \* the ledger's commit may fail after its answer was stored
      "answer expires", \* the ledger forgets an answer, 24 h after it was stored
      "key refused",    \* the ledger cannot read the key: "tx:..." is no UUID
      "handler dies" }  \* process crash, or a database call outside a try fails

Types == {"transfer", "cashIn"}
Statuses == {"NONE", "PENDING", "PROCESSING", "SUCCESS", "FAILED", "CANCELLED", "REVERSED"}

Request ==
    [ op : {"transfer", "cashIn", "confirm", "cashOut", "reverse"},
      key : ClientKeys,    \* transfer, cashIn, cashOut
      tx : Txs,            \* confirm, reverse
      from : Wallets,      \* transfer, cashOut; of a cashIn, the agent
      to : Wallets,        \* transfer, cashIn, confirm
      amount : Nat \ {0},  \* transfer, cashIn, cashOut
      reason : STRING ]    \* reverse

\* An environment: what it may do, what is sent, and the bound on how often.
Setting == [faults : SUBSET FaultKinds, requests : SUBSET Requests, sends : Nat]

ASSUME TransactionsAssumption ==
    /\ Nobody \notin Handlers /\ NoRequest \notin Requests /\ NoTx \notin Txs
    /\ Requests \subseteq Request /\ ClientKeys # {}
    /\ Active \subseteq Wallets /\ Platform \in Wallets
    /\ FeePercent \in Nat /\ Days \in Nat \ {0}
    /\ Limits \in [perTransaction : Nat, daily : Nat, monthly : Nat, balance : Nat]
    /\ Settings \subseteq Setting
    /\ \A id \in Txs : {<<"tx", id>>, <<"rev", id>>} \subseteq Keys

VARIABLES
    setting,     \* the environment this behaviour runs in; never changes
    balance,    \* the ledger's tables
    book,
    answers,    \* the ledger's idempotency memory: key -> what it executed
    lapse,      \* history: key -> how its memory let calls past, see Lapse
    inbox,      \* calls on their way to the ledger or inside it
    reply,      \* handler -> the ledger's answer, once it is back
    txn,        \* api-core's Transaction rows
    otp,        \* Redis: purpose, wallet -> the code in force, 0 for none
    issued,     \* purpose, wallet -> codes sent so far
    published,  \* transactions announced on financial.events
    pc,         \* handler -> where it is
    req,        \* handler -> the request it serves
    code,       \* handler -> the one-time password that came with it
    cur,        \* handler -> the transaction it works on
    seen,       \* handler -> the balance it read
    sent,       \* request -> how often it was sent
    today       \* the current day

tables == <<balance, book>>
ledger == <<balance, book, answers, lapse>>
handler == <<req, code, cur, seen, reply>>
redis == <<otp, issued, published>>
vars == <<setting, balance, book, answers, lapse, inbox, reply, txn, otp, issued, published,
          pc, req, code, cur, seen, sent, today>>

Book == INSTANCE LedgerBook WITH balance <- balance, book <- book

Purposes == {"CASH_IN", "CASH_OUT"}

NoRow == [ status |-> "NONE", type |-> "transfer", key |-> CHOOSE k \in ClientKeys : TRUE,
           from |-> Platform, to |-> Platform, amount |-> 1, fee |-> 0, day |-> 1 ]

Fault(kind) == kind \in setting.faults

Init ==
    /\ setting \in Settings
    /\ Book!Init
    /\ answers = [k \in Keys |-> << >>]
    /\ lapse = [k \in Keys |-> "none"]
    /\ inbox = {}
    /\ reply = [h \in Handlers |-> "none"]
    /\ txn = [i \in Txs |-> NoRow]
    /\ otp = [p \in Purposes \X Wallets |-> 0]
    /\ issued = [p \in Purposes \X Wallets |-> 0]
    /\ published = {}
    /\ pc = [h \in Handlers |-> "idle"]
    /\ req = [h \in Handlers |-> NoRequest]
    /\ code = [h \in Handlers |-> 0]
    /\ cur = [h \in Handlers |-> NoTx]
    /\ seen = [h \in Handlers |-> 0]
    /\ sent = [r \in Requests |-> 0]
    /\ today = 1

(***************************************************************************)
(* Rules: transitions, fees, limits.                                       *)
(***************************************************************************)
NextStatuses(s) ==
    CASE s = "PENDING"    -> {"PROCESSING", "CANCELLED", "FAILED"}
      [] s = "PROCESSING" -> {"SUCCESS", "FAILED"}
      [] s = "SUCCESS"    -> {"REVERSED"}
      [] OTHER            -> {}

\* Mutant of CanBecome: whatever is not final may still change.
CanBecomeUnlessFinal(s, new) == NextStatuses(s) # {}
CanBecome(s, new) == new \in NextStatuses(s)

\* Amounts are centimes; the fee is rounded half up to a whole centime.
FeeFor(amount) == (amount * FeePercent + 50) \div 100

\* sumSuccess: SUCCESS rows of this sender, cash-ins an agent made included.
SpentSince(w, day) ==
    MapThenSumSet(LAMBDA i : txn[i].amount,
                  { i \in Txs : /\ txn[i].status = "SUCCESS"
                                /\ txn[i].from = w /\ txn[i].day >= day })

\* Mutant of WithinLimits: the amount at hand is not counted.
WithinLimitsSoFar(w, amount, have) ==
    /\ amount <= Limits.perTransaction
    /\ SpentSince(w, today) <= Limits.daily
    /\ SpentSince(w, 1) <= Limits.monthly
    /\ have + amount <= Limits.balance

\* checkKycLimit, with the totals of the day and of the month.
WithinLimits(w, amount, have) ==
    /\ amount <= Limits.perTransaction
    /\ SpentSince(w, today) + amount <= Limits.daily
    /\ SpentSince(w, 1) + amount <= Limits.monthly
    /\ have + amount <= Limits.balance

(***************************************************************************)
(* Handlers.                                                               *)
(***************************************************************************)
Goto(h, label) == pc' = [pc EXCEPT ![h] = label]

\* The handler answers its client, or throws, and is gone.
End(h) ==
    /\ Goto(h, "idle")
    /\ req' = [req EXCEPT ![h] = NoRequest]
    /\ code' = [code EXCEPT ![h] = 0]
    /\ cur' = [cur EXCEPT ![h] = NoTx]
    /\ seen' = [seen EXCEPT ![h] = 0]
    /\ reply' = [reply EXCEPT ![h] = "none"]

PurposeOf(r) == IF r.op = "cashOut" THEN "CASH_OUT" ELSE "CASH_IN"

\* The client whose phone the agent gives with the password.
ClientOf(r) == IF r.op = "cashOut" THEN r.from ELSE r.to

\* A request arrives; a password in it is one its client was sent.
Receive(h, r) ==
    /\ pc[h] = "idle"
    /\ r \in setting.requests
    /\ sent[r] < setting.sends
    /\ Fault("overlap") \/ \A g \in Handlers : pc[g] = "idle"
    /\ sent' = [sent EXCEPT ![r] = @ + 1]
    /\ req' = [req EXCEPT ![h] = r]
    /\ \/ /\ r.op \in {"transfer", "cashIn"}
          /\ Goto(h, "lookup")
          /\ UNCHANGED <<code, cur>>
       \/ /\ r.op \in {"confirm", "cashOut"}
          /\ \E c \in 0..issued[PurposeOf(r), ClientOf(r)] : code' = [code EXCEPT ![h] = c]
          /\ Goto(h, "otp")
          /\ cur' = [cur EXCEPT ![h] = r.tx]
       \/ /\ r.op = "reverse"
          /\ Goto(h, "read")
          /\ cur' = [cur EXCEPT ![h] = r.tx]
          /\ UNCHANGED code
    /\ UNCHANGED <<ledger, inbox, reply, txn, redis, seen, today>>

RowsWithKey(k) == {i \in Txs : txn[i].status # "NONE" /\ txn[i].key = k}

\* The key is known: its transaction is the answer.  Else the wallets of the
\* parties must be ACTIVE.
Lookup(h) ==
    LET parties == IF req[h].op = "transfer" THEN {req[h].from, req[h].to} ELSE {req[h].to}
    IN  /\ pc[h] = "lookup"
        /\ IF RowsWithKey(req[h].key) # {} \/ ~(parties \subseteq Active)
             THEN End(h)
             ELSE /\ Goto(h, IF req[h].op = "transfer" THEN "balance" ELSE "create")
                  /\ UNCHANGED handler
        /\ UNCHANGED <<ledger, inbox, txn, redis, sent, today>>

\* GET the sender's balance from the ledger.
ReadBalance(h) ==
    /\ pc[h] = "balance"
    /\ \/ /\ seen' = [seen EXCEPT ![h] = balance[req[h].from]]
          /\ Goto(h, "limits")
          /\ UNCHANGED <<req, code, cur, reply>>
       \/ {"slow ledger", "unreachable", "ledger error"} \cap setting.faults # {} /\ End(h)
    /\ UNCHANGED <<ledger, inbox, txn, redis, sent, today>>

\* Add up the totals and check the limits.
CheckLimits(h) ==
    /\ pc[h] = "limits"
    /\ IF WithinLimits(req[h].from, req[h].amount, seen[h])
         THEN Goto(h, "create") /\ UNCHANGED handler
         ELSE End(h)
    /\ UNCHANGED <<ledger, inbox, txn, redis, sent, today>>

Unused == {i \in Txs : txn[i].status = "NONE"}

\* Mutant of KeyIsFree: no UNIQUE constraint behind the lookup.
KeyIsFreeAnyway(k) == TRUE
KeyIsFree(k) == RowsWithKey(k) = {}

\* INSERT the PENDING row; its idempotency key is UNIQUE.
Create(h) ==
    LET r == req[h]
        id == CHOOSE i \in Unused : TRUE
    IN  /\ pc[h] = "create"
        /\ IF ~KeyIsFree(r.key)
             THEN End(h) /\ UNCHANGED txn
             ELSE /\ Unused # {}
                  /\ txn' = [txn EXCEPT ![id] =
                       [ status |-> "PENDING", type |-> r.op, key |-> r.key,
                         from |-> r.from, to |-> r.to, amount |-> r.amount,
                         fee |-> IF r.op = "transfer" THEN FeeFor(r.amount) ELSE 0,
                         day |-> today ]]
                  /\ cur' = [cur EXCEPT ![h] = id]
                  /\ Goto(h, IF r.op = "transfer" THEN "call" ELSE "sendOtp")
                  /\ UNCHANGED <<req, code, seen, reply>>
        /\ UNCHANGED <<ledger, inbox, redis, sent, today>>

\* cashIn ends by sending its client a new password, which replaces the last.
SendOtp(h) ==
    LET slot == <<"CASH_IN", req[h].to>>
    IN  /\ pc[h] = "sendOtp"
        /\ issued' = [issued EXCEPT ![slot] = @ + 1]
        /\ otp' = [otp EXCEPT ![slot] = issued[slot] + 1]
        /\ End(h)
        /\ UNCHANGED <<ledger, inbox, txn, published, sent, today>>

\* verifyOtp reads the password ...
VerifyOtp(h) ==
    LET inForce == otp[PurposeOf(req[h]), ClientOf(req[h])]
    IN  /\ pc[h] = "otp"
        /\ IF inForce = 0 \/ inForce # code[h]
             THEN End(h)
             ELSE Goto(h, "otpDel") /\ UNCHANGED handler
        /\ UNCHANGED <<ledger, inbox, txn, redis, sent, today>>

\* ... and deletes it in a second call.
DeleteOtp(h) ==
    /\ pc[h] = "otpDel"
    /\ otp' = [otp EXCEPT ![<<PurposeOf(req[h]), ClientOf(req[h])>>] = 0]
    /\ Goto(h, "read")
    /\ UNCHANGED <<ledger, inbox, txn, issued, published, handler, sent, today>>

OtpExpires(slot) ==
    /\ otp[slot] # 0
    /\ otp' = [otp EXCEPT ![slot] = 0]
    /\ UNCHANGED <<ledger, inbox, txn, issued, published, pc, handler, sent, today>>

\* confirmCashIn and reverse read the row and check the transition.
Read(h) ==
    LET row == txn[cur[h]]
        ready == IF req[h].op = "reverse" THEN CanBecome(row.status, "REVERSED")
                 ELSE row.type = "cashIn" /\ CanBecome(row.status, "PROCESSING")
    IN  /\ pc[h] = "read"
        /\ IF ready THEN Goto(h, "call") /\ UNCHANGED handler ELSE End(h)
        /\ UNCHANGED <<ledger, inbox, txn, redis, sent, today>>

(***************************************************************************)
(* The HTTP call to the ledger.                                            *)
(***************************************************************************)
CommandUnder(key, id) ==
    LET row == txn[id]
    IN  IF row.type = "transfer"
          THEN [ kind |-> "transfer", key |-> key, tx |-> id, from |-> row.from,
                 to |-> row.to, fees |-> Platform, amount |-> row.amount, fee |-> row.fee ]
          ELSE [ kind |-> "credit", key |-> key, tx |-> id, from |-> row.to,
                 to |-> row.to, fees |-> row.to, amount |-> row.amount, fee |-> 0 ]

PostingOf(id) == CommandUnder(<<"tx", id>>, id)

ReversalOf(id) ==
    [ kind |-> "reverse", key |-> <<"rev", id>>, tx |-> id, from |-> Platform,
      to |-> Platform, fees |-> Platform, amount |-> 1, fee |-> 0 ]

\* What a command asks for, hashed with its reason: the ledger tells a replay
\* from a conflict by it.
ContentOf(m) == <<m.cmd, m.reason>>

\* Calls that ask for the same are told apart by a number.
NumberFor(cmd) ==
    CHOOSE n \in 0..Cardinality(inbox) : \A m \in inbox : m.cmd.key = cmd.key => m.no # n

Call(h) ==
    LET reversal == req[h].op = "reverse"
        cmd == IF reversal THEN ReversalOf(cur[h]) ELSE PostingOf(cur[h])
        m == [ from |-> h, cmd |-> cmd, no |-> NumberFor(cmd), at |-> "door",
               reason |-> IF reversal THEN req[h].reason ELSE "none" ]
    IN  /\ pc[h] = "call"
        /\ \/ inbox' = inbox \cup {m} /\ Goto(h, "wait")
           \/ Fault("unreachable") /\ Goto(h, "error") /\ UNCHANGED inbox
        /\ UNCHANGED <<ledger, txn, redis, handler, sent, today>>

Answer(m, outcome) ==
    /\ inbox' = inbox \ {m}
    /\ reply' = IF m.from = Nobody THEN reply ELSE [reply EXCEPT ![m.from] = outcome]
    /\ UNCHANGED <<txn, redis, pc, req, code, cur, seen, sent, today>>

Inside(key) == {m \in inbox : m.cmd.key = key /\ m.at = "inside"}

\* How a key's memory let calls past: more than one of them may be executed, or
\* an answer is remembered whose posting was rolled back.
Lapse == {"none", "twice", "lost"}
Twice(key) == [lapse EXCEPT ![key] = IF @ = "none" THEN "twice" ELSE @]

\* getCached finds no answer: the call goes on to claim its key.
LedgerEnters(m) ==
    /\ ~Fault("key refused")
    /\ m.at = "door" /\ answers[m.cmd.key] = << >>
    /\ inbox' = (inbox \ {m}) \cup {[m EXCEPT !.at = "inside"]}
    /\ lapse' = IF Inside(m.cmd.key) = {} THEN lapse ELSE Twice(m.cmd.key)
    /\ UNCHANGED <<tables, answers, reply, txn, redis, pc, req, code, cur, seen, sent, today>>

\* claim says OK to a free key, and to one whose result is that of this command.
Claimed(m) == m.at = "inside" /\ answers[m.cmd.key] \in {<< >>, ContentOf(m)}

\* The ledger executes the command, stores the answer and commits ...
LedgerPosts(m) ==
    /\ Claimed(m)
    /\ Book!Post(m.cmd) \/ Book!ReverseTx(m.cmd)
    /\ answers' = [answers EXCEPT ![m.cmd.key] = ContentOf(m)]
    /\ Answer(m, "ok")
    /\ UNCHANGED lapse

\* ... or the commit fails, when the answer is stored already ...
LedgerLosesCommit(m) ==
    /\ Fault("commit fails")
    /\ Claimed(m) /\ ~Book!Refused(m.cmd)
    /\ answers' = [answers EXCEPT ![m.cmd.key] = ContentOf(m)]
    /\ lapse' = [lapse EXCEPT ![m.cmd.key] = "lost"]
    /\ Answer(m, "error")
    /\ UNCHANGED tables

\* ... or it cannot be executed: funds, wallet or original are missing, the
\* transaction is reversed already, a lock is not granted.  The key is released,
\* whoever's result it holds.
LedgerFails(m) ==
    /\ m.at = "inside"
    /\ Fault("ledger error") \/ Book!Refused(m.cmd)
    /\ answers' = [answers EXCEPT ![m.cmd.key] = << >>]
    /\ Answer(m, "error")
    /\ UNCHANGED <<tables, lapse>>

\* getCached finds the answer to this command.
LedgerReplays(m) ==
    /\ m.at = "door" /\ answers[m.cmd.key] = ContentOf(m)
    /\ Answer(m, "ok")
    /\ UNCHANGED ledger

\* The call is turned away: its key cannot be read, answers another command or is
\* claimed by a call under way, or something fails before the claim.
LedgerRefuses(m) ==
    /\ \/ {"key refused", "ledger error"} \cap setting.faults # {}
       \/ answers[m.cmd.key] \notin {<< >>, ContentOf(m)}
       \/ m.at = "inside" /\ Inside(m.cmd.key) # {m}
    /\ Answer(m, "error")
    /\ UNCHANGED ledger

\* The stored answer reaches the end of its life, no sooner than the next day.
AnswerExpires(key) ==
    /\ Fault("answer expires")
    /\ today > 1 /\ answers[key] # << >>
    /\ answers' = [answers EXCEPT ![key] = << >>]
    /\ lapse' = Twice(key)
    /\ UNCHANGED <<tables, inbox, reply, txn, redis, pc, req, code, cur, seen, sent, today>>

\* Mutant of Return: the envelope of a success is not recognised.
ReturnError(h) ==
    /\ pc[h] = "wait"
    /\ reply[h] # "none"
    /\ reply' = [reply EXCEPT ![h] = "none"]
    /\ Goto(h, "error")
    /\ UNCHANGED <<ledger, inbox, txn, redis, req, code, cur, seen, sent, today>>

Return(h) ==
    /\ pc[h] = "wait"
    /\ reply[h] # "none"
    /\ reply' = [reply EXCEPT ![h] = "none"]
    /\ Goto(h, IF reply[h] = "ok" THEN "done" ELSE "error")
    /\ UNCHANGED <<ledger, inbox, txn, redis, req, code, cur, seen, sent, today>>

Abandoned(h) == {IF m.from = h THEN [m EXCEPT !.from = Nobody] ELSE m : m \in inbox}

\* Mutant of Timeout: the client waits for ever.
TimeoutNever(h) == FALSE /\ UNCHANGED vars

\* Mutant of Timeout: the abandoned call can still answer the next request.
TimeoutKeepsCall(h) ==
    /\ Fault("slow ledger")
    /\ pc[h] = "wait"
    /\ reply[h] = "none"
    /\ Goto(h, "error")
    /\ UNCHANGED <<ledger, inbox, txn, redis, handler, sent, today>>

\* After 10 s the client aborts; the ledger does not know.
Timeout(h) ==
    /\ Fault("slow ledger")
    /\ pc[h] = "wait"
    /\ reply[h] = "none"
    /\ inbox' = Abandoned(h)
    /\ Goto(h, "error")
    /\ UNCHANGED <<ledger, txn, redis, handler, sent, today>>

(***************************************************************************)
(* The outcome is written without looking at the row again.                *)
(***************************************************************************)
SetStatus(h, s) == txn' = [txn EXCEPT ![cur[h]].status = s]

\* Mutant of Fail: the error is passed on, the row left alone.
FailUnmarked(h) ==
    /\ pc[h] = "error"
    /\ End(h)
    /\ UNCHANGED <<ledger, inbox, txn, redis, sent, today>>

\* transfer marks its row FAILED; confirmCashIn and reverse leave theirs.
Fail(h) ==
    /\ pc[h] = "error"
    /\ IF req[h].op = "transfer" THEN SetStatus(h, "FAILED") ELSE UNCHANGED txn
    /\ End(h)
    /\ UNCHANGED <<ledger, inbox, redis, sent, today>>

Succeed(h) ==
    /\ pc[h] = "done"
    /\ IF req[h].op = "reverse"
         THEN SetStatus(h, "REVERSED") /\ End(h)
         ELSE SetStatus(h, "SUCCESS") /\ Goto(h, "publish") /\ UNCHANGED handler
    /\ UNCHANGED <<ledger, inbox, redis, sent, today>>

Publish(h) ==
    /\ pc[h] = "publish"
    /\ published' = published \cup {cur[h]}
    /\ End(h)
    /\ UNCHANGED <<ledger, inbox, txn, otp, issued, sent, today>>

Dies(h) ==
    /\ Fault("handler dies")
    /\ pc[h] # "idle"
    /\ End(h)
    /\ inbox' = Abandoned(h)
    /\ UNCHANGED <<ledger, txn, redis, sent, today>>

Midnight ==
    /\ Fault("midnight")
    /\ today < Days
    /\ today' = today + 1
    /\ UNCHANGED <<ledger, inbox, txn, redis, pc, handler, sent>>

\* Every request was sent and nothing is under way.
Quiet ==
    /\ \A h \in Handlers : pc[h] = "idle"
    /\ \A r \in setting.requests : sent[r] = setting.sends
    /\ inbox = {}
    /\ UNCHANGED vars

Step(h) ==
    \/ Lookup(h) \/ ReadBalance(h) \/ CheckLimits(h) \/ Create(h) \/ SendOtp(h)
    \/ VerifyOtp(h) \/ DeleteOtp(h) \/ Read(h)
    \/ Call(h) \/ Return(h) \/ Timeout(h)
    \/ Fail(h) \/ Succeed(h) \/ Publish(h)

LedgerStep ==
    \/ \E m \in inbox :
         \/ LedgerEnters(m) \/ LedgerPosts(m) \/ LedgerLosesCommit(m) \/ LedgerFails(m)
         \/ LedgerReplays(m) \/ LedgerRefuses(m)
    \/ \E key \in Keys : AnswerExpires(key)

Next ==
    /\ UNCHANGED setting
    /\ \/ \E h \in Handlers :
            \/ \E r \in Requests : Receive(h, r)
            \/ Step(h)
            \/ Dies(h)
       \/ LedgerStep
       \/ \E slot \in Purposes \X Wallets : OtpExpires(slot)
       \/ Midnight
       \/ Quiet

Spec == Init /\ [][Next]_vars

\* The event loop runs every handler and its timers.  Nobody owes the system a
\* request, a password, an answer of the ledger or a fault.
FairSpec == Spec /\ \A h \in Handlers : WF_vars(UNCHANGED setting /\ Step(h))

(***************************************************************************)
(* Properties.                                                             *)
(***************************************************************************)
Labels ==
    { "idle", "lookup", "balance", "limits", "create", "sendOtp", "otp", "otpDel",
      "read", "call", "wait", "error", "done", "publish" }

Row == [ status : Statuses, type : Types, key : ClientKeys, from : Wallets, to : Wallets,
         amount : Nat \ {0}, fee : Nat, day : 1..Days ]

\* Every variable has the shape declared above; a handler that waits has one
\* call on its way or one answer back, never both.
TypeOK ==
    /\ balance \in [Wallets -> Int]
    /\ \A w \in Wallets : \A i \in 1..Len(book[w]) : book[w][i] \in Entry
    /\ txn \in [Txs -> Row]
    /\ lapse \in [Keys -> Lapse]
    /\ \A m \in inbox : m.at \in {"door", "inside"}
    /\ reply \in [Handlers -> {"none", "ok", "error"}]
    /\ otp \in [Purposes \X Wallets -> Nat] /\ issued \in [Purposes \X Wallets -> Nat]
    /\ published \subseteq Txs
    /\ pc \in [Handlers -> Labels]
    /\ req \in [Handlers -> Requests \cup {NoRequest}]
    /\ cur \in [Handlers -> Txs \cup {NoTx}]
    /\ today \in 1..Days
    /\ \A h \in Handlers :
         Cardinality({m \in inbox : m.from = h}) + (IF reply[h] = "none" THEN 0 ELSE 1)
           = IF pc[h] = "wait" THEN 1 ELSE 0

\* The entries of a transaction in the ledger, its reversal's left out.
OriginalsOf(id) == PlacesOf(book, id) \ ReversalsOf(book, id)
Posted(id) == OriginalsOf(id) # {}
Mirrored(id) == ReversalsOf(book, id) # {}

\* Mirrored, or its reversal is remembered as done though its commit failed.
TakenBack(id) == Mirrored(id) \/ lapse[<<"rev", id>>] = "lost"

IsLeg(p, leg) ==
    LET e == book[p[1]][p[2]]
    IN  p[1] = leg.wallet /\ e.dir = leg.dir /\ e.amount = leg.amount /\ e.type = leg.type

\* The legs the row asks for are in the ledger, each once ...
PostedAsAsked(id) ==
    LET legs == LegsOf(CommandUnder(<<"tx", id>>, id))
    IN  /\ Cardinality(OriginalsOf(id)) = Len(legs)
        /\ \A j \in 1..Len(legs) : \E p \in OriginalsOf(id) : IsLeg(p, legs[j])

\* ... or at any rate nothing is there that it does not ask for.
OnlyAsAsked(id) ==
    LET legs == LegsOf(CommandUnder(<<"tx", id>>, id))
    IN  \A p \in OriginalsOf(id) : \E j \in 1..Len(legs) : IsLeg(p, legs[j])

\* A transfer is posted as its row asks: its ledger key is that of one call.  A
\* cash-in may be confirmed again under its key, so it is credited once as long as
\* the ledger's memory of the key held, at least once when calls got past it, and
\* perhaps not at all when the answer outlived the posting.
AsAsked(id) ==
    LET how == lapse[<<"tx", id>>]
    IN  IF txn[id].type = "transfer" \/ how = "none"
          THEN PostedAsAsked(id)
          ELSE OnlyAsAsked(id) /\ (how = "twice" => Posted(id))

\* A transaction api-core calls SUCCESS or REVERSED, or has announced, is in the
\* ledger as its row says, and a REVERSED one is mirrored there: whatever was
\* lost, late or answered with an error on the way (transfer, confirmCashIn,
\* reverse write the outcome after the call, without a second look).
SuccessIsPosted ==
    \A id \in Txs :
        /\ txn[id].status \in {"SUCCESS", "REVERSED"} \/ id \in published => AsAsked(id)
        /\ txn[id].status = "REVERSED" => TakenBack(id)

\* Of the rows that requests with one client key made, even when their lookups all
\* come before the first INSERT, one at most moves money, and as it asks: a transfer
\* once, a cash-in once however often it is confirmed, with one password or with two,
\* unless two of its calls were inside the ledger at once, its answer expired or the
\* commit behind it failed.
OncePerKey ==
    \A i \in Txs : Posted(i) =>
      AsAsked(i) /\ \A j \in Txs : Posted(j) /\ txn[i].key = txn[j].key => i = j

\* A transaction reported FAILED has moved no money: transfer's catch block is
\* commented "échec -> FAILED".
FailedIsUnposted == \A id \in Txs : txn[id].status = "FAILED" => ~Posted(id)

\* The same, where the ledger answers in time.
FailedIsUnpostedInTime == ~Fault("slow ledger") => FailedIsUnposted

\* What a sender's transfers of a day moved in the ledger, and no reversal has moved
\* back or is remembered to have, stays within the daily limit that was checked before
\* each of them.
Moved(w, d) ==
    { i \in Txs : /\ Posted(i) /\ ~TakenBack(i) /\ txn[i].type = "transfer"
                  /\ txn[i].from = w /\ txn[i].day = d }

WithinLimit ==
    \A w \in Wallets, d \in 1..Days :
        MapThenSumSet(LAMBDA i : txn[i].amount, Moved(w, d)) <= Limits.daily

\* The same, one request at a time, with a ledger that answers in time and handlers
\* that live to write what it answered.
WithinLimitOneByOne ==
    {"overlap", "slow ledger", "handler dies"} \cap setting.faults = {} => WithinLimit

\* The ledger undoes only what api-core had called a success: no reversal slips
\* in while the row is still PENDING or after it FAILED.
MirroredIsOfSuccess ==
    \A id \in Txs : Mirrored(id) => txn[id].status \in {"SUCCESS", "REVERSED"}

\* The rows and the books tell the same: a SUCCESS that was answered or announced is
\* posted as asked, REVERSED is mirrored, what is mirrored was a SUCCESS, and with a
\* ledger that answers in time a FAILED row has moved nothing.  The ledger's lapses,
\* findings of LedgerWrite, reach what is called again under one key, cash-ins and
\* reversals, and no transfer.
RowsAgree == SuccessIsPosted /\ MirroredIsOfSuccess /\ FailedIsUnpostedInTime

Moves(id, a, b) == a # b /\ txn[id].status = a /\ txn'[id].status = b

\* A transfer is created PENDING, ends SUCCESS or FAILED, and only a SUCCESS is
\* REVERSED, although no write looks at the status it replaces: what each handler
\* read before its ledger call still holds after it.
StatusOrder ==
    [][\A id \in Txs, a, b \in Statuses :
         Moves(id, a, b) /\ txn'[id].type = "transfer" =>
           <<a, b>> \in { <<"NONE", "PENDING">>, <<"PENDING", "SUCCESS">>,
                          <<"PENDING", "FAILED">>, <<"SUCCESS", "REVERSED">> }]_vars

\* REVERSED is final: transaction-state.ts gives it no successor.
ReversedIsFinal ==
    [][\A id \in Txs : txn[id].status = "REVERSED" => txn'[id].status = "REVERSED"]_vars

\* Every request is answered, with a ledger that may never answer.
Answered == \A h \in Handlers : pc[h] # "idle" ~> pc[h] = "idle"

PendingTransfers == {id \in Txs : txn[id].status = "PENDING" /\ txn[id].type = "transfer"}

\* A PENDING transfer is settled one way or the other.
TransfersSettle == \A id \in Txs : id \in PendingTransfers ~> id \notin PendingTransfers
=============================================================================
