---------------------------- MODULE LedgerWrite -----------------------------
(***************************************************************************)
(* LedgerWriteService: transferAtomic, credit, debit and reverse, run by   *)
(* concurrent request threads over one Postgres database (SERIALIZABLE,    *)
(* rows of ledger_balances locked FOR UPDATE), one Redis that holds the    *)
(* idempotency keys, and RabbitMQ, which hears of a transfer or a reversal *)
(* after the commit.                                                       *)
(*                                                                         *)
(* A thread's database snapshot is taken by its first SQL statement.  It   *)
(* is modelled by stale[t], the rows other transactions committed since:   *)
(* under SERIALIZABLE, locking such a row fails (SQLSTATE 40001).          *)
(***************************************************************************)
EXTENDS LedgerCommands, SequencesExt

CONSTANTS
    Threads,     \* request threads
    NoThread,    \* owner of a row nobody locks
    NoCommand,   \* command of an idle thread
    Settings     \* the environments to consider, see Setting

FaultKinds ==
    { "overlap",          \* a command is sent again while it still runs
      "db error",         \* a statement fails: lost connection, timeout
      "commit failure",   \* the commit itself fails: serialization, flush
      "crash",            \* the process dies between two steps
      "claim outlived",   \* a request runs longer than the 30 s of its claim
      "result expiry",    \* the 24 h of a stored result elapse
      "broker down",      \* publishing to the exchange fails
      "dlq down" }        \* publishing to the dead-letter exchange fails

\* An environment: what it may do, the commands its clients send, and the bound
\* on how often one command is sent.
Setting == [faults : SUBSET FaultKinds, commands : SUBSET Commands, sends : Nat]

ASSUME ThreadsAssumption ==
    /\ NoThread \notin Threads
    /\ NoCommand \notin Commands
    /\ Settings \subseteq Setting

\* A transaction id stands for one posting and for one reversal of it: api-core draws
\* the id with its row and takes the kind, the parties and the amount of its calls
\* from that row, and the key from the id.
ASSUME TxsAssumption ==
    \A s \in Settings : \A c, d \in s.commands :
        c.tx = d.tx /\ (c.kind = "reverse" <=> d.kind = "reverse") => c = d

VARIABLES
    setting,    \* the environment this behaviour runs in; never changes
    balance,    \* ledger_balances, committed
    book,       \* ledger_entries, committed
    owner,      \* wallet -> thread holding the row lock
    idem,       \* Redis: key -> absent, CLAIMED or RESULT of a command
    pc,         \* thread -> where it is
    cmd,        \* thread -> the command it serves
    locks,      \* thread -> rows a transfer has still to lock up front
    plan,       \* thread -> legs still to post
    work,       \* thread -> wallet -> balance of the loaded entity
    fresh,      \* thread -> wallet -> entries it will insert
    stale,      \* thread -> rows committed by others since its snapshot
    sent,       \* command -> how often it was sent
    acked,      \* commands a client got a success answer for
    events      \* what left for RabbitMQ: exchange and dead-letter exchange

tables == <<balance, book>>
private == <<locks, plan, work, fresh>>
client == <<sent, acked>>
vars == <<setting, balance, book, owner, idem, pc, cmd, locks, plan, work, fresh,
          stale, sent, acked, events>>

Absent  == [state |-> "ABSENT", of |-> NoCommand]
Claimed == [state |-> "CLAIMED", of |-> NoCommand]
ResultOf(c) == [state |-> "RESULT", of |-> c]

Held(t) == {w \in Wallets : owner[w] = t}
Empty == [w \in Wallets |-> << >>]
Zero == [w \in Wallets |-> 0]

\* Where a thread is inside its database transaction with a snapshot taken.
InTransaction == {"locking", "checking", "posting", "commit", "failing", "rollback"}
\* Where a thread has claimed its key and not yet ended.
Claiming == {"begin"} \cup InTransaction

Fault(kind) == kind \in setting.faults

Init ==
    /\ setting \in Settings
    /\ balance = Opening
    /\ book = Empty
    /\ owner = [w \in Wallets |-> NoThread]
    /\ idem = [k \in Keys |-> Absent]
    /\ pc = [t \in Threads |-> "idle"]
    /\ cmd = [t \in Threads |-> NoCommand]
    /\ locks = [t \in Threads |-> << >>]
    /\ plan = [t \in Threads |-> << >>]
    /\ work = [t \in Threads |-> Zero]
    /\ fresh = [t \in Threads |-> Empty]
    /\ stale = [t \in Threads |-> {}]
    /\ sent = [c \in Commands |-> 0]
    /\ acked = {}
    /\ events = {}

\* Transfers and reversals are announced, cash-in and cash-out are not.
Announced(c) == c.kind \in {"transfer", "reverse"}

\* The event publishCompleted or publishReversed sends.
EventOf(c, route) == [tx |-> c.tx, kind |-> c.kind, route |-> route]

Goto(t, label) == pc' = [pc EXCEPT ![t] = label]

\* The request is over: the thread's stack and persistence context are gone.
Forget(t) ==
    /\ Goto(t, "idle")
    /\ cmd' = [cmd EXCEPT ![t] = NoCommand]
    /\ locks' = [locks EXCEPT ![t] = << >>]
    /\ plan' = [plan EXCEPT ![t] = << >>]
    /\ work' = [work EXCEPT ![t] = Zero]
    /\ fresh' = [fresh EXCEPT ![t] = Empty]

Unlock(t) == owner' = [w \in Wallets |-> IF owner[w] = t THEN NoThread ELSE owner[w]]

NoSnapshot(t) == stale' = [stale EXCEPT ![t] = {}]

(***************************************************************************)
(* The request arrives, and its idempotency key is looked up and claimed   *)
(* in three separate Redis calls, all before the try block.                *)
(***************************************************************************)
Receive(t, c) ==
    /\ pc[t] = "idle"
    /\ c \in setting.commands
    /\ sent[c] < setting.sends
    /\ \/ Fault("overlap")
       \/ \A u \in Threads : pc[u] # "idle" => cmd[u].key # c.key
    /\ sent' = [sent EXCEPT ![c] = @ + 1]
    /\ cmd' = [cmd EXCEPT ![t] = c]
    /\ Goto(t, "cache")
    /\ UNCHANGED <<tables, owner, idem, private, stale, acked, events>>

\* getCached: a stored result is the answer, another command's is a conflict.
CheckCache(t) ==
    /\ pc[t] = "cache"
    /\ IF idem[cmd[t].key].state = "RESULT"
         THEN /\ acked' = IF idem[cmd[t].key].of = cmd[t]
                            THEN acked \cup {cmd[t]} ELSE acked
              /\ Forget(t)
         ELSE /\ Goto(t, "claim")
              /\ UNCHANGED <<acked, cmd, private>>
    /\ UNCHANGED <<tables, owner, idem, stale, sent, events>>

\* claim, its GET: a result that appeared meanwhile counts as a free key.
ClaimGet(t) ==
    LET seen == idem[cmd[t].key]
    IN  /\ pc[t] = "claim"
        /\ CASE seen.state = "ABSENT" ->
                  Goto(t, "setnx") /\ UNCHANGED <<cmd, private>>
             [] seen.state = "RESULT" /\ seen.of = cmd[t] ->
                  Goto(t, "begin") /\ UNCHANGED <<cmd, private>>
             [] OTHER -> Forget(t)
        /\ UNCHANGED <<tables, owner, idem, stale, client, events>>

\* claim, its SET NX.
ClaimSet(t) ==
    /\ pc[t] = "setnx"
    /\ IF idem[cmd[t].key] = Absent
         THEN /\ idem' = [idem EXCEPT ![cmd[t].key] = Claimed]
              /\ Goto(t, "begin")
              /\ UNCHANGED <<cmd, private>>
         ELSE Forget(t) /\ UNCHANGED idem
    /\ UNCHANGED <<tables, owner, stale, client, events>>

(***************************************************************************)
(* Inside the try block.  The first statement takes the snapshot.          *)
(***************************************************************************)
\* A transfer locks sender, recipient and, if there is a fee, the platform.
LocksOf(c) == <<c.from, c.to>> \o IF c.fee > 0 THEN <<c.fees>> ELSE << >>

BeginPosting(t) ==
    /\ pc[t] = "begin"
    /\ cmd[t].kind # "reverse"
    /\ IF cmd[t].kind = "transfer"
         THEN Goto(t, "locking") /\ locks' = [locks EXCEPT ![t] = LocksOf(cmd[t])]
         ELSE Goto(t, "posting") /\ UNCHANGED locks
    /\ plan' = [plan EXCEPT ![t] = LegsOf(cmd[t])]
    /\ NoSnapshot(t)
    /\ UNCHANGED <<tables, owner, idem, cmd, work, fresh, client, events>>

\* reverse reads the originals, in no stated order, and looks for mirrors.
BeginReversal(t) ==
    LET places == PlacesOf(book, cmd[t].tx)
    IN  /\ pc[t] = "begin"
        /\ cmd[t].kind = "reverse"
        /\ IF places = {} \/ ReversalsOf(book, cmd[t].tx) # {}
             THEN Goto(t, "failing") /\ UNCHANGED plan
             ELSE /\ Goto(t, "posting")
                  /\ \E order \in SetToSeqs(places) :
                       plan' = [plan EXCEPT ![t] =
                         [i \in 1..Len(order) |->
                            MirrorOf(order[i][1], book[order[i][1]][order[i][2]])]]
        /\ NoSnapshot(t)
        /\ UNCHANGED <<tables, owner, idem, cmd, locks, work, fresh, client, events>>

\* Row locks and snapshots: nobody else holds the row; somebody committed it
\* since the snapshot.
FreeAsIfUnlocked(t, w) == TRUE  \* mutant: findById without the lock
Free(t, w) == owner[w] \in {NoThread, t}

ChangedUnseen(t, w) == FALSE  \* mutant: READ COMMITTED
Changed(t, w) == w \in stale[t]

\* The row the thread's next statement asks for, if it asks for one.
Wanted(t) ==
    IF pc[t] = "locking" THEN {Head(locks[t])}
    ELSE IF pc[t] = "posting" /\ plan[t] # << >>
      THEN {Head(plan[t]).wallet} \ Held(t)
      ELSE {}

\* requireBalance: SELECT ... FOR UPDATE of a row nobody else holds and that
\* did not change since the snapshot.  A row already held is the same entity.
LockRow(t) ==
    \E w \in Wanted(t) \cap Wallets :
        /\ Free(t, w)
        /\ ~Changed(t, w)
        /\ owner' = [owner EXCEPT ![w] = t]
        /\ work' = IF owner[w] = t THEN work ELSE [work EXCEPT ![t][w] = balance[w]]
        /\ IF pc[t] = "locking"
             THEN /\ locks' = [locks EXCEPT ![t] = Tail(@)]
                  /\ Goto(t, IF Len(locks[t]) = 1 THEN "checking" ELSE "locking")
             ELSE UNCHANGED <<locks, pc>>
        /\ UNCHANGED <<tables, idem, cmd, plan, fresh, stale, client, events>>

\* No such wallet, or the row changed since the snapshot.
LockFails(t) ==
    /\ \E w \in Wanted(t) :
         w \in Wallets => Free(t, w) /\ Changed(t, w)
    /\ Goto(t, "failing")
    /\ UNCHANGED <<tables, owner, idem, cmd, private, stale, client, events>>

\* Postgres ends one transaction of a cycle of lock waits.
WaitsFor(t) == {owner[w] : w \in Wanted(t) \cap Wallets} \ {NoThread, t}

InWaitCycle(t) ==
    /\ WaitsFor(t) # {}
    /\ \E S \in SUBSET Threads : t \in S /\ S = UNION {WaitsFor(u) : u \in S}

DeadlockVictim(t) ==
    /\ InWaitCycle(t)
    /\ Goto(t, "failing")
    /\ UNCHANGED <<tables, owner, idem, cmd, private, stale, client, events>>

\* amount + fee against what the sender has available (nothing is ever
\* frozen: freeze and unfreeze have no caller).
CheckFunds(t) ==
    /\ pc[t] = "checking"
    /\ Goto(t, IF TotalDebit(cmd[t]) > work[t][cmd[t].from]
                 THEN "failing" ELSE "posting")
    /\ UNCHANGED <<tables, owner, idem, cmd, private, stale, client, events>>

\* One leg on the loaded entity: LedgerBalance.debit/credit, LedgerEntry.create.
PostLeg(t) ==
    /\ pc[t] = "posting"
    /\ plan[t] # << >>
    /\ Head(plan[t]).wallet \in Held(t)
    /\ LET leg == Head(plan[t])
           entry == EntryOf(cmd[t].tx, leg, work[t][leg.wallet])
       IN  IF Covered(leg, work[t][leg.wallet])
             THEN /\ work' = [work EXCEPT ![t][leg.wallet] = entry.after]
                  /\ fresh' = [fresh EXCEPT ![t][leg.wallet] = Append(@, entry)]
                  /\ plan' = [plan EXCEPT ![t] = Tail(@)]
                  /\ UNCHANGED pc
             ELSE Goto(t, "failing") /\ UNCHANGED <<work, fresh, plan>>
    /\ UNCHANGED <<tables, owner, idem, cmd, locks, stale, client, events>>

\* Mutant of StoreResult: the answer is not remembered.
StoreNothing(t) ==
    /\ pc[t] = "posting" /\ plan[t] = << >>
    /\ Goto(t, "commit")
    /\ UNCHANGED <<tables, owner, idem, cmd, private, stale, client, events>>

\* Mutant of StoreResult: the result is written before the legs are posted.
StoreEarly(t) ==
    /\ pc[t] = "posting"
    /\ plan[t] = << >> \/ idem[cmd[t].key] # ResultOf(cmd[t])
    /\ idem' = [idem EXCEPT ![cmd[t].key] = ResultOf(cmd[t])]
    /\ Goto(t, IF plan[t] = << >> THEN "commit" ELSE "posting")
    /\ UNCHANGED <<tables, owner, cmd, private, stale, client, events>>

\* saveAll only marks the entities; the result goes to Redis before the commit.
StoreResult(t) ==
    /\ pc[t] = "posting"
    /\ plan[t] = << >>
    /\ idem' = [idem EXCEPT ![cmd[t].key] = ResultOf(cmd[t])]
    /\ Goto(t, "commit")
    /\ UNCHANGED <<tables, owner, cmd, private, stale, client, events>>

(***************************************************************************)
(* After the method returned: commit, then the afterCommit callback.       *)
(***************************************************************************)
Commit(t) ==
    /\ pc[t] = "commit"
    /\ balance' = [w \in Wallets |-> IF w \in Held(t) THEN work[t][w] ELSE balance[w]]
    /\ book' = [w \in Wallets |-> book[w] \o fresh[t][w]]
    /\ stale' = [u \in Threads |->
                   IF u # t /\ pc[u] \in InTransaction THEN stale[u] \cup Held(t) ELSE {}]
    /\ Unlock(t)
    /\ IF Announced(cmd[t])
         THEN /\ Goto(t, "publish")
              /\ fresh' = [fresh EXCEPT ![t] = Empty]
              /\ UNCHANGED <<cmd, locks, plan, work, acked>>
         ELSE Forget(t) /\ acked' = acked \cup {cmd[t]}
    /\ UNCHANGED <<idem, sent, events>>

\* The exception rises outside the try block: the key is not released.
CommitFails(t) ==
    /\ Fault("commit failure")
    /\ pc[t] = "commit"
    /\ Unlock(t)
    /\ NoSnapshot(t)
    /\ Forget(t)
    /\ UNCHANGED <<tables, idem, client, events>>

\* Mutant of Publish: a failed send is only logged.
PublishOrLog(t) ==
    /\ pc[t] = "publish"
    /\ \/ events' = events \cup {EventOf(cmd[t], "exchange")}
       \/ Fault("broker down") /\ UNCHANGED events
    /\ acked' = acked \cup {cmd[t]}
    /\ Forget(t)
    /\ UNCHANGED <<tables, owner, idem, stale, sent>>

\* The exchange, else the dead-letter exchange, else only the log.
Publish(t) ==
    /\ pc[t] = "publish"
    /\ \/ events' = events \cup {EventOf(cmd[t], "exchange")}
       \/ Fault("broker down") /\ events' = events \cup {EventOf(cmd[t], "dlq")}
       \/ Fault("broker down") /\ Fault("dlq down") /\ UNCHANGED events
    /\ acked' = acked \cup {cmd[t]}
    /\ Forget(t)
    /\ UNCHANGED <<tables, owner, idem, stale, sent>>

(***************************************************************************)
(* The error path: the catch block releases the key, then the transaction  *)
(* interceptor rolls back.                                                 *)
(***************************************************************************)
DbError(t) ==
    /\ Fault("db error")
    /\ pc[t] \in {"begin", "locking", "posting"}
    /\ Goto(t, "failing")
    /\ UNCHANGED <<tables, owner, idem, cmd, private, stale, client, events>>

Release(t) ==
    /\ pc[t] = "failing"
    /\ idem' = [idem EXCEPT ![cmd[t].key] = Absent]
    /\ Goto(t, "rollback")
    /\ UNCHANGED <<tables, owner, cmd, private, stale, client, events>>

\* Mutant of Rollback: the victim of a deadlock starts over.
RollbackAndRetry(t) ==
    /\ pc[t] = "rollback"
    /\ Unlock(t)
    /\ NoSnapshot(t)
    /\ Goto(t, "cache")
    /\ locks' = [locks EXCEPT ![t] = << >>]
    /\ plan' = [plan EXCEPT ![t] = << >>]
    /\ work' = [work EXCEPT ![t] = Zero]
    /\ fresh' = [fresh EXCEPT ![t] = Empty]
    /\ UNCHANGED <<tables, idem, cmd, client, events>>

Rollback(t) ==
    /\ pc[t] = "rollback"
    /\ Unlock(t)
    /\ NoSnapshot(t)
    /\ Forget(t)
    /\ UNCHANGED <<tables, idem, client, events>>

\* The process dies; Postgres rolls its transaction back, Redis keeps the key.
Crash(t) ==
    /\ Fault("crash")
    /\ pc[t] # "idle"
    /\ Unlock(t)
    /\ NoSnapshot(t)
    /\ Forget(t)
    /\ UNCHANGED <<tables, idem, client, events>>

(***************************************************************************)
(* Redis expires a claim after 30 s and a result after 24 h.  Without the  *)
(* fault "claim outlived" a claim expires only once nobody works under it. *)
(***************************************************************************)
\* Mutant of ExpireClaim: a claim without its short TTL.
ExpireClaimNever(k) == FALSE /\ UNCHANGED vars

ExpireClaim(k) ==
    /\ idem[k] = Claimed
    /\ \/ Fault("claim outlived")
       \/ \A t \in Threads : pc[t] \in Claiming => cmd[t].key # k
    /\ idem' = [idem EXCEPT ![k] = Absent]
    /\ UNCHANGED <<tables, owner, pc, cmd, private, stale, client, events>>

ExpireResult(k) ==
    /\ Fault("result expiry")
    /\ idem[k].state = "RESULT"
    /\ idem' = [idem EXCEPT ![k] = Absent]
    /\ UNCHANGED <<tables, owner, pc, cmd, private, stale, client, events>>

\* Every client has had its say: the server sits idle.
Quiet ==
    /\ \A t \in Threads : pc[t] = "idle"
    /\ \A c \in setting.commands : sent[c] = setting.sends
    /\ UNCHANGED vars

\* What a thread, Redis and Postgres do by themselves, no fault among them.
Step(t) ==
    \/ CheckCache(t) \/ ClaimGet(t) \/ ClaimSet(t)
    \/ BeginPosting(t) \/ BeginReversal(t)
    \/ LockRow(t) \/ LockFails(t) \/ DeadlockVictim(t)
    \/ CheckFunds(t) \/ PostLeg(t) \/ StoreResult(t)
    \/ Commit(t) \/ Publish(t) \/ Release(t) \/ Rollback(t)

Next ==
    /\ UNCHANGED setting
    /\ \/ \E t \in Threads :
            \/ \E c \in Commands : Receive(t, c)
            \/ Step(t)
            \/ DbError(t) \/ CommitFails(t) \/ Crash(t)
       \/ \E k \in Keys : ExpireClaim(k) \/ ExpireResult(k)
       \/ Quiet

Spec == Init /\ [][Next]_vars

\* Threads run, Postgres hands a freed row to a waiter and breaks deadlocks,
\* Redis expires what is due.  Nobody owes the system a request or a fault.
FairSpec ==
    /\ Spec
    /\ \A t \in Threads : WF_vars(UNCHANGED setting /\ Step(t))
    /\ \A k \in Keys : WF_vars(UNCHANGED setting /\ ExpireClaim(k))

-----------------------------------------------------------------------------
(***************************************************************************)
(* Properties.                                                             *)
(***************************************************************************)
Labels == {"idle", "cache", "claim", "setnx", "publish"} \cup Claiming

\* The shape of the state: tables, locks, Redis values and thread stacks.
TypeOK ==
    /\ balance \in [Wallets -> Int]
    /\ book \in [Wallets -> Seq(Entry)]
    /\ owner \in [Wallets -> Threads \cup {NoThread}]
    /\ idem \in [Keys -> [ state : {"ABSENT", "CLAIMED", "RESULT"},
                           of : Commands \cup {NoCommand} ]]
    /\ pc \in [Threads -> Labels]
    /\ cmd \in [Threads -> Commands \cup {NoCommand}]
    /\ \A t \in Threads : pc[t] # "idle" => cmd[t] \in Commands
    /\ locks \in [Threads -> Seq(WalletIds)]
    /\ plan \in [Threads -> Seq(Leg)]
    /\ work \in [Threads -> [Wallets -> Int]]
    /\ fresh \in [Threads -> [Wallets -> Seq(Entry)]]
    /\ stale \in [Threads -> SUBSET Wallets]
    /\ sent \in [Commands -> Nat]
    /\ acked \subseteq Commands
    /\ events \subseteq [tx : Txs, kind : Kinds, route : {"exchange", "dlq"}]

\* The books audit at any moment, whatever the threads are in the middle of:
\* each wallet's entries form one unbroken chain from its opening balance, and
\* the stored balance is where the chain ends.  A posting computed from a
\* balance another transaction has since replaced would break it.
AuditChain ==
    \A w \in Wallets :
        /\ Chained(book[w], Opening[w])
        /\ balance[w] = EndOf(book[w], Opening[w])

\* No committed balance, stored or recorded by an entry, is ever negative: the
\* funds check reads the balance the posting is applied to.
NonNegative ==
    \A w \in Wallets :
        /\ balance[w] >= 0
        /\ \A i \in 1..Len(book[w]) : book[w][i].after >= 0

\* Once a transaction has a mirror entry, no further one is ever written, not
\* even by a second reversal that looked for mirrors before the first committed.
NoSecondReversal ==
    [][\A tx \in Txs : ReversalsOf(book, tx) # {} =>
         ReversalsOf(book, tx)' = ReversalsOf(book, tx)]_vars

Signed(p) == LET e == book[p[1]][p[2]]
             IN  IF e.dir = "CREDIT" THEN e.amount ELSE -e.amount

\* Double entry: what the committed entries of a transfer take from some wallets
\* they give to others, mirrors included, so a transfer is never half posted.
TransfersBalance ==
    \A c \in setting.commands : c.kind = "transfer" =>
        MapThenSumSet(Signed, PlacesOf(book, c.tx)) = 0

OriginalsOf(tx) == PlacesOf(book, tx) \ ReversalsOf(book, tx)

Posted(c) == IF c.kind = "reverse" THEN ReversalsOf(book, c.tx) # {}
                                   ELSE OriginalsOf(c.tx) # {}

TellsOf(e, c) == e.tx = c.tx /\ e.kind = c.kind

\* An event that went out tells of something the tables hold; and what is posted was
\* announced, on the exchange or on the dead-letter exchange, or is just about to be,
\* unless the process died or both exchanges are down.
EventsTellPostings ==
    /\ \A e \in events : \E c \in setting.commands : TellsOf(e, c) /\ Posted(c)
    /\ {"crash", "dlq down"} \cap setting.faults = {} => \A c \in setting.commands :
         Announced(c) /\ Posted(c) /\ (\A t \in Threads : pc[t] = "publish" => cmd[t] # c)
           => \E e \in events : TellsOf(e, c)

\* One key, one result ("un seul passe"): the command behind a key is posted at most once, however
\* often it is retried and wherever its earlier attempts failed or died.
PostedOnce ==
    \A c \in setting.commands : c.kind # "reverse" =>
        Cardinality(OriginalsOf(c.tx)) <= Len(LegsOf(c))

\* The conditions the keys rely on: a client retries only after its first call
\* ended and within a day, and no call outlives its claim.
ClientsWait == {"overlap", "claim outlived", "result expiry"} \cap setting.faults = {}

\* Under these conditions a key stands for one posting: its command is posted once,
\* and of two commands that share it one at most.
OnePostingPerKey ==
    ClientsWait =>
      /\ PostedOnce
      /\ \A c, d \in setting.commands : c.key = d.key /\ Posted(c) /\ Posted(d) => c = d

\* A stored result is the result of a posting, the thread about to commit aside:
\* a client that gets a success answer can rely on it.
ResultIsPosted ==
    \A k \in Keys :
        idem[k].state = "RESULT"
        /\ (\A t \in Threads : pc[t] = "commit" => cmd[t].key # k)
          => Posted(idem[k].of)

\* A stored result outlives its thread.  As long as a transaction that got as far as
\* its commit commits, it is true, and what a client was told is done, is done:
\* replayed answers included.  Only a call that overlaps the one it repeats may hear
\* of the posting while it is being committed.
AnswersAreTrue ==
    {"commit failure", "crash"} \cap setting.faults = {} =>
      /\ ResultIsPosted
      /\ \A c \in acked :
           \/ Posted(c)
           \/ Fault("overlap") /\ \E t \in Threads : pc[t] = "commit" /\ cmd[t] = c

\* Every request is answered: lock queues drain and deadlocks are broken.
Answered == \A t \in Threads : pc[t] # "idle" ~> pc[t] = "idle"

\* A claim never outlives its request for good: a key whose process died is
\* free again, or holds a result.
ClaimsEnd == \A k \in Keys : idem[k] = Claimed ~> idem[k] # Claimed

\* The tables behave as if one clerk posted the commands one by one.
Book == INSTANCE LedgerBook WITH balance <- balance, book <- book
ImplementsBook == Book!Spec
=============================================================================
