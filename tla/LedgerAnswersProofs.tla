------------------------- MODULE LedgerAnswersProofs -------------------------
(***************************************************************************)
(* What LedgerWrite tells its clients and RabbitMQ agrees with what its    *)
(* tables hold, for every environment.                                     *)
(***************************************************************************)
EXTENDS LedgerWriteProofs

-----------------------------------------------------------------------------
(***************************************************************************)
(* The inductive invariants.                                               *)
(***************************************************************************)
\* Two commands ask for the same posting, or for the same reversal.
SamePosting(c, d) == c.tx = d.tx /\ (c.kind = "reverse" <=> d.kind = "reverse")

\* The entries a command asks for are there.
Written(b, c) ==
    \E w \in Wallets : \E i \in 1..Len(b[w]) :
        b[w][i].tx = c.tx /\ (b[w][i].type = "REVERSAL" <=> c.kind = "reverse")

\* Where a thread has its plan and has not posted all of it.
Planned == {"locking", "checking", "posting"}

\* A thread serves a command its environment sends.
CommandsGiven ==
    /\ setting \in Settings
    /\ \A t \in Threads : pc[t] # "idle" => cmd[t] \in setting.commands

\* A reversal writes mirrors and nothing else.
MirrorsOnly ==
    \A t \in Threads : pc[t] # "idle" /\ cmd[t].kind = "reverse" =>
        /\ pc[t] \in Planned =>
             \A i \in 1..Len(plan[t]) : plan[t][i].type = "REVERSAL"
        /\ \A w \in Wallets : \A i \in 1..Len(fresh[t][w]) : fresh[t][w][i].type = "REVERSAL"

HasPage(t) == \E w \in Wallets : fresh[t][w] # << >>

\* No transaction is empty: what reaches its commit has entries to insert.
WorkToDo ==
    \A t \in Threads :
        /\ pc[t] \in Planned => plan[t] # << >> \/ HasPage(t)
        /\ pc[t] = "commit" => HasPage(t)

\* A thread publishes what it has committed, and every event was published.
PublishedPosted ==
    /\ \A t \in Threads : pc[t] = "publish" => Written(book, cmd[t])
    /\ \A e \in events : \E c \in setting.commands : TellsOf(e, c) /\ Written(book, c)

\* What is posted was announced, or its thread is about to announce it.
PostedPublished ==
    {"crash", "dlq down"} \cap setting.faults = {} => \A c \in setting.commands :
        Announced(c) /\ Written(book, c) =>
          \/ \E t \in Threads : pc[t] = "publish" /\ cmd[t] = c
          \/ \E e \in events : TellsOf(e, c)

EventsInv == CommandsGiven /\ MirrorsOnly /\ WorkToDo /\ PublishedPosted /\ PostedPublished

Committing(c) == \E t \in Threads : pc[t] = "commit" /\ cmd[t] = c

CommitsHappen == {"commit failure", "crash"} \cap setting.faults = {}

\* A stored result names a command of its key, posted or about to be.
ResultsStand ==
    \A k \in Keys : idem[k].state = "RESULT" =>
        /\ idem[k].of \in setting.commands /\ idem[k].of.key = k
        /\ CommitsHappen => Written(book, idem[k].of) \/ Committing(idem[k].of)

\* Without overlap two requests under way have different keys.
NoTwins ==
    ~Fault("overlap") => \A t, u \in Threads :
        t # u /\ pc[t] # "idle" /\ pc[u] # "idle" => cmd[t].key # cmd[u].key

AckedPosted ==
    CommitsHappen => \A c \in acked :
        c \in setting.commands /\ (Written(book, c) \/ (Fault("overlap") /\ Committing(c)))

AnswersInv == ResultsStand /\ NoTwins /\ AckedPosted

\* Where a thread works under its claim.
Working == {"begin", "failing"} \cup Planned

\* While clients wait, a thread at work holds the claim of its key, and a key
\* with a result is not claimed anew.
ClaimsHeld ==
    ClientsWait => \A t \in Threads :
        /\ pc[t] \in {"claim", "setnx"} => idem[cmd[t].key].state # "RESULT"
        /\ pc[t] \in Working => idem[cmd[t].key] = Claimed
        /\ pc[t] = "commit" =>
             idem[cmd[t].key] = ResultOf(cmd[t]) /\ ~Written(book, cmd[t])

\* While clients wait, the result of a posting stays in Redis.
ResultsStay ==
    ClientsWait => \A c \in setting.commands :
        Written(book, c) => idem[c.key] = ResultOf(c)

KeysInv == ClaimsHeld /\ ResultsStay

\* What a thread has posted and what it has still to post are the legs of its command.
LegsCounted ==
    \A t \in Threads :
        pc[t] \in Planned \cup {"commit"} /\ cmd[t].kind # "reverse" =>
          Cardinality(PlacesOf(fresh[t], cmd[t].tx)) + Len(plan[t]) = Len(LegsOf(cmd[t]))

\* While clients wait, a command is posted once.
CountInv == ClientsWait => PostedOnce
-----------------------------------------------------------------------------
(***************************************************************************)
(* What a step leaves alone.                                               *)
(***************************************************************************)
\* Only t moves.
Alone(t) ==
    \A u \in Threads : u # t =>
        pc'[u] = pc[u] /\ cmd'[u] = cmd[u] /\ plan'[u] = plan[u] /\ fresh'[u] = fresh[u]

\* A step of t between two points where neither tables nor events are written.
MinorStep(t) ==
    /\ pc[t] # "idle"
    /\ Alone(t)
    /\ UNCHANGED <<book, events>>
    /\ pc'[t] \notin {"commit", "publish"}
    /\ pc'[t] = "idle" \/ (cmd'[t] = cmd[t] /\ fresh'[t] = fresh[t])
    /\ pc'[t] \in Planned => pc[t] \in Planned /\ plan'[t] = plan[t]
    /\ pc[t] = "publish" => Fault("crash")
    /\ pc[t] = "commit" => Fault("crash") \/ Fault("commit failure")

\* Ending a request touches no other thread.
LEMMA ForgetAlone ==
  ASSUME TypeInv, NEW t \in Threads, Forget(t)
  PROVE  Alone(t) /\ pc'[t] = "idle"
PROOF
  BY DEF TypeInv, TypeOK, Forget, Goto, Alone

\* Most steps are minor.
LEMMA MinorSteps ==
  ASSUME TypeInv, NEW t \in Threads,
         \/ CheckCache(t) \/ ClaimGet(t) \/ ClaimSet(t)
         \/ LockRow(t) \/ LockFails(t) \/ DeadlockVictim(t) \/ CheckFunds(t)
         \/ DbError(t) \/ Release(t) \/ Rollback(t) \/ Crash(t) \/ CommitFails(t)
  PROVE  MinorStep(t)
PROOF
<1> USE DEF MinorStep, Planned
<1>1. CASE CheckCache(t)
  <2>1. CASE idem[cmd[t].key].state = "RESULT"
    BY <1>1, <2>1, ForgetAlone DEF CheckCache, tables
  <2>2. CASE idem[cmd[t].key].state # "RESULT"
    BY <1>1, <2>2 DEF TypeInv, TypeOK, CheckCache, Goto, tables, private, Alone
  <2> QED BY <2>1, <2>2
<1>2. CASE ClaimGet(t)
  <2>1. CASE Forget(t)
    BY <1>2, <2>1, ForgetAlone DEF ClaimGet, tables
  <2>2. CASE /\ Goto(t, "setnx") \/ Goto(t, "begin")
             /\ UNCHANGED <<cmd, private>>
    BY <1>2, <2>2 DEF TypeInv, TypeOK, ClaimGet, Goto, tables, private, Alone
  <2>3. Forget(t) \/ /\ Goto(t, "setnx") \/ Goto(t, "begin")
                     /\ UNCHANGED <<cmd, private>>
    BY <1>2, Zenon DEF ClaimGet
  <2> QED BY <2>1, <2>2, <2>3
<1>3. CASE ClaimSet(t)
  <2>1. CASE idem[cmd[t].key] = Absent
    BY <1>3, <2>1 DEF TypeInv, TypeOK, ClaimSet, Goto, tables, private, Alone
  <2>2. CASE idem[cmd[t].key] # Absent
    BY <1>3, <2>2, ForgetAlone DEF ClaimSet, tables
  <2> QED BY <2>1, <2>2
<1>4. CASE LockRow(t)
  <2>1. PICK w \in Wanted(t) \cap Wallets :
          /\ IF pc[t] = "locking"
               THEN /\ locks' = [locks EXCEPT ![t] = Tail(@)]
                    /\ Goto(t, IF Len(locks[t]) = 1 THEN "checking" ELSE "locking")
               ELSE UNCHANGED <<locks, pc>>
          /\ UNCHANGED <<tables, idem, cmd, plan, fresh, stale, client, events>>
    BY <1>4 DEF LockRow
  <2>2. pc[t] \in {"locking", "posting"}
    BY <2>1 DEF Wanted
  <2>3. CASE pc[t] = "locking"
    <3> DEFINE label == IF Len(locks[t]) = 1 THEN "checking" ELSE "locking"
    <3>1. label \in {"checking", "locking"}
      OBVIOUS
    <3>2. pc' = [pc EXCEPT ![t] = label]
      BY <2>1, <2>3 DEF Goto
    <3> HIDE DEF label
    <3> QED BY <2>1, <2>3, <3>1, <3>2 DEF TypeInv, TypeOK, tables, Alone
  <2>4. CASE pc[t] = "posting"
    BY <2>1, <2>4 DEF TypeInv, TypeOK, tables, Alone
  <2> QED BY <2>2, <2>3, <2>4
<1>5. CASE LockFails(t) \/ DeadlockVictim(t)
  <2>1. pc[t] \in Planned
    BY <1>5 DEF LockFails, DeadlockVictim, InWaitCycle, WaitsFor, Wanted
  <2>2. /\ Goto(t, "failing")
        /\ UNCHANGED <<tables, owner, idem, cmd, private, stale, client, events>>
    BY <1>5 DEF LockFails, DeadlockVictim
  <2> QED BY <2>1, <2>2 DEF TypeInv, TypeOK, Goto, tables, private, Alone
<1>6. CASE CheckFunds(t)
  BY <1>6 DEF TypeInv, TypeOK, CheckFunds, Goto, tables, private, Alone
<1>7. CASE DbError(t) \/ Release(t)
  BY <1>7 DEF TypeInv, TypeOK, DbError, Release, Goto, tables, private, Alone
<1>8. CASE Rollback(t) \/ Crash(t) \/ CommitFails(t)
  BY <1>8, ForgetAlone DEF Rollback, Crash, CommitFails, tables, Fault
<1> QED BY <1>1, <1>2, <1>3, <1>4, <1>5, <1>6, <1>7, <1>8

\* A minor step keeps what is known of events and postings.
LEMMA MinorEvents ==
  ASSUME TypeInv, EventsInv, UNCHANGED setting, NEW t \in Threads, MinorStep(t)
  PROVE  EventsInv'
PROOF
<1>1. CommandsGiven'
  BY DEF EventsInv, MinorStep, Alone, CommandsGiven
<1>2. ASSUME NEW u \in Threads
      PROVE  /\ pc'[u] # "idle" => pc[u] # "idle" /\ cmd'[u] = cmd[u] /\ fresh'[u] = fresh[u]
             /\ pc'[u] \in Planned => pc[u] \in Planned /\ plan'[u] = plan[u]
             /\ pc'[u] = "commit" => pc[u] = "commit"
  <2>1. CASE u = t
    BY <2>1 DEF MinorStep, Planned
  <2>2. CASE u # t
    BY <2>2 DEF MinorStep, Alone
  <2> QED BY <2>1, <2>2
<1>3. MirrorsOnly'
  <2> SUFFICES ASSUME NEW u \in Threads, pc'[u] # "idle", cmd'[u].kind = "reverse"
               PROVE  /\ pc'[u] \in Planned =>
                           \A i \in 1..Len(plan'[u]) : plan'[u][i].type = "REVERSAL"
                      /\ \A w \in Wallets : \A i \in 1..Len(fresh'[u][w]) :
                           fresh'[u][w][i].type = "REVERSAL"
    BY DEF MirrorsOnly
  <2> QED BY <1>2 DEF EventsInv, MirrorsOnly
<1>4. WorkToDo'
  <2> SUFFICES ASSUME NEW u \in Threads
               PROVE  /\ pc'[u] \in Planned => plan'[u] # << >> \/ HasPage(u)'
                      /\ pc'[u] = "commit" => HasPage(u)'
    BY DEF WorkToDo
  <2>1. /\ pc[u] \in Planned => plan[u] # << >> \/ HasPage(u)
        /\ pc[u] = "commit" => HasPage(u)
    BY DEF EventsInv, WorkToDo
  <2>2. pc'[u] # "idle" => (HasPage(u)' <=> HasPage(u))
    BY <1>2 DEF HasPage
  <2>3. pc'[u] \in Planned \/ pc'[u] = "commit" => pc'[u] # "idle"
    BY DEF Planned
  <2> QED BY <1>2, <2>1, <2>2, <2>3
<1>5. PublishedPosted'
  BY DEF EventsInv, MinorStep, Alone, PublishedPosted
<1>6. PostedPublished'
  BY SMTT(20), ZenonT(20) DEF EventsInv, MinorStep, Alone, PostedPublished, Fault
<1> QED BY <1>1, <1>3, <1>4, <1>5, <1>6 DEF EventsInv

-----------------------------------------------------------------------------
(***************************************************************************)
(* Planning, posting and committing.                                       *)
(***************************************************************************)
\* A command that is no reversal has legs.
LEMMA SomeLegs ==
  ASSUME NEW c \in Commands, c.kind # "reverse"
  PROVE  LegsOf(c) # << >>
PROOF
<1>1. c.kind \in Kinds
  BY CommandsAssumption DEF Command
<1>2. CASE c.kind = "transfer"
  <2>1. Len(PrincipalLegs(c)) = 2 /\ Len(PrincipalLegs(c) \o FeeLegs(c)) = 4
    BY DEF PrincipalLegs, FeeLegs
  <2>2. TransferLegs(c) # << >>
    BY <2>1 DEF TransferLegs
  <2> QED BY <1>2, <2>2 DEF LegsOf
<1>3. CASE c.kind \in {"credit", "debit"}
  BY <1>3 DEF LegsOf
<1> QED BY <1>1, <1>2, <1>3 DEF Kinds

\* What reverse plans is as long as what it found, and mirrors only.
LEMMA MirrorsPlanned ==
  ASSUME NEW b \in [Wallets -> Seq(Entry)], NEW tx, PlacesOf(b, tx) # {},
         NEW order \in SetToSeqs(PlacesOf(b, tx)),
         NEW mirrors,
         mirrors = [i \in 1..Len(order) |->
                      MirrorOf(order[i][1], b[order[i][1]][order[i][2]])]
  PROVE  /\ mirrors # << >>
         /\ \A i \in 1..Len(mirrors) : mirrors[i].type = "REVERSAL"
PROOF
<1>1. mirrors \in Seq(Leg) /\ \A p \in PlacesOf(b, tx) : RowIn(mirrors, p[1])
  BY MirrorPlan
<1>2. Len(order) \in Nat
  BY PlacesFinite, OrderLists
<1>3. Len(mirrors) = Len(order)
  BY <1>2
<1>4. PICK p \in PlacesOf(b, tx) : RowIn(mirrors, p[1])
  BY <1>1
<1>5. mirrors # << >>
  <2>1. PICK i \in 1..Len(mirrors) : TRUE
    BY <1>4, Zenon DEF RowIn
  <2>2. Len(mirrors) # 0
    BY <1>1, <2>1
  <2> QED BY <2>2
<1> QED BY <1>3, <1>5 DEF MirrorOf, LegOf

\* A step that only plans or posts: tables and events are left alone.
LEMMA PlanningEvents ==
  ASSUME TypeInv, EventsInv, UNCHANGED <<setting, book, events, cmd>>,
         NEW t \in Threads, Alone(t),
         pc[t] \in Claiming, pc[t] # "commit", pc'[t] # "publish",
         cmd[t].kind = "reverse" =>
           /\ pc'[t] \in Planned =>
                \A i \in 1..Len(plan'[t]) : plan'[t][i].type = "REVERSAL"
           /\ \A w \in Wallets : \A i \in 1..Len(fresh'[t][w]) : fresh'[t][w][i].type = "REVERSAL",
         pc'[t] \in Planned => plan'[t] # << >> \/ HasPage(t)',
         pc'[t] = "commit" => HasPage(t)'
  PROVE  EventsInv'
PROOF
<1> USE DEF EventsInv, Alone, Claiming, InTransaction
<1>1. CommandsGiven'
  BY DEF CommandsGiven
<1>2. MirrorsOnly'
  <2> SUFFICES ASSUME NEW u \in Threads, pc'[u] # "idle", cmd'[u].kind = "reverse"
               PROVE  /\ pc'[u] \in Planned =>
                           \A i \in 1..Len(plan'[u]) : plan'[u][i].type = "REVERSAL"
                      /\ \A w \in Wallets : \A i \in 1..Len(fresh'[u][w]) :
                           fresh'[u][w][i].type = "REVERSAL"
    BY DEF MirrorsOnly
  <2>1. CASE u = t BY <2>1
  <2>2. CASE u # t BY <2>2 DEF MirrorsOnly
  <2> QED BY <2>1, <2>2
<1>3. WorkToDo'
  <2>1. \A u \in Threads : u # t => (HasPage(u)' <=> HasPage(u))
    BY DEF HasPage
  <2>2. ASSUME NEW u \in Threads
        PROVE  /\ pc'[u] \in Planned => plan'[u] # << >> \/ HasPage(u)'
               /\ pc'[u] = "commit" => HasPage(u)'
    <3> HIDE DEF HasPage, EventsInv, Claiming, InTransaction
    <3>1. CASE u = t BY <3>1
    <3>2. CASE u # t BY <2>1, <3>2 DEF EventsInv, WorkToDo
    <3> QED BY <3>1, <3>2
  <2> HIDE DEF HasPage
  <2> QED BY <2>2 DEF WorkToDo
<1>4. PublishedPosted'
  BY DEF PublishedPosted
<1>5. PostedPublished'
  BY DEF PostedPublished
<1> QED BY <1>1, <1>2, <1>3, <1>4, <1>5
LEMMA BeginPostingEvents ==
  ASSUME TypeInv, EventsInv, UNCHANGED setting, NEW t \in Threads, BeginPosting(t)
  PROVE  EventsInv'
PROOF
<1>1. cmd[t] \in Commands /\ cmd[t].kind # "reverse" /\ pc[t] = "begin"
  BY DEF TypeInv, TypeOK, BeginPosting
<1>2. plan'[t] # << >>
  BY <1>1, SomeLegs DEF TypeInv, TypeOK, BeginPosting
<1>3. UNCHANGED <<book, events, cmd>> /\ Alone(t) /\ pc'[t] \in Planned
  BY DEF TypeInv, TypeOK, BeginPosting, Goto, tables, client, Alone, Planned
<1> QED BY <1>1, <1>2, <1>3, PlanningEvents DEF Planned, Claiming, InTransaction

LEMMA BeginReversalEvents ==
  ASSUME TypeInv, BookInv, EventsInv, UNCHANGED setting, NEW t \in Threads, BeginReversal(t)
  PROVE  EventsInv'
PROOF
<1>1. UNCHANGED <<book, events, cmd, fresh>> /\ Alone(t) /\ pc[t] = "begin"
  BY DEF TypeInv, TypeOK, BeginReversal, Goto, tables, client, Alone
<1>2. \A w \in Wallets : fresh[t][w] = << >>
  BY SMTT(20), ZenonT(20), <1>1 DEF TypeInv, TypeOK, BookInv, OwnersAtWork, OnlyOwnersWrite, InTransaction
<1>3. CASE PlacesOf(book, cmd[t].tx) = {} \/ ReversalsOf(book, cmd[t].tx) # {}
  <2>1. pc'[t] = "failing"
    BY <1>3 DEF TypeInv, TypeOK, BeginReversal, Goto
  <2> QED BY <1>1, <1>2, <2>1, PlanningEvents DEF Planned, Claiming, InTransaction
<1>4. CASE ~(PlacesOf(book, cmd[t].tx) = {} \/ ReversalsOf(book, cmd[t].tx) # {})
  <2>1. PICK order \in SetToSeqs(PlacesOf(book, cmd[t].tx)) :
          plan' = [plan EXCEPT ![t] =
                     [i \in 1..Len(order) |->
                        MirrorOf(order[i][1], book[order[i][1]][order[i][2]])]]
    BY <1>4, Zenon DEF BeginReversal
  <2> DEFINE mirrors == [i \in 1..Len(order) |->
                           MirrorOf(order[i][1], book[order[i][1]][order[i][2]])]
  <2>2. mirrors = [i \in 1..Len(order) |->
                     MirrorOf(order[i][1], book[order[i][1]][order[i][2]])]
    OBVIOUS
  <2>3. plan'[t] = mirrors
    BY <2>1 DEF TypeInv, TypeOK
  <2>4. pc'[t] = "posting"
    BY <1>4 DEF TypeInv, TypeOK, BeginReversal, Goto
  <2> HIDE DEF mirrors
  <2>5. mirrors # << >> /\ \A i \in 1..Len(mirrors) : mirrors[i].type = "REVERSAL"
    <3>1. book \in [Wallets -> Seq(Entry)] /\ PlacesOf(book, cmd[t].tx) # {}
      BY <1>4 DEF TypeInv, TypeOK
    <3> QED BY <2>2, <3>1, MirrorsPlanned
  <2> QED BY <1>1, <1>2, <2>3, <2>4, <2>5, PlanningEvents DEF Claiming, InTransaction
<1> QED BY <1>3, <1>4

\* Posting a leg adds an entry of the leg's type to a page.
LEMMA PostLegEvents ==
  ASSUME TypeInv, EventsInv, UNCHANGED setting, NEW t \in Threads, PostLeg(t)
  PROVE  EventsInv'
PROOF
<1> DEFINE leg == Head(plan[t])
           w == leg.wallet
           entry == EntryOf(cmd[t].tx, leg, work[t][w])
<1>1. /\ pc[t] = "posting" /\ plan[t] # << >> /\ w \in Wallets
      /\ UNCHANGED <<book, events, cmd>>
  BY DEF PostLeg, Held, tables
<1>2. plan[t] \in Seq(Leg) /\ leg = plan[t][1] /\ 1 \in 1..Len(plan[t]) /\ Tail(plan[t]) \in Seq(Leg)
      /\ Len(Tail(plan[t])) = Len(plan[t]) - 1
      /\ \A i \in 1..Len(Tail(plan[t])) : i + 1 \in 1..Len(plan[t]) /\ Tail(plan[t])[i] = plan[t][i + 1]
  BY <1>1, HeadTailProperties DEF TypeInv, TypeOK
<1>3. entry.type = leg.type
  BY DEF EntryOf
<1>4. CASE Covered(leg, work[t][w])
  <2>1. /\ fresh' = [fresh EXCEPT ![t][w] = Append(@, entry)]
        /\ plan' = [plan EXCEPT ![t] = Tail(@)]
        /\ UNCHANGED pc
    BY <1>4 DEF PostLeg
  <2> HIDE DEF leg, w, entry
  <2>2. fresh[t] \in [Wallets -> Seq(Entry)]
    BY DEF TypeInv, TypeOK
  <2>3. /\ fresh'[t][w] = Append(fresh[t][w], entry)
        /\ \A v \in Wallets : v # w => fresh'[t][v] = fresh[t][v]
        /\ plan'[t] = Tail(plan[t])
        /\ Alone(t)
    BY <1>1, <2>1, <2>2 DEF TypeInv, TypeOK, Alone
  <2>4. HasPage(t)'
    BY <1>1, <2>2, <2>3 DEF HasPage
  <2>5. ASSUME cmd[t].kind = "reverse"
        PROVE  /\ \A i \in 1..Len(plan'[t]) : plan'[t][i].type = "REVERSAL"
               /\ \A v \in Wallets : \A i \in 1..Len(fresh'[t][v]) :
                    fresh'[t][v][i].type = "REVERSAL"
    <3>1. /\ \A i \in 1..Len(plan[t]) : plan[t][i].type = "REVERSAL"
          /\ \A v \in Wallets : \A i \in 1..Len(fresh[t][v]) : fresh[t][v][i].type = "REVERSAL"
      BY <1>1, <2>5 DEF EventsInv, MirrorsOnly, Planned
    <3>2. \A i \in 1..Len(plan'[t]) : plan'[t][i].type = "REVERSAL"
      BY <1>2, <2>3, <3>1
    <3>3. entry.type = "REVERSAL"
      BY <1>2, <1>3, <3>1
    <3>4. \A i \in 1..Len(fresh'[t][w]) : fresh'[t][w][i].type = "REVERSAL"
      <4>1. fresh[t][w] \in Seq(Entry) /\ fresh'[t][w] = Append(fresh[t][w], entry)
        BY <1>1, <2>2, <2>3
      <4>2. \A i \in 1..Len(fresh[t][w]) : fresh[t][w][i].type = "REVERSAL"
        BY <1>1, <3>1
      <4> HIDE DEF entry
      <4> QED BY <3>3, <4>1, <4>2
    <3> QED BY <2>3, <3>1, <3>2, <3>4
  <2> QED BY <1>1, <2>1, <2>3, <2>4, <2>5, PlanningEvents DEF Claiming, InTransaction
<1>5. CASE ~Covered(leg, work[t][w])
  <2>1. pc' = [pc EXCEPT ![t] = "failing"] /\ UNCHANGED <<fresh, plan>>
    BY <1>5 DEF PostLeg, Goto
  <2>2. pc'[t] = "failing" /\ Alone(t)
    BY <2>1, <1>1 DEF TypeInv, TypeOK, Alone
  <2>3. cmd[t].kind = "reverse" =>
          \A v \in Wallets : \A i \in 1..Len(fresh'[t][v]) : fresh'[t][v][i].type = "REVERSAL"
    BY <1>1, <2>1 DEF EventsInv, MirrorsOnly
  <2> QED BY <1>1, <2>2, <2>3, PlanningEvents DEF Planned, Claiming, InTransaction
<1> QED BY <1>4, <1>5

LEMMA StoreResultEvents ==
  ASSUME TypeInv, EventsInv, UNCHANGED setting, NEW t \in Threads, StoreResult(t)
  PROVE  EventsInv'
PROOF
<1>1. /\ pc[t] = "posting" /\ plan[t] = << >> /\ pc'[t] = "commit"
      /\ UNCHANGED <<book, events, cmd, fresh>> /\ Alone(t)
  BY DEF TypeInv, TypeOK, StoreResult, Goto, tables, private, Alone
<1>2. HasPage(t)'
  BY <1>1 DEF EventsInv, WorkToDo, HasPage, Planned
<1>3. cmd[t].kind = "reverse" =>
        \A w \in Wallets : \A i \in 1..Len(fresh'[t][w]) : fresh'[t][w][i].type = "REVERSAL"
  BY <1>1 DEF EventsInv, MirrorsOnly
<1> QED BY <1>1, <1>2, <1>3, PlanningEvents DEF Planned, Claiming, InTransaction
\* Posted, as the invariants say it.
LEMMA PostedMeans ==
  ASSUME book \in [Wallets -> Seq(Entry)]
  PROVE  \A c : Posted(c) <=> Written(book, c)
PROOF
<1> SUFFICES ASSUME NEW c PROVE Posted(c) <=> Written(book, c)
  OBVIOUS
<1>1. \A p : p \in PlacesOf(book, c.tx) <=>
        \E w \in Wallets : \E i \in 1..Len(book[w]) : p = <<w, i>> /\ book[w][i].tx = c.tx
  BY InPlaces
<1>2. \A p : p \in ReversalsOf(book, c.tx) <=> MirrorAt(book, c.tx, p)
  BY InReversals
<1>3. CASE c.kind = "reverse"
  BY <1>2, <1>3 DEF Posted, Written, MirrorAt
<1>4. CASE c.kind # "reverse"
  <2>1. \A p : p \in OriginalsOf(c.tx) <=>
          \E w \in Wallets : \E i \in 1..Len(book[w]) :
            p = <<w, i>> /\ book[w][i].tx = c.tx /\ book[w][i].type # "REVERSAL"
    BY <1>1, <1>2, Zenon DEF OriginalsOf, MirrorAt
  <2> QED BY <1>4, <2>1 DEF Posted, Written
<1> QED BY <1>3, <1>4

\* The entries of a concatenation.
Joins(sr, s, r) ==
    /\ \A i \in 1..Len(s) : i \in 1..Len(sr) /\ sr[i] = s[i]
    /\ \A j \in 1..Len(r) : Len(s) + j \in 1..Len(sr) /\ sr[Len(s) + j] = r[j]
    /\ \A i \in 1..Len(sr) : i \in 1..Len(s) \/ \E j \in 1..Len(r) : i = Len(s) + j

LEMMA ConcatEntries ==
  ASSUME NEW s \in Seq(Entry), NEW r \in Seq(Entry)
  PROVE  Joins(s \o r, s, r)
PROOF
<1> DEFINE sr == s \o r
<1>1. /\ Len(s) \in Nat /\ Len(r) \in Nat /\ Len(sr) = Len(s) + Len(r)
      /\ \A i \in 1..(Len(s) + Len(r)) : sr[i] = IF i <= Len(s) THEN s[i] ELSE r[i - Len(s)]
  BY ConcatProperties
<1>2. ASSUME NEW j \in 1..Len(r)
      PROVE  Len(s) + j \in 1..Len(sr) /\ sr[Len(s) + j] = r[j]
  <2>1. Len(s) + j \in 1..(Len(s) + Len(r)) /\ ~(Len(s) + j <= Len(s)) /\ Len(s) + j - Len(s) = j
    BY <1>1
  <2> QED BY <1>1, <2>1
<1>3. ASSUME NEW i \in 1..Len(sr), ~(i \in 1..Len(s))
      PROVE  \E j \in 1..Len(r) : i = Len(s) + j
  <2>1. i - Len(s) \in 1..Len(r) /\ i = Len(s) + (i - Len(s))
    BY <1>1, <1>3
  <2> QED BY <2>1
<1>4. \A i \in 1..Len(s) : i \in 1..Len(sr) /\ sr[i] = s[i]
  BY <1>1
<1> QED BY <1>2, <1>3, <1>4 DEF Joins

Asked(e, c) == e.tx = c.tx /\ (e.type = "REVERSAL" <=> c.kind = "reverse")
OnPage(s, c) == \E i \in 1..Len(s) : Asked(s[i], c)

LEMMA ConcatAsked ==
  ASSUME NEW s \in Seq(Entry), NEW r \in Seq(Entry), NEW c
  PROVE  OnPage(s \o r, c) <=> OnPage(s, c) \/ OnPage(r, c)
PROOF
<1> DEFINE sr == s \o r
<1>0. Joins(sr, s, r)
  BY ConcatEntries
<1> HIDE DEF sr
<1>1. /\ \A i \in 1..Len(s) : i \in 1..Len(sr) /\ sr[i] = s[i]
      /\ \A j \in 1..Len(r) : Len(s) + j \in 1..Len(sr) /\ sr[Len(s) + j] = r[j]
      /\ \A i \in 1..Len(sr) :
           i \in 1..Len(s) \/ \E j \in 1..Len(r) : i = Len(s) + j
  BY <1>0 DEF Joins
<1>2. ASSUME OnPage(s, c) \/ OnPage(r, c) PROVE OnPage(sr, c)
  BY <1>1, <1>2 DEF OnPage
<1>3. ASSUME OnPage(sr, c) PROVE OnPage(s, c) \/ OnPage(r, c)
  <2>1. PICK i \in 1..Len(sr) : Asked(sr[i], c)
    BY <1>3 DEF OnPage
  <2>2. CASE i \in 1..Len(s)
    BY <1>1, <2>1, <2>2 DEF OnPage
  <2>3. CASE ~(i \in 1..Len(s))
    <3>1. PICK j \in 1..Len(r) : i = Len(s) + j
      BY <1>1, <2>3
    <3> QED BY <1>1, <2>1, <3>1 DEF OnPage
  <2> QED BY <2>2, <2>3
<1> QED BY <1>2, <1>3 DEF sr

\* A commit writes what its command asks for, and nothing else.
LEMMA CommitWrites ==
  ASSUME TypeInv, BookInv, ReversalInv, EventsInv, NEW t \in Threads, Commit(t)
  PROVE  \A c : Written(book', c) <=> Written(book, c) \/ SamePosting(c, cmd[t])
PROOF
<1> DEFINE new == fresh[t]
<1>1. /\ book \in [Wallets -> Seq(Entry)] /\ new \in [Wallets -> Seq(Entry)]
      /\ book' = [w \in Wallets |-> book[w] \o new[w]]
      /\ pc[t] = "commit"
  BY DEF Commit, TypeInv, TypeOK
<1>2. PICK v \in Wallets : new[v] # << >>
  BY <1>1 DEF EventsInv, WorkToDo, HasPage
<1>3. \A w \in Wallets : \A i \in 1..Len(new[w]) :
        new[w][i].tx = cmd[t].tx /\ (new[w][i].type = "REVERSAL" <=> cmd[t].kind = "reverse")
  BY <1>1 DEF ReversalInv, PagesHonest, EventsInv, MirrorsOnly
<1> HIDE DEF new
<1> TAKE c
<1>4. \A w \in Wallets : OnPage(new[w], c) => SamePosting(c, cmd[t])
  BY <1>3 DEF OnPage, Asked, SamePosting
<1>5. SamePosting(c, cmd[t]) => OnPage(new[v], c)
  <2>1. 1 \in 1..Len(new[v])
    BY <1>1, <1>2
  <2> QED BY <1>3, <2>1 DEF OnPage, Asked, SamePosting
<1>6. \A w \in Wallets : OnPage(book'[w], c) <=> OnPage(book[w], c) \/ OnPage(new[w], c)
  BY <1>1, ConcatAsked
<1>7. \A b : Written(b, c) <=> \E w \in Wallets : OnPage(b[w], c)
  BY DEF Written, OnPage, Asked
<1> QED BY <1>4, <1>5, <1>6, <1>7

\* In one environment, one command asks for a posting.
LEMMA OneCommand ==
  ASSUME CommandsGiven, NEW c \in setting.commands, NEW d \in setting.commands,
         SamePosting(c, d)
  PROVE  c = d
PROOF
  BY TxsAssumption DEF CommandsGiven, SamePosting

LEMMA CommitEvents ==
  ASSUME TypeInv, BookInv, ReversalInv, EventsInv, UNCHANGED setting,
         NEW t \in Threads, Commit(t)
  PROVE  EventsInv'
PROOF
<1>1. \A c : Written(book', c) <=> Written(book, c) \/ SamePosting(c, cmd[t])
  BY CommitWrites
<1>2. /\ UNCHANGED events /\ Alone(t) /\ pc[t] = "commit"
      /\ IF Announced(cmd[t])
           THEN pc'[t] = "publish" /\ cmd'[t] = cmd[t] /\ fresh'[t] = Empty
           ELSE pc'[t] = "idle"
  <2>1. CASE Announced(cmd[t])
    BY <2>1 DEF TypeInv, TypeOK, Commit, Goto, Alone
  <2>2. CASE ~Announced(cmd[t])
    BY <2>2, ForgetAlone DEF Commit
  <2> QED BY <2>1, <2>2
<1>3. cmd[t] \in setting.commands
  BY <1>2 DEF EventsInv, CommandsGiven
<1>4. CommandsGiven'
  BY <1>2 DEF EventsInv, CommandsGiven, Alone
<1>5. MirrorsOnly'
  <2> SUFFICES ASSUME NEW u \in Threads, pc'[u] # "idle", cmd'[u].kind = "reverse"
               PROVE  /\ pc'[u] \in Planned =>
                           \A i \in 1..Len(plan'[u]) : plan'[u][i].type = "REVERSAL"
                      /\ \A w \in Wallets : \A i \in 1..Len(fresh'[u][w]) :
                           fresh'[u][w][i].type = "REVERSAL"
    BY DEF MirrorsOnly
  <2>1. CASE u = t BY <1>2, <2>1 DEF Planned, Empty
  <2>2. CASE u # t BY <1>2, <2>2 DEF EventsInv, MirrorsOnly, Alone
  <2> QED BY <2>1, <2>2
<1>6. WorkToDo'
  BY <1>2 DEF EventsInv, WorkToDo, HasPage, Planned, Alone
<1>7. PublishedPosted'
  <2>1. SamePosting(cmd[t], cmd[t])
    BY DEF SamePosting
  <2> QED BY <1>1, <1>2, <2>1 DEF EventsInv, PublishedPosted, Alone
<1>8. PostedPublished'
  <2> SUFFICES ASSUME {"crash", "dlq down"} \cap setting.faults = {},
                      NEW c \in setting.commands, Announced(c), Written(book', c),
                      ~ \E e \in events : TellsOf(e, c)
               PROVE  \E u \in Threads : pc'[u] = "publish" /\ cmd'[u] = c
    BY <1>2 DEF PostedPublished
  <2>1. CASE SamePosting(c, cmd[t])
    BY <1>2, <1>3, <2>1, OneCommand DEF EventsInv
  <2>2. CASE Written(book, c)
    <3>1. PICK u \in Threads : pc[u] = "publish" /\ cmd[u] = c
      BY <2>2 DEF EventsInv, PostedPublished
    <3> QED BY <1>2, <3>1 DEF Alone
  <2> QED BY <1>1, <2>1, <2>2
<1> QED BY <1>4, <1>5, <1>6, <1>7, <1>8 DEF EventsInv

LEMMA PublishEvents ==
  ASSUME TypeInv, EventsInv, UNCHANGED setting, NEW t \in Threads, Publish(t)
  PROVE  EventsInv'
PROOF
<1>1. /\ UNCHANGED book /\ Alone(t) /\ pc[t] = "publish" /\ pc'[t] = "idle"
  BY ForgetAlone DEF Publish, tables
<1>2. \/ \E r \in {"exchange", "dlq"} : events' = events \cup {EventOf(cmd[t], r)}
      \/ Fault("dlq down") /\ UNCHANGED events
  BY DEF Publish
<1>3. \A r : \A c : TellsOf(EventOf(cmd[t], r), cmd[t])
  BY DEF TellsOf, EventOf
<1>4. cmd[t] \in setting.commands /\ Written(book, cmd[t])
  BY <1>1 DEF EventsInv, CommandsGiven, PublishedPosted
<1>5. CommandsGiven' /\ MirrorsOnly' /\ WorkToDo'
  BY <1>1 DEF EventsInv, CommandsGiven, MirrorsOnly, WorkToDo, HasPage, Planned, Alone
<1>6. PublishedPosted'
  <2>1. \A e \in events' : \E c \in setting.commands : TellsOf(e, c) /\ Written(book, c)
    <3>1. CASE \E r \in {"exchange", "dlq"} : events' = events \cup {EventOf(cmd[t], r)}
      BY <1>3, <1>4, <3>1 DEF EventsInv, PublishedPosted
    <3>2. CASE UNCHANGED events
      BY <3>2 DEF EventsInv, PublishedPosted
    <3> QED BY <1>2, <3>1, <3>2
  <2> QED BY <1>1, <2>1 DEF EventsInv, PublishedPosted, Alone
<1>7. PostedPublished'
  <2> SUFFICES ASSUME {"crash", "dlq down"} \cap setting.faults = {},
                      NEW c \in setting.commands, Announced(c), Written(book, c),
                      ~ \E e \in events' : TellsOf(e, c)
               PROVE  \E u \in Threads : pc'[u] = "publish" /\ cmd'[u] = c
    BY <1>1 DEF PostedPublished
  <2>1. PICK r \in {"exchange", "dlq"} : events' = events \cup {EventOf(cmd[t], r)}
    BY <1>2 DEF Fault
  <2>2. c # cmd[t] /\ ~ \E e \in events : TellsOf(e, c)
    BY <1>3, <2>1
  <2>3. PICK u \in Threads : pc[u] = "publish" /\ cmd[u] = c
    BY <2>2 DEF EventsInv, PostedPublished
  <2> QED BY <1>1, <2>2, <2>3 DEF Alone
<1> QED BY <1>5, <1>6, <1>7 DEF EventsInv

LEMMA ReceiveEvents ==
  ASSUME TypeInv, BookInv, EventsInv, UNCHANGED setting,
         NEW t \in Threads, NEW c \in Commands, Receive(t, c)
  PROVE  EventsInv'
PROOF
<1>1. /\ UNCHANGED <<book, events>> /\ Alone(t) /\ pc[t] = "idle" /\ pc'[t] = "cache"
      /\ cmd'[t] = c /\ c \in setting.commands /\ fresh' = fresh
  BY DEF TypeInv, TypeOK, Receive, Goto, tables, private, Alone
<1>2. \A w \in Wallets : fresh'[t][w] = << >>
  BY <1>1 DEF TypeInv, TypeOK, BookInv, OwnersAtWork, OnlyOwnersWrite, InTransaction
<1>3. CommandsGiven' /\ WorkToDo' /\ PublishedPosted' /\ PostedPublished'
  BY SMTT(20), ZenonT(20), <1>1 DEF EventsInv, CommandsGiven, WorkToDo, HasPage, Planned,
     PublishedPosted, PostedPublished, Alone
<1>4. MirrorsOnly'
  <2> SUFFICES ASSUME NEW u \in Threads, pc'[u] # "idle", cmd'[u].kind = "reverse"
               PROVE  /\ pc'[u] \in Planned =>
                           \A i \in 1..Len(plan'[u]) : plan'[u][i].type = "REVERSAL"
                      /\ \A w \in Wallets : \A i \in 1..Len(fresh'[u][w]) :
                           fresh'[u][w][i].type = "REVERSAL"
    BY DEF MirrorsOnly
  <2>1. CASE u = t BY <1>1, <1>2, <2>1 DEF Planned
  <2>2. CASE u # t BY <1>1, <2>2 DEF EventsInv, MirrorsOnly, Alone
  <2> QED BY <2>1, <2>2
<1> QED BY <1>3, <1>4 DEF EventsInv
LEMMA InitEvents == Init => EventsInv
PROOF
<1> SUFFICES ASSUME Init PROVE EventsInv
  OBVIOUS
<1>1. ~ \E c : Written(book, c)
  BY DEF Init, Empty, Written
<1>2. \A t \in Threads : pc[t] = "idle"
  BY DEF Init
<1> QED BY <1>1, <1>2 DEF Init, EventsInv, CommandsGiven, MirrorsOnly, WorkToDo, Planned,
        PublishedPosted, PostedPublished

LEMMA EventsStep ==
  ASSUME TypeInv, BookInv, ReversalInv, EventsInv, [Next]_vars
  PROVE  EventsInv'
PROOF
<1>1. CASE UNCHANGED vars
  <2>1. UNCHANGED <<setting, book, events, pc, cmd, plan, fresh>>
    BY <1>1 DEF vars
  <2> QED BY <2>1 DEF EventsInv, CommandsGiven, MirrorsOnly, WorkToDo, HasPage,
          PublishedPosted, PostedPublished
<1>2. CASE UNCHANGED setting /\ \E k \in Keys : ExpireClaim(k) \/ ExpireResult(k)
  <2>1. UNCHANGED <<setting, book, events, pc, cmd, plan, fresh>>
    BY <1>2 DEF ExpireClaim, ExpireResult, tables, private
  <2> QED BY <2>1 DEF EventsInv, CommandsGiven, MirrorsOnly, WorkToDo, HasPage,
          PublishedPosted, PostedPublished
<1>3. ASSUME UNCHANGED setting, NEW t \in Threads,
             \/ \E c \in Commands : Receive(t, c)
             \/ Step(t)
             \/ DbError(t) \/ CommitFails(t) \/ Crash(t)
      PROVE  EventsInv'
  <2>1. CASE \/ CheckCache(t) \/ ClaimGet(t) \/ ClaimSet(t)
             \/ LockRow(t) \/ LockFails(t) \/ DeadlockVictim(t) \/ CheckFunds(t)
             \/ DbError(t) \/ Release(t) \/ Rollback(t) \/ Crash(t) \/ CommitFails(t)
    BY <1>3, <2>1, MinorSteps, MinorEvents
  <2>2. CASE \E c \in Commands : Receive(t, c)
    BY <1>3, <2>2, ReceiveEvents
  <2>3. CASE BeginPosting(t) \/ BeginReversal(t) \/ PostLeg(t) \/ StoreResult(t)
    BY <1>3, <2>3, BeginPostingEvents, BeginReversalEvents, PostLegEvents, StoreResultEvents
  <2>4. CASE Commit(t) \/ Publish(t)
    BY <1>3, <2>4, CommitEvents, PublishEvents
  <2> QED BY <1>3, <2>1, <2>2, <2>3, <2>4 DEF Step
<1> QED BY <1>1, <1>2, <1>3 DEF Next, Quiet

LEMMA LedgerKept == Spec => [](TypeInv /\ BookInv /\ ReversalInv)
PROOF
<1>1. Init => TypeInv /\ BookInv /\ ReversalInv
  BY InitType, InitBook, InitReversal
<1>2. TypeInv /\ BookInv /\ ReversalInv /\ [Next]_vars => (TypeInv /\ BookInv /\ ReversalInv)'
  BY TypeStep, BookStep, ReversalStep
<1> QED BY <1>1, <1>2, PTL DEF Spec

LEMMA EventsKept == Spec => []EventsInv
PROOF
<1>1. TypeInv /\ BookInv /\ ReversalInv /\ EventsInv /\ [Next]_vars => EventsInv'
  BY EventsStep
<1> QED BY <1>1, InitEvents, LedgerKept, PTL DEF Spec

\* What RabbitMQ hears of is in the tables, and what the tables hold was announced or is
\* about to be, unless the process died or both exchanges were down: publishCompleted and
\* publishReversed run after the commit, and nothing is posted that they leave out.
THEOREM EventsAreTold == Spec => []EventsTellPostings
PROOF
<1>1. TypeInv /\ EventsInv => EventsTellPostings
  <2> SUFFICES ASSUME TypeInv, EventsInv PROVE EventsTellPostings
    OBVIOUS
  <2>1. \A c : Posted(c) <=> Written(book, c)
    BY PostedMeans DEF TypeInv, TypeOK
  <2> QED BY <2>1 DEF EventsInv, PublishedPosted, PostedPublished, EventsTellPostings
<1> QED BY <1>1, LedgerKept, EventsKept, PTL
-----------------------------------------------------------------------------
(***************************************************************************)
(* Answers: stored results and acknowledged commands.                      *)
(***************************************************************************)
\* A thread that moves was serving a command, and serves it on or is done.
ServesOn(t) ==
    /\ Alone(t)
    /\ pc[t] # "idle"
    /\ pc'[t] = "idle" \/ cmd'[t] = cmd[t]

ThreadStep(t) == Step(t) \/ DbError(t) \/ CommitFails(t) \/ Crash(t)

LEMMA ThreadSteps ==
  ASSUME TypeInv, NEW t \in Threads, ThreadStep(t)
  PROVE  /\ ServesOn(t)
         /\ pc[t] = "commit" => Commit(t) \/ ~CommitsHappen
         /\ UNCHANGED book \/ Commit(t)
PROOF
<1> USE DEF ServesOn
<1>1. CASE \/ CheckCache(t) \/ ClaimGet(t) \/ ClaimSet(t)
           \/ LockRow(t) \/ LockFails(t) \/ DeadlockVictim(t) \/ CheckFunds(t)
           \/ DbError(t) \/ Release(t) \/ Rollback(t) \/ Crash(t) \/ CommitFails(t)
  BY <1>1, MinorSteps DEF MinorStep, CommitsHappen, Fault
<1>2. CASE BeginPosting(t)
  BY <1>2 DEF TypeInv, TypeOK, BeginPosting, Goto, tables, Alone
<1>3. CASE BeginReversal(t)
  BY <1>3 DEF TypeInv, TypeOK, BeginReversal, Goto, tables, Alone
<1>4. CASE PostLeg(t)
  <2>1. pc[t] = "posting" /\ UNCHANGED <<book, cmd>>
    BY <1>4 DEF PostLeg, tables
  <2>2. CASE Covered(Head(plan[t]), work[t][Head(plan[t]).wallet])
    BY <1>4, <2>1, <2>2 DEF TypeInv, TypeOK, PostLeg, Alone
  <2>3. CASE ~Covered(Head(plan[t]), work[t][Head(plan[t]).wallet])
    BY <1>4, <2>1, <2>3 DEF TypeInv, TypeOK, PostLeg, Goto, Alone
  <2> QED BY <2>1, <2>2, <2>3
<1>5. CASE StoreResult(t)
  BY <1>5 DEF TypeInv, TypeOK, StoreResult, Goto, tables, private, Alone
<1>6. CASE Commit(t)
  <2>1. CASE Announced(cmd[t])
    BY <1>6, <2>1 DEF TypeInv, TypeOK, Commit, Goto, Alone
  <2>2. CASE ~Announced(cmd[t])
    BY <1>6, <2>2, ForgetAlone DEF Commit
  <2> QED BY <1>6, <2>1, <2>2
<1>7. CASE Publish(t)
  BY <1>7, ForgetAlone DEF Publish, tables
<1> HIDE DEF ServesOn
<1> QED BY <1>1, <1>2, <1>3, <1>4, <1>5, <1>6, <1>7 DEF ThreadStep, Step

\* A result appears only where StoreResult writes it.
LEMMA ResultSteps ==
  ASSUME TypeInv, NEW t \in Threads,
         (\E c \in Commands : Receive(t, c)) \/ ThreadStep(t)
  PROVE  \A k \in Keys : idem'[k].state = "RESULT" =>
           \/ idem'[k] = idem[k]
           \/ StoreResult(t) /\ k = cmd[t].key /\ idem'[k] = ResultOf(cmd[t])
PROOF
<1>1. CASE UNCHANGED idem
  BY <1>1
<1>2. CASE ClaimSet(t)
  BY <1>2 DEF TypeInv, TypeOK, ClaimSet, Claimed
<1>3. CASE Release(t)
  BY <1>3 DEF TypeInv, TypeOK, Release, Absent
<1>4. CASE StoreResult(t)
  BY <1>4 DEF TypeInv, TypeOK, StoreResult
<1>5. CASE (\E c \in Commands : Receive(t, c)) \/ CheckCache(t) \/ ClaimGet(t)
           \/ BeginPosting(t) \/ BeginReversal(t) \/ LockRow(t) \/ LockFails(t)
           \/ DeadlockVictim(t) \/ CheckFunds(t) \/ PostLeg(t) \/ Commit(t) \/ Publish(t)
           \/ Rollback(t) \/ DbError(t) \/ CommitFails(t) \/ Crash(t)
  <2>1. UNCHANGED idem
    BY <1>5 DEF Receive, CheckCache, ClaimGet, BeginPosting, BeginReversal, LockRow, LockFails,
       DeadlockVictim, CheckFunds, PostLeg, Commit, Publish, Rollback, DbError, CommitFails, Crash
  <2> QED BY <2>1
<1> QED BY <1>2, <1>3, <1>4, <1>5 DEF ThreadStep, Step

\* A client hears of a stored result, or of a posting its own thread has committed.
LEMMA AckSteps ==
  ASSUME TypeInv, NEW t \in Threads,
         (\E c \in Commands : Receive(t, c)) \/ ThreadStep(t)
  PROVE  \A c \in acked' :
           \/ c \in acked
           \/ c = cmd[t] /\ (Commit(t) \/ Publish(t))
           \/ /\ c = cmd[t] /\ pc[t] = "cache"
              /\ idem[c.key].state = "RESULT" /\ idem[c.key].of = c
PROOF
<1>1. CASE CheckCache(t)
  BY <1>1, Zenon DEF CheckCache
<1>2. CASE Commit(t)
  BY <1>2 DEF Commit
<1>3. CASE Publish(t)
  BY <1>3 DEF Publish
<1>4. CASE (\E c \in Commands : Receive(t, c)) \/ ClaimGet(t) \/ ClaimSet(t)
           \/ BeginPosting(t) \/ BeginReversal(t) \/ LockRow(t) \/ LockFails(t)
           \/ DeadlockVictim(t) \/ CheckFunds(t) \/ PostLeg(t) \/ StoreResult(t) \/ Release(t)
           \/ Rollback(t) \/ DbError(t) \/ CommitFails(t) \/ Crash(t)
  <2>1. UNCHANGED acked
    BY <1>4 DEF Receive, ClaimGet, ClaimSet, BeginPosting, BeginReversal, LockRow, LockFails,
       DeadlockVictim, CheckFunds, PostLeg, StoreResult, Release, Rollback, DbError,
       CommitFails, Crash, client
  <2> QED BY <2>1
<1> QED BY <1>1, <1>2, <1>3, <1>4 DEF ThreadStep, Step

\* Postings stay, and a transaction at its commit commits.
LEMMA PostingsStay ==
  ASSUME TypeInv, BookInv, ReversalInv, EventsInv, NEW t \in Threads,
         (\E c \in Commands : Receive(t, c)) \/ ThreadStep(t)
  PROVE  /\ \A c : Written(book, c) => Written(book', c)
         /\ CommitsHappen => \A c : Committing(c) => Committing(c)' \/ Written(book', c)
PROOF
<1>1. CASE \E c \in Commands : Receive(t, c)
  <2>1. UNCHANGED book /\ Alone(t) /\ pc[t] = "idle"
    BY <1>1 DEF TypeInv, TypeOK, Receive, Goto, tables, private, Alone
  <2> QED BY <2>1 DEF Committing, Alone
<1>2. CASE ThreadStep(t)
  <2>1. /\ Alone(t)
        /\ pc[t] = "commit" => Commit(t) \/ ~CommitsHappen
        /\ UNCHANGED book \/ Commit(t)
    BY <1>2, ThreadSteps DEF ServesOn
  <2>2. Commit(t) => \A c : Written(book', c) <=> Written(book, c) \/ SamePosting(c, cmd[t])
    BY CommitWrites
  <2>3. SamePosting(cmd[t], cmd[t])
    BY DEF SamePosting
  <2>4. \A c : Written(book, c) => Written(book', c)
    BY <2>1, <2>2
  <2>5. ASSUME CommitsHappen, NEW c, Committing(c) PROVE Committing(c)' \/ Written(book', c)
    <3>1. PICK u \in Threads : pc[u] = "commit" /\ cmd[u] = c
      BY <2>5 DEF Committing
    <3>2. CASE u = t
      BY <2>1, <2>2, <2>3, <2>5, <3>1, <3>2
    <3>3. CASE u # t
      BY <2>1, <3>1, <3>3 DEF Committing, Alone
    <3> QED BY <3>2, <3>3
  <2> QED BY <2>4, <2>5
<1> QED BY <1>1, <1>2

LEMMA ThreadAnswers ==
  ASSUME TypeInv, BookInv, ReversalInv, EventsInv, EventsInv', AnswersInv, UNCHANGED setting,
         NEW t \in Threads, (\E c \in Commands : Receive(t, c)) \/ ThreadStep(t)
  PROVE  AnswersInv'
PROOF
<1>1. /\ \A c : Written(book, c) => Written(book', c)
      /\ CommitsHappen => \A c : Committing(c) => Committing(c)' \/ Written(book', c)
  BY PostingsStay
<1>2. CommitsHappen' <=> CommitsHappen
  BY DEF CommitsHappen
<1>3. ASSUME NEW c \in Commands, Receive(t, c)
      PROVE  /\ pc[t] = "idle" /\ Alone(t) /\ cmd'[t] = c
             /\ Fault("overlap") \/ \A u \in Threads : pc[u] # "idle" => cmd[u].key # c.key
  BY <1>3 DEF TypeInv, TypeOK, Receive, Goto, private, Alone
<1>4. ThreadStep(t) => ServesOn(t)
  BY ThreadSteps
<1>5. NoTwins'
  <2>1. CASE \E c \in Commands : Receive(t, c)
    BY <1>3, <2>1 DEF AnswersInv, NoTwins, Alone, Fault
  <2>2. CASE ThreadStep(t)
    BY <1>4, <2>2 DEF AnswersInv, NoTwins, ServesOn, Alone, Fault
  <2> QED BY <2>1, <2>2
<1>6. ResultsStand'
  <2> SUFFICES ASSUME NEW k \in Keys, NEW c, idem'[k].state = "RESULT", idem'[k].of = c
               PROVE  /\ c \in setting.commands /\ c.key = k
                      /\ CommitsHappen => Written(book', c) \/ Committing(c)'
    BY <1>2 DEF ResultsStand, Committing
  <2>1. CASE idem'[k] = idem[k]
    <3>1. /\ c \in setting.commands /\ c.key = k
          /\ CommitsHappen => Written(book, c) \/ Committing(c)
      BY <2>1 DEF AnswersInv, ResultsStand
    <3> QED BY <1>1, <3>1
  <2>2. CASE StoreResult(t) /\ k = cmd[t].key /\ idem'[k] = ResultOf(cmd[t])
    <3>1. pc[t] = "posting" /\ pc'[t] = "commit" /\ cmd'[t] = cmd[t]
      BY <2>2 DEF TypeInv, TypeOK, StoreResult, Goto, private
    <3>2. c = cmd[t] /\ cmd[t] \in setting.commands
      BY <2>2, <3>1 DEF ResultOf, EventsInv, CommandsGiven
    <3> QED BY <2>2, <3>1, <3>2 DEF Committing
  <2> QED BY <2>1, <2>2, ResultSteps
<1>7. AckedPosted'
  <2> SUFFICES ASSUME CommitsHappen, NEW c \in acked'
               PROVE  /\ c \in setting.commands
                      /\ Written(book', c) \/ (Fault("overlap") /\ Committing(c)')
    BY <1>2 DEF AckedPosted, Fault
  <2>1. CASE c \in acked
    BY <1>1, <2>1 DEF AnswersInv, AckedPosted
  <2>2. CASE c = cmd[t] /\ (Commit(t) \/ Publish(t))
    <3>1. c \in setting.commands
      BY <2>2 DEF Commit, Publish, EventsInv, CommandsGiven
    <3>2. CASE Commit(t)
      BY <2>2, <3>1, <3>2, CommitWrites DEF SamePosting
    <3>3. CASE Publish(t)
      BY <1>1, <2>2, <3>1, <3>3 DEF Publish, EventsInv, PublishedPosted
    <3> QED BY <2>2, <3>2, <3>3
  <2>3. CASE /\ c = cmd[t] /\ pc[t] = "cache"
             /\ idem[c.key].state = "RESULT" /\ idem[c.key].of = c
    <3>1. c \in Commands /\ c.key \in Keys
      BY <2>3, CommandsAssumption DEF TypeInv, TypeOK, Command
    <3>2. c \in setting.commands /\ (Written(book, c) \/ Committing(c))
      BY <2>3, <3>1 DEF AnswersInv, ResultsStand
    <3>3. CASE Written(book, c)
      BY <1>1, <3>2, <3>3
    <3>4. CASE Committing(c)
      <4>1. PICK u \in Threads : pc[u] = "commit" /\ cmd[u] = c
        BY <3>4 DEF Committing
      <4>2. Fault("overlap")
        BY <2>3, <4>1 DEF AnswersInv, NoTwins
      <4> QED BY <1>1, <3>2, <3>4, <4>2
    <3> QED BY <3>2, <3>3, <3>4
  <2> QED BY <2>1, <2>2, <2>3, AckSteps
<1> QED BY <1>5, <1>6, <1>7 DEF AnswersInv

LEMMA InitAnswers == Init => AnswersInv
PROOF
  BY DEF Init, AnswersInv, ResultsStand, NoTwins, AckedPosted, Absent

LEMMA AnswersStep ==
  ASSUME TypeInv, BookInv, ReversalInv, EventsInv, EventsInv', AnswersInv, [Next]_vars
  PROVE  AnswersInv'
PROOF
<1>1. CASE UNCHANGED vars
  <2>1. UNCHANGED <<setting, book, pc, cmd, idem, acked>>
    BY <1>1 DEF vars
  <2> QED BY SMTT(20), ZenonT(20), <2>1 DEF AnswersInv, ResultsStand, NoTwins, AckedPosted, Committing,
          CommitsHappen, Fault
<1>2. ASSUME UNCHANGED setting, NEW k \in Keys, ExpireClaim(k) \/ ExpireResult(k)
      PROVE  AnswersInv'
  <2>1. UNCHANGED <<setting, book, pc, cmd, acked>> /\ idem' = [idem EXCEPT ![k] = Absent]
    BY <1>2 DEF ExpireClaim, ExpireResult, tables, client
  <2>2. \A j \in Keys : idem'[j].state = "RESULT" => idem'[j] = idem[j]
    BY <2>1 DEF TypeInv, TypeOK, Absent
  <2>3. NoTwins' /\ AckedPosted'
    BY <2>1 DEF AnswersInv, NoTwins, AckedPosted, Committing, CommitsHappen, Fault
  <2>4. ResultsStand'
    <3>1. \A c : Committing(c)' <=> Committing(c)
      BY <2>1 DEF Committing
    <3> SUFFICES ASSUME NEW j \in Keys, NEW c, idem'[j].state = "RESULT", idem'[j].of = c
                 PROVE  /\ c \in setting.commands /\ c.key = j
                        /\ CommitsHappen => Written(book', c) \/ Committing(c)'
      <4>1. (CommitsHappen' <=> CommitsHappen) /\ setting' = setting
        BY <2>1 DEF CommitsHappen
      <4> QED BY <4>1 DEF ResultsStand, Committing
    <3>2. idem[j].state = "RESULT" /\ idem[j].of = c
      BY <2>2
    <3> QED BY <2>1, <3>1, <3>2 DEF AnswersInv, ResultsStand
  <2> QED BY <2>3, <2>4 DEF AnswersInv
<1>3. ASSUME UNCHANGED setting, NEW t \in Threads,
             (\E c \in Commands : Receive(t, c)) \/ ThreadStep(t)
      PROVE  AnswersInv'
  BY <1>3, ThreadAnswers
<1> QED BY <1>1, <1>2, <1>3 DEF Next, Quiet, ThreadStep

LEMMA AnswersKept == Spec => []AnswersInv
PROOF
<1>1. TypeInv /\ BookInv /\ ReversalInv /\ EventsInv /\ EventsInv' /\ AnswersInv /\ [Next]_vars
        => AnswersInv'
  BY AnswersStep
<1> QED BY <1>1, InitAnswers, LedgerKept, EventsKept, PTL DEF Spec

\* A stored result is the result of a posting, its own commit aside, and what a client was
\* told is done is done, as long as what reaches its commit commits: whatever fails, is
\* retried or expires before, although the result is written to Redis before the commit.
THEOREM AnswersTrue == Spec => []AnswersAreTrue
PROOF
<1>1. TypeInv /\ EventsInv /\ AnswersInv => AnswersAreTrue
  <2> SUFFICES ASSUME TypeInv, EventsInv, AnswersInv, CommitsHappen
               PROVE  /\ ResultIsPosted
                      /\ \A c \in acked : \/ Posted(c)
                                          \/ Fault("overlap") /\ Committing(c)
    BY DEF AnswersAreTrue, CommitsHappen, Committing
  <2>1. \A c : Posted(c) <=> Written(book, c)
    BY PostedMeans DEF TypeInv, TypeOK
  <2> QED BY <2>1 DEF AnswersInv, ResultsStand, AckedPosted, ResultIsPosted, Committing
<1> QED BY <1>1, LedgerKept, EventsKept, AnswersKept, PTL
-----------------------------------------------------------------------------
(***************************************************************************)
(* Keys: one posting per key while clients wait.                           *)
(***************************************************************************)
\* What a step of t does to the key t works under.
KeyStep(t) ==
    \/ /\ UNCHANGED idem
       /\ \/ pc'[t] \in {"idle", "cache", "publish"}
          \/ pc[t] \in Working /\ pc'[t] \in Working
    \/ UNCHANGED idem /\ pc'[t] \in {"claim", "setnx"} /\ idem[cmd[t].key].state # "RESULT"
    \/ /\ UNCHANGED idem /\ pc'[t] = "begin"
       /\ pc[t] = "claim" /\ idem[cmd[t].key].state = "RESULT"
    \/ /\ idem[cmd[t].key] = Absent /\ idem' = [idem EXCEPT ![cmd[t].key] = Claimed]
       /\ pc'[t] = "begin"
    \/ /\ pc[t] = "posting" /\ idem' = [idem EXCEPT ![cmd[t].key] = ResultOf(cmd[t])]
       /\ pc'[t] = "commit" /\ UNCHANGED book
    \/ /\ pc[t] = "failing" /\ idem' = [idem EXCEPT ![cmd[t].key] = Absent]
       /\ pc'[t] = "rollback"

LEMMA KeySteps ==
  ASSUME TypeInv, NEW t \in Threads, (\E c \in Commands : Receive(t, c)) \/ ThreadStep(t)
  PROVE  KeyStep(t)
PROOF
<1> USE DEF KeyStep
<1>1. CASE \E c \in Commands : Receive(t, c)
  BY <1>1 DEF TypeInv, TypeOK, Receive, Goto
<1>2. CASE CheckCache(t)
  BY <1>2 DEF TypeInv, TypeOK, CheckCache, Forget, Goto
<1>3. CASE ClaimGet(t)
  <2>1. UNCHANGED idem /\ pc[t] = "claim"
    BY <1>3 DEF ClaimGet
  <2>2. \/ Forget(t)
        \/ Goto(t, "setnx") /\ idem[cmd[t].key].state = "ABSENT"
        \/ Goto(t, "begin") /\ idem[cmd[t].key].state = "RESULT"
    BY <1>3, Zenon DEF ClaimGet
  <2> QED BY <2>1, <2>2 DEF TypeInv, TypeOK, Forget, Goto
<1>4. CASE ClaimSet(t)
  BY <1>4 DEF TypeInv, TypeOK, ClaimSet, Forget, Goto
<1>5. CASE BeginPosting(t) \/ BeginReversal(t)
  BY <1>5 DEF TypeInv, TypeOK, BeginPosting, BeginReversal, Goto, Working, Planned
<1>6. CASE LockRow(t)
  <2>1. PICK w \in Wanted(t) \cap Wallets :
          /\ IF pc[t] = "locking"
               THEN Goto(t, IF Len(locks[t]) = 1 THEN "checking" ELSE "locking")
               ELSE UNCHANGED pc
          /\ UNCHANGED idem
    BY <1>6 DEF LockRow
  <2>2. pc[t] \in {"locking", "posting"}
    BY <2>1 DEF Wanted
  <2>3. pc'[t] \in Working
    BY <2>1, <2>2 DEF TypeInv, TypeOK, Goto, Working, Planned
  <2> QED BY <2>1, <2>2, <2>3 DEF Working, Planned
<1>7. CASE LockFails(t) \/ DeadlockVictim(t)
  <2>1. pc[t] \in Planned
    BY <1>7 DEF LockFails, DeadlockVictim, InWaitCycle, WaitsFor, Wanted, Planned
  <2> QED BY <1>7, <2>1 DEF TypeInv, TypeOK, LockFails, DeadlockVictim, Goto, Working
<1>8. CASE CheckFunds(t)
  BY <1>8 DEF TypeInv, TypeOK, CheckFunds, Goto, Working, Planned
<1>9. CASE PostLeg(t)
  <2>1. pc[t] = "posting" /\ UNCHANGED idem
    BY <1>9 DEF PostLeg
  <2>2. UNCHANGED pc \/ Goto(t, "failing")
    BY <1>9 DEF PostLeg
  <2> QED BY <2>1, <2>2 DEF TypeInv, TypeOK, Goto, Working, Planned
<1>10. CASE StoreResult(t) \/ Release(t)
  BY <1>10 DEF TypeInv, TypeOK, StoreResult, Release, Goto, tables
<1>11. CASE Commit(t)
  BY <1>11 DEF TypeInv, TypeOK, Commit, Forget, Goto
<1>12. CASE Publish(t) \/ Rollback(t) \/ CommitFails(t) \/ Crash(t)
  BY <1>12 DEF TypeInv, TypeOK, Publish, Rollback, CommitFails, Crash, Forget, Goto
<1>13. CASE DbError(t)
  BY <1>13 DEF TypeInv, TypeOK, DbError, Goto, Working, Planned
<1> HIDE DEF KeyStep
<1> QED BY <1>1, <1>2, <1>3, <1>4, <1>5, <1>6, <1>7, <1>8, <1>9, <1>10, <1>11, <1>12, <1>13
        DEF ThreadStep, Step

LEMMA ThreadKeys ==
  ASSUME TypeInv, BookInv, ReversalInv, EventsInv, AnswersInv, KeysInv, UNCHANGED setting,
         NEW t \in Threads, (\E c \in Commands : Receive(t, c)) \/ ThreadStep(t)
  PROVE  KeysInv'
PROOF
<1> SUFFICES ASSUME ClientsWait
             PROVE  ClaimsHeld' /\ ResultsStay'
  BY DEF KeysInv, ClaimsHeld, ResultsStay, ClientsWait
<1>1. KeyStep(t)
  BY KeySteps
<1>2. ~Fault("overlap")
  BY DEF ClientsWait, Fault
<1>3. \A u \in Threads : pc[u] # "idle" => cmd[u] \in setting.commands /\ cmd[u].key \in Keys
  BY CommandsAssumption DEF EventsInv, CommandsGiven, TypeInv, TypeOK, Command
<1>4. CASE \E c \in Commands : Receive(t, c)
  <2>1. UNCHANGED <<book, idem>> /\ Alone(t) /\ pc'[t] = "cache"
    BY <1>4 DEF TypeInv, TypeOK, Receive, Goto, tables, private, Alone
  <2> QED BY <2>1 DEF KeysInv, ClaimsHeld, ResultsStay, Alone, Working, Planned
<1>5. CASE ThreadStep(t)
  <2>1. ServesOn(t) /\ (UNCHANGED book \/ Commit(t))
    BY <1>5, ThreadSteps
  <2>2. cmd[t] \in setting.commands /\ cmd[t].key \in Keys
    BY <1>3, <2>1 DEF ServesOn
  <2>3. \A k \in Keys : k # cmd[t].key => idem'[k] = idem[k]
    BY <1>1, <2>2 DEF KeyStep, TypeInv, TypeOK
  <2>4. ASSUME NEW c \in setting.commands, Written(book', c)
        PROVE  Written(book, c) \/ (Commit(t) /\ c = cmd[t])
    <3>1. CASE UNCHANGED book
      BY <2>4, <3>1
    <3>2. CASE Commit(t)
      BY <2>2, <2>4, <3>2, CommitWrites, OneCommand DEF EventsInv
    <3> QED BY <2>1, <3>1, <3>2
  <2>5. ASSUME NEW u \in Threads, u # t, pc[u] # "idle"
        PROVE  /\ idem'[cmd[u].key] = idem[cmd[u].key]
               /\ Written(book', cmd[u]) => Written(book, cmd[u])
    <3>1. cmd[u].key # cmd[t].key
      BY <1>2, <2>1, <2>5 DEF AnswersInv, NoTwins, ServesOn
    <3> QED BY <1>3, <2>3, <2>4, <2>5, <3>1
  <2>6. ClaimsHeld'
    <3> SUFFICES ASSUME NEW u \in Threads
                 PROVE  /\ pc'[u] \in {"claim", "setnx"} => idem'[cmd'[u].key].state # "RESULT"
                        /\ pc'[u] \in Working => idem'[cmd'[u].key] = Claimed
                        /\ pc'[u] = "commit" =>
                             idem'[cmd'[u].key] = ResultOf(cmd'[u]) /\ ~Written(book', cmd'[u])
      BY DEF ClaimsHeld
    <3>1. CASE u # t
      <4>1. pc'[u] = pc[u] /\ cmd'[u] = cmd[u]
        BY <2>1, <3>1 DEF ServesOn, Alone
      <4> QED BY <2>5, <3>1, <4>1 DEF KeysInv, ClaimsHeld, Working, Planned
    <3>2. CASE u = t
      <4>1. CASE pc'[t] \in {"idle", "cache", "publish", "rollback"}
        BY <3>2, <4>1 DEF Working, Planned
      <4>2. CASE pc'[t] \notin {"idle", "cache", "publish", "rollback"}
        <5>0. cmd'[t] = cmd[t]
          BY <2>1, <4>2 DEF ServesOn
        <5>1. CASE UNCHANGED idem /\ pc[t] \in Working /\ pc'[t] \in Working
          BY <3>2, <5>0, <5>1 DEF KeysInv, ClaimsHeld, Working, Planned
        <5>2. CASE /\ UNCHANGED idem /\ pc'[t] \in {"claim", "setnx"}
                   /\ idem[cmd[t].key].state # "RESULT"
          BY <3>2, <5>0, <5>2 DEF Working, Planned
        <5>3. CASE /\ idem' = [idem EXCEPT ![cmd[t].key] = Claimed]
                   /\ pc'[t] = "begin"
          BY <2>2, <3>2, <5>0, <5>3 DEF TypeInv, TypeOK, Working, Planned
        <5>4. CASE /\ pc[t] = "posting"
                   /\ idem' = [idem EXCEPT ![cmd[t].key] = ResultOf(cmd[t])]
                   /\ pc'[t] = "commit" /\ UNCHANGED book
          <6>1. idem[cmd[t].key] = Claimed
            BY <5>4 DEF KeysInv, ClaimsHeld, Working, Planned
          <6>0. Claimed # ResultOf(cmd[t])
            BY DEF Claimed, ResultOf
          <6>2. ~Written(book, cmd[t])
            BY <2>2, <6>0, <6>1 DEF KeysInv, ResultsStay
          <6> QED BY <2>2, <3>2, <5>0, <5>4, <6>2 DEF TypeInv, TypeOK, Working, Planned
        <5>5. ~(pc[t] = "claim" /\ idem[cmd[t].key].state = "RESULT")
          BY DEF KeysInv, ClaimsHeld
        <5> QED BY <1>1, <4>2, <5>1, <5>2, <5>3, <5>4, <5>5 DEF KeyStep
      <4> QED BY <4>1, <4>2
    <3> QED BY <3>1, <3>2
  <2>7. ResultsStay'
    <3> SUFFICES ASSUME NEW c \in setting.commands, Written(book', c)
                 PROVE  idem'[c.key] = ResultOf(c)
      BY DEF ResultsStay
    <3>0. c.key \in Keys
      BY CommandsAssumption, ThreadsAssumption DEF EventsInv, CommandsGiven, Setting, Command
    <3>1. CASE Commit(t) /\ c = cmd[t]
      BY <3>1 DEF Commit, KeysInv, ClaimsHeld
    <3>2. CASE Written(book, c)
      <4>1. idem[c.key] = ResultOf(c)
        BY <3>2 DEF KeysInv, ResultsStay
      <4>2. CASE c.key # cmd[t].key
        BY <2>3, <3>0, <4>1, <4>2
      <4>3. CASE c.key = cmd[t].key
        <5>1. idem[cmd[t].key] # Absent /\ idem[cmd[t].key] # Claimed
          BY <4>1, <4>3 DEF Absent, Claimed, ResultOf
        <5>2. pc[t] \notin {"posting", "failing"}
          BY <5>1 DEF KeysInv, ClaimsHeld, Working, Planned
        <5> QED BY <1>1, <4>1, <5>1, <5>2 DEF KeyStep
      <4> QED BY <4>2, <4>3
    <3> QED BY <2>4, <3>1, <3>2
  <2> QED BY <2>6, <2>7
<1> QED BY <1>4, <1>5

LEMMA KeysStep ==
  ASSUME TypeInv, BookInv, ReversalInv, EventsInv, AnswersInv, KeysInv, [Next]_vars
  PROVE  KeysInv'
PROOF
<1>1. CASE UNCHANGED vars
  <2>1. UNCHANGED <<setting, book, pc, cmd, idem>>
    BY <1>1 DEF vars
  <2> QED BY <2>1 DEF KeysInv, ClaimsHeld, ResultsStay, ClientsWait
<1>2. ASSUME UNCHANGED setting, NEW k \in Keys, ExpireClaim(k) \/ ExpireResult(k)
      PROVE  KeysInv'
  <2> SUFFICES ASSUME ClientsWait PROVE ClaimsHeld' /\ ResultsStay'
    BY <1>2 DEF KeysInv, ClaimsHeld, ResultsStay, ClientsWait
  <2>1. /\ UNCHANGED <<book, pc, cmd>> /\ idem[k] = Claimed
        /\ idem' = [idem EXCEPT ![k] = Absent]
        /\ \A t \in Threads : pc[t] \in Claiming => cmd[t].key # k
    BY <1>2 DEF ExpireClaim, ExpireResult, tables, ClientsWait, Fault
  <2>2. \A t \in Threads : pc[t] # "idle" => cmd[t].key \in Keys
    BY CommandsAssumption DEF TypeInv, TypeOK, Command
  <2>3. ClaimsHeld'
    BY <2>1, <2>2 DEF KeysInv, ClaimsHeld, Working, Planned, Claiming, InTransaction,
       TypeInv, TypeOK, Absent
  <2>4. ResultsStay'
    <3> SUFFICES ASSUME NEW c \in setting.commands, Written(book, c)
                 PROVE  idem'[c.key] = ResultOf(c)
      BY <1>2, <2>1 DEF ResultsStay
    <3>1. idem[c.key] = ResultOf(c) /\ ResultOf(c) # Claimed
      BY DEF KeysInv, ResultsStay, ResultOf, Claimed
    <3> QED BY <2>1, <3>1 DEF TypeInv, TypeOK
  <2> QED BY <2>3, <2>4
<1>3. ASSUME UNCHANGED setting, NEW t \in Threads,
             (\E c \in Commands : Receive(t, c)) \/ ThreadStep(t)
      PROVE  KeysInv'
  BY <1>3, ThreadKeys
<1> QED BY <1>1, <1>2, <1>3 DEF Next, Quiet, ThreadStep

LEMMA InitKeys == Init => KeysInv
PROOF
<1> SUFFICES ASSUME Init PROVE KeysInv
  OBVIOUS
<1>1. ~ \E c : Written(book, c)
  BY DEF Init, Empty, Written
<1> QED BY <1>1 DEF Init, KeysInv, ClaimsHeld, ResultsStay, Working, Planned

LEMMA KeysKept == Spec => []KeysInv
PROOF
<1>1. TypeInv /\ BookInv /\ ReversalInv /\ EventsInv /\ AnswersInv /\ KeysInv /\ [Next]_vars
        => KeysInv'
  BY KeysStep
<1> QED BY <1>1, InitKeys, LedgerKept, EventsKept, AnswersKept, PTL DEF Spec

-----------------------------------------------------------------------------
(***************************************************************************)
(* Legs: a posting has no more entries than its command has legs.          *)
(***************************************************************************)
LEMMA PlacesAre ==
  ASSUME NEW a \in Books, NEW tx
  PROVE  \A p : p \in PlacesOf(a, tx) <=>
           \E v \in Wallets : \E i \in 1..Len(a[v]) : p = <<v, i>> /\ a[v][i].tx = tx
PROOF
  BY InPlaces DEF Books

\* One more entry of a transaction is one more place of it.
LEMMA OneMorePlace ==
  ASSUME NEW b \in Books, NEW d \in Books, NEW w \in Wallets, NEW e \in Entry, NEW tx,
         e.tx = tx, d[w] = Append(b[w], e), \A v \in Wallets : v # w => d[v] = b[v]
  PROVE  /\ <<w, Len(b[w]) + 1>> \notin PlacesOf(b, tx)
         /\ PlacesOf(d, tx) = PlacesOf(b, tx) \cup {<<w, Len(b[w]) + 1>>}
         /\ d[w][Len(b[w]) + 1] = e
         /\ \A v \in Wallets : \A i \in 1..Len(b[v]) : d[v][i] = b[v][i]
PROOF
<1> DEFINE last == <<w, Len(b[w]) + 1>>
<1>1. /\ Len(b[w]) \in Nat /\ Len(d[w]) = Len(b[w]) + 1
      /\ \A i \in 1..Len(b[w]) : d[w][i] = b[w][i]
      /\ d[w][Len(b[w]) + 1] = e
  BY DEF Books
<1> HIDE DEF last
<1>2. \A p : p \in PlacesOf(b, tx) <=>
        \E v \in Wallets : \E i \in 1..Len(b[v]) : p = <<v, i>> /\ b[v][i].tx = tx
  BY PlacesAre
<1>3. \A p : p \in PlacesOf(d, tx) <=>
        \E v \in Wallets : \E i \in 1..Len(d[v]) : p = <<v, i>> /\ d[v][i].tx = tx
  BY PlacesAre
<1> USE DEF last
<1>4. last \notin PlacesOf(b, tx)
  BY <1>1, <1>2
<1>5. last \in PlacesOf(d, tx)
  BY <1>1, <1>3
<1>6. ASSUME NEW p \in PlacesOf(b, tx) PROVE p \in PlacesOf(d, tx)
  <2>1. PICK v \in Wallets : \E i \in 1..Len(b[v]) : p = <<v, i>> /\ b[v][i].tx = tx
    BY <1>2
  <2>2. PICK i \in 1..Len(b[v]) : p = <<v, i>> /\ b[v][i].tx = tx
    BY <2>1
  <2>3. i \in 1..Len(d[v]) /\ d[v][i] = b[v][i]
    BY <1>1
  <2> QED BY <1>3, <2>2, <2>3
<1>7. ASSUME NEW p \in PlacesOf(d, tx), p # last PROVE p \in PlacesOf(b, tx)
  <2>1. PICK v \in Wallets : \E i \in 1..Len(d[v]) : p = <<v, i>> /\ d[v][i].tx = tx
    BY <1>3
  <2>2. PICK i \in 1..Len(d[v]) : p = <<v, i>> /\ d[v][i].tx = tx
    BY <2>1
  <2>3. i \in 1..Len(b[v]) /\ d[v][i] = b[v][i]
    BY SMTT(20), ZenonT(20), <1>1, <1>7, <2>2
  <2> QED BY <1>2, <2>2, <2>3
<1>8. PlacesOf(d, tx) = PlacesOf(b, tx) \cup {last}
  BY <1>5, <1>6, <1>7
<1> QED BY <1>1, <1>4, <1>8

LEMMA PlacesGrow ==
  ASSUME NEW b \in Books, NEW d \in Books, NEW w \in Wallets, NEW e \in Entry, NEW tx,
         e.tx = tx, d[w] = Append(b[w], e), \A v \in Wallets : v # w => d[v] = b[v]
  PROVE  Cardinality(PlacesOf(d, tx)) = Cardinality(PlacesOf(b, tx)) + 1
PROOF
<1> DEFINE last == <<w, Len(b[w]) + 1>>
<1>1. /\ last \notin PlacesOf(b, tx) /\ PlacesOf(d, tx) = PlacesOf(b, tx) \cup {last}
      /\ d[w][Len(b[w]) + 1] = e
      /\ \A v \in Wallets : \A i \in 1..Len(b[v]) : d[v][i] = b[v][i]
  BY OneMorePlace
<1>2. IsFiniteSet(PlacesOf(b, tx))
  BY PlacesFinite DEF Books
<1>3. Cardinality(PlacesOf(b, tx) \cup {last}) = Cardinality(PlacesOf(b, tx)) + 1
  <2> HIDE DEF last
  <2> QED BY <1>1, <1>2, FS_AddElement
<1> QED BY <1>1, <1>3

\* The places of an empty page.
LEMMA NoPlaces ==
  ASSUME NEW b, NEW tx, \A w \in Wallets : b[w] = << >>
  PROVE  PlacesOf(b, tx) = {} /\ Cardinality(PlacesOf(b, tx)) = 0
PROOF
<1>1. PlacesOf(b, tx) = {}
  BY DEF PlacesOf
<1> QED BY <1>1, FS_EmptySet

Counted == Planned \cup {"commit"}

\* A step of t that leaves its plan and its page alone, or leaves them behind.
LEMMA SameCount ==
  ASSUME LegsCounted, NEW t \in Threads, Alone(t),
         pc'[t] \in Counted => /\ pc[t] \in Counted
                               /\ cmd'[t] = cmd[t] /\ plan'[t] = plan[t] /\ fresh'[t] = fresh[t]
  PROVE  LegsCounted'
PROOF
<1> SUFFICES ASSUME NEW u \in Threads, pc'[u] \in Counted, cmd'[u].kind # "reverse"
             PROVE  Cardinality(PlacesOf(fresh'[u], cmd'[u].tx)) + Len(plan'[u])
                      = Len(LegsOf(cmd'[u]))
  BY DEF LegsCounted, Counted
<1>1. pc[u] \in Counted /\ cmd'[u] = cmd[u] /\ plan'[u] = plan[u] /\ fresh'[u] = fresh[u]
  BY DEF Alone
<1> QED BY <1>1 DEF LegsCounted, Counted

LEMMA PostLegCount ==
  ASSUME TypeInv, LegsCounted, NEW t \in Threads, PostLeg(t)
  PROVE  LegsCounted'
PROOF
<1> DEFINE leg == Head(plan[t])
           w == leg.wallet
           entry == EntryOf(cmd[t].tx, leg, work[t][w])
<1>1. pc[t] = "posting" /\ plan[t] # << >> /\ w \in Wallets /\ UNCHANGED cmd
  BY DEF PostLeg, Held
<1>2. leg \in Leg /\ Tail(plan[t]) \in Seq(Leg) /\ Len(Tail(plan[t])) = Len(plan[t]) - 1
      /\ Len(plan[t]) \in Nat
  BY <1>1, HeadTailProperties DEF TypeInv, TypeOK
<1>3. CASE Covered(leg, work[t][w])
  <2>1. /\ fresh' = [fresh EXCEPT ![t][w] = Append(@, entry)]
        /\ plan' = [plan EXCEPT ![t] = Tail(@)]
        /\ UNCHANGED pc
    BY <1>3 DEF PostLeg
  <2>2. cmd[t].tx \in Txs /\ work[t][w] \in Int
    BY <1>1, CommandsAssumption DEF TypeInv, TypeOK, Command
  <2>3. entry \in Entry /\ entry.tx = cmd[t].tx
    BY <1>2, <2>2, EntryType
  <2> HIDE DEF leg, w, entry
  <2>4. fresh[t] \in Books
    BY DEF TypeInv, TypeOK, Books
  <2>5. fresh'[t] = [fresh[t] EXCEPT ![w] = Append(@, entry)]
    BY <2>1 DEF TypeInv, TypeOK
  <2>6. Append(fresh[t][w], entry) \in Seq(Entry)
    BY <1>1, <2>3, <2>4, AppendProperties DEF Books
  <2>7. /\ fresh'[t] \in Books
        /\ fresh'[t][w] = Append(fresh[t][w], entry)
        /\ \A v \in Wallets : v # w => fresh'[t][v] = fresh[t][v]
    BY <1>1, <2>4, <2>5, <2>6 DEF Books
  <2>8. Cardinality(PlacesOf(fresh'[t], cmd[t].tx)) = Cardinality(PlacesOf(fresh[t], cmd[t].tx)) + 1
    <3> DEFINE b == fresh[t]
               d == fresh'[t]
               tx == cmd[t].tx
    <3>1. /\ b \in Books /\ d \in Books /\ w \in Wallets /\ entry \in Entry /\ entry.tx = tx
          /\ d[w] = Append(b[w], entry) /\ \A v \in Wallets : v # w => d[v] = b[v]
      BY <1>1, <2>3, <2>4, <2>7
    <3> HIDE DEF b, d, tx
    <3>2. Cardinality(PlacesOf(d, tx)) = Cardinality(PlacesOf(b, tx)) + 1
      BY <3>1, PlacesGrow
    <3> QED BY <3>2 DEF b, d, tx
  <2>9. Cardinality(PlacesOf(fresh[t], cmd[t].tx)) \in Nat
    BY <2>4, PlacesFinite, FS_CardinalityType DEF Books
  <2>10. plan'[t] = Tail(plan[t]) /\ Alone(t)
    BY <1>1, <2>1 DEF TypeInv, TypeOK, Alone
  <2> SUFFICES ASSUME NEW u \in Threads, pc'[u] \in Counted, cmd'[u].kind # "reverse"
               PROVE  Cardinality(PlacesOf(fresh'[u], cmd'[u].tx)) + Len(plan'[u])
                        = Len(LegsOf(cmd'[u]))
    BY DEF LegsCounted, Counted
  <2>11. CASE u = t
    <3>1. Cardinality(PlacesOf(fresh[t], cmd[t].tx)) + Len(plan[t]) = Len(LegsOf(cmd[t]))
      BY <1>1, <2>11 DEF LegsCounted, Planned
    <3> DEFINE old == Cardinality(PlacesOf(fresh[t], cmd[t].tx))
               new == Cardinality(PlacesOf(fresh'[t], cmd[t].tx))
               rest == Len(plan'[t])
               all == Len(plan[t])
    <3>2. rest = all - 1 /\ new = old + 1 /\ old \in Nat /\ all \in Nat
      BY <1>2, <2>8, <2>9, <2>10
    <3>3. old + all = Len(LegsOf(cmd[t]))
      BY <3>1
    <3> HIDE DEF old, new, rest, all
    <3>4. new + rest = Len(LegsOf(cmd[t]))
      BY <3>2, <3>3
    <3> QED BY <1>1, <2>11, <3>4 DEF new, rest
  <2>12. CASE u # t
    BY <2>10, <2>12 DEF LegsCounted, Counted, Alone
  <2> QED BY <2>11, <2>12
<1>4. CASE ~Covered(leg, work[t][w])
  <2>1. pc'[t] = "failing" /\ Alone(t)
    BY <1>1, <1>4 DEF PostLeg, Goto, TypeInv, TypeOK, Alone
  <2> QED BY <2>1, SameCount DEF Counted, Planned
<1> QED BY <1>3, <1>4

LEMMA LegsStep ==
  ASSUME TypeInv, BookInv, LegsCounted, [Next]_vars
  PROVE  LegsCounted'
PROOF
<1> USE DEF Counted, Planned
<1>1. CASE UNCHANGED vars
  <2>1. UNCHANGED <<pc, cmd, plan, fresh>>
    BY <1>1 DEF vars
  <2> QED BY <2>1 DEF LegsCounted
<1>2. ASSUME NEW k \in Keys, ExpireClaim(k) \/ ExpireResult(k)
      PROVE  LegsCounted'
  <2>1. UNCHANGED <<pc, cmd, plan, fresh>>
    BY <1>2 DEF ExpireClaim, ExpireResult, private
  <2> QED BY <2>1 DEF LegsCounted
<1>3. ASSUME NEW t \in Threads,
             \/ CheckCache(t) \/ ClaimGet(t) \/ ClaimSet(t)
             \/ LockRow(t) \/ LockFails(t) \/ DeadlockVictim(t) \/ CheckFunds(t)
             \/ DbError(t) \/ Release(t) \/ Rollback(t) \/ Crash(t) \/ CommitFails(t)
      PROVE  LegsCounted'
  BY <1>3, MinorSteps, SameCount DEF MinorStep
<1>4. ASSUME NEW t \in Threads, NEW c \in Commands, Receive(t, c) PROVE LegsCounted'
  <2>1. Alone(t) /\ pc'[t] = "cache"
    BY <1>4 DEF TypeInv, TypeOK, Receive, Goto, private, Alone
  <2> QED BY <2>1, SameCount
<1>5. ASSUME NEW t \in Threads, BeginPosting(t) PROVE LegsCounted'
  <2>1. Alone(t) /\ UNCHANGED <<cmd, fresh>> /\ pc[t] = "begin" /\ plan'[t] = LegsOf(cmd[t])
    BY <1>5 DEF TypeInv, TypeOK, BeginPosting, Goto, Alone
  <2>2. \A w \in Wallets : fresh[t][w] = << >>
    BY <2>1 DEF TypeInv, TypeOK, BookInv, OwnersAtWork, OnlyOwnersWrite, InTransaction
  <2>3. Cardinality(PlacesOf(fresh[t], cmd[t].tx)) = 0
    BY <2>2, NoPlaces
  <2>4. Len(LegsOf(cmd[t])) \in Nat
    BY <2>1, LegsType DEF TypeInv, TypeOK
  <2> SUFFICES ASSUME NEW u \in Threads, pc'[u] \in Counted, cmd'[u].kind # "reverse"
               PROVE  Cardinality(PlacesOf(fresh'[u], cmd'[u].tx)) + Len(plan'[u])
                        = Len(LegsOf(cmd'[u]))
    BY DEF LegsCounted
  <2>5. CASE u = t BY <2>1, <2>3, <2>4, <2>5
  <2>6. CASE u # t BY <2>1, <2>6 DEF LegsCounted, Alone
  <2> QED BY <2>5, <2>6
<1>6. ASSUME NEW t \in Threads, BeginReversal(t) PROVE LegsCounted'
  <2>1. Alone(t) /\ UNCHANGED cmd /\ cmd[t].kind = "reverse"
    BY <1>6 DEF TypeInv, TypeOK, BeginReversal, Goto, Alone
  <2> QED BY <2>1 DEF LegsCounted, Alone
<1>7. ASSUME NEW t \in Threads, PostLeg(t) PROVE LegsCounted'
  BY <1>7, PostLegCount
<1>8. ASSUME NEW t \in Threads, StoreResult(t) PROVE LegsCounted'
  <2>1. Alone(t) /\ UNCHANGED <<cmd, plan, fresh>> /\ pc[t] = "posting"
    BY <1>8 DEF TypeInv, TypeOK, StoreResult, Goto, private, Alone
  <2> QED BY <2>1, SameCount
<1>9. ASSUME NEW t \in Threads, Commit(t) PROVE LegsCounted'
  <2>1. Alone(t) /\ pc'[t] \in {"publish", "idle"}
    <3>1. CASE Announced(cmd[t])
      BY <1>9, <3>1 DEF TypeInv, TypeOK, Commit, Goto, Alone
    <3>2. CASE ~Announced(cmd[t])
      BY <1>9, <3>2, ForgetAlone DEF Commit
    <3> QED BY <3>1, <3>2
  <2> QED BY <2>1, SameCount
<1>10. ASSUME NEW t \in Threads, Publish(t) PROVE LegsCounted'
  <2>1. Alone(t) /\ pc'[t] = "idle"
    BY <1>10, ForgetAlone DEF Publish
  <2> QED BY <2>1, SameCount
<1> QED BY <1>1, <1>2, <1>3, <1>4, <1>5, <1>6, <1>7, <1>8, <1>9, <1>10 DEF Next, Step, Quiet

LEMMA LegsKept == Spec => []LegsCounted
PROOF
<1>1. Init => LegsCounted
  BY DEF Init, LegsCounted, Planned
<1>2. TypeInv /\ BookInv /\ LegsCounted /\ [Next]_vars => LegsCounted'
  BY LegsStep
<1> QED BY <1>1, <1>2, LedgerKept, PTL DEF Spec

OriginalAt(b, tx, p) ==
    \E w \in Wallets : \E i \in 1..Len(b[w]) :
        p = <<w, i>> /\ b[w][i].tx = tx /\ b[w][i].type # "REVERSAL"

Originals(b, tx) == PlacesOf(b, tx) \ ReversalsOf(b, tx)

LEMMA InOriginals ==
  ASSUME NEW b \in Books, NEW tx
  PROVE  \A p : p \in Originals(b, tx) <=> OriginalAt(b, tx, p)
PROOF
<1> TAKE p
<1>1. p \in PlacesOf(b, tx) <=>
        \E w \in Wallets : \E i \in 1..Len(b[w]) : p = <<w, i>> /\ b[w][i].tx = tx
  BY PlacesAre
<1>2. p \in ReversalsOf(b, tx) <=> MirrorAt(b, tx, p)
  BY InReversals DEF Books
<1>3. p \in Originals(b, tx) <=> p \in PlacesOf(b, tx) /\ ~MirrorAt(b, tx, p)
  BY <1>2 DEF Originals
<1>4. ASSUME p \in PlacesOf(b, tx), ~MirrorAt(b, tx, p) PROVE OriginalAt(b, tx, p)
  BY <1>1, <1>4 DEF OriginalAt, MirrorAt
<1>5. ASSUME OriginalAt(b, tx, p) PROVE p \in PlacesOf(b, tx) /\ ~MirrorAt(b, tx, p)
  <2>1. PICK w \in Wallets : \E i \in 1..Len(b[w]) :
          p = <<w, i>> /\ b[w][i].tx = tx /\ b[w][i].type # "REVERSAL"
    BY <1>5 DEF OriginalAt
  <2>2. PICK i \in 1..Len(b[w]) : p = <<w, i>> /\ b[w][i].tx = tx /\ b[w][i].type # "REVERSAL"
    BY <2>1
  <2>3. p \in PlacesOf(b, tx)
    BY <1>1, <2>2
  <2>4. ~MirrorAt(b, tx, p)
    BY <2>2 DEF MirrorAt
  <2> QED BY <2>3, <2>4
<1> QED BY <1>3, <1>4, <1>5

\* Nothing original on the new pages: the originals stay.
LEMMA OriginalsStay ==
  ASSUME NEW b \in Books, NEW n \in Books, NEW d \in Books, Extended(d, b, n), NEW tx,
         \A w \in Wallets : \A j \in 1..Len(n[w]) : n[w][j].tx = tx => n[w][j].type = "REVERSAL"
  PROVE  Originals(d, tx) \subseteq Originals(b, tx)
PROOF
<1> SUFFICES ASSUME NEW p, OriginalAt(d, tx, p) PROVE OriginalAt(b, tx, p)
  BY InOriginals
<1>1. PICK w \in Wallets : \E i \in 1..Len(d[w]) :
        p = <<w, i>> /\ d[w][i].tx = tx /\ d[w][i].type # "REVERSAL"
  BY DEF OriginalAt
<1>2. PICK i \in 1..Len(d[w]) : p = <<w, i>> /\ d[w][i].tx = tx /\ d[w][i].type # "REVERSAL"
  BY <1>1
<1>3. Joins(d[w], b[w], n[w])
  BY ConcatEntries DEF Extended, Books
<1>4. CASE i \in 1..Len(b[w])
  BY <1>2, <1>3, <1>4 DEF Joins, OriginalAt
<1>5. CASE i \notin 1..Len(b[w])
  <2>1. PICK j \in 1..Len(n[w]) : i = Len(b[w]) + j
    BY <1>3, <1>5 DEF Joins
  <2>2. d[w][i] = n[w][j]
    BY <1>3, <2>1 DEF Joins
  <2> QED BY <1>2, <2>1, <2>2
<1> QED BY <1>4, <1>5

\* No originals before: there are no more than on the new pages.
LEMMA OriginalsCome ==
  ASSUME NEW b \in Books, NEW n \in Books, NEW d \in Books, Extended(d, b, n), NEW tx,
         Originals(b, tx) = {}
  PROVE  Cardinality(Originals(d, tx)) <= Cardinality(PlacesOf(n, tx))
PROOF
<1> DEFINE P == PlacesOf(n, tx)
           at == [q \in P |-> <<q[1], Len(b[q[1]]) + q[2]>>]
           I == {at[q] : q \in P}
<1>1. IsFiniteSet(P)
  BY PlacesFinite DEF Books
<1>2. at \in Surjection(P, I)
  BY DEF Surjection
<1>3. IsFiniteSet(I) /\ Cardinality(I) <= Cardinality(P)
  <2> HIDE DEF P, at, I
  <2> QED BY <1>1, <1>2, FS_Surjection
<1>4. Originals(d, tx) \subseteq I
  <2> SUFFICES ASSUME NEW p, OriginalAt(d, tx, p) PROVE p \in I
    BY InOriginals
  <2>1. PICK w \in Wallets : \E i \in 1..Len(d[w]) :
          p = <<w, i>> /\ d[w][i].tx = tx /\ d[w][i].type # "REVERSAL"
    BY DEF OriginalAt
  <2>2. PICK i \in 1..Len(d[w]) : p = <<w, i>> /\ d[w][i].tx = tx /\ d[w][i].type # "REVERSAL"
    BY <2>1
  <2>3. Joins(d[w], b[w], n[w])
    BY ConcatEntries DEF Extended, Books
  <2>4. i \notin 1..Len(b[w])
    <3>1. SUFFICES ASSUME i \in 1..Len(b[w]) PROVE OriginalAt(b, tx, <<w, i>>)
      BY <3>1, InOriginals
    <3> QED BY <2>2, <2>3, <3>1 DEF Joins, OriginalAt
  <2>5. PICK j \in 1..Len(n[w]) : i = Len(b[w]) + j
    BY <2>3, <2>4 DEF Joins
  <2>6. d[w][i] = n[w][j]
    BY <2>3, <2>5 DEF Joins
  <2>7. <<w, j>> \in P
    BY <2>2, <2>6, PlacesAre
  <2>8. at[<<w, j>>] = p
    BY <2>2, <2>5, <2>7
  <2> QED BY <2>7, <2>8
<1>5. Cardinality(Originals(d, tx)) <= Cardinality(I)
  <2> HIDE DEF I
  <2> QED BY <1>3, <1>4, FS_Subset
<1> QED BY <1>1, <1>3, <1>4, <1>5, FS_CardinalityType, FS_Subset

LEMMA CommitCount ==
  ASSUME TypeInv, BookInv, ReversalInv, EventsInv, LegsCounted, KeysInv, CountInv,
         ClientsWait, UNCHANGED setting, NEW t \in Threads, Commit(t),
         NEW c \in setting.commands, c.kind # "reverse"
  PROVE  Cardinality(Originals(book', c.tx)) <= Len(LegsOf(c))
PROOF
<1> DEFINE new == fresh[t]
<1>1. /\ pc[t] = "commit" /\ cmd[t] \in setting.commands /\ book' = [w \in Wallets |-> book[w] \o new[w]]
      /\ book \in Books /\ new \in Books
  BY DEF Commit, TypeInv, TypeOK, EventsInv, CommandsGiven, Books
<1>2. book' \in Books /\ Extended(book', book, new)
  <2>1. \A w \in Wallets : book[w] \o new[w] \in Seq(Entry)
    BY <1>1, ConcatProperties DEF Books
  <2> HIDE DEF new
  <2> QED BY <1>1, <2>1 DEF Extended, Books
<1>3. \A w \in Wallets : \A i \in 1..Len(new[w]) :
        new[w][i].tx = cmd[t].tx /\ (cmd[t].kind = "reverse" => new[w][i].type = "REVERSAL")
  BY <1>1 DEF ReversalInv, PagesHonest, EventsInv, MirrorsOnly
<1>4. CASE SamePosting(c, cmd[t])
  <2>1. c = cmd[t]
    BY <1>1, <1>4, OneCommand DEF EventsInv
  <2>2. ~Written(book, c)
    BY <1>1, <2>1 DEF KeysInv, ClaimsHeld
  <2>3. Originals(book, c.tx) = {}
    <3>1. \A p : ~OriginalAt(book, c.tx, p)
      BY <2>2 DEF OriginalAt, Written
    <3> QED BY <1>1, <3>1, InOriginals
  <2>4. Cardinality(PlacesOf(new, c.tx)) = Len(LegsOf(c))
    <3>1. plan[t] = << >>
      BY <1>1 DEF ReversalInv, PlanDone
    <3>2. Cardinality(PlacesOf(new, c.tx)) + Len(plan[t]) = Len(LegsOf(c))
      BY <1>1, <2>1 DEF LegsCounted
    <3>3. Cardinality(PlacesOf(new, c.tx)) \in Nat /\ Len(plan[t]) = 0
      BY <1>1, <3>1, PlacesFinite, FS_CardinalityType DEF Books
    <3> HIDE DEF new
    <3> QED BY <3>2, <3>3
  <2>5. Cardinality(Originals(book', c.tx)) <= Cardinality(PlacesOf(new, c.tx))
    <3> HIDE DEF new
    <3> QED BY <1>1, <1>2, <2>3, OriginalsCome
  <2> QED BY <2>4, <2>5
<1>5. CASE ~SamePosting(c, cmd[t])
  <2>1. \A w \in Wallets : \A j \in 1..Len(new[w]) :
          new[w][j].tx = c.tx => new[w][j].type = "REVERSAL"
    BY <1>3, <1>5 DEF SamePosting
  <2>2. Originals(book', c.tx) \subseteq Originals(book, c.tx)
    <3> HIDE DEF new
    <3> QED BY <1>1, <1>2, <2>1, OriginalsStay
  <2>3. IsFiniteSet(Originals(book, c.tx))
    BY <1>1, PlacesFinite, FS_Subset DEF Books, Originals
  <2>4. Cardinality(Originals(book', c.tx)) <= Cardinality(Originals(book, c.tx))
        /\ IsFiniteSet(Originals(book', c.tx))
    BY <2>2, <2>3, FS_Subset
  <2>5. Cardinality(Originals(book, c.tx)) <= Len(LegsOf(c))
    BY DEF CountInv, PostedOnce, OriginalsOf, Originals
  <2>6. Len(LegsOf(c)) \in Nat
    BY LegsType, ThreadsAssumption DEF EventsInv, CommandsGiven, Setting
  <2> QED BY <2>3, <2>4, <2>5, <2>6, FS_CardinalityType
<1> QED BY <1>4, <1>5

LEMMA CountStep ==
  ASSUME TypeInv, BookInv, ReversalInv, EventsInv, LegsCounted, KeysInv, CountInv, [Next]_vars
  PROVE  CountInv'
PROOF
<1>1. UNCHANGED setting
  BY DEF Next, vars
<1> SUFFICES ASSUME ClientsWait,
                    NEW c \in setting.commands, c.kind # "reverse"
             PROVE  Cardinality(Originals(book', c.tx)) <= Len(LegsOf(c))
  BY <1>1 DEF CountInv, PostedOnce, ClientsWait, OriginalsOf, Originals
<1>2. CASE UNCHANGED book
  BY <1>2 DEF CountInv, PostedOnce, OriginalsOf, Originals
<1>3. ASSUME NEW t \in Threads, Commit(t)
      PROVE  Cardinality(Originals(book', c.tx)) <= Len(LegsOf(c))
  BY <1>1, <1>3, CommitCount
<1>4. UNCHANGED book \/ \E t \in Threads : Commit(t)
  <2>1. ASSUME NEW t \in Threads, ThreadStep(t) PROVE UNCHANGED book \/ Commit(t)
    BY <2>1, ThreadSteps
  <2>2. ASSUME NEW t \in Threads, NEW d \in Commands, Receive(t, d) PROVE UNCHANGED book
    BY <2>2 DEF Receive, tables
  <2>3. ASSUME NEW k \in Keys, ExpireClaim(k) \/ ExpireResult(k) PROVE UNCHANGED book
    BY <2>3 DEF ExpireClaim, ExpireResult, tables
  <2>4. CASE UNCHANGED vars
    BY <2>4 DEF vars
  <2> QED BY <2>1, <2>2, <2>3, <2>4 DEF Next, Quiet, ThreadStep
<1> QED BY <1>2, <1>3, <1>4

LEMMA CountKept == Spec => []CountInv
PROOF
<1>1. Init => CountInv
  <2> SUFFICES ASSUME Init, NEW c \in setting.commands, c.kind # "reverse"
               PROVE  Cardinality(OriginalsOf(c.tx)) <= Len(LegsOf(c))
    BY DEF CountInv, PostedOnce
  <2>1. OriginalsOf(c.tx) = {}
    <3>1. PlacesOf(book, c.tx) = {}
      BY NoPlaces DEF Init, Empty
    <3> QED BY <3>1 DEF OriginalsOf
  <2>2. Len(LegsOf(c)) \in Nat
    BY LegsType, ThreadsAssumption DEF Init, Setting
  <2> QED BY <2>1, <2>2, FS_EmptySet
<1>2. TypeInv /\ BookInv /\ ReversalInv /\ EventsInv /\ LegsCounted /\ KeysInv /\ CountInv /\ [Next]_vars
        => CountInv'
  BY CountStep
<1> QED BY <1>1, <1>2, LedgerKept, EventsKept, LegsKept, KeysKept, PTL DEF Spec

\* As long as a client sends again only after its call ended and within a day, and no call
\* outlives its claim, a key stands for one posting, wherever earlier attempts failed or
\* died: the command behind it is posted once, and of two commands that share it one.
THEOREM OneKeyOnePosting == Spec => []OnePostingPerKey
PROOF
<1>1. TypeInv /\ KeysInv /\ CountInv => OnePostingPerKey
  <2> SUFFICES ASSUME TypeInv, KeysInv, CountInv, ClientsWait,
                      NEW c \in setting.commands, NEW d \in setting.commands,
                      c.key = d.key, Posted(c), Posted(d)
               PROVE  c = d
    BY DEF OnePostingPerKey, CountInv
  <2>1. Written(book, c) /\ Written(book, d)
    BY PostedMeans DEF TypeInv, TypeOK
  <2>2. ResultOf(c) = ResultOf(d)
    BY <2>1 DEF KeysInv, ResultsStay
  <2> QED BY <2>2 DEF ResultOf
<1> QED BY <1>1, LedgerKept, KeysKept, CountKept, PTL
=============================================================================
