-------------------------- MODULE LedgerWriteProofs --------------------------
(***************************************************************************)
(* What LedgerWrite keeps for every set of wallets, threads and commands,  *)
(* every bound on retries and every combination of faults.                 *)
(***************************************************************************)
EXTENDS LedgerWrite, FiniteSetTheorems, FunctionTheorems, SequenceTheorems, TLAPS

-----------------------------------------------------------------------------
(***************************************************************************)
(* Orders of the originals.                                                *)
(***************************************************************************)
\* The entries of a transaction are finitely many.
LEMMA PlacesFinite ==
  ASSUME NEW b \in [Wallets -> Seq(Entry)], NEW tx
  PROVE  IsFiniteSet(PlacesOf(b, tx))
PROOF
<1> DEFINE At(w) == {j \in 1..Len(b[w]) : b[w][j].tx = tx}
           Row(w) == {<<w, i>> : i \in At(w)}
           f == [w \in Wallets |-> Row(w)]
<1>1. ASSUME NEW w \in Wallets PROVE IsFiniteSet(Row(w))
  <2>1. Len(b[w]) \in Int
    OBVIOUS
  <2>2. IsFiniteSet(At(w))
    <3>1. IsFiniteSet(1..Len(b[w])) BY <2>1, FS_Interval
    <3> QED BY <3>1, FS_Subset
  <2> DEFINE g == [i \in At(w) |-> <<w, i>>]
  <2>3. g \in Surjection(At(w), Row(w))
    BY DEF Surjection
  <2> QED BY <2>2, <2>3, FS_Surjection
<1> HIDE DEF Row
<1>2. f \in Surjection(Wallets, {Row(w) : w \in Wallets})
  BY DEF Surjection
<1>3. IsFiniteSet({Row(w) : w \in Wallets})
  BY <1>2, FS_Surjection, CommandsAssumption
<1>4. IsFiniteSet(UNION {Row(w) : w \in Wallets})
  BY <1>1, <1>3, FS_UNION
<1> QED BY <1>4 DEF PlacesOf, Row

\* An order of a finite set is a sequence that lists exactly that set.
LEMMA OrderLists ==
  ASSUME NEW S, IsFiniteSet(S), NEW s \in SetToSeqs(S)
  PROVE  /\ s \in Seq(S)
         /\ Len(s) \in Nat
         /\ DOMAIN s = 1..Len(s)
         /\ \A p \in S : \E i \in 1..Len(s) : s[i] = p
PROOF
<1> DEFINE n == Cardinality(S)
<1>1. n \in Nat BY FS_CardinalityType
<1>2. /\ s \in [1..n -> S]
      /\ \A i, j \in 1..n : i # j => s[i] # s[j]
  BY DEF SetToSeqs
<1>3. s \in Seq(S) /\ Len(s) = n
  BY <1>1, <1>2
<1>4. s \in Injection(1..n, S)
  BY <1>2 DEF Injection, IsInjective
<1>5. IsFiniteSet(1..n) /\ Cardinality(1..n) = n
  BY <1>1, FS_Interval
<1>6. s \in Surjection(1..n, S)
  BY <1>4, <1>5, FS_Injection
<1> QED BY <1>1, <1>2, <1>3, <1>6 DEF Surjection

RowIn(legs, w) == \E i \in 1..Len(legs) : legs[i].wallet = w

\* What reverse plans: a mirror for every original, in some order.
LEMMA MirrorPlan ==
  ASSUME NEW b \in [Wallets -> Seq(Entry)], NEW tx,
         NEW order \in SetToSeqs(PlacesOf(b, tx)),
         NEW mirrors,
         mirrors = [i \in 1..Len(order) |->
                      MirrorOf(order[i][1], b[order[i][1]][order[i][2]])]
  PROVE  /\ mirrors \in Seq(Leg)
         /\ \A i \in 1..Len(mirrors) : mirrors[i].wallet \in Wallets
         /\ \A p \in PlacesOf(b, tx) : RowIn(mirrors, p[1])
PROOF
<1>1. /\ order \in Seq(PlacesOf(b, tx))
      /\ Len(order) \in Nat
      /\ DOMAIN order = 1..Len(order)
      /\ \A p \in PlacesOf(b, tx) : \E i \in 1..Len(order) : order[i] = p
  BY PlacesFinite, OrderLists
<1>2. \A p \in PlacesOf(b, tx) :
        p[1] \in Wallets /\ p[2] \in 1..Len(b[p[1]]) /\ b[p[1]][p[2]] \in Entry
  BY DEF PlacesOf
<1>3. \A w \in Wallets : \A e \in Entry : MirrorOf(w, e) \in Leg /\ MirrorOf(w, e).wallet = w
  BY CommandsAssumption DEF MirrorOf, LegOf, Leg, Entry, Opposite, Directions, EntryTypes
<1>4. \A i \in 1..Len(order) : order[i] \in PlacesOf(b, tx)
  BY <1>1
<1>5. \A i \in 1..Len(order) : mirrors[i] \in Leg /\ mirrors[i].wallet = order[i][1]
  BY <1>2, <1>3, <1>4
<1>6. mirrors \in [1..Len(order) -> Leg]
  BY <1>5
<1>7. mirrors \in Seq(Leg) /\ Len(mirrors) = Len(order)
  BY <1>1, <1>6
<1>8. \A p \in PlacesOf(b, tx) : RowIn(mirrors, p[1])
  <2> TAKE p \in PlacesOf(b, tx)
  <2>1. PICK i \in 1..Len(order) : order[i] = p BY <1>1
  <2> QED BY <1>5, <1>7, <2>1 DEF RowIn
<1>9. \A i \in 1..Len(mirrors) : \E p \in PlacesOf(b, tx) : mirrors[i].wallet = p[1]
  BY <1>4, <1>5, <1>7
<1>10. \A i \in 1..Len(mirrors) : mirrors[i].wallet \in Wallets
  BY <1>2, <1>9
<1> QED BY <1>7, <1>8, <1>9, <1>10

\* The legs of a command, and the rows a transfer locks.
LEMMA LegsType ==
  ASSUME NEW c \in Commands
  PROVE  /\ LegsOf(c) \in Seq(Leg)
         /\ \A i \in 1..Len(LegsOf(c)) : LegsOf(c)[i].type # "REVERSAL"
         /\ LocksOf(c) \in Seq(WalletIds)
         /\ LocksOf(c) # << >>
PROOF
<1>1. c \in Command
  BY CommandsAssumption
<1>2. \A w \in WalletIds, d \in Directions, a \in Nat, y \in EntryTypes : LegOf(w, d, a, y) \in Leg
  BY DEF LegOf, Leg
<1>3. TransferLegs(c) \in Seq(Leg)
      /\ \A i \in 1..Len(TransferLegs(c)) : TransferLegs(c)[i].type # "REVERSAL"
  <2> DEFINE p == PrincipalLegs(c)
             f == FeeLegs(c)
  <2>1. p \in Seq(Leg) /\ f \in Seq(Leg)
    BY <1>1, <1>2 DEF Command, Directions, EntryTypes, PrincipalLegs, FeeLegs
  <2>2. /\ Len(p) = 2 /\ p[1].type # "REVERSAL" /\ p[2].type # "REVERSAL"
        /\ Len(f) = 2 /\ f[1].type # "REVERSAL" /\ f[2].type # "REVERSAL"
    BY DEF LegOf, PrincipalLegs, FeeLegs
  <2> HIDE DEF p, f
  <2>3. /\ p \o f \in Seq(Leg)
        /\ Len(p \o f) = Len(p) + Len(f)
        /\ \A i \in 1..(Len(p) + Len(f)) :
             (p \o f)[i] = IF i <= Len(p) THEN p[i] ELSE f[i - Len(p)]
    BY <2>1, ConcatProperties, Zenon
  <2>4. CASE c.fee > 0
    <3>1. TransferLegs(c) = p \o f BY <2>4 DEF TransferLegs, p, f
    <3>2. \A i \in 1..4 : (p \o f)[i].type # "REVERSAL"
      BY <2>2, <2>3
    <3> QED BY <2>2, <2>3, <3>1, <3>2
  <2>5. CASE ~(c.fee > 0)
    <3>1. TransferLegs(c) = p BY <2>5 DEF TransferLegs, p
    <3>2. \A i \in 1..2 : p[i].type # "REVERSAL"
      BY <2>2
    <3> QED BY <2>1, <2>2, <3>1, <3>2
  <2> QED BY <2>4, <2>5
<1>4. LegsOf(c) \in Seq(Leg) /\ \A i \in 1..Len(LegsOf(c)) : LegsOf(c)[i].type # "REVERSAL"
  <2>1. CASE c.kind = "transfer" BY <2>1, <1>3 DEF LegsOf
  <2>0. ASSUME NEW leg \in Leg, leg.type # "REVERSAL"
        PROVE  << leg >> \in Seq(Leg) /\ \A i \in 1..Len(<< leg >>) : << leg >>[i].type # "REVERSAL"
    BY <2>0
  <2> DEFINE out == LegOf(c.from, "DEBIT", c.amount, "PRINCIPAL")
             in == LegOf(c.to, "CREDIT", c.amount, "PRINCIPAL")
  <2>a. out \in Leg /\ in \in Leg
    BY <1>1, <1>2 DEF Command, Directions, EntryTypes
  <2>b. out.type # "REVERSAL" /\ in.type # "REVERSAL"
    BY DEF LegOf
  <2>2. CASE c.kind = "credit"
    <3>1. LegsOf(c) = << in >> BY <2>2 DEF LegsOf
    <3> HIDE DEF in
    <3> QED BY <3>1, <2>0, <2>a, <2>b
  <2>3. CASE c.kind = "debit"
    <3>1. LegsOf(c) = << out >> BY <2>3 DEF LegsOf
    <3> HIDE DEF out
    <3> QED BY <3>1, <2>0, <2>a, <2>b
  <2>4. CASE c.kind \notin {"transfer", "credit", "debit"} BY <2>4 DEF LegsOf
  <2> QED BY <2>1, <2>2, <2>3, <2>4
<1>5. LocksOf(c) \in Seq(WalletIds) /\ LocksOf(c) # << >>
  <2>1. c.from \in WalletIds /\ c.to \in WalletIds /\ c.fees \in WalletIds
    BY <1>1 DEF Command
  <2>2. <<c.from, c.to>> \in Seq(WalletIds) /\ <<c.fees>> \in Seq(WalletIds)
    BY <2>1
  <2> QED BY <2>2 DEF LocksOf
<1> QED BY <1>4, <1>5

-----------------------------------------------------------------------------
(***************************************************************************)
(* Types.                                                                  *)
(***************************************************************************)
\* A transfer that is still locking has a row left to lock.
TypeInv ==
    /\ TypeOK
    /\ \A t \in Threads : pc[t] = "locking" => locks[t] # << >>

LEMMA InitType == Init => TypeInv
PROOF
<1> SUFFICES ASSUME Init PROVE TypeInv
  OBVIOUS
<1> USE DEF Init, TypeInv, TypeOK, Empty, Zero, Absent, Labels
<1>1. balance \in [Wallets -> Int] /\ book \in [Wallets -> Seq(Entry)]
  BY CommandsAssumption
<1> QED BY <1>1

\* An entry made from a leg.
LEMMA EntryType ==
  ASSUME NEW tx \in Txs, NEW leg \in Leg, NEW b \in Int
  PROVE  /\ EntryOf(tx, leg, b) \in Entry
         /\ EntryOf(tx, leg, b).tx = tx
         /\ EntryOf(tx, leg, b).type = leg.type
         /\ EntryOf(tx, leg, b).before = b
         /\ EntryOf(tx, leg, b).after \in Int
         /\ EntryOf(tx, leg, b).after =
              After(EntryOf(tx, leg, b).dir, EntryOf(tx, leg, b).amount, b)
PROOF
  BY DEF EntryOf, Entry, Leg, After, Directions, EntryTypes

\* Ending a request keeps the shape of what it resets.
LEMMA ForgetType ==
  ASSUME TypeInv, NEW t \in Threads, Forget(t)
  PROVE  /\ pc' \in [Threads -> Labels]
         /\ cmd' \in [Threads -> Commands \cup {NoCommand}]
         /\ \A u \in Threads : pc'[u] # "idle" => cmd'[u] \in Commands
         /\ locks' \in [Threads -> Seq(WalletIds)]
         /\ plan' \in [Threads -> Seq(Leg)]
         /\ work' \in [Threads -> [Wallets -> Int]]
         /\ fresh' \in [Threads -> [Wallets -> Seq(Entry)]]
         /\ \A u \in Threads : pc'[u] = "locking" => locks'[u] # << >>
PROOF
  BY DEF TypeInv, TypeOK, Forget, Goto, Labels, Empty, Zero

LEMMA TypeStep ==
  ASSUME TypeInv, [Next]_vars
  PROVE  TypeInv'
PROOF
<1> USE DEF Labels, Claiming, InTransaction
<1>0. CASE UNCHANGED vars
  BY <1>0 DEF TypeInv, TypeOK, vars
<1>1. ASSUME NEW t \in Threads, NEW c \in Commands, Receive(t, c) PROVE TypeInv'
  BY <1>1 DEF TypeInv, TypeOK, Receive, Goto, tables, private
<1>2. ASSUME NEW t \in Threads, CheckCache(t) PROVE TypeInv'
  <2>1. CASE idem[cmd[t].key].state = "RESULT"
    BY <1>2, <2>1, ForgetType DEF TypeInv, TypeOK, CheckCache, tables
  <2>2. CASE idem[cmd[t].key].state # "RESULT"
    BY <1>2, <2>2 DEF TypeInv, TypeOK, CheckCache, Goto, tables, private
  <2> QED BY <2>1, <2>2
<1>3. ASSUME NEW t \in Threads, ClaimGet(t) PROVE TypeInv'
  <2>1. CASE Forget(t)
    BY <1>3, <2>1, ForgetType DEF TypeInv, TypeOK, ClaimGet, tables, client
  <2>2. CASE /\ Goto(t, "setnx") \/ Goto(t, "begin")
             /\ UNCHANGED <<cmd, private>>
    BY <1>3, <2>2 DEF TypeInv, TypeOK, ClaimGet, Goto, tables, private, client
  <2>3. Forget(t) \/ /\ Goto(t, "setnx") \/ Goto(t, "begin")
                     /\ UNCHANGED <<cmd, private>>
    BY <1>3, Zenon DEF ClaimGet
  <2> QED BY <2>1, <2>2, <2>3
<1>4. ASSUME NEW t \in Threads, ClaimSet(t) PROVE TypeInv'
  <2>1. CASE idem[cmd[t].key] = Absent
    <3>1. Claimed \in [ state : {"ABSENT", "CLAIMED", "RESULT"},
                        of : Commands \cup {NoCommand} ]
      BY DEF Claimed
    <3>2. /\ idem' = [idem EXCEPT ![cmd[t].key] = Claimed]
          /\ Goto(t, "begin")
          /\ UNCHANGED <<tables, owner, cmd, private, stale, client, events>>
      BY <1>4, <2>1 DEF ClaimSet
    <3>3. pc[t] = "setnx"
      BY <1>4 DEF ClaimSet
    <3> QED BY <3>1, <3>2, <3>3 DEF TypeInv, TypeOK, Goto, tables, private, client
  <2>2. CASE idem[cmd[t].key] # Absent
    BY <1>4, <2>2, ForgetType DEF TypeInv, TypeOK, ClaimSet, tables, client
  <2> QED BY <2>1, <2>2
<1>5. ASSUME NEW t \in Threads, BeginPosting(t) PROVE TypeInv'
  <2>1. cmd[t] \in Commands
    BY <1>5 DEF TypeInv, TypeOK, BeginPosting
  <2>2. plan' \in [Threads -> Seq(Leg)]
    BY <1>5, <2>1, LegsType DEF TypeInv, TypeOK, BeginPosting
  <2>3. /\ pc' \in [Threads -> Labels]
        /\ locks' \in [Threads -> Seq(WalletIds)]
        /\ \A u \in Threads : pc'[u] = "locking" => locks'[u] # << >>
        /\ \A u \in Threads : pc'[u] # "idle" => cmd'[u] \in Commands
    <3>1. CASE cmd[t].kind = "transfer"
      <4>1. /\ pc' = [pc EXCEPT ![t] = "locking"]
            /\ locks' = [locks EXCEPT ![t] = LocksOf(cmd[t])]
            /\ cmd' = cmd /\ pc[t] = "begin"
        BY <1>5, <3>1 DEF BeginPosting, Goto
      <4>2. LocksOf(cmd[t]) \in Seq(WalletIds) /\ LocksOf(cmd[t]) # << >>
        BY <2>1, LegsType
      <4> QED BY <4>1, <4>2 DEF TypeInv, TypeOK
    <3>2. CASE cmd[t].kind # "transfer"
      BY <1>5, <3>2, <2>1, LegsType DEF TypeInv, TypeOK, BeginPosting, Goto
    <3> QED BY <3>1, <3>2
  <2>4. stale' \in [Threads -> SUBSET Wallets]
    BY <1>5 DEF TypeInv, TypeOK, BeginPosting, NoSnapshot
  <2> QED BY <1>5, <2>2, <2>3, <2>4
          DEF TypeInv, TypeOK, BeginPosting, tables, client
<1>6. ASSUME NEW t \in Threads, BeginReversal(t) PROVE TypeInv'
  <2>1. plan' \in [Threads -> Seq(Leg)]
    <3> DEFINE places == PlacesOf(book, cmd[t].tx)
    <3>1. CASE places = {} \/ ReversalsOf(book, cmd[t].tx) # {}
      BY <1>6, <3>1 DEF TypeInv, TypeOK, BeginReversal
    <3>2. CASE ~(places = {} \/ ReversalsOf(book, cmd[t].tx) # {})
      <4>1. PICK order \in SetToSeqs(places) :
              plan' = [plan EXCEPT ![t] =
                         [i \in 1..Len(order) |->
                            MirrorOf(order[i][1], book[order[i][1]][order[i][2]])]]
        BY <1>6, <3>2, Zenon DEF BeginReversal
      <4> DEFINE mirrors == [i \in 1..Len(order) |->
                               MirrorOf(order[i][1], book[order[i][1]][order[i][2]])]
      <4>2. mirrors = [i \in 1..Len(order) |->
                         MirrorOf(order[i][1], book[order[i][1]][order[i][2]])]
        OBVIOUS
      <4>3. plan' = [plan EXCEPT ![t] = mirrors]
        BY <4>1
      <4> HIDE DEF mirrors
      <4>4. book \in [Wallets -> Seq(Entry)]
        BY DEF TypeInv, TypeOK
      <4>5. mirrors \in Seq(Leg)
        BY <4>2, <4>4, MirrorPlan
      <4> QED BY <4>3, <4>5 DEF TypeInv, TypeOK
    <3> QED BY <3>1, <3>2
  <2>2. pc' \in [Threads -> Labels] /\ \A u \in Threads : u # t => pc'[u] = pc[u]
    BY <1>6 DEF TypeInv, TypeOK, BeginReversal, Goto
  <2>3. pc[t] = "begin" /\ pc'[t] # "locking"
    BY <1>6 DEF TypeInv, TypeOK, BeginReversal, Goto
  <2>4. stale' \in [Threads -> SUBSET Wallets]
    BY <1>6 DEF TypeInv, TypeOK, BeginReversal, NoSnapshot
  <2>5. UNCHANGED <<tables, owner, idem, cmd, locks, work, fresh, client, events>>
    BY <1>6 DEF BeginReversal
  <2> QED BY <2>1, <2>2, <2>3, <2>4, <2>5 DEF TypeInv, TypeOK, tables, client
<1>7. ASSUME NEW t \in Threads, LockRow(t) PROVE TypeInv'
  <2>1. PICK w \in Wanted(t) \cap Wallets :
          /\ owner' = [owner EXCEPT ![w] = t]
          /\ work' = IF owner[w] = t THEN work ELSE [work EXCEPT ![t][w] = balance[w]]
          /\ IF pc[t] = "locking"
               THEN /\ locks' = [locks EXCEPT ![t] = Tail(@)]
                    /\ Goto(t, IF Len(locks[t]) = 1 THEN "checking" ELSE "locking")
               ELSE UNCHANGED <<locks, pc>>
          /\ UNCHANGED <<tables, idem, cmd, plan, fresh, stale, client, events>>
    BY <1>7 DEF LockRow
  <2>2. owner' \in [Wallets -> Threads \cup {NoThread}]
        /\ work' \in [Threads -> [Wallets -> Int]]
    BY <2>1 DEF TypeInv, TypeOK
  <2>3. /\ locks' \in [Threads -> Seq(WalletIds)]
        /\ pc' \in [Threads -> Labels]
        /\ \A u \in Threads : pc'[u] = "locking" => locks'[u] # << >>
        /\ \A u \in Threads : pc'[u] # "idle" => cmd'[u] \in Commands
    <3>1. CASE pc[t] = "locking"
      <4>1. locks[t] \in Seq(WalletIds) /\ locks[t] # << >>
        BY <3>1 DEF TypeInv, TypeOK
      <4> DEFINE rest == Tail(locks[t])
                 label == IF Len(locks[t]) = 1 THEN "checking" ELSE "locking"
      <4>2. /\ locks' = [locks EXCEPT ![t] = rest]
            /\ pc' = [pc EXCEPT ![t] = label]
            /\ cmd' = cmd
        BY <2>1, <3>1 DEF Goto
      <4>3. rest \in Seq(WalletIds) /\ Len(rest) = Len(locks[t]) - 1
        BY <4>1, HeadTailProperties
      <4>4. Len(locks[t]) \in Nat /\ label \in {"checking", "locking"}
        BY <4>1
      <4>5. label = "locking" => Len(locks[t]) # 1
        OBVIOUS
      <4> HIDE DEF rest, label
      <4>6. label = "locking" => rest # << >>
        <5>1. rest = << >> <=> Len(rest) = 0
          BY <4>3, EmptySeq, Zenon
        <5> QED BY <4>3, <4>4, <4>5, <5>1
      <4> QED BY <3>1, <4>2, <4>3, <4>4, <4>6 DEF TypeInv, TypeOK
    <3>2. CASE pc[t] # "locking"
      BY <2>1, <3>2 DEF TypeInv, TypeOK
    <3> QED BY <3>1, <3>2
  <2> QED BY <2>1, <2>2, <2>3 DEF TypeInv, TypeOK, tables, client
<1>8. ASSUME NEW t \in Threads, LockFails(t) PROVE TypeInv'
  <2>1. pc[t] # "idle"
    BY <1>8 DEF LockFails, Wanted
  <2> QED BY <1>8, <2>1 DEF TypeInv, TypeOK, LockFails, Goto, tables, private, client
<1>9. ASSUME NEW t \in Threads, DeadlockVictim(t) PROVE TypeInv'
  <2>1. pc[t] # "idle"
    BY <1>9 DEF DeadlockVictim, InWaitCycle, WaitsFor, Wanted
  <2> QED BY <1>9, <2>1 DEF TypeInv, TypeOK, DeadlockVictim, Goto, tables, private, client
<1>10. ASSUME NEW t \in Threads, CheckFunds(t) PROVE TypeInv'
  <2>1. pc[t] = "checking" /\ pc' \in [Threads -> Labels]
    BY <1>10 DEF TypeInv, TypeOK, CheckFunds, Goto
  <2> QED BY <1>10, <2>1 DEF TypeInv, TypeOK, CheckFunds, Goto, tables, private, client
<1>11. ASSUME NEW t \in Threads, PostLeg(t) PROVE TypeInv'
  <2> DEFINE leg == Head(plan[t])
             entry == EntryOf(cmd[t].tx, leg, work[t][leg.wallet])
  <2>1. pc[t] = "posting" /\ plan[t] # << >> /\ leg.wallet \in Wallets
    BY <1>11 DEF PostLeg, Held
  <2>2. leg \in Leg /\ Tail(plan[t]) \in Seq(Leg)
    BY <2>1, HeadTailProperties DEF TypeInv, TypeOK
  <2>3. cmd[t].tx \in Txs
    BY <2>1, CommandsAssumption DEF TypeInv, TypeOK, Command
  <2>4. work[t][leg.wallet] \in Int
    BY <2>1 DEF TypeInv, TypeOK
  <2>5. entry \in Entry /\ entry.after \in Int
    BY <2>2, <2>3, <2>4, EntryType
  <2>6. UNCHANGED <<tables, owner, idem, cmd, locks, stale, client, events>>
    BY <1>11 DEF PostLeg
  <2>7. CASE Covered(leg, work[t][leg.wallet])
    <3>1. /\ work' = [work EXCEPT ![t][leg.wallet] = entry.after]
          /\ fresh' = [fresh EXCEPT ![t][leg.wallet] = Append(@, entry)]
          /\ plan' = [plan EXCEPT ![t] = Tail(@)]
          /\ UNCHANGED pc
      BY <1>11, <2>7 DEF PostLeg
    <3> HIDE DEF leg, entry
    <3>2. fresh[t][leg.wallet] \in Seq(Entry)
      BY <2>1 DEF TypeInv, TypeOK
    <3>3. Append(fresh[t][leg.wallet], entry) \in Seq(Entry)
      BY <2>5, <3>2, AppendProperties
    <3>4. /\ work' \in [Threads -> [Wallets -> Int]]
          /\ fresh' \in [Threads -> [Wallets -> Seq(Entry)]]
          /\ plan' \in [Threads -> Seq(Leg)]
      BY <2>1, <2>2, <2>5, <3>1, <3>3 DEF TypeInv, TypeOK, leg
    <3> QED BY <2>1, <2>6, <3>1, <3>4 DEF TypeInv, TypeOK, tables, client
  <2>8. CASE ~Covered(leg, work[t][leg.wallet])
    <3>1. Goto(t, "failing") /\ UNCHANGED <<work, fresh, plan>>
      BY <1>11, <2>8 DEF PostLeg
    <3> QED BY <2>1, <2>6, <3>1 DEF TypeInv, TypeOK, Goto, tables, client
  <2> QED BY <2>7, <2>8
<1>12. ASSUME NEW t \in Threads, StoreResult(t) PROVE TypeInv'
  <2>1. pc[t] = "posting" /\ cmd[t] \in Commands
    BY <1>12 DEF TypeInv, TypeOK, StoreResult
  <2>2. ResultOf(cmd[t]) \in [ state : {"ABSENT", "CLAIMED", "RESULT"},
                               of : Commands \cup {NoCommand} ]
    BY <2>1 DEF ResultOf
  <2> QED BY <1>12, <2>1, <2>2 DEF TypeInv, TypeOK, StoreResult, Goto, tables, private, client
<1>13. ASSUME NEW t \in Threads, Commit(t) PROVE TypeInv'
  <2>1. pc[t] = "commit" /\ cmd[t] \in Commands
    BY <1>13 DEF TypeInv, TypeOK, Commit
  <2>2. balance' \in [Wallets -> Int]
    BY <1>13 DEF TypeInv, TypeOK, Commit
  <2>3. book' \in [Wallets -> Seq(Entry)]
    <3>1. \A w \in Wallets : book[w] \o fresh[t][w] \in Seq(Entry)
      BY ConcatProperties DEF TypeInv, TypeOK
    <3> QED BY <1>13, <3>1 DEF Commit
  <2>4. owner' \in [Wallets -> Threads \cup {NoThread}]
    BY <1>13 DEF TypeInv, TypeOK, Commit, Unlock
  <2>5. stale' \in [Threads -> SUBSET Wallets]
    BY <1>13 DEF TypeInv, TypeOK, Commit, Held
  <2>6. UNCHANGED <<idem, sent, events>>
    BY <1>13 DEF Commit
  <2>7. CASE Announced(cmd[t])
    <3>1. /\ Goto(t, "publish")
          /\ fresh' = [fresh EXCEPT ![t] = Empty]
          /\ UNCHANGED <<cmd, locks, plan, work, acked>>
      BY <1>13, <2>7 DEF Commit
    <3>2. fresh' \in [Threads -> [Wallets -> Seq(Entry)]]
      BY <3>1 DEF TypeInv, TypeOK, Empty
    <3> QED BY <2>1, <2>2, <2>3, <2>4, <2>5, <2>6, <3>1, <3>2 DEF TypeInv, TypeOK, Goto
  <2>8. CASE ~Announced(cmd[t])
    <3>1. Forget(t) /\ acked' = acked \cup {cmd[t]}
      BY <1>13, <2>8 DEF Commit
    <3> QED BY <2>1, <2>2, <2>3, <2>4, <2>5, <2>6, <3>1, ForgetType DEF TypeInv, TypeOK
  <2> QED BY <2>7, <2>8
<1>14. ASSUME NEW t \in Threads, Publish(t) PROVE TypeInv'
  <2>1. cmd[t] \in Commands
    BY <1>14 DEF TypeInv, TypeOK, Publish
  <2>2. EventOf(cmd[t], "exchange") \in [tx : Txs, kind : Kinds, route : {"exchange", "dlq"}]
        /\ EventOf(cmd[t], "dlq") \in [tx : Txs, kind : Kinds, route : {"exchange", "dlq"}]
    BY <2>1, CommandsAssumption DEF Command, EventOf
  <2>3. events' \subseteq [tx : Txs, kind : Kinds, route : {"exchange", "dlq"}]
    BY SMTT(20), ZenonT(20), <1>14, <2>2 DEF Publish, TypeInv, TypeOK
  <2>4. Forget(t) /\ acked' = acked \cup {cmd[t]} /\ UNCHANGED <<tables, owner, idem, stale, sent>>
    BY <1>14 DEF Publish
  <2> QED BY <2>1, <2>3, <2>4, ForgetType DEF TypeInv, TypeOK, tables
<1>15. ASSUME NEW t \in Threads, DbError(t) PROVE TypeInv'
  <2>1. pc[t] # "idle"
    BY <1>15 DEF DbError
  <2> QED BY <1>15, <2>1 DEF TypeInv, TypeOK, DbError, Goto, tables, private, client
<1>16. ASSUME NEW t \in Threads, Release(t) PROVE TypeInv'
  <2>1. Absent \in [ state : {"ABSENT", "CLAIMED", "RESULT"},
                     of : Commands \cup {NoCommand} ]
    BY DEF Absent
  <2>2. pc[t] = "failing"
    BY <1>16 DEF Release
  <2> QED BY <1>16, <2>1, <2>2 DEF TypeInv, TypeOK, Release, Goto, tables, private, client
<1>17. ASSUME NEW t \in Threads, Rollback(t) \/ Crash(t) \/ CommitFails(t) PROVE TypeInv'
  <2>1. /\ Unlock(t) /\ NoSnapshot(t) /\ Forget(t)
        /\ UNCHANGED <<tables, idem, client, events>>
    BY <1>17 DEF Rollback, Crash, CommitFails
  <2>2. owner' \in [Wallets -> Threads \cup {NoThread}]
    BY <2>1 DEF TypeInv, TypeOK, Unlock
  <2>3. stale' \in [Threads -> SUBSET Wallets]
    BY <2>1 DEF TypeInv, TypeOK, NoSnapshot
  <2> QED BY <2>1, <2>2, <2>3, ForgetType DEF TypeInv, TypeOK, tables, client
<1>18. ASSUME NEW k \in Keys, ExpireClaim(k) \/ ExpireResult(k) PROVE TypeInv'
  <2>1. Absent \in [ state : {"ABSENT", "CLAIMED", "RESULT"},
                     of : Commands \cup {NoCommand} ]
    BY DEF Absent
  <2>2. /\ idem' = [idem EXCEPT ![k] = Absent]
        /\ UNCHANGED <<tables, owner, pc, cmd, private, stale, client, events>>
    BY <1>18 DEF ExpireClaim, ExpireResult
  <2> QED BY <2>1, <2>2 DEF TypeInv, TypeOK, tables, private, client
<1>19. CASE Quiet
  BY <1>19 DEF Quiet, TypeInv, TypeOK, vars
<1> QED
  BY <1>0, <1>1, <1>2, <1>3, <1>4, <1>5, <1>6, <1>7, <1>8, <1>9, <1>10, <1>11, <1>12,
     <1>13, <1>14, <1>15, <1>16, <1>17, <1>18, <1>19, Zenon DEF Next, Step

\* Types hold for every instance: what TypeOK says of every reachable state.
THEOREM TypeCorrect == Spec => []TypeOK
PROOF
<1>1. Spec => []TypeInv
  BY InitType, TypeStep, PTL DEF Spec
<1> QED BY <1>1, PTL DEF TypeInv

-----------------------------------------------------------------------------
(***************************************************************************)
(* Chains of entries.                                                      *)
(***************************************************************************)
\* A chain grows by an entry that starts where it ends ...
LEMMA ChainAppend ==
  ASSUME NEW s \in Seq(Entry), NEW start \in Int, NEW e \in Entry,
         Chained(s, start), e.before = EndOf(s, start),
         e.after = After(e.dir, e.amount, e.before)
  PROVE  /\ Chained(Append(s, e), start)
         /\ EndOf(Append(s, e), start) = e.after
PROOF
<1> DEFINE r == Append(s, e)
<1>1. /\ r # << >>
      /\ Len(r) = Len(s) + 1
      /\ \A i \in 1..Len(s) : r[i] = s[i]
      /\ r[Len(s) + 1] = e
  BY AppendProperties
<1>2. Len(s) \in Nat /\ (s = << >> <=> Len(s) = 0)
  BY EmptySeq
<1> HIDE DEF r
<1>3. ASSUME NEW i \in 1..Len(r)
      PROVE  /\ r[i].before = IF i = 1 THEN start ELSE r[i-1].after
             /\ r[i].after = After(r[i].dir, r[i].amount, r[i].before)
  <2>1. CASE i \in 1..Len(s)
    <3>1. i # 1 => i - 1 \in 1..Len(s)
      BY <2>1, <1>2
    <3> QED BY <1>1, <2>1, <3>1 DEF Chained
  <2>2. CASE i = Len(s) + 1
    <3>1. CASE s = << >>
      BY <1>1, <1>2, <2>2, <3>1 DEF EndOf
    <3>2. CASE s # << >>
      <4>1. i # 1 /\ r[i-1] = s[Len(s)]
        BY <1>1, <1>2, <2>2, <3>2
      <4> QED BY <1>1, <2>2, <3>2, <4>1 DEF EndOf
    <3> QED BY <3>1, <3>2
  <2> QED BY <1>1, <1>2, <2>1, <2>2
<1>4. EndOf(r, start) = e.after
  BY <1>1 DEF EndOf
<1> QED BY <1>3, <1>4 DEF Chained, r

\* ... and by a chain that starts where it ends.
LEMMA ChainConcat ==
  ASSUME NEW s \in Seq(Entry), NEW r \in Seq(Entry), NEW start \in Int,
         Chained(s, start), Chained(r, EndOf(s, start))
  PROVE  /\ Chained(s \o r, start)
         /\ EndOf(s \o r, start) = EndOf(r, EndOf(s, start))
PROOF
<1> DEFINE q == s \o r
<1>1. /\ Len(q) = Len(s) + Len(r)
      /\ \A i \in 1..(Len(s) + Len(r)) : q[i] = IF i <= Len(s) THEN s[i] ELSE r[i - Len(s)]
      /\ q \in Seq(Entry)
  BY ConcatProperties
<1>2. /\ Len(s) \in Nat /\ (s = << >> <=> Len(s) = 0)
      /\ Len(r) \in Nat /\ (r = << >> <=> Len(r) = 0)
      /\ (q = << >> <=> Len(q) = 0)
  BY <1>1, EmptySeq
<1> HIDE DEF q
<1>3. ASSUME NEW i \in 1..Len(q)
      PROVE  /\ q[i].before = IF i = 1 THEN start ELSE q[i-1].after
             /\ q[i].after = After(q[i].dir, q[i].amount, q[i].before)
  <2>1. CASE i <= Len(s)
    <3>1. i \in 1..Len(s) /\ q[i] = s[i]
      BY <1>1, <1>2, <2>1
    <3>2. i # 1 => q[i-1] = s[i-1]
      BY <1>1, <1>2, <2>1
    <3> QED BY <3>1, <3>2 DEF Chained
  <2>2. CASE i = Len(s) + 1
    <3>1. 1 \in 1..Len(r) /\ q[i] = r[1]
      BY <1>1, <1>2, <2>2
    <3>2. r[1].before = EndOf(s, start)
      BY <3>1 DEF Chained
    <3>3. i # 1 => s # << >> /\ q[i-1] = s[Len(s)]
      BY <1>1, <1>2, <2>2
    <3>4. i = 1 => s = << >>
      BY <1>2, <2>2
    <3>5. q[i].before = IF i = 1 THEN start ELSE q[i-1].after
      BY <3>1, <3>2, <3>3, <3>4 DEF EndOf
    <3> QED BY <3>1, <3>5 DEF Chained
  <2>3. CASE i > Len(s) + 1
    <3> DEFINE j == i - Len(s)
    <3>1. i \in Int /\ i <= Len(s) + Len(r)
      BY <1>1, <1>2
    <3>2. j \in 1..Len(r) /\ j # 1 /\ i # 1 /\ (i - 1) - Len(s) = j - 1
      BY <1>2, <2>3, <3>1
    <3>3. i - 1 \in 1..(Len(s) + Len(r)) /\ ~(i - 1 <= Len(s)) /\ ~(i <= Len(s))
      BY <1>2, <2>3, <3>1
    <3>4. q[i] = r[j]
      BY <1>1, <3>1, <3>3
    <3>5. q[i-1] = r[j-1]
      BY <1>1, <3>2, <3>3
    <3> HIDE DEF j
    <3> QED BY <3>2, <3>4, <3>5 DEF Chained
  <2> QED BY <1>2, <2>1, <2>2, <2>3
<1>4. EndOf(q, start) = EndOf(r, EndOf(s, start))
  <2>1. CASE r = << >>
    <3>1. Len(q) = Len(s) /\ (s # << >> => q[Len(q)] = s[Len(s)])
      BY <1>1, <1>2, <2>1
    <3> QED BY <1>2, <2>1, <3>1 DEF EndOf
  <2>2. CASE r # << >>
    <3>1. q # << >> /\ q[Len(q)] = r[Len(r)]
      BY <1>1, <1>2, <2>2
    <3> QED BY <2>2, <3>1 DEF EndOf
  <2> QED BY <2>1, <2>2
<1> QED BY <1>3, <1>4 DEF Chained, q

-----------------------------------------------------------------------------
(***************************************************************************)
(* The books.  What makes AuditChain and NonNegative inductive is what a   *)
(* thread that holds a row lock carries for that row: a page of entries    *)
(* that continues the committed chain, because nobody else can commit the  *)
(* row before the lock is given up.                                        *)
(***************************************************************************)
Page(t, w) ==
    /\ Chained(fresh[t][w], balance[w])
    /\ work[t][w] = EndOf(fresh[t][w], balance[w])
    /\ work[t][w] >= 0
    /\ \A i \in 1..Len(fresh[t][w]) : fresh[t][w][i].after >= 0

OwnersAtWork ==
    \A t \in Threads, w \in Wallets : owner[w] = t => pc[t] \in InTransaction

OnlyOwnersWrite ==
    \A t \in Threads, w \in Wallets : owner[w] # t => fresh[t][w] = << >>

PagesContinue ==
    \A t \in Threads, w \in Wallets : owner[w] = t => Page(t, w)

BookInv ==
    OwnersAtWork /\ OnlyOwnersWrite /\ PagesContinue /\ AuditChain /\ NonNegative

LEMMA InitBook == Init => BookInv
PROOF
<1> SUFFICES ASSUME Init PROVE BookInv
  OBVIOUS
<1>1. /\ balance = Opening /\ book = [w \in Wallets |-> << >>]
      /\ owner = [w \in Wallets |-> NoThread]
      /\ fresh = [t \in Threads |-> [w \in Wallets |-> << >>]]
  BY DEF Init, Empty
<1>2. OwnersAtWork /\ PagesContinue
  BY <1>1, ThreadsAssumption DEF OwnersAtWork, PagesContinue
<1>3. OnlyOwnersWrite
  BY <1>1 DEF OnlyOwnersWrite
<1>4. AuditChain
  BY <1>1 DEF AuditChain, Chained, EndOf
<1>5. NonNegative
  BY <1>1, CommandsAssumption DEF NonNegative
<1> QED BY <1>2, <1>3, <1>4, <1>5 DEF BookInv

\* Steps that leave the tables, the locks and the entities alone.
LEMMA FrameBook ==
  ASSUME BookInv,
         UNCHANGED <<balance, book, owner, work, fresh>>,
         \A t \in Threads : pc[t] \in InTransaction => pc'[t] \in InTransaction
  PROVE  BookInv'
PROOF
<1> USE DEF BookInv
<1>1. OwnersAtWork' BY DEF OwnersAtWork, InTransaction
<1>2. OnlyOwnersWrite' BY DEF OnlyOwnersWrite
<1>3. PagesContinue' BY DEF PagesContinue, Page
<1>4. AuditChain' BY DEF AuditChain
<1>5. NonNegative' BY DEF NonNegative
<1> QED BY <1>1, <1>2, <1>3, <1>4, <1>5

\* A request that ends without committing gives up its rows and its pages.
LEMMA EndBook ==
  ASSUME TypeInv, BookInv, NEW t \in Threads, Forget(t), UNCHANGED tables,
         Unlock(t) \/ (UNCHANGED owner /\ pc[t] \notin InTransaction)
  PROVE  BookInv'
PROOF
<1> USE DEF BookInv
<1>1. owner' = [w \in Wallets |-> IF owner[w] = t THEN NoThread ELSE owner[w]]
  <2>1. CASE Unlock(t) BY <2>1 DEF Unlock
  <2>2. CASE UNCHANGED owner /\ pc[t] \notin InTransaction
    <3>1. \A w \in Wallets : owner[w] # t
      BY <2>2 DEF OwnersAtWork
    <3> QED BY <2>2, <3>1 DEF TypeInv, TypeOK
  <2> QED BY <2>1, <2>2
<1>2. /\ pc' = [pc EXCEPT ![t] = "idle"]
      /\ work' = [work EXCEPT ![t] = Zero]
      /\ fresh' = [fresh EXCEPT ![t] = Empty]
      /\ balance' = balance /\ book' = book
  BY DEF Forget, Goto, tables
<1>3. \A u \in Threads, w \in Wallets : owner'[w] = u => u # t /\ owner[w] = u
  BY <1>1, ThreadsAssumption
<1>4. \A u \in Threads : u # t => pc'[u] = pc[u] /\ work'[u] = work[u] /\ fresh'[u] = fresh[u]
  BY <1>2 DEF TypeInv, TypeOK
<1>5. \A w \in Wallets : fresh'[t][w] = << >>
  BY <1>2 DEF TypeInv, TypeOK, Empty
<1>6. OwnersAtWork'
  BY <1>3, <1>4 DEF OwnersAtWork, InTransaction
<1>7. OnlyOwnersWrite'
  <2> SUFFICES ASSUME NEW u \in Threads, NEW w \in Wallets, owner'[w] # u
               PROVE  fresh'[u][w] = << >>
    BY DEF OnlyOwnersWrite
  <2>1. CASE u = t BY <1>5, <2>1
  <2>2. CASE u # t
    <3>1. owner[w] # u BY <1>1, <2>2
    <3> QED BY <1>4, <2>2, <3>1 DEF OnlyOwnersWrite
  <2> QED BY <2>1, <2>2
<1>8. PagesContinue'
  BY <1>2, <1>3, <1>4 DEF PagesContinue, Page
<1>9. AuditChain' /\ NonNegative'
  BY <1>2 DEF AuditChain, NonNegative
<1> QED BY <1>6, <1>7, <1>8, <1>9

\* A lock taken loads the committed balance and starts an empty page.
LEMMA LockRowBook ==
  ASSUME TypeInv, BookInv, NEW t \in Threads, LockRow(t)
  PROVE  BookInv'
PROOF
<1> USE DEF BookInv
<1>1. PICK w \in Wanted(t) \cap Wallets :
        /\ owner[w] \in {NoThread, t}
        /\ owner' = [owner EXCEPT ![w] = t]
        /\ work' = IF owner[w] = t THEN work ELSE [work EXCEPT ![t][w] = balance[w]]
        /\ IF pc[t] = "locking"
             THEN Goto(t, IF Len(locks[t]) = 1 THEN "checking" ELSE "locking")
             ELSE UNCHANGED pc
        /\ UNCHANGED <<tables, fresh>>
  BY DEF LockRow, Free
<1>2. pc[t] \in {"locking", "posting"}
  BY <1>1 DEF Wanted
<1>3. pc'[t] \in InTransaction /\ \A u \in Threads : u # t => pc'[u] = pc[u]
  BY <1>1, <1>2 DEF Goto, TypeInv, TypeOK, InTransaction
<1>4. CASE owner[w] = t
  <2>1. UNCHANGED <<balance, book, owner, work, fresh>>
    BY <1>1, <1>4 DEF tables, TypeInv, TypeOK
  <2>2. \A u \in Threads : pc[u] \in InTransaction => pc'[u] \in InTransaction
    BY <1>3
  <2> QED BY <2>1, <2>2, FrameBook
<1>5. CASE owner[w] # t
  <2>1. owner[w] = NoThread /\ \A u \in Threads : owner[w] # u
    BY <1>1, <1>5, ThreadsAssumption
  <2>2. /\ work' = [work EXCEPT ![t][w] = balance[w]]
        /\ owner' = [owner EXCEPT ![w] = t]
        /\ balance' = balance /\ book' = book /\ fresh' = fresh
    BY <1>1, <1>5 DEF tables
  <2>3. /\ owner'[w] = t
        /\ \A v \in Wallets : v # w => owner'[v] = owner[v]
        /\ work'[t][w] = balance[w]
        /\ \A u \in Threads, v \in Wallets : <<u, v>> # <<t, w>> => work'[u][v] = work[u][v]
    BY <1>1, <2>2 DEF TypeInv, TypeOK
  <2>4. OwnersAtWork'
    BY <1>3, <2>3 DEF OwnersAtWork, InTransaction
  <2>5. OnlyOwnersWrite'
    BY <2>1, <2>2, <2>3 DEF OnlyOwnersWrite
  <2>6. PagesContinue'
    <3> SUFFICES ASSUME NEW u \in Threads, NEW v \in Wallets, owner'[v] = u
                 PROVE  Page(u, v)'
      BY DEF PagesContinue
    <3>1. CASE v = w
      <4>1. u = t /\ fresh'[t][w] = << >> /\ balance'[w] = balance[w]
        BY <2>1, <2>2, <2>3, <3>1 DEF OnlyOwnersWrite
      <4>2. balance[w] >= 0
        BY <3>1 DEF NonNegative
      <4> QED BY <2>2, <2>3, <3>1, <4>1, <4>2 DEF Page, Chained, EndOf
    <3>2. CASE v # w
      <4>1. owner[v] = u /\ work'[u][v] = work[u][v]
        BY <2>3, <3>2
      <4> QED BY <2>2, <4>1 DEF PagesContinue, Page
    <3> QED BY <3>1, <3>2
  <2>7. AuditChain' /\ NonNegative'
    BY <2>2 DEF AuditChain, NonNegative
  <2> QED BY <2>4, <2>5, <2>6, <2>7
<1> QED BY <1>4, <1>5

\* A leg posted extends the page of its row, and a debit only what is covered.
LEMMA PostLegBook ==
  ASSUME TypeInv, BookInv, NEW t \in Threads, PostLeg(t)
  PROVE  BookInv'
PROOF
<1> USE DEF BookInv
<1> DEFINE leg == Head(plan[t])
           w == leg.wallet
           entry == EntryOf(cmd[t].tx, leg, work[t][w])
<1>1. pc[t] = "posting" /\ plan[t] # << >> /\ w \in Wallets /\ owner[w] = t
      /\ UNCHANGED <<tables, owner>>
  BY DEF PostLeg, Held
<1>2. CASE ~Covered(leg, work[t][w])
  <2>1. pc' = [pc EXCEPT ![t] = "failing"] /\ UNCHANGED <<work, fresh>>
    BY <1>2 DEF PostLeg, Goto
  <2>2. \A u \in Threads : pc[u] \in InTransaction => pc'[u] \in InTransaction
    BY <2>1 DEF InTransaction, TypeInv, TypeOK
  <2> QED BY <1>1, <2>1, <2>2, FrameBook DEF tables
<1>3. CASE Covered(leg, work[t][w])
  <2>1. /\ work' = [work EXCEPT ![t][w] = entry.after]
        /\ fresh' = [fresh EXCEPT ![t][w] = Append(@, entry)]
        /\ UNCHANGED pc
    BY <1>3 DEF PostLeg
  <2>2. leg \in Leg /\ cmd[t].tx \in Txs /\ work[t][w] \in Int /\ balance[w] \in Int
    BY <1>1, HeadTailProperties, CommandsAssumption DEF TypeInv, TypeOK, Command
  <2>3. /\ entry \in Entry
        /\ entry.before = work[t][w]
        /\ entry.after = After(entry.dir, entry.amount, entry.before)
    BY <2>2, EntryType
  <2>4. entry.after >= 0
    <3>1. work[t][w] >= 0
      BY <1>1 DEF PagesContinue, Page
    <3>2. /\ leg.amount \in Nat /\ leg.dir \in Directions
          /\ entry.after = After(leg.dir, leg.amount, work[t][w])
      BY <2>2 DEF Leg, EntryOf
    <3> QED BY <1>3, <2>2, <3>1, <3>2 DEF Covered, After, Directions
  <2>5. fresh[t][w] \in Seq(Entry)
    BY <1>1 DEF TypeInv, TypeOK
  <2> HIDE DEF leg, w, entry
  <2> DEFINE page == Append(fresh[t][w], entry)
  <2>6. Chained(page, balance[w]) /\ EndOf(page, balance[w]) = entry.after
    BY <1>1, <2>2, <2>3, <2>5, ChainAppend DEF PagesContinue, Page
  <2>7. \A i \in 1..Len(page) : page[i].after >= 0
    <3>1. /\ Len(page) = Len(fresh[t][w]) + 1 /\ Len(fresh[t][w]) \in Nat
          /\ \A i \in 1..Len(fresh[t][w]) : page[i] = fresh[t][w][i]
          /\ page[Len(fresh[t][w]) + 1] = entry
      BY <2>3, <2>5, AppendProperties, LenProperties
    <3>2. \A i \in 1..Len(fresh[t][w]) : fresh[t][w][i].after >= 0
      BY <1>1 DEF PagesContinue, Page
    <3> HIDE DEF page
    <3> QED BY <2>4, <3>1, <3>2
  <2>8. /\ work'[t][w] = entry.after /\ fresh'[t][w] = page
        /\ \A u \in Threads, v \in Wallets : <<u, v>> # <<t, w>> =>
             work'[u][v] = work[u][v] /\ fresh'[u][v] = fresh[u][v]
    BY <1>1, <2>1 DEF TypeInv, TypeOK
  <2> HIDE DEF page
  <2>9. OwnersAtWork'
    BY <1>1, <2>1 DEF OwnersAtWork, InTransaction
  <2>10. OnlyOwnersWrite'
    BY <1>1, <2>8 DEF OnlyOwnersWrite
  <2>11. PagesContinue'
    <3> SUFFICES ASSUME NEW u \in Threads, NEW v \in Wallets, owner'[v] = u
                 PROVE  Page(u, v)'
      BY DEF PagesContinue
    <3>1. CASE <<u, v>> = <<t, w>>
      BY <1>1, <2>4, <2>6, <2>7, <2>8, <3>1 DEF Page, tables
    <3>2. CASE <<u, v>> # <<t, w>>
      BY <1>1, <2>8, <3>2 DEF PagesContinue, Page, tables
    <3> QED BY <3>1, <3>2
  <2>12. AuditChain' /\ NonNegative'
    BY <1>1 DEF AuditChain, NonNegative, tables
  <2> QED BY <2>9, <2>10, <2>11, <2>12
<1> QED BY <1>2, <1>3

\* A commit appends the pages of the rows it holds, and only those.
LEMMA CommitBook ==
  ASSUME TypeInv, BookInv, NEW t \in Threads, Commit(t)
  PROVE  BookInv'
PROOF
<1> USE DEF BookInv
<1>1. /\ balance' = [w \in Wallets |-> IF w \in Held(t) THEN work[t][w] ELSE balance[w]]
      /\ book' = [w \in Wallets |-> book[w] \o fresh[t][w]]
      /\ owner' = [w \in Wallets |-> IF owner[w] = t THEN NoThread ELSE owner[w]]
  BY DEF Commit, Unlock
<1>2. /\ fresh' = [fresh EXCEPT ![t] = Empty]
      /\ \A u \in Threads : u # t => pc'[u] = pc[u] /\ work'[u] = work[u]
  BY DEF Commit, Forget, Goto, TypeInv, TypeOK
<1>3. \A u \in Threads, w \in Wallets :
        owner'[w] = u => u # t /\ owner[w] = u /\ balance'[w] = balance[w]
  BY <1>1, ThreadsAssumption DEF Held
<1>4. \A w \in Wallets : fresh'[t][w] = << >>
  BY <1>2 DEF TypeInv, TypeOK, Empty
<1>5. \A u \in Threads : u # t => fresh'[u] = fresh[u]
  BY <1>2 DEF TypeInv, TypeOK
<1>6. OwnersAtWork'
  BY <1>2, <1>3 DEF OwnersAtWork, InTransaction
<1>7. OnlyOwnersWrite'
  <2> SUFFICES ASSUME NEW u \in Threads, NEW w \in Wallets, owner'[w] # u
               PROVE  fresh'[u][w] = << >>
    BY DEF OnlyOwnersWrite
  <2>1. CASE u = t BY <1>4, <2>1
  <2>2. CASE u # t
    <3>1. owner[w] # u BY <1>1, <2>2
    <3> QED BY <1>5, <2>2, <3>1 DEF OnlyOwnersWrite
  <2> QED BY <2>1, <2>2
<1>8. PagesContinue'
  BY <1>2, <1>3, <1>5 DEF PagesContinue, Page
<1>9. ASSUME NEW w \in Wallets
      PROVE  /\ Chained(book'[w], Opening[w])
             /\ balance'[w] = EndOf(book'[w], Opening[w])
             /\ balance'[w] >= 0
             /\ \A i \in 1..Len(book'[w]) : book'[w][i].after >= 0
  <2>1. /\ book[w] \in Seq(Entry) /\ fresh[t][w] \in Seq(Entry) /\ Opening[w] \in Int
        /\ book'[w] = book[w] \o fresh[t][w]
    BY <1>1, CommandsAssumption DEF TypeInv, TypeOK
  <2>2. /\ Chained(book[w], Opening[w]) /\ balance[w] = EndOf(book[w], Opening[w])
        /\ balance[w] >= 0
        /\ \A i \in 1..Len(book[w]) : book[w][i].after >= 0
    BY DEF AuditChain, NonNegative
  <2>3. CASE owner[w] = t
    <3>1. Page(t, w) /\ balance'[w] = work[t][w]
      BY <1>1, <2>3 DEF PagesContinue, Held
    <3>2. Chained(book'[w], Opening[w])
          /\ EndOf(book'[w], Opening[w]) = EndOf(fresh[t][w], balance[w])
      BY <2>1, <2>2, <3>1, ChainConcat DEF Page
    <3>3. \A i \in 1..Len(book'[w]) : book'[w][i].after >= 0
      <4> DEFINE old == book[w]
                 new == fresh[t][w]
                 all == book'[w]
      <4>1. old \in Seq(Entry) /\ new \in Seq(Entry) /\ all = old \o new
        BY <2>1
      <4>2. /\ \A i \in 1..Len(old) : old[i].after >= 0
            /\ \A i \in 1..Len(new) : new[i].after >= 0
        BY <2>2, <3>1 DEF Page
      <4> HIDE DEF old, new, all
      <4>3. /\ Len(all) = Len(old) + Len(new)
            /\ \A i \in 1..(Len(old) + Len(new)) :
                 all[i] = IF i <= Len(old) THEN old[i] ELSE new[i - Len(old)]
        BY <4>1, ConcatProperties
      <4>4. Len(old) \in Nat /\ Len(new) \in Nat
        BY <4>1
      <4>5. \A i \in 1..Len(all) : all[i].after >= 0
        BY <4>2, <4>3, <4>4
      <4> QED BY <4>5 DEF all
    <3> QED BY <3>1, <3>2, <3>3 DEF Page
  <2>4. CASE owner[w] # t
    <3>1. fresh[t][w] = << >> /\ balance'[w] = balance[w]
      BY <1>1, <2>4 DEF OnlyOwnersWrite, Held
    <3>2. book'[w] = book[w]
      BY <2>1, <3>1, ConcatEmptySeq
    <3> QED BY <2>2, <3>1, <3>2
  <2> QED BY <2>3, <2>4
<1>10. AuditChain' /\ NonNegative'
  BY <1>9 DEF AuditChain, NonNegative
<1> QED BY <1>6, <1>7, <1>8, <1>10

LEMMA BookStep ==
  ASSUME TypeInv, BookInv, [Next]_vars
  PROVE  BookInv'
PROOF
<1>0. CASE UNCHANGED vars
  <2>1. \A t \in Threads : pc[t] \in InTransaction => pc'[t] \in InTransaction
    BY <1>0 DEF vars, InTransaction
  <2> QED BY <1>0, <2>1, FrameBook DEF vars
<1>1. ASSUME NEW t \in Threads, NEW c \in Commands, Receive(t, c) PROVE BookInv'
  <2>1. \A u \in Threads : pc[u] \in InTransaction => pc'[u] \in InTransaction
    BY <1>1 DEF Receive, Goto, TypeInv, TypeOK, InTransaction
  <2> QED BY <1>1, <2>1, FrameBook DEF Receive, tables, private
\* Before the transaction: either the request ends, or it goes one step on.
<1>2. ASSUME NEW t \in Threads, CheckCache(t) \/ ClaimGet(t) \/ ClaimSet(t) PROVE BookInv'
  <2>1. pc[t] \notin InTransaction /\ UNCHANGED <<tables, owner>>
    BY <1>2 DEF CheckCache, ClaimGet, ClaimSet, InTransaction
  <2>2. Forget(t) \/ \E label \in Labels : Goto(t, label) /\ UNCHANGED private
    BY <1>2, Zenon DEF CheckCache, ClaimGet, ClaimSet, Labels, Claiming
  <2>3. CASE Forget(t)
    BY <2>1, <2>3, EndBook
  <2>4. CASE \E label \in Labels : Goto(t, label) /\ UNCHANGED private
    <3>1. \A u \in Threads : pc[u] \in InTransaction => pc'[u] \in InTransaction
      BY <2>1, <2>4 DEF Goto, TypeInv, TypeOK, InTransaction
    <3> QED BY <2>1, <2>4, <3>1, FrameBook DEF tables, private
  <2> QED BY <2>2, <2>3, <2>4
\* Steps inside the transaction that only move the program counter.
<1>3. ASSUME NEW t \in Threads,
             \/ BeginPosting(t) \/ BeginReversal(t) \/ LockFails(t) \/ DeadlockVictim(t)
             \/ CheckFunds(t) \/ StoreResult(t) \/ DbError(t) \/ Release(t)
      PROVE  BookInv'
  <2>1. UNCHANGED <<balance, book, owner, work, fresh>>
    BY <1>3 DEF BeginPosting, BeginReversal, LockFails, DeadlockVictim, CheckFunds,
                StoreResult, DbError, Release, tables, private
  <2>2. \A u \in Threads : u # t => pc'[u] = pc[u]
    BY <1>3 DEF BeginPosting, BeginReversal, LockFails, DeadlockVictim, CheckFunds,
                StoreResult, DbError, Release, Goto, TypeInv, TypeOK
  <2>3. pc'[t] \in InTransaction
    BY <1>3 DEF BeginPosting, BeginReversal, LockFails, DeadlockVictim, CheckFunds,
                StoreResult, DbError, Release, Goto, TypeInv, TypeOK, InTransaction
  <2> QED BY <2>1, <2>2, <2>3, FrameBook
<1>4. ASSUME NEW t \in Threads, Publish(t) PROVE BookInv'
  <2>1. Forget(t) /\ UNCHANGED <<tables, owner>> /\ pc[t] \notin InTransaction
    BY <1>4 DEF Publish, InTransaction
  <2> QED BY <2>1, EndBook
<1>5. ASSUME NEW t \in Threads, Rollback(t) \/ Crash(t) \/ CommitFails(t) PROVE BookInv'
  <2>1. Forget(t) /\ Unlock(t) /\ UNCHANGED tables
    BY <1>5 DEF Rollback, Crash, CommitFails
  <2>2. Unlock(t) \/ (UNCHANGED owner /\ pc[t] \notin InTransaction)
    BY <2>1
  <2> QED BY <2>1, <2>2, EndBook, Zenon
<1>6. ASSUME NEW k \in Keys, ExpireClaim(k) \/ ExpireResult(k) PROVE BookInv'
  <2>1. UNCHANGED <<tables, owner, pc, private>>
    BY <1>6 DEF ExpireClaim, ExpireResult
  <2> QED BY <2>1, FrameBook DEF tables, private
<1>7. CASE Quiet
  BY <1>7, <1>0 DEF Quiet
<1> QED
  BY <1>0, <1>1, <1>2, <1>3, <1>4, <1>5, <1>6, <1>7, LockRowBook, PostLegBook, CommitBook,
     Zenon DEF Next, Step

LEMMA BooksKept == Spec => [](TypeInv /\ BookInv)
PROOF
<1>1. TypeInv /\ BookInv /\ [Next]_vars => TypeInv' /\ BookInv'
  BY TypeStep, BookStep
<1> QED BY <1>1, InitType, InitBook, PTL DEF Spec

\* The stored balances and the running balances of the entries agree at any
\* moment, under any interleaving, crash or retry.
THEOREM BooksAudit == Spec => []AuditChain
PROOF
<1>1. TypeInv /\ BookInv => AuditChain
  BY DEF BookInv
<1> QED BY <1>1, BooksKept, PTL

\* No interleaving overdraws a wallet.
THEOREM NeverOverdrawn == Spec => []NonNegative
PROOF
<1>1. TypeInv /\ BookInv => NonNegative
  BY DEF BookInv
<1> QED BY <1>1, BooksKept, PTL

-----------------------------------------------------------------------------
(***************************************************************************)
(* Reversals.  Two threads may both find a transaction without mirrors.    *)
(* What stops the second is that both must lock the rows the transaction   *)
(* wrote: once the first commits, one of those rows is stale for the       *)
(* second, who can no longer lock it.                                      *)
(***************************************************************************)
ReversingOf(t, tx) ==
    /\ pc[t] \in {"locking", "checking", "posting", "commit"}
    /\ cmd[t].kind = "reverse" /\ cmd[t].tx = tx

\* The rows a thread has locked or will have to lock before it commits.
PlanRows(t) == {plan[t][i].wallet : i \in 1..Len(plan[t])}
Touched(t) == Held(t) \cup PlanRows(t)

RowsOf(tx) == {p[1] : p \in PlacesOf(book, tx)}

\* All who reverse a transaction must lock one row of it.
CommonRow ==
    \A tx \in Txs :
        (\E t \in Threads : ReversingOf(t, tx)) =>
            \E w \in RowsOf(tx) : \A t \in Threads : ReversingOf(t, tx) => w \in Touched(t)

\* Who reverses a transaction that got its mirrors meanwhile will meet a row
\* that changed.
LateIsStale ==
    \A t \in Threads, tx \in Txs :
        ReversingOf(t, tx) /\ ReversalsOf(book, tx) # {} => Touched(t) \cap stale[t] # {}

HeldIsFresh == \A t \in Threads : Held(t) \cap stale[t] = {}

PlanDone == \A t \in Threads : pc[t] = "commit" => plan[t] = << >>

\* Only reversals write mirrors, and only those of their transaction.
PlansHonest ==
    \A t \in Threads :
        pc[t] \in {"locking", "checking", "posting"} /\ cmd[t].kind # "reverse" =>
            \A i \in 1..Len(plan[t]) : plan[t][i].type # "REVERSAL"

PagesHonest ==
    \A t \in Threads, w \in Wallets : \A i \in 1..Len(fresh[t][w]) :
        /\ fresh[t][w][i].tx = cmd[t].tx
        /\ cmd[t].kind # "reverse" => fresh[t][w][i].type # "REVERSAL"

ReversalInv ==
    CommonRow /\ LateIsStale /\ HeldIsFresh /\ PlanDone /\ PlansHonest /\ PagesHonest

\* Membership in the sets of places, and what new entries change in them.
LEMMA InPlaces ==
  \A b \in [Wallets -> Seq(Entry)] : \A tx, p :
    p \in PlacesOf(b, tx) <=>
      \E w \in Wallets : \E i \in 1..Len(b[w]) : p = <<w, i>> /\ b[w][i].tx = tx
PROOF
  BY DEF PlacesOf

MirrorAt(b, tx, p) ==
    \E w \in Wallets : \E i \in 1..Len(b[w]) :
        p = <<w, i>> /\ b[w][i].tx = tx /\ b[w][i].type = "REVERSAL"

LEMMA InReversals ==
  \A b \in [Wallets -> Seq(Entry)] : \A tx, p :
    p \in ReversalsOf(b, tx) <=> MirrorAt(b, tx, p)
PROOF
<1> TAKE b \in [Wallets -> Seq(Entry)]
<1> TAKE tx, p
<1>1. p \in ReversalsOf(b, tx) <=> p \in PlacesOf(b, tx) /\ b[p[1]][p[2]].type = "REVERSAL"
  BY DEF ReversalsOf
<1> QED BY <1>1, InPlaces DEF MirrorAt

NoMirrors(n, tx) ==
    \A w \in Wallets : \A i \in 1..Len(n[w]) :
        n[w][i].tx # tx \/ n[w][i].type # "REVERSAL"

\* Books extended by new entries.
Books == [Wallets -> Seq(Entry)]
Extended(d, b, n) == \A w \in Wallets : d[w] = b[w] \o n[w]

LEMMA PlacesAfterConcat ==
  ASSUME NEW b \in Books, NEW n \in Books, NEW d \in Books, Extended(d, b, n), NEW tx
  PROVE  /\ PlacesOf(b, tx) \subseteq PlacesOf(d, tx)
         /\ NoMirrors(n, tx) => ReversalsOf(d, tx) = ReversalsOf(b, tx)
PROOF
<1> USE DEF Books
<1>1. \A w \in Wallets :
        /\ d[w] \in Seq(Entry)
        /\ Len(d[w]) = Len(b[w]) + Len(n[w])
        /\ \A i \in 1..(Len(b[w]) + Len(n[w])) :
             d[w][i] = IF i <= Len(b[w]) THEN b[w][i] ELSE n[w][i - Len(b[w])]
  <2> TAKE w \in Wallets
  <2> DEFINE s == b[w]
             r == n[w]
  <2>1. s \in Seq(Entry) /\ r \in Seq(Entry) /\ d[w] = s \o r
    BY DEF Extended
  <2> HIDE DEF s, r
  <2>2. /\ d[w] \in Seq(Entry)
        /\ Len(d[w]) = Len(s) + Len(r)
        /\ \A i \in 1..(Len(s) + Len(r)) :
             d[w][i] = IF i <= Len(s) THEN s[i] ELSE r[i - Len(s)]
    BY <2>1, ConcatProperties
  <2> QED BY <2>1, <2>2 DEF s, r
<1>2. \A w \in Wallets : Len(b[w]) \in Nat /\ Len(n[w]) \in Nat
  OBVIOUS
<1>3. \A w \in Wallets : \A i \in 1..Len(b[w]) : i \in 1..Len(d[w]) /\ d[w][i] = b[w][i]
  <2> TAKE w \in Wallets
  <2> DEFINE s == b[w]
             r == n[w]
             q == d[w]
  <2>1. /\ Len(q) = Len(s) + Len(r)
        /\ \A i \in 1..(Len(s) + Len(r)) : q[i] = IF i <= Len(s) THEN s[i] ELSE r[i - Len(s)]
        /\ Len(s) \in Nat /\ Len(r) \in Nat
    BY <1>1, <1>2
  <2> HIDE DEF s, r, q
  <2>2. \A i \in 1..Len(s) : i \in 1..Len(q) /\ q[i] = s[i]
    BY <2>1
  <2> QED BY <2>2 DEF s, q
<1>4. PlacesOf(b, tx) \subseteq PlacesOf(d, tx)
  <2> SUFFICES ASSUME NEW p \in PlacesOf(b, tx) PROVE p \in PlacesOf(d, tx)
    OBVIOUS
  <2>0. PICK w \in Wallets : \E i \in 1..Len(b[w]) : p = <<w, i>> /\ b[w][i].tx = tx
    BY InPlaces
  <2>1. PICK i \in 1..Len(b[w]) : p = <<w, i>> /\ b[w][i].tx = tx
    BY <2>0
  <2>2. i \in 1..Len(d[w]) /\ d[w][i].tx = tx
    BY <1>3, <2>1
  <2> QED BY <2>1, <2>2, InPlaces
<1>5. ASSUME NoMirrors(n, tx)
      PROVE  ReversalsOf(d, tx) = ReversalsOf(b, tx)
  <2>1. ASSUME NEW w \in Wallets, NEW i \in 1..Len(d[w]),
               d[w][i].tx = tx, d[w][i].type = "REVERSAL"
        PROVE  i \in 1..Len(b[w])
    <3>1. CASE i <= Len(b[w])
      BY <1>1, <1>2, <3>1
    <3>2. CASE ~(i <= Len(b[w]))
      <4>1. i - Len(b[w]) \in 1..Len(n[w]) /\ d[w][i] = n[w][i - Len(b[w])]
        BY <1>1, <1>2, <3>2
      <4> QED BY <1>5, <2>1, <4>1 DEF NoMirrors
    <3> QED BY <3>1, <3>2
  <2>2. ASSUME NEW p, MirrorAt(d, tx, p) PROVE MirrorAt(b, tx, p)
    <3>0. PICK w \in Wallets : \E i \in 1..Len(d[w]) :
            p = <<w, i>> /\ d[w][i].tx = tx /\ d[w][i].type = "REVERSAL"
      BY <2>2 DEF MirrorAt
    <3>1. PICK i \in 1..Len(d[w]) :
            p = <<w, i>> /\ d[w][i].tx = tx /\ d[w][i].type = "REVERSAL"
      BY <3>0
    <3>2. i \in 1..Len(b[w]) /\ b[w][i].tx = tx /\ b[w][i].type = "REVERSAL"
      BY <1>3, <2>1, <3>1
    <3> QED BY <3>1, <3>2 DEF MirrorAt
  <2>3. ASSUME NEW p, MirrorAt(b, tx, p) PROVE MirrorAt(d, tx, p)
    <3>0. PICK w \in Wallets : \E i \in 1..Len(b[w]) :
            p = <<w, i>> /\ b[w][i].tx = tx /\ b[w][i].type = "REVERSAL"
      BY <2>3 DEF MirrorAt
    <3>1. PICK i \in 1..Len(b[w]) :
            p = <<w, i>> /\ b[w][i].tx = tx /\ b[w][i].type = "REVERSAL"
      BY <3>0
    <3>2. i \in 1..Len(d[w]) /\ d[w][i].tx = tx /\ d[w][i].type = "REVERSAL"
      BY <1>3, <3>1
    <3> QED BY <3>1, <3>2 DEF MirrorAt
  <2>4. \A p : p \in ReversalsOf(d, tx) <=> p \in ReversalsOf(b, tx)
    BY <2>2, <2>3, InReversals
  <2>5. ReversalsOf(d, tx) \subseteq ReversalsOf(b, tx)
        /\ ReversalsOf(b, tx) \subseteq ReversalsOf(d, tx)
    BY <2>4
  <2> QED BY <2>5
<1> QED BY <1>4, <1>5

LEMMA InitReversal == Init => ReversalInv
PROOF
<1> SUFFICES ASSUME Init PROVE ReversalInv
  OBVIOUS
<1>1. /\ pc = [t \in Threads |-> "idle"]
      /\ owner = [w \in Wallets |-> NoThread]
      /\ fresh = [t \in Threads |-> [w \in Wallets |-> << >>]]
      /\ stale = [t \in Threads |-> {}]
  BY DEF Init, Empty
<1>2. CommonRow /\ LateIsStale
  BY <1>1 DEF CommonRow, LateIsStale, ReversingOf
<1>3. HeldIsFresh /\ PlanDone /\ PlansHonest
  BY <1>1 DEF HeldIsFresh, PlanDone, PlansHonest
<1>4. PagesHonest
  BY <1>1 DEF PagesHonest
<1> QED BY <1>2, <1>3, <1>4 DEF ReversalInv

\* Steps that bring no new reversal in and do not move the rows of one that goes
\* on keep the two facts about all reversals of a transaction.
LEMMA FrameReversal ==
  ASSUME CommonRow, LateIsStale, book' = book,
         \A t \in Threads, tx \in Txs : ReversingOf(t, tx)' =>
           /\ ReversingOf(t, tx)
           /\ Touched(t) \subseteq Touched(t)'
           /\ stale[t] \subseteq stale'[t]
  PROVE  CommonRow' /\ LateIsStale'
PROOF
<1>1. \A tx \in Txs : RowsOf(tx)' = RowsOf(tx) /\ ReversalsOf(book, tx)' = ReversalsOf(book, tx)
  BY DEF RowsOf, PlacesOf, ReversalsOf
<1>2. CommonRow'
  BY <1>1 DEF CommonRow
<1>3. LateIsStale'
  BY <1>1 DEF LateIsStale
<1> QED BY <1>2, <1>3

\* Steps of a thread that neither holds the place of a reversal before nor after,
\* and leaves its pages and its snapshot's knowledge in order.
LEMMA StepOutside ==
  ASSUME TypeInv, BookInv, ReversalInv, NEW t \in Threads,
         UNCHANGED <<balance, book>>,
         \A u \in Threads : u # t =>
            /\ pc'[u] = pc[u] /\ cmd'[u] = cmd[u] /\ plan'[u] = plan[u]
            /\ fresh'[u] = fresh[u] /\ stale'[u] = stale[u] /\ Held(u)' = Held(u),
         pc'[t] \notin {"locking", "checking", "posting", "commit"},
         \A w \in Wallets : fresh'[t][w] = << >> \/ UNCHANGED <<fresh, cmd>>,
         Held(t)' \cap stale'[t] = {}
  PROVE  ReversalInv'
PROOF
<1> USE DEF ReversalInv
<1>1. CommonRow' /\ LateIsStale'
  <2> SUFFICES ASSUME NEW u \in Threads, NEW tx \in Txs, ReversingOf(u, tx)'
               PROVE  /\ ReversingOf(u, tx)
                      /\ Touched(u) \subseteq Touched(u)'
                      /\ stale[u] \subseteq stale'[u]
    BY FrameReversal, Zenon
  <2>1. u # t
    BY DEF ReversingOf
  <2> QED BY <2>1 DEF ReversingOf, Touched, PlanRows
<1>2. HeldIsFresh'
  BY DEF HeldIsFresh
<1>3. PlanDone'
  BY DEF PlanDone
<1>4. PlansHonest'
  BY DEF PlansHonest
<1>5. PagesHonest'
  <2> SUFFICES ASSUME NEW u \in Threads, NEW w \in Wallets, NEW i \in 1..Len(fresh'[u][w])
               PROVE  /\ fresh'[u][w][i].tx = cmd'[u].tx
                      /\ cmd'[u].kind # "reverse" => fresh'[u][w][i].type # "REVERSAL"
    BY DEF PagesHonest
  <2>1. CASE u # t
    BY <2>1 DEF PagesHonest
  <2>2. CASE u = t /\ fresh'[t][w] = << >>
    <3>1. 1..Len(fresh'[u][w]) = {}
      BY <2>2
    <3> QED BY <3>1
  <2>3. CASE u = t /\ UNCHANGED <<fresh, cmd>>
    BY <2>3 DEF PagesHonest
  <2> QED BY <2>1, <2>2, <2>3
<1> QED BY <1>1, <1>2, <1>3, <1>4, <1>5

\* The steps outside: every step that does not lead on inside a transaction.
LEMMA OutsideSteps ==
  ASSUME TypeInv, BookInv, ReversalInv, NEW t \in Threads,
         \/ \E c \in Commands : Receive(t, c)
         \/ CheckCache(t) \/ ClaimGet(t) \/ ClaimSet(t) \/ Publish(t)
         \/ LockFails(t) \/ DeadlockVictim(t) \/ DbError(t) \/ Release(t)
         \/ Rollback(t) \/ Crash(t) \/ CommitFails(t)
  PROVE  ReversalInv'
PROOF
<1>0. Held(t) \cap stale[t] = {}
  BY DEF ReversalInv, HeldIsFresh
<1>1. ASSUME NEW c \in Commands, Receive(t, c) PROVE ReversalInv'
  <2>1. \A w \in Wallets : fresh[t][w] = << >>
    BY <1>1 DEF Receive, BookInv, OwnersAtWork, OnlyOwnersWrite, Held, InTransaction
  <2> QED BY <1>0, <1>1, <2>1, StepOutside
          DEF Receive, Goto, Held, TypeInv, TypeOK, tables, private
<1>2. ASSUME CheckCache(t) \/ ClaimGet(t) \/ ClaimSet(t) PROVE ReversalInv'
  <2>1. UNCHANGED <<balance, book, owner, stale>>
    BY <1>2 DEF CheckCache, ClaimGet, ClaimSet, tables
  <2>2. Forget(t) \/ \E label \in {"claim", "setnx", "begin"} : Goto(t, label) /\ UNCHANGED <<cmd, private>>
    BY <1>2, Zenon DEF CheckCache, ClaimGet, ClaimSet
  <2>3. CASE Forget(t)
    BY <1>0, <2>1, <2>3, StepOutside DEF Forget, Goto, Held, Empty, TypeInv, TypeOK
  <2>4. CASE \E label \in {"claim", "setnx", "begin"} : Goto(t, label) /\ UNCHANGED <<cmd, private>>
    BY <1>0, <2>1, <2>4, StepOutside DEF Goto, Held, TypeInv, TypeOK, private
  <2> QED BY <2>2, <2>3, <2>4
<1>3. ASSUME LockFails(t) \/ DeadlockVictim(t) \/ DbError(t) \/ Release(t) PROVE ReversalInv'
  <2>1. /\ Goto(t, "failing") \/ Goto(t, "rollback")
        /\ UNCHANGED <<balance, book, owner, stale, cmd, plan, fresh>>
    BY <1>3 DEF LockFails, DeadlockVictim, DbError, Release, tables, private
  <2> QED BY SMTT(20), ZenonT(20), <1>0, <2>1, StepOutside DEF Goto, Held, TypeInv, TypeOK
<1>4. ASSUME Publish(t) PROVE ReversalInv'
  <2>1. Forget(t) /\ UNCHANGED <<balance, book, owner, stale>>
    BY <1>4 DEF Publish, tables
  <2> QED BY <1>0, <2>1, StepOutside DEF Forget, Goto, Held, Empty, TypeInv, TypeOK
<1>5. ASSUME Rollback(t) \/ Crash(t) \/ CommitFails(t) PROVE ReversalInv'
  <2>1. Forget(t) /\ Unlock(t) /\ NoSnapshot(t) /\ UNCHANGED <<balance, book>>
    BY <1>5 DEF Rollback, Crash, CommitFails, tables
  <2>2. \A u \in Threads : u # t => Held(u)' = Held(u)
    BY <2>1, ThreadsAssumption DEF Unlock, Held
  <2>3. stale'[t] = {} /\ \A u \in Threads : u # t => stale'[u] = stale[u]
    BY <2>1 DEF NoSnapshot, TypeInv, TypeOK
  <2> QED BY <2>1, <2>2, <2>3, StepOutside DEF Forget, Goto, Empty, TypeInv, TypeOK
<1> QED BY <1>1, <1>2, <1>3, <1>4, <1>5

\* The steps inside a transaction, up to its commit.
LEMMA InsideSteps ==
  ASSUME TypeInv, BookInv, ReversalInv, NEW t \in Threads,
         UNCHANGED <<balance, book, cmd>>,
         pc' = [pc EXCEPT ![t] = pc'[t]],
         \A u \in Threads : u # t =>
            /\ plan'[u] = plan[u] /\ fresh'[u] = fresh[u]
            /\ stale'[u] = stale[u] /\ Held(u)' = Held(u),
         \A tx \in Txs : ReversingOf(t, tx)' =>
            /\ ReversingOf(t, tx)
            /\ Touched(t) \subseteq Touched(t)'
            /\ stale[t] \subseteq stale'[t],
         Held(t)' \cap stale'[t] = {},
         pc'[t] = "commit" => plan'[t] = << >>,
         pc'[t] \in {"locking", "checking", "posting"} /\ cmd[t].kind # "reverse" =>
            \A i \in 1..Len(plan'[t]) : plan'[t][i].type # "REVERSAL",
         \A w \in Wallets : \A i \in 1..Len(fresh'[t][w]) :
            /\ fresh'[t][w][i].tx = cmd[t].tx
            /\ cmd[t].kind # "reverse" => fresh'[t][w][i].type # "REVERSAL"
  PROVE  ReversalInv'
PROOF
<1> USE DEF ReversalInv
<1>0. \A u \in Threads : u # t => pc'[u] = pc[u]
  BY DEF TypeInv, TypeOK
<1>1. CommonRow' /\ LateIsStale'
  <2> SUFFICES ASSUME NEW u \in Threads, NEW tx \in Txs, ReversingOf(u, tx)'
               PROVE  /\ ReversingOf(u, tx)
                      /\ Touched(u) \subseteq Touched(u)'
                      /\ stale[u] \subseteq stale'[u]
    BY FrameReversal, Zenon
  <2>1. CASE u = t
    BY <2>1
  <2>2. CASE u # t
    BY <1>0, <2>2 DEF ReversingOf, Touched, PlanRows
  <2> QED BY <2>1, <2>2
<1>2. HeldIsFresh'
  BY DEF HeldIsFresh
<1>3. PlanDone'
  BY <1>0 DEF PlanDone
<1>4. PlansHonest'
  BY <1>0 DEF PlansHonest
<1>5. PagesHonest'
  <2> SUFFICES ASSUME NEW u \in Threads, NEW w \in Wallets, NEW i \in 1..Len(fresh'[u][w])
               PROVE  /\ fresh'[u][w][i].tx = cmd'[u].tx
                      /\ cmd'[u].kind # "reverse" => fresh'[u][w][i].type # "REVERSAL"
    BY DEF PagesHonest
  <2>1. CASE u # t
    BY <2>1 DEF PagesHonest
  <2>2. CASE u = t
    BY <2>2
  <2> QED BY <2>1, <2>2
<1> QED BY <1>1, <1>2, <1>3, <1>4, <1>5

LEMMA BeginPostingReversal ==
  ASSUME TypeInv, BookInv, ReversalInv, NEW t \in Threads, BeginPosting(t)
  PROVE  ReversalInv'
PROOF
<1>1. /\ pc[t] = "begin" /\ cmd[t] \in Commands /\ cmd[t].kind # "reverse"
      /\ plan' = [plan EXCEPT ![t] = LegsOf(cmd[t])]
      /\ stale' = [stale EXCEPT ![t] = {}]
      /\ UNCHANGED <<balance, book, owner, cmd, fresh>>
  BY DEF BeginPosting, NoSnapshot, tables, TypeInv, TypeOK
<1>2. Goto(t, "locking") \/ Goto(t, "posting")
  BY DEF BeginPosting
<1>3. /\ plan'[t] = LegsOf(cmd[t]) /\ stale'[t] = {}
      /\ \A u \in Threads : u # t => plan'[u] = plan[u] /\ stale'[u] = stale[u]
  BY <1>1 DEF TypeInv, TypeOK
<1>4. /\ pc' = [pc EXCEPT ![t] = pc'[t]]
      /\ pc'[t] # "commit"
  BY <1>2 DEF Goto, TypeInv, TypeOK
<1>5. \A u \in Threads : Held(u)' = Held(u)
  BY <1>1 DEF Held
<1>6. \A tx \in Txs : ~ReversingOf(t, tx)'
  BY <1>1 DEF ReversingOf
<1>7. \A i \in 1..Len(plan'[t]) : plan'[t][i].type # "REVERSAL"
  BY <1>1, <1>3, LegsType
<1>8. \A w \in Wallets : \A i \in 1..Len(fresh'[t][w]) :
        /\ fresh'[t][w][i].tx = cmd[t].tx
        /\ cmd[t].kind # "reverse" => fresh'[t][w][i].type # "REVERSAL"
  BY <1>1 DEF ReversalInv, PagesHonest
<1> QED BY <1>1, <1>3, <1>4, <1>5, <1>6, <1>7, <1>8, InsideSteps

LEMMA CheckFundsReversal ==
  ASSUME TypeInv, BookInv, ReversalInv, NEW t \in Threads, CheckFunds(t)
  PROVE  ReversalInv'
PROOF
<1>1. /\ pc[t] = "checking"
      /\ UNCHANGED <<balance, book, owner, cmd, plan, fresh, stale>>
  BY DEF CheckFunds, tables, private
<1>2. pc' = [pc EXCEPT ![t] = pc'[t]] /\ pc'[t] \in {"failing", "posting"}
  BY DEF CheckFunds, Goto, TypeInv, TypeOK
<1>3. \A u \in Threads : Held(u)' = Held(u) /\ Touched(u)' = Touched(u)
  BY <1>1 DEF Held, Touched, PlanRows
<1>4. \A tx \in Txs : ReversingOf(t, tx)' => ReversingOf(t, tx)
  BY <1>1 DEF ReversingOf
<1>5. Held(t)' \cap stale'[t] = {}
  BY <1>1, <1>3 DEF ReversalInv, HeldIsFresh
<1>6. cmd[t].kind # "reverse" =>
        \A i \in 1..Len(plan'[t]) : plan'[t][i].type # "REVERSAL"
  BY <1>1 DEF ReversalInv, PlansHonest
<1>7. \A w \in Wallets : \A i \in 1..Len(fresh'[t][w]) :
        /\ fresh'[t][w][i].tx = cmd[t].tx
        /\ cmd[t].kind # "reverse" => fresh'[t][w][i].type # "REVERSAL"
  BY <1>1 DEF ReversalInv, PagesHonest
<1> QED BY <1>1, <1>2, <1>3, <1>4, <1>5, <1>6, <1>7, InsideSteps

LEMMA LockRowReversal ==
  ASSUME TypeInv, BookInv, ReversalInv, NEW t \in Threads, LockRow(t)
  PROVE  ReversalInv'
PROOF
<1>1. PICK w \in Wallets :
        /\ owner[w] \in {NoThread, t} /\ w \notin stale[t]
        /\ owner' = [owner EXCEPT ![w] = t]
  BY DEF LockRow, Free, Changed
<1>2. UNCHANGED <<balance, book, cmd, plan, fresh, stale>>
  BY DEF LockRow, tables
<1>3. /\ pc[t] \in {"locking", "posting"}
      /\ pc' = [pc EXCEPT ![t] = pc'[t]]
      /\ pc'[t] \in {"locking", "checking", "posting"}
  BY DEF LockRow, Wanted, Goto, TypeInv, TypeOK
<1>4. Held(t)' = Held(t) \cup {w}
  BY <1>1 DEF Held, TypeInv, TypeOK
<1>5. \A u \in Threads : u # t => Held(u)' = Held(u)
  BY <1>1, ThreadsAssumption DEF Held, TypeInv, TypeOK
<1>6. Touched(t) \subseteq Touched(t)'
  BY <1>2, <1>4 DEF Touched, PlanRows
<1>7. \A tx \in Txs : ReversingOf(t, tx)' => ReversingOf(t, tx)
  BY <1>2, <1>3 DEF ReversingOf
<1>8. Held(t)' \cap stale'[t] = {}
  BY <1>1, <1>2, <1>4 DEF ReversalInv, HeldIsFresh
<1>9. cmd[t].kind # "reverse" =>
        \A i \in 1..Len(plan'[t]) : plan'[t][i].type # "REVERSAL"
  BY <1>2, <1>3 DEF ReversalInv, PlansHonest
<1>10. \A v \in Wallets : \A i \in 1..Len(fresh'[t][v]) :
        /\ fresh'[t][v][i].tx = cmd[t].tx
        /\ cmd[t].kind # "reverse" => fresh'[t][v][i].type # "REVERSAL"
  BY <1>2 DEF ReversalInv, PagesHonest
<1> QED BY <1>2, <1>3, <1>5, <1>6, <1>7, <1>8, <1>9, <1>10, InsideSteps

LEMMA StoreResultReversal ==
  ASSUME TypeInv, BookInv, ReversalInv, NEW t \in Threads, StoreResult(t)
  PROVE  ReversalInv'
PROOF
<1>1. /\ pc[t] = "posting" /\ plan[t] = << >>
      /\ UNCHANGED <<balance, book, owner, cmd, plan, fresh, stale>>
  BY DEF StoreResult, tables, private
<1>2. pc' = [pc EXCEPT ![t] = pc'[t]] /\ pc'[t] = "commit"
  BY DEF StoreResult, Goto, TypeInv, TypeOK
<1>3. \A u \in Threads : Held(u)' = Held(u) /\ Touched(u)' = Touched(u)
  BY <1>1 DEF Held, Touched, PlanRows
<1>4. \A tx \in Txs : ReversingOf(t, tx)' => ReversingOf(t, tx)
  BY <1>1 DEF ReversingOf
<1>5. Held(t)' \cap stale'[t] = {}
  BY <1>1, <1>3 DEF ReversalInv, HeldIsFresh
<1>6. \A w \in Wallets : \A i \in 1..Len(fresh'[t][w]) :
        /\ fresh'[t][w][i].tx = cmd[t].tx
        /\ cmd[t].kind # "reverse" => fresh'[t][w][i].type # "REVERSAL"
  BY <1>1 DEF ReversalInv, PagesHonest
<1> QED BY <1>1, <1>2, <1>3, <1>4, <1>5, <1>6, InsideSteps

LEMMA PostLegReversal ==
  ASSUME TypeInv, BookInv, ReversalInv, NEW t \in Threads, PostLeg(t)
  PROVE  ReversalInv'
PROOF
<1> DEFINE leg == Head(plan[t])
           entry == EntryOf(cmd[t].tx, leg, work[t][leg.wallet])
<1>1. /\ pc[t] = "posting" /\ plan[t] # << >> /\ leg.wallet \in Held(t)
      /\ cmd[t] \in Commands
      /\ UNCHANGED <<balance, book, owner, cmd, stale>>
  BY DEF PostLeg, tables, TypeInv, TypeOK
<1>2. \A u \in Threads : Held(u)' = Held(u)
  BY <1>1 DEF Held
<1>3. Held(t)' \cap stale'[t] = {}
  BY <1>1, <1>2 DEF ReversalInv, HeldIsFresh
<1>4. \/ /\ fresh' = [fresh EXCEPT ![t][leg.wallet] = Append(@, entry)]
         /\ plan' = [plan EXCEPT ![t] = Tail(@)]
         /\ UNCHANGED pc
      \/ Goto(t, "failing") /\ UNCHANGED <<fresh, plan>>
  BY Zenon DEF PostLeg
<1>5. CASE /\ fresh' = [fresh EXCEPT ![t][leg.wallet] = Append(@, entry)]
           /\ plan' = [plan EXCEPT ![t] = Tail(@)]
           /\ UNCHANGED pc
  <2>1. /\ plan[t] \in Seq(Leg) /\ leg \in Leg
        /\ leg = plan[t][1]
        /\ 1 \in 1..Len(plan[t])
        /\ plan'[t] = Tail(plan[t])
    BY <1>1, <1>5 DEF TypeInv, TypeOK
  <2>2. \A i \in 1..Len(plan'[t]) : i + 1 \in 1..Len(plan[t]) /\ plan'[t][i] = plan[t][i + 1]
    BY <1>1, <2>1
  <2>3. \A i \in 1..Len(plan[t]) : i = 1 \/ (i - 1 \in 1..Len(plan'[t]) /\ plan'[t][i - 1] = plan[t][i])
    BY <1>1, <2>1
  <2>4. PlanRows(t) \subseteq {leg.wallet} \cup PlanRows(t)'
    <3> SUFFICES ASSUME NEW i \in 1..Len(plan[t])
                 PROVE  plan[t][i].wallet \in {leg.wallet} \cup PlanRows(t)'
      BY DEF PlanRows
    <3> QED BY <2>1, <2>3 DEF PlanRows
  <2>5. Touched(t) \subseteq Touched(t)'
    BY <1>1, <1>2, <2>4 DEF Touched
  <2>6. \A tx \in Txs : ReversingOf(t, tx)' => ReversingOf(t, tx)
    BY <1>1, <1>5 DEF ReversingOf
  <2>7. cmd[t].kind # "reverse" =>
          \A i \in 1..Len(plan[t]) : plan[t][i].type # "REVERSAL"
    BY <1>1 DEF ReversalInv, PlansHonest
  <2>8. cmd[t].kind # "reverse" =>
          \A i \in 1..Len(plan'[t]) : plan'[t][i].type # "REVERSAL"
    BY <2>2, <2>7
  <2>9. entry.tx = cmd[t].tx /\ entry.type = leg.type
    BY DEF EntryOf
  <2>10. cmd[t].kind # "reverse" => entry.type # "REVERSAL"
    BY <2>1, <2>7, <2>9
  <2>11. \A w \in Wallets : \A i \in 1..Len(fresh[t][w]) :
          /\ fresh[t][w][i].tx = cmd[t].tx
          /\ cmd[t].kind # "reverse" => fresh[t][w][i].type # "REVERSAL"
    BY DEF ReversalInv, PagesHonest
  <2>12. entry \in Entry
    <3>1. leg.wallet \in Wallets
      BY <1>1 DEF Held
    <3>2. cmd[t].tx \in Txs /\ work[t][leg.wallet] \in Int
      BY <1>1, <3>1, CommandsAssumption DEF TypeInv, TypeOK, Command
    <3> QED BY <2>1, <3>2, EntryType
  <2> HIDE DEF entry
  <2>13. ASSUME NEW w \in Wallets, NEW i \in 1..Len(fresh'[t][w])
        PROVE  /\ fresh'[t][w][i].tx = cmd[t].tx
               /\ cmd[t].kind # "reverse" => fresh'[t][w][i].type # "REVERSAL"
    <3>1. CASE w # leg.wallet
      <4>1. fresh'[t][w] = fresh[t][w]
        BY <1>5, <3>1 DEF TypeInv, TypeOK
      <4> QED BY <2>11, <4>1
    <3>2. CASE w = leg.wallet
      <4> DEFINE old == fresh[t][w]
      <4>1. old \in Seq(Entry) /\ fresh'[t][w] = Append(old, entry)
        BY <1>5, <3>2 DEF TypeInv, TypeOK
      <4>2. \A j \in 1..Len(old) :
              /\ old[j].tx = cmd[t].tx
              /\ cmd[t].kind # "reverse" => old[j].type # "REVERSAL"
        BY <2>11
      <4> HIDE DEF old
      <4>3. /\ Len(Append(old, entry)) = Len(old) + 1
            /\ \A j \in 1..Len(old) : Append(old, entry)[j] = old[j]
            /\ Append(old, entry)[Len(old) + 1] = entry
            /\ Len(old) \in Nat
        BY <2>12, <4>1, AppendProperties
      <4>4. i \in 1..Len(old) \/ i = Len(old) + 1
        BY <4>1, <4>3
      <4>5. CASE i \in 1..Len(old)
        <5>1. fresh'[t][w][i] = old[i]
          BY <4>1, <4>3, <4>5
        <5> QED BY <4>2, <4>5, <5>1
      <4>6. CASE i = Len(old) + 1
        <5>1. fresh'[t][w][i] = entry
          BY <4>1, <4>3, <4>6
        <5> QED BY <2>9, <2>10, <5>1
      <4> QED BY <4>4, <4>5, <4>6
    <3> QED BY <3>1, <3>2
  <2>14. /\ pc' = [pc EXCEPT ![t] = pc'[t]]
         /\ pc'[t] # "commit"
    BY <1>1, <1>5 DEF TypeInv, TypeOK
  <2>15. \A u \in Threads : u # t => plan'[u] = plan[u] /\ fresh'[u] = fresh[u]
    BY <1>5 DEF TypeInv, TypeOK
  <2> QED BY <1>1, <1>2, <1>3, <2>5, <2>6, <2>8, <2>13, <2>14, <2>15, InsideSteps
<1>6. CASE Goto(t, "failing") /\ UNCHANGED <<fresh, plan>>
  BY <1>1, <1>2, <1>3, <1>6, StepOutside DEF Goto, TypeInv, TypeOK
<1> QED BY <1>4, <1>5, <1>6

LEMMA BeginReversalReversal ==
  ASSUME TypeInv, BookInv, ReversalInv, NEW t \in Threads, BeginReversal(t)
  PROVE  ReversalInv'
PROOF
<1> DEFINE tt == cmd[t].tx
           places == PlacesOf(book, tt)
<1>1. /\ pc[t] = "begin" /\ cmd[t].kind = "reverse"
      /\ stale' = [stale EXCEPT ![t] = {}]
      /\ UNCHANGED <<balance, book, owner, cmd, fresh>>
  BY DEF BeginReversal, NoSnapshot, tables
<1>2. /\ stale'[t] = {} /\ \A u \in Threads : u # t => stale'[u] = stale[u]
      /\ \A u \in Threads : Held(u)' = Held(u)
  BY <1>1 DEF TypeInv, TypeOK, Held
<1>3. CASE places = {} \/ ReversalsOf(book, tt) # {}
  <2>1. Goto(t, "failing") /\ UNCHANGED plan
    BY <1>3 DEF BeginReversal
  <2> QED BY <1>1, <1>2, <2>1, StepOutside DEF Goto, TypeInv, TypeOK
<1>4. CASE ~(places = {} \/ ReversalsOf(book, tt) # {})
  <2>0. Goto(t, "posting")
    BY <1>4, Zenon DEF BeginReversal
  <2>1. PICK order \in SetToSeqs(places) :
          plan' = [plan EXCEPT ![t] =
                         [i \in 1..Len(order) |->
                            MirrorOf(order[i][1], book[order[i][1]][order[i][2]])]]
    BY <1>4, Zenon DEF BeginReversal
  <2> DEFINE mirrors == [i \in 1..Len(order) |->
                           MirrorOf(order[i][1], book[order[i][1]][order[i][2]])]
  <2>2. mirrors = [i \in 1..Len(order) |->
                     MirrorOf(order[i][1], book[order[i][1]][order[i][2]])]
    OBVIOUS
  <2>3. plan' = [plan EXCEPT ![t] = mirrors]
    BY <2>1
  <2> HIDE DEF mirrors
  <2>4. book \in [Wallets -> Seq(Entry)]
    BY DEF TypeInv, TypeOK
  <2>5. \A p \in places : \E i \in 1..Len(mirrors) : mirrors[i].wallet = p[1]
    <3>1. \A p \in places : RowIn(mirrors, p[1])
      BY <2>2, <2>4, MirrorPlan
    <3> QED BY <3>1 DEF RowIn
  <2>6. /\ plan'[t] = mirrors
        /\ pc'[t] = "posting"
        /\ \A u \in Threads : u # t => plan'[u] = plan[u] /\ pc'[u] = pc[u]
    BY <2>0, <2>3 DEF Goto, TypeInv, TypeOK
  <2>7. RowsOf(tt) \subseteq Touched(t)'
    <3> SUFFICES ASSUME NEW p \in places PROVE p[1] \in PlanRows(t)'
      BY DEF RowsOf, Touched
    <3> QED BY <2>5, <2>6 DEF PlanRows
  <2>8. \A u \in Threads : u # t =>
          /\ Touched(u)' = Touched(u)
          /\ \A tx \in Txs : ReversingOf(u, tx)' <=> ReversingOf(u, tx)
    BY <1>1, <1>2, <2>6 DEF Touched, PlanRows, ReversingOf
  <2>9. \A tx \in Txs : ReversingOf(t, tx)' => tx = tt
    BY <1>1 DEF ReversingOf
  <2>10. \A tx \in Txs : RowsOf(tx)' = RowsOf(tx) /\ ReversalsOf(book, tx)' = ReversalsOf(book, tx)
    BY <1>1 DEF RowsOf, ReversalsOf, PlacesOf
  <2>11. CommonRow'
    <3> SUFFICES ASSUME NEW tx \in Txs, NEW u \in Threads, ReversingOf(u, tx)'
                 PROVE  \E w \in RowsOf(tx) : \A v \in Threads : ReversingOf(v, tx)' => w \in Touched(v)'
      BY <2>10 DEF CommonRow
    <3>1. CASE \E v \in Threads : ReversingOf(v, tx)
      <4>1. PICK w \in RowsOf(tx) : \A v \in Threads : ReversingOf(v, tx) => w \in Touched(v)
        BY <3>1 DEF ReversalInv, CommonRow
      <4>2. ASSUME NEW v \in Threads, ReversingOf(v, tx)' PROVE w \in Touched(v)'
        <5>1. CASE v = t
          BY <2>7, <2>9, <4>1, <4>2, <5>1
        <5>2. CASE v # t
          BY <2>8, <4>1, <4>2, <5>2
        <5> QED BY <5>1, <5>2
      <4> QED BY <4>1, <4>2
    <3>2. CASE ~\E v \in Threads : ReversingOf(v, tx)
      <4>1. \A v \in Threads : ReversingOf(v, tx)' => v = t
        BY <2>8, <3>2
      <4>2. u = t /\ tx = tt
        BY <2>9, <4>1
      <4>3. PICK p \in places : TRUE
        BY <1>4
      <4>4. p[1] \in RowsOf(tx) /\ p[1] \in Touched(t)'
        BY <2>7, <4>2 DEF RowsOf
      <4> QED BY <4>1, <4>4
    <3> QED BY <3>1, <3>2
  <2>12. LateIsStale'
    <3> SUFFICES ASSUME NEW u \in Threads, NEW tx \in Txs,
                        ReversingOf(u, tx)', ReversalsOf(book, tx) # {}
                 PROVE  Touched(u)' \cap stale'[u] # {}
      BY <2>10 DEF LateIsStale
    <3>1. u # t
      BY <1>4, <2>9
    <3> QED BY <1>2, <2>8, <3>1 DEF ReversalInv, LateIsStale
  <2>13. HeldIsFresh'
    BY <1>2 DEF ReversalInv, HeldIsFresh
  <2>14. PlanDone'
    BY <2>6 DEF ReversalInv, PlanDone
  <2>15. PlansHonest'
    BY <1>1, <2>6 DEF ReversalInv, PlansHonest
  <2>16. PagesHonest'
    BY <1>1 DEF ReversalInv, PagesHonest
  <2> QED BY <2>11, <2>12, <2>13, <2>14, <2>15, <2>16 DEF ReversalInv
<1> QED BY <1>3, <1>4

\* The commit: who commits mirrors makes a row stale for all who would still
\* write mirrors of the same transaction.
LEMMA CommitReversal ==
  ASSUME TypeInv, BookInv, ReversalInv, UNCHANGED setting, NEW t \in Threads, Commit(t)
  PROVE  /\ ReversalInv'
         /\ \A tx \in Txs : ReversalsOf(book, tx) # {} =>
              ReversalsOf(book, tx)' = ReversalsOf(book, tx)
PROOF
<1>1. /\ pc[t] = "commit"
      /\ book' = [w \in Wallets |-> book[w] \o fresh[t][w]]
      /\ stale' = [u \in Threads |->
                    IF u # t /\ pc[u] \in InTransaction THEN stale[u] \cup Held(t) ELSE {}]
      /\ Unlock(t)
  BY DEF Commit
<1>2. /\ pc'[t] \in {"idle", "publish"}
      /\ fresh'[t] = Empty
      /\ \A u \in Threads : u # t =>
           pc'[u] = pc[u] /\ cmd'[u] = cmd[u] /\ plan'[u] = plan[u] /\ fresh'[u] = fresh[u]
  <2>1. \/ /\ Goto(t, "publish")
           /\ fresh' = [fresh EXCEPT ![t] = Empty]
           /\ UNCHANGED <<cmd, plan>>
        \/ Forget(t)
    BY Zenon DEF Commit
  <2> QED BY <2>1 DEF Forget, Goto, TypeInv, TypeOK
<1>3. /\ Held(t)' = {}
      /\ \A u \in Threads : u # t => Held(u)' = Held(u) /\ Held(u) \cap Held(t) = {}
  BY <1>1, ThreadsAssumption DEF Unlock, Held
<1>4. book \in Books /\ fresh[t] \in Books /\ book' \in Books
  <2>1. TypeInv'
    BY TypeStep DEF Next, Step
  <2> QED BY <2>1 DEF TypeInv, TypeOK, Books
<1>5. Extended(book', book, fresh[t])
  BY <1>1 DEF Extended
<1>6. \A u \in Threads, tx \in Txs : ReversingOf(u, tx)' =>
        /\ u # t /\ ReversingOf(u, tx)
        /\ Touched(u)' = Touched(u)
        /\ stale'[u] = stale[u] \cup Held(t)
  <2> SUFFICES ASSUME NEW u \in Threads, NEW tx \in Txs, ReversingOf(u, tx)'
               PROVE  /\ u # t /\ ReversingOf(u, tx)
                      /\ Touched(u)' = Touched(u)
                      /\ stale'[u] = stale[u] \cup Held(t)
    OBVIOUS
  <2>1. u # t
    BY <1>2 DEF ReversingOf
  <2>2. ReversingOf(u, tx) /\ pc[u] \in InTransaction
    BY <1>2, <2>1 DEF ReversingOf, InTransaction
  <2>3. Touched(u)' = Touched(u)
    BY <1>2, <1>3, <2>1 DEF Touched, PlanRows
  <2> QED BY <1>1, <2>1, <2>2, <2>3
<1>7. \A tx \in Txs : RowsOf(tx) \subseteq RowsOf(tx)'
  <2> TAKE tx \in Txs
  <2>1. PlacesOf(book, tx) \subseteq PlacesOf(book', tx)
    BY <1>4, <1>5, PlacesAfterConcat
  <2>2. PlacesOf(book, tx)' = PlacesOf(book', tx)
    BY DEF PlacesOf
  <2> QED BY <2>1, <2>2 DEF RowsOf
<1>8. ASSUME NEW tx \in Txs, ~ReversingOf(t, tx)
      PROVE  ReversalsOf(book, tx)' = ReversalsOf(book, tx)
  <2>1. NoMirrors(fresh[t], tx)
    BY <1>1, <1>8 DEF NoMirrors, ReversingOf, ReversalInv, PagesHonest
  <2>2. ReversalsOf(book', tx) = ReversalsOf(book, tx)
    <3> DEFINE n == fresh[t]
    <3>1. n \in Books /\ Extended(book', book, n) /\ NoMirrors(n, tx)
      BY <1>4, <1>5, <2>1
    <3> HIDE DEF n
    <3> QED BY <1>4, <3>1, PlacesAfterConcat
  <2>3. ReversalsOf(book, tx)' = ReversalsOf(book', tx)
    BY DEF ReversalsOf, PlacesOf
  <2> QED BY <2>2, <2>3
<1>9. Touched(t) = Held(t)
  <2>1. plan[t] = << >>
    BY <1>1 DEF ReversalInv, PlanDone
  <2>2. PlanRows(t) = {}
    BY <2>1 DEF PlanRows
  <2> QED BY <2>2 DEF Touched
<1>10. CommonRow'
  <2> SUFFICES ASSUME NEW tx \in Txs, NEW u \in Threads, ReversingOf(u, tx)'
               PROVE  \E w \in RowsOf(tx)' : \A v \in Threads : ReversingOf(v, tx)' => w \in Touched(v)'
    BY DEF CommonRow
  <2>1. PICK w \in RowsOf(tx) : \A v \in Threads : ReversingOf(v, tx) => w \in Touched(v)
    BY <1>6 DEF ReversalInv, CommonRow
  <2> QED BY <1>6, <1>7, <2>1
<1>11. LateIsStale'
  <2> SUFFICES ASSUME NEW u \in Threads, NEW tx \in Txs,
                      ReversingOf(u, tx)', ReversalsOf(book, tx)' # {}
               PROVE  Touched(u)' \cap stale'[u] # {}
    BY DEF LateIsStale
  <2>1. CASE ReversingOf(t, tx)
    <3>1. PICK w \in RowsOf(tx) : \A v \in Threads : ReversingOf(v, tx) => w \in Touched(v)
      BY <2>1 DEF ReversalInv, CommonRow
    <3>2. w \in Held(t) /\ w \in Touched(u)
      BY <1>6, <1>9, <2>1, <3>1
    <3> QED BY <1>6, <3>2
  <2>2. CASE ~ReversingOf(t, tx)
    <3>1. ReversingOf(u, tx) /\ ReversalsOf(book, tx) # {}
      BY <1>6, <1>8, <2>2
    <3>2. Touched(u) \cap stale[u] # {}
      BY <3>1 DEF ReversalInv, LateIsStale
    <3> QED BY <1>6, <3>2
  <2> QED BY <2>1, <2>2
<1>12. HeldIsFresh'
  <2> SUFFICES ASSUME NEW u \in Threads PROVE Held(u)' \cap stale'[u] = {}
    BY DEF HeldIsFresh
  <2>1. CASE u = t
    BY <1>3, <2>1
  <2>2. CASE u # t
    <3>1. Held(u) \cap stale[u] = {}
      BY DEF ReversalInv, HeldIsFresh
    <3>2. stale'[u] \subseteq stale[u] \cup Held(t)
      BY <1>1
    <3> QED BY <1>3, <2>2, <3>1, <3>2
  <2> QED BY <2>1, <2>2
<1>13. PlanDone' /\ PlansHonest'
  BY <1>2 DEF ReversalInv, PlanDone, PlansHonest
<1>14. PagesHonest'
  <2> SUFFICES ASSUME NEW u \in Threads, NEW w \in Wallets, NEW i \in 1..Len(fresh'[u][w])
               PROVE  /\ fresh'[u][w][i].tx = cmd'[u].tx
                      /\ cmd'[u].kind # "reverse" => fresh'[u][w][i].type # "REVERSAL"
    BY DEF PagesHonest
  <2>1. CASE u = t
    <3>1. 1..Len(fresh'[u][w]) = {}
      BY <1>2, <2>1 DEF Empty
    <3> QED BY <3>1
  <2>2. CASE u # t
    BY <1>2, <2>2 DEF ReversalInv, PagesHonest
  <2> QED BY <2>1, <2>2
<1>15. ASSUME NEW tx \in Txs, ReversalsOf(book, tx) # {}
       PROVE  ReversalsOf(book, tx)' = ReversalsOf(book, tx)
  <2>1. ~ReversingOf(t, tx)
    <3>1. Held(t) \cap stale[t] = {}
      BY DEF ReversalInv, HeldIsFresh
    <3>2. ReversingOf(t, tx) => Touched(t) \cap stale[t] # {}
      BY <1>15 DEF ReversalInv, LateIsStale
    <3> QED BY <1>9, <3>1, <3>2
  <2> QED BY <1>8, <2>1
<1> QED BY <1>10, <1>11, <1>12, <1>13, <1>14, <1>15 DEF ReversalInv

LEMMA ReversalStep ==
  ASSUME TypeInv, BookInv, ReversalInv, [Next]_vars
  PROVE  /\ ReversalInv'
         /\ \A tx \in Txs : ReversalsOf(book, tx) # {} =>
              ReversalsOf(book, tx)' = ReversalsOf(book, tx)
PROOF
<1>1. CASE \E t \in Threads : Commit(t)
  <2>1. UNCHANGED setting
    BY DEF Next, vars
  <2> QED BY <1>1, <2>1, CommitReversal
<1>2. ASSUME NEW t \in Threads,
             \/ \E c \in Commands : Receive(t, c)
             \/ CheckCache(t) \/ ClaimGet(t) \/ ClaimSet(t) \/ Publish(t)
             \/ LockFails(t) \/ DeadlockVictim(t) \/ DbError(t) \/ Release(t)
             \/ Rollback(t) \/ Crash(t) \/ CommitFails(t)
      PROVE  ReversalInv' /\ book' = book
  <2>1. book' = book
    BY <1>2 DEF Receive, CheckCache, ClaimGet, ClaimSet, Publish, LockFails, DeadlockVictim,
                DbError, Release, Rollback, Crash, CommitFails, tables
  <2> QED BY <1>2, <2>1, OutsideSteps
<1>3. ASSUME NEW t \in Threads,
             \/ BeginPosting(t) \/ BeginReversal(t) \/ LockRow(t)
             \/ CheckFunds(t) \/ PostLeg(t) \/ StoreResult(t)
      PROVE  ReversalInv' /\ book' = book
  <2>1. book' = book
    BY <1>3 DEF BeginPosting, BeginReversal, LockRow, CheckFunds, PostLeg, StoreResult, tables
  <2> QED BY <1>3, <2>1, BeginPostingReversal, BeginReversalReversal, LockRowReversal,
             CheckFundsReversal, PostLegReversal, StoreResultReversal
<1>4. ASSUME UNCHANGED <<tables, owner, pc, cmd, private, stale>>
      PROVE  ReversalInv' /\ book' = book
  <2>1. UNCHANGED <<book, owner, pc, cmd, plan, fresh, stale>>
    BY <1>4 DEF tables, private
  <2>2. \A u \in Threads : Held(u)' = Held(u) /\ Touched(u)' = Touched(u)
    BY <2>1 DEF Held, Touched, PlanRows
  <2>3. \A u \in Threads, tx \in Txs : ReversingOf(u, tx)' = ReversingOf(u, tx)
    BY <2>1 DEF ReversingOf
  <2>4. CommonRow' /\ LateIsStale'
    BY <2>1, <2>2, <2>3, FrameReversal DEF ReversalInv
  <2>5. HeldIsFresh' /\ PlanDone' /\ PlansHonest' /\ PagesHonest'
    BY <2>1, <2>2 DEF ReversalInv, HeldIsFresh, PlanDone, PlansHonest, PagesHonest
  <2> QED BY <2>1, <2>4, <2>5 DEF ReversalInv
<1>5. CASE \E k \in Keys : ExpireClaim(k) \/ ExpireResult(k)
  <2>1. UNCHANGED <<tables, owner, pc, cmd, private, stale>>
    BY <1>5 DEF ExpireClaim, ExpireResult
  <2> QED BY <1>4, <2>1 DEF ReversalsOf, PlacesOf
<1>6. CASE Quiet \/ UNCHANGED vars
  <2>1. UNCHANGED <<tables, owner, pc, cmd, private, stale>>
    BY <1>6 DEF Quiet, vars, tables, private
  <2> QED BY <1>4, <2>1 DEF ReversalsOf, PlacesOf
<1>7. book' = book => \A tx \in Txs : ReversalsOf(book, tx)' = ReversalsOf(book, tx)
  BY DEF ReversalsOf, PlacesOf
<1> QED BY <1>1, <1>2, <1>3, <1>5, <1>6, <1>7, Zenon DEF Next, Step

\* Two reversals of one transaction, whatever they read before the other
\* committed, never both leave mirrors: at most one reversal is ever posted.
THEOREM ReversedOnce == Spec => NoSecondReversal
PROOF
<1>1. TypeInv /\ BookInv /\ ReversalInv /\ [Next]_vars => ReversalInv'
  BY ReversalStep
<1>2. Spec => []ReversalInv
  BY <1>1, InitReversal, BooksKept, PTL DEF Spec
<1>3. TypeInv /\ BookInv /\ ReversalInv /\ [Next]_vars =>
        [\A tx \in Txs : ReversalsOf(book, tx) # {} =>
           ReversalsOf(book, tx)' = ReversalsOf(book, tx)]_vars
  BY ReversalStep
<1> QED BY <1>2, <1>3, BooksKept, PTL DEF Spec, NoSecondReversal
=============================================================================
