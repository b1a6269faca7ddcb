-------------------------- MODULE LedgerBookProofs --------------------------
(***************************************************************************)
(* LedgerWrite implements LedgerBook: every commit is one step of the one  *)
(* clerk on the current books, and every other step leaves them alone.     *)
(* Then double entry: the entries of a transfer add up to zero, in the     *)
(* books and in what each thread has posted and has still to post.         *)
(***************************************************************************)
EXTENDS LedgerAnswersProofs, FoldFacts

-----------------------------------------------------------------------------
(***************************************************************************)
(* The two specifications speak of the same commands, legs and entries.    *)
(***************************************************************************)
LEMMA SameWords ==
  /\ \A c : Book!LegsOf(c) = LegsOf(c) /\ Book!TotalDebit(c) = TotalDebit(c)
  /\ \A b, tx : Book!PlacesOf(b, tx) = PlacesOf(b, tx) /\ Book!ReversalsOf(b, tx) = ReversalsOf(b, tx)
  /\ \A w, e : Book!MirrorOf(w, e) = MirrorOf(w, e)
  /\ \A leg, n : Book!Covered(leg, n) <=> Covered(leg, n)
  /\ \A tx, leg, n : Book!EntryOf(tx, leg, n) = EntryOf(tx, leg, n)
PROOF
<1>1. \A c : Book!LegsOf(c) = LegsOf(c) /\ Book!TotalDebit(c) = TotalDebit(c)
  BY DEF Book!LegsOf, Book!TransferLegs, Book!PrincipalLegs, Book!FeeLegs, Book!LegOf, Book!TotalDebit,
         LegsOf, TransferLegs, PrincipalLegs, FeeLegs, LegOf, TotalDebit
<1>2. \A b, tx : Book!PlacesOf(b, tx) = PlacesOf(b, tx)
  BY DEF Book!PlacesOf, PlacesOf
<1>3. \A b, tx : Book!ReversalsOf(b, tx) = ReversalsOf(b, tx)
  BY <1>2 DEF Book!ReversalsOf, ReversalsOf
<1>4. \A w, e : Book!MirrorOf(w, e) = MirrorOf(w, e)
  BY DEF Book!MirrorOf, Book!LegOf, Book!Opposite, MirrorOf, LegOf, Opposite
<1>5. \A leg, n : Book!Covered(leg, n) <=> Covered(leg, n)
  BY DEF Book!Covered, Covered
<1>6. \A tx, leg, n : Book!EntryOf(tx, leg, n) = EntryOf(tx, leg, n)
  BY DEF Book!EntryOf, Book!After, EntryOf, After
<1> QED BY <1>1, <1>2, <1>3, <1>4, <1>5, <1>6

\* They order a set alike.
LEMMA SameOrders == \A S : Book!SetToSeqs(S) = SetToSeqs(S)
PROOF
<1>1. \A S : Book!Cardinality(S) = Cardinality(S)
  BY DEF Book!Cardinality, Cardinality
<1> QED BY <1>1 DEF Book!SetToSeqs, SetToSeqs

-----------------------------------------------------------------------------
(***************************************************************************)
(* A clerk's page, and posting one leg on it.                              *)
(***************************************************************************)
Pages == [ok : BOOLEAN, balance : [Wallets -> Int], book : Books]

PageOf(bal, bk) == [ok |-> TRUE, balance |-> bal, book |-> bk]

\* Page q is page p with one covered leg more.
Posts(tx, leg, p, q) ==
    LET w == leg.wallet
        e == EntryOf(tx, leg, p.balance[w])
    IN  /\ w \in Wallets
        /\ Covered(leg, p.balance[w])
        /\ q.balance[w] = e.after /\ q.book[w] = Append(p.book[w], e)
        /\ \A v \in Wallets : v # w => q.balance[v] = p.balance[v] /\ q.book[v] = p.book[v]

\* The pages from p to q, leg by leg.
Leads(F, tx, legs, p, q) ==
    /\ F \in [0..Len(legs) -> Pages]
    /\ F[0] = p /\ F[Len(legs)] = q
    /\ \A i \in 0..Len(legs) : F[i].ok
    /\ \A i \in 1..Len(legs) : Posts(tx, legs[i], F[i - 1], F[i])

LEMMA PostsOn ==
  ASSUME NEW tx, NEW leg, NEW p \in Pages, NEW q \in Pages, p.ok, q.ok, Posts(tx, leg, p, q)
  PROVE  Book!PostOn(tx, leg, p) = q
PROOF
<1> DEFINE w == leg.wallet
           e == EntryOf(tx, leg, p.balance[w])
<1>1. w \in Wallets /\ Covered(leg, p.balance[w])
  BY DEF Posts
<1>2. Book!PostOn(tx, leg, p) =
        [ ok |-> TRUE, balance |-> [p.balance EXCEPT ![w] = e.after],
          book |-> [p.book EXCEPT ![w] = Append(@, e)] ]
  BY <1>1, SameWords DEF Book!PostOn
<1>3. q.balance = [p.balance EXCEPT ![w] = e.after]
  BY <1>1 DEF Posts, Pages
<1>4. q.book = [p.book EXCEPT ![w] = Append(@, e)]
  BY <1>1 DEF Posts, Pages, Books
<1>5. q = [ok |-> TRUE, balance |-> q.balance, book |-> q.book]
  BY DEF Pages
<1> QED BY <1>2, <1>3, <1>4, <1>5

\* Posting keeps a page a page.
LEMMA PostOnType ==
  ASSUME NEW tx \in Txs, NEW leg \in Leg, NEW p \in Pages
  PROVE  Book!PostOn(tx, leg, p) \in Pages
PROOF
<1> DEFINE w == leg.wallet
           e == EntryOf(tx, leg, p.balance[w])
<1>1. CASE p.ok /\ w \in Wallets /\ Covered(leg, p.balance[w])
  <2>1. Book!PostOn(tx, leg, p) =
          [ ok |-> TRUE, balance |-> [p.balance EXCEPT ![w] = e.after],
            book |-> [p.book EXCEPT ![w] = Append(@, e)] ]
    BY <1>1, SameWords DEF Book!PostOn
  <2>2. e \in Entry
    BY <1>1, EntryType DEF Pages
  <2>3. e.after \in Int
    BY <2>2 DEF Entry
  <2> HIDE DEF e, w
  <2>4. [p.balance EXCEPT ![w] = e.after] \in [Wallets -> Int]
    BY <2>3 DEF Pages
  <2>5. [p.book EXCEPT ![w] = Append(@, e)] \in Books
    <3>1. \A v \in Wallets : p.book[v] \in Seq(Entry) /\ Append(p.book[v], e) \in Seq(Entry)
      BY <2>2, AppendProperties DEF Pages, Books
    <3> QED BY <3>1 DEF Pages, Books
  <2> QED BY <2>1, <2>4, <2>5 DEF Pages
<1>2. CASE ~(p.ok /\ w \in Wallets /\ Covered(leg, p.balance[w]))
  <2>1. Book!PostOn(tx, leg, p) = [p EXCEPT !.ok = FALSE]
    BY <1>2, SameWords DEF Book!PostOn
  <2> QED BY <2>1 DEF Pages
<1> QED BY <1>1, <1>2

\* The largest number up to n in a set.
LEMMA LargestIn ==
  ASSUME NEW n \in Nat, NEW s \in SUBSET (1..n), s # {}
  PROVE  Max(s) \in s /\ \A y \in s : Max(s) >= y
PROOF
<1> DEFINE T == {n - x : x \in s}
<1>0. \A x \in s : x \in Nat /\ x <= n
  OBVIOUS
<1>1. T \subseteq Nat /\ T # {}
  <2>1. \A x \in s : n - x \in Nat
    BY <1>0
  <2>2. PICK x \in s : TRUE
    OBVIOUS
  <2>3. n - x \in T
    OBVIOUS
  <2> QED BY <2>1, <2>3
<1>2. PICK m \in T : \A k \in T : m <= k
  <2> HIDE DEF T
  <2> QED BY <1>1, LeastNumber, Zenon
<1>3. PICK x \in s : m = n - x
  BY <1>2
<1>4. \A y \in s : x >= y
  <2> TAKE y \in s
  <2>1. n - x <= n - y
    BY <1>2, <1>3
  <2> QED BY <1>0, <1>3, <2>1
<1> QED BY <1>3, <1>4 DEF Max

\* The fold of LedgerBook walks the pages one by one.
LEMMA FoldWalks ==
  ASSUME balance \in [Wallets -> Int], book \in Books,
         NEW tx \in Txs, NEW legs \in Seq(Leg), NEW q \in Pages,
         NEW F, Leads(F, tx, legs, PageOf(balance, book), q)
  PROVE  Book!PostAll(tx, legs) = q
PROOF
<1> DEFINE n == Len(legs)
           D == DOMAIN legs
           base == [ok |-> TRUE, balance |-> balance, book |-> book]
           Def(h) == [s \in SUBSET D |->
                        IF s = {} THEN base
                        ELSE Book!PostOn(tx, legs[Max(s)], h[s \ {Max(s)}])]
           it == CHOOSE h : h = Def(h)
<1>1. n \in Nat /\ D = 1..n /\ \A i \in D : legs[i] \in Leg
  OBVIOUS
<1>2. Book!PostAll(tx, legs) = it[D]
  BY DEF Book!PostAll, Book!FoldLeft, Book!MapThenFoldSet, Book!Max, Max
<1>3. base \in Pages
  BY DEF Pages
<1> DEFINE ch == [s \in SUBSET D |-> Max(s)]
           step == [p \in D \X Pages |-> Book!PostOn(tx, legs[p[1]], p[2])]
<1>4. \A s \in SUBSET D : s # {} => ch[s] \in s /\ ch[s] = Max(s)
  BY <1>1, LargestIn
<1>5. step \in [D \X Pages -> Pages]
  BY <1>1, PostOnType
<1>6. IsFiniteSet(D)
  BY <1>1, FS_Interval
<1>7. PICK g \in [SUBSET D -> Pages] : Folds(g, D, ch, base, step)
  <2> HIDE DEF D, ch, step, base
  <2> QED BY <1>3, <1>4, <1>5, <1>6, FoldExists
<1>8. g = Def(g)
  <2>1. \A s \in SUBSET D : s # {} =>
          step[<<ch[s], g[s \ {ch[s]}]>>] = Book!PostOn(tx, legs[Max(s)], g[s \ {Max(s)}])
    <3> SUFFICES ASSUME NEW s \in SUBSET D, s # {}
                 PROVE  step[<<ch[s], g[s \ {ch[s]}]>>]
                          = Book!PostOn(tx, legs[Max(s)], g[s \ {Max(s)}])
      OBVIOUS
    <3>1. ch[s] = Max(s) /\ Max(s) \in D /\ s \ {Max(s)} \in SUBSET D
      BY <1>4
    <3>2. g[s \ {Max(s)}] \in Pages
      BY <3>1
    <3> QED BY <3>1, <3>2
  <2> HIDE DEF ch, step, base, D
  <2> QED BY <1>7, <2>1 DEF Folds
<1>9. it = Def(it)
  <2> HIDE DEF Def
  <2> QED BY <1>8
<1> HIDE DEF it
<1> DEFINE T == {i \in Nat : i <= n => it[1..i] = F[i]}
<1>10. 0 \in T
  <2>1. it[{}] = base
    BY <1>9
  <2>2. F[0] = base
    BY DEF Leads, PageOf
  <2>3. 1..0 = {}
    OBVIOUS
  <2> QED BY <2>1, <2>2, <2>3
<1>11. ASSUME NEW i \in Nat, i \in T PROVE i + 1 \in T
  <2> SUFFICES ASSUME i + 1 <= n PROVE it[1..(i + 1)] = F[i + 1]
    OBVIOUS
  <2> DEFINE j == i + 1
             s == 1..j
  <2>1. it[1..i] = F[i] /\ j \in 1..n /\ j - 1 = i
    BY <1>1, <1>11
  <2>2. s \in SUBSET D /\ s # {} /\ s \in SUBSET (1..n)
    <3>1. 1 \in s /\ \A y \in s : y \in 1..n
      BY <1>1, <2>1
    <3> HIDE DEF s
    <3> QED BY <1>1, <3>1
  <2>3. Max(s) = j
    <3>1. Max(s) \in s /\ \A y \in s : Max(s) >= y
      <4> HIDE DEF s
      <4> QED BY <1>1, <2>2, LargestIn
    <3>2. j \in s
      OBVIOUS
    <3> QED BY <3>1, <3>2
  <2>4. s \ {j} = 1..i
    OBVIOUS
  <2>5. it[s] = Book!PostOn(tx, legs[j], it[s \ {j}])
    <3> HIDE DEF s, D, base, j
    <3> QED BY <1>9, <2>2, <2>3
  <2>6. it[s] = Book!PostOn(tx, legs[j], F[i])
    BY <2>1, <2>4, <2>5
  <2>7. Posts(tx, legs[j], F[i], F[j]) /\ F[i] \in Pages /\ F[j] \in Pages /\ F[i].ok /\ F[j].ok
    <3>1. i \in 0..n /\ j \in 0..n
      BY <1>1, <2>1
    <3> HIDE DEF j
    <3> QED BY <2>1, <3>1 DEF Leads
  <2>8. Book!PostOn(tx, legs[j], F[i]) = F[j]
    BY <2>7, PostsOn
  <2> QED BY <2>6, <2>8
<1>12. n \in T
  <2> HIDE DEF T
  <2>1. Nat \subseteq T
    BY <1>10, <1>11, NumberSteps, Zenon
  <2> QED BY <1>1, <2>1
<1> QED BY <1>1, <1>2, <1>12 DEF Leads

-----------------------------------------------------------------------------
(***************************************************************************)
(* The inductive invariants.                                               *)
(***************************************************************************)
Clerk == PageOf(balance, book)

\* The page as a thread sees it: its own rows and entries over the committed ones.
Here(t) ==
    PageOf([w \in Wallets |-> IF owner[w] = t THEN work[t][w] ELSE balance[w]],
           [w \in Wallets |-> book[w] \o fresh[t][w]])

\* The thread has posted these legs, on rows it holds, from the current books.
Done(t, done) ==
    /\ \A i \in 1..Len(done) : done[i].wallet \in Held(t)
    /\ \E F : Leads(F, cmd[t].tx, done, Clerk, Here(t))

MirrorsOf(b, order) ==
    [i \in 1..Len(order) |-> MirrorOf(order[i][1], b[order[i][1]][order[i][2]])]

\* The legs a clerk who served the command now might post.
Tasks(t) ==
    IF cmd[t].kind = "reverse"
      THEN {MirrorsOf(book, order) : order \in SetToSeqs(PlacesOf(book, cmd[t].tx))}
      ELSE {LegsOf(cmd[t])}

\* A reversal that will meet a row that changed.
Outdated(t) == cmd[t].kind = "reverse" /\ Touched(t) \cap stale[t] # {}

\* What a thread has posted and has still to post is what its command asks of the books
\* as they are now, not as they were when it planned.
OnTask(t) ==
    \E legs \in Tasks(t) : \E done \in Seq(Leg) : legs = done \o plan[t] /\ Done(t, done)

OnTrack(t) == pc[t] \in Counted => Outdated(t) \/ OnTask(t)

\* Who has checked the sender's funds holds the sender's row.
SenderHeld(t) ==
    /\ pc[t] \in {"locking", "checking"} =>
         cmd[t].kind = "transfer" /\ plan[t] = LegsOf(cmd[t])
    /\ pc[t] = "locking" => locks[t] = LocksOf(cmd[t]) \/ cmd[t].from \in Held(t)
    /\ pc[t] \in {"checking", "posting", "commit"} /\ cmd[t].kind = "transfer" =>
         cmd[t].from \in Held(t)
    /\ pc[t] \in {"posting", "commit"} /\ cmd[t].kind = "transfer" =>
         TotalDebit(cmd[t]) <= balance[cmd[t].from]

\* An original stands in a row its command moves: on a thread's pages, and in the books.
PageRows(t) ==
    \A w \in Wallets :
        fresh[t][w] # << >> /\ cmd[t].kind # "reverse" => RowIn(LegsOf(cmd[t]), w)

BookRows ==
    \A w \in Wallets : \A i \in 1..Len(book[w]) : book[w][i].type # "REVERSAL" =>
        \E c \in setting.commands :
            c.kind # "reverse" /\ c.tx = book[w][i].tx /\ RowIn(LegsOf(c), w)

ThreadInv(t) == OnTrack(t) /\ SenderHeld(t) /\ PageRows(t)
ClerkInv == BookRows /\ \A t \in Threads : ThreadInv(t)

-----------------------------------------------------------------------------
(***************************************************************************)
(* Pages that lead from one to another.                                    *)
(***************************************************************************)
LEMMA LeadsNowhere ==
  ASSUME NEW tx, NEW p \in Pages, p.ok
  PROVE  \E F : Leads(F, tx, << >>, p, p)
PROOF
<1> DEFINE F == [i \in 0..0 |-> p]
<1>1. Leads(F, tx, << >>, p, p)
  BY DEF Leads
<1> QED BY <1>1

\* One leg more.
LEMMA LeadsOn ==
  ASSUME NEW tx, NEW legs \in Seq(Leg), NEW leg \in Leg,
         NEW p, NEW q, NEW r \in Pages, r.ok,
         NEW F, Leads(F, tx, legs, p, q), Posts(tx, leg, q, r)
  PROVE  \E G : Leads(G, tx, Append(legs, leg), p, r)
PROOF
<1> DEFINE n == Len(legs)
           more == Append(legs, leg)
           G == [i \in 0..(n + 1) |-> IF i <= n THEN F[i] ELSE r]
<1>1. /\ n \in Nat /\ Len(more) = n + 1 /\ more[n + 1] = leg
      /\ \A i \in 1..n : more[i] = legs[i]
  OBVIOUS
<1>2. F \in [0..n -> Pages] /\ F[0] = p /\ F[n] = q
      /\ (\A i \in 0..n : F[i].ok) /\ \A i \in 1..n : Posts(tx, legs[i], F[i - 1], F[i])
  BY DEF Leads
<1> HIDE DEF n, more
<1>3. \A i \in 0..n : G[i] = F[i]
  BY <1>1
<1>4. G[n + 1] = r
  BY <1>1
<1>5. G \in [0..(n + 1) -> Pages]
  BY <1>1, <1>2
<1> HIDE DEF G
<1>6. \A i \in 0..(n + 1) : G[i].ok
  <2> TAKE i \in 0..(n + 1)
  <2>1. i \in 0..n \/ i = n + 1
    BY <1>1
  <2> QED BY <1>2, <1>3, <1>4, <2>1
<1>7. ASSUME NEW i \in 1..(n + 1) PROVE Posts(tx, more[i], G[i - 1], G[i])
  <2>1. CASE i \in 1..n
    <3>1. i - 1 \in 0..n /\ i \in 0..n
      BY <1>1, <2>1
    <3> QED BY <1>1, <1>2, <1>3, <2>1, <3>1
  <2>2. CASE i = n + 1
    <3>1. i - 1 = n /\ n \in 0..n
      BY <1>1, <2>2
    <3>2. G[i - 1] = q /\ G[i] = r /\ more[i] = leg
      BY <1>1, <1>2, <1>3, <1>4, <2>2, <3>1
    <3> QED BY <3>2
  <2> QED BY <1>1, <2>1, <2>2
<1>8. G[0] = p
  BY <1>1, <1>2, <1>3
<1>9. Leads(G, tx, more, p, r)
  BY <1>1, <1>4, <1>5, <1>6, <1>7, <1>8 DEF Leads
<1> QED BY <1>9 DEF more

\* Two pages that agree on some rows, or elsewhere.
AgreeOn(rows, p, q) ==
    \A w \in rows : p.balance[w] = q.balance[w] /\ p.book[w] = q.book[w]

\* The legs post on these rows only: what stands in other rows does not matter.
LEMMA LeadsThere ==
  ASSUME NEW tx, NEW legs \in Seq(Leg), NEW rows \in SUBSET Wallets,
         \A i \in 1..Len(legs) : legs[i].wallet \in rows,
         NEW p \in Pages, NEW q \in Pages, NEW p2 \in Pages, NEW q2 \in Pages, p2.ok, q2.ok,
         AgreeOn(rows, p, p2), AgreeOn(rows, q, q2), AgreeOn(Wallets \ rows, p2, q2),
         NEW F, Leads(F, tx, legs, p, q)
  PROVE  \E G : Leads(G, tx, legs, p2, q2)
PROOF
<1> DEFINE n == Len(legs)
           Both(f) == [ ok |-> TRUE,
                        balance |-> [w \in Wallets |-> IF w \in rows THEN f.balance[w] ELSE p2.balance[w]],
                        book |-> [w \in Wallets |-> IF w \in rows THEN f.book[w] ELSE p2.book[w]] ]
           G == [i \in 0..n |-> Both(F[i])]
<1>1. n \in Nat
  OBVIOUS
<1>2. F \in [0..n -> Pages] /\ F[0] = p /\ F[n] = q
      /\ \A i \in 1..n : Posts(tx, legs[i], F[i - 1], F[i])
  BY DEF Leads
<1>3. ASSUME NEW f \in Pages
      PROVE  /\ Both(f) \in Pages /\ Both(f).ok
             /\ AgreeOn(rows, Both(f), f) /\ AgreeOn(Wallets \ rows, Both(f), p2)
  BY DEF Pages, Books, AgreeOn
<1>4. ASSUME NEW f \in Pages, NEW g \in Pages, AgreeOn(rows, f, g), AgreeOn(Wallets \ rows, f, g),
             f.ok, g.ok
      PROVE  f = g
  <2>1. \A w \in Wallets : f.balance[w] = g.balance[w] /\ f.book[w] = g.book[w]
    BY <1>4 DEF AgreeOn
  <2>2. f.balance \in [Wallets -> Int] /\ g.balance \in [Wallets -> Int] /\ f.balance = g.balance
    BY <2>1 DEF Pages
  <2>3. f.book \in [Wallets -> Seq(Entry)] /\ g.book \in [Wallets -> Seq(Entry)]
    BY DEF Pages, Books
  <2>4. f.book = g.book
    BY <2>1, <2>3
  <2>5. /\ f = [ok |-> f.ok, balance |-> f.balance, book |-> f.book]
        /\ g = [ok |-> g.ok, balance |-> g.balance, book |-> g.book]
    BY DEF Pages
  <2>6. f.ok = TRUE /\ g.ok = TRUE
    BY <1>4 DEF Pages
  <2> QED BY <2>2, <2>4, <2>5, <2>6
<1> HIDE DEF Both, n
<1>5. /\ G \in [0..n -> Pages]
      /\ \A i \in 0..n : /\ F[i] \in Pages /\ G[i].ok
                         /\ AgreeOn(rows, G[i], F[i]) /\ AgreeOn(Wallets \ rows, G[i], p2)
  BY <1>2, <1>3
<1> HIDE DEF G
<1>6. G[0] = p2
  <2>1. AgreeOn(rows, G[0], p2) /\ AgreeOn(Wallets \ rows, G[0], p2) /\ G[0] \in Pages /\ G[0].ok
    BY <1>1, <1>2, <1>5 DEF AgreeOn
  <2> QED BY <1>4, <2>1
<1>7. G[n] = q2
  <2>1. AgreeOn(rows, G[n], q2) /\ AgreeOn(Wallets \ rows, G[n], q2) /\ G[n] \in Pages /\ G[n].ok
    BY <1>1, <1>2, <1>5 DEF AgreeOn
  <2> QED BY <1>4, <2>1
<1>8. ASSUME NEW i \in 1..n PROVE Posts(tx, legs[i], G[i - 1], G[i])
  <2> DEFINE w == legs[i].wallet
             f == F[i - 1]
             g == F[i]
             h == G[i - 1]
             k == G[i]
  <2>1. i - 1 \in 0..n /\ i \in 0..n /\ w \in rows
    BY <1>1 DEF n
  <2>2. /\ AgreeOn(rows, h, f) /\ AgreeOn(rows, k, g)
        /\ AgreeOn(Wallets \ rows, h, p2) /\ AgreeOn(Wallets \ rows, k, p2)
    BY <1>5, <2>1
  <2>3. Posts(tx, legs[i], f, g)
    BY <1>2
  <2>4. h.balance[w] = f.balance[w] /\ h.book[w] = f.book[w]
        /\ k.balance[w] = g.balance[w] /\ k.book[w] = g.book[w]
    BY <2>1, <2>2 DEF AgreeOn
  <2> HIDE DEF f, g, h, k
  <2>5. \A v \in Wallets : v # w => k.balance[v] = h.balance[v] /\ k.book[v] = h.book[v]
    <3> SUFFICES ASSUME NEW v \in Wallets, v # w
                 PROVE  k.balance[v] = h.balance[v] /\ k.book[v] = h.book[v]
      OBVIOUS
    <3>1. CASE v \in rows
      BY SMTT(20), ZenonT(20), <2>2, <2>3, <3>1 DEF AgreeOn, Posts
    <3>2. CASE v \notin rows
      BY <2>2, <3>2 DEF AgreeOn
    <3> QED BY <3>1, <3>2
  <2>6. Posts(tx, legs[i], h, k)
    BY <2>3, <2>4, <2>5 DEF Posts
  <2> QED BY <2>6 DEF h, k
<1>9. Leads(G, tx, legs, p2, q2)
  BY <1>5, <1>6, <1>7, <1>8 DEF Leads, n
<1> QED BY <1>9

-----------------------------------------------------------------------------
(***************************************************************************)
(* Steps that leave the tables alone.                                      *)
(***************************************************************************)
LEMMA PagesThere ==
  ASSUME TypeInv, NEW t \in Threads
  PROVE  Clerk \in Pages /\ Clerk.ok /\ Here(t) \in Pages /\ Here(t).ok
PROOF
<1>1. balance \in [Wallets -> Int] /\ book \in Books /\ work[t] \in [Wallets -> Int] /\ fresh[t] \in Books
  BY DEF TypeInv, TypeOK, Books
<1>2. \A w \in Wallets : book[w] \o fresh[t][w] \in Seq(Entry)
  BY <1>1, ConcatProperties DEF Books
<1>3. [w \in Wallets |-> book[w] \o fresh[t][w]] \in Books
  BY <1>2 DEF Books
<1>4. [w \in Wallets |-> IF owner[w] = t THEN work[t][w] ELSE balance[w]] \in [Wallets -> Int]
  BY <1>1
<1> QED BY <1>1, <1>3, <1>4 DEF Clerk, Here, PageOf, Pages

\* t itself does nothing, and who moves may make rows stale for it.
Steady(t) ==
    /\ pc'[t] = pc[t] /\ cmd'[t] = cmd[t] /\ plan'[t] = plan[t] /\ locks'[t] = locks[t]
    /\ fresh'[t] = fresh[t] /\ work'[t] = work[t]
    /\ Held(t)' = Held(t)
    /\ pc[t] \in Counted => stale[t] \subseteq stale'[t]

LEMMA SameHere ==
  ASSUME NEW t \in Threads, UNCHANGED <<balance, book>>,
         fresh'[t] = fresh[t], work'[t] = work[t], Held(t)' = Held(t)
  PROVE  Here(t)' = Here(t)
PROOF
<1>1. \A w \in Wallets : owner'[w] = t <=> owner[w] = t
  BY DEF Held
<1>2. [w \in Wallets |-> IF owner[w] = t THEN work[t][w] ELSE balance[w]]'
        = [w \in Wallets |-> IF owner[w] = t THEN work[t][w] ELSE balance[w]]
  BY <1>1
<1> QED BY <1>2 DEF Here, PageOf

\* A thread whose pages are as before is on task as before.
LEMMA SameTask ==
  ASSUME NEW t \in Threads, UNCHANGED <<balance, book>>,
         cmd'[t] = cmd[t], plan'[t] = plan[t], Here(t)' = Here(t), Held(t) \subseteq Held(t)',
         OnTask(t)
  PROVE  OnTask(t)'
PROOF
<1>1. Tasks(t)' = Tasks(t)
  BY DEF Tasks, MirrorsOf
<1>2. Clerk' = Clerk
  BY DEF Clerk
<1>3. PICK legs \in Tasks(t) : \E done \in Seq(Leg) : legs = done \o plan[t] /\ Done(t, done)
  BY DEF OnTask
<1>4. PICK done \in Seq(Leg) : legs = done \o plan[t] /\ Done(t, done)
  BY <1>3
<1>5. PICK F : Leads(F, cmd[t].tx, done, Clerk, Here(t))
  BY <1>4 DEF Done
<1>6. Leads(F, cmd[t].tx, done, Clerk, Here(t))'
  BY <1>2, <1>5 DEF Leads, Posts
<1>7. Done(t, done)'
  BY <1>4, <1>6 DEF Done
<1> QED BY <1>1, <1>4, <1>7 DEF OnTask

LEMMA StillOutdated ==
  ASSUME NEW t \in Threads, cmd'[t] = cmd[t], Touched(t) \subseteq Touched(t)',
         stale[t] \subseteq stale'[t], Outdated(t)
  PROVE  Outdated(t)'
PROOF
  BY DEF Outdated

LEMMA SteadyThread ==
  ASSUME NEW t \in Threads, UNCHANGED <<balance, book>>, Steady(t), ThreadInv(t)
  PROVE  ThreadInv(t)'
PROOF
<1>1. OnTrack(t)'
  <2> SUFFICES ASSUME pc[t] \in Counted PROVE Outdated(t)' \/ OnTask(t)'
    BY DEF OnTrack, Steady
  <2>1. Touched(t)' = Touched(t)
    BY DEF Steady, Touched, PlanRows
  <2>2. Outdated(t) => Outdated(t)'
    BY <2>1, StillOutdated DEF Steady
  <2>3. OnTask(t) => OnTask(t)'
    BY SameHere, SameTask DEF Steady
  <2> QED BY <2>2, <2>3 DEF ThreadInv, OnTrack
<1>2. SenderHeld(t)'
  BY DEF ThreadInv, SenderHeld, Steady
<1>3. PageRows(t)'
  BY DEF ThreadInv, PageRows, Steady
<1> QED BY <1>1, <1>2, <1>3 DEF ThreadInv

\* A thread that plans or posts nothing has nothing to keep.
LEMMA LeavesOff ==
  ASSUME NEW t \in Threads, ThreadInv(t), BookInv', pc'[t] \notin Counted,
         pc'[t] \notin InTransaction \/ (cmd'[t] = cmd[t] /\ fresh'[t] = fresh[t])
  PROVE  ThreadInv(t)'
PROOF
<1>1. OnTrack(t)' /\ SenderHeld(t)'
  BY DEF OnTrack, SenderHeld, Counted, Planned
<1>2. PageRows(t)'
  <2>1. CASE pc'[t] \notin InTransaction
    <3>1. \A w \in Wallets : fresh'[t][w] = << >>
      BY <2>1 DEF BookInv, OwnersAtWork, OnlyOwnersWrite
    <3> QED BY <3>1 DEF PageRows
  <2>2. CASE cmd'[t] = cmd[t] /\ fresh'[t] = fresh[t]
    BY <2>2 DEF ThreadInv, PageRows
  <2> QED BY <2>1, <2>2
<1> QED BY <1>1, <1>2 DEF ThreadInv

\* The originals in the books stay where they are.
LEMMA SameBookRows ==
  ASSUME BookRows, UNCHANGED <<setting, book>>
  PROVE  BookRows'
PROOF
  BY DEF BookRows

\* Nobody but the one who moves is disturbed.
LEMMA OthersSteady ==
  ASSUME TypeInv, NEW t \in Threads,
         ThreadStep(t) \/ \E c \in Commands : Receive(t, c),
         NEW u \in Threads, u # t
  PROVE  Steady(u)
PROOF
<1> USE DEF Steady, TypeInv, TypeOK
<1>1. CASE Commit(t)
  <2>1. Held(u)' = Held(u)
    BY <1>1, ThreadsAssumption DEF Commit, Unlock, Held
  <2>2. stale' = [v \in Threads |->
                   IF v # t /\ pc[v] \in InTransaction THEN stale[v] \cup Held(t) ELSE {}]
    BY <1>1 DEF Commit
  <2>3. pc[u] \in Counted => stale[u] \subseteq stale'[u]
    BY <2>2 DEF Counted, Planned, InTransaction
  <2>4. \/ Goto(t, "publish") /\ fresh' = [fresh EXCEPT ![t] = Empty] /\ UNCHANGED <<cmd, locks, plan, work>>
        \/ Forget(t)
    BY <1>1 DEF Commit
  <2> QED BY <2>1, <2>3, <2>4 DEF Goto, Forget
<1>2. CASE Publish(t) \/ CheckCache(t) \/ ClaimGet(t) \/ ClaimSet(t) \/ \E c \in Commands : Receive(t, c)
  <2>1. UNCHANGED <<owner, stale>>
    BY <1>2 DEF Publish, CheckCache, ClaimGet, ClaimSet, Receive
  <2>2. \/ Forget(t)
        \/ \E l \in Labels : Goto(t, l) /\ UNCHANGED private /\ \E c : cmd' = [cmd EXCEPT ![t] = c]
    <3>1. UNCHANGED cmd => \E c : cmd' = [cmd EXCEPT ![t] = c]
      BY Zenon
    <3> QED BY <1>2, <3>1 DEF Publish, CheckCache, ClaimGet, ClaimSet, Receive, Labels, Claiming
  <2> QED BY <2>1, <2>2 DEF Forget, Goto, private, Held
<1>3. CASE Rollback(t) \/ Crash(t) \/ CommitFails(t)
  <2>1. Unlock(t) /\ NoSnapshot(t) /\ Forget(t)
    BY <1>3 DEF Rollback, Crash, CommitFails
  <2>2. Held(u)' = Held(u)
    BY <2>1, ThreadsAssumption DEF Unlock, Held
  <2> QED BY <2>1, <2>2 DEF NoSnapshot, Forget, Goto
<1>4. CASE LockFails(t) \/ DeadlockVictim(t) \/ CheckFunds(t) \/ StoreResult(t) \/ Release(t) \/ DbError(t)
  <2>1. UNCHANGED <<owner, stale, cmd, private>> /\ \E l \in Labels : Goto(t, l)
    BY <1>4 DEF LockFails, DeadlockVictim, CheckFunds, StoreResult, Release, DbError, Labels,
                Claiming, InTransaction
  <2> QED BY <2>1 DEF Goto, private, Held
<1>5. CASE BeginPosting(t)
  BY <1>5 DEF BeginPosting, Goto, NoSnapshot, Held
<1>6. CASE BeginReversal(t)
  <2>1. UNCHANGED <<owner, cmd, locks, work, fresh>> /\ NoSnapshot(t)
    BY <1>6 DEF BeginReversal
  <2>2. (\E l \in Labels : Goto(t, l)) /\ plan'[u] = plan[u]
    BY <1>6 DEF BeginReversal, Labels, Claiming, InTransaction
  <2> QED BY <2>1, <2>2 DEF Goto, NoSnapshot, Held
<1>7. CASE LockRow(t)
  <2>1. PICK w \in Wanted(t) \cap Wallets :
          /\ Free(t, w)
          /\ owner' = [owner EXCEPT ![w] = t]
          /\ work' = IF owner[w] = t THEN work ELSE [work EXCEPT ![t][w] = balance[w]]
          /\ IF pc[t] = "locking"
               THEN /\ locks' = [locks EXCEPT ![t] = Tail(@)]
                    /\ Goto(t, IF Len(locks[t]) = 1 THEN "checking" ELSE "locking")
               ELSE UNCHANGED <<locks, pc>>
          /\ UNCHANGED <<tables, idem, cmd, plan, fresh, stale, client, events>>
    BY <1>7 DEF LockRow
  <2>2. owner[w] # u
    BY <2>1, ThreadsAssumption DEF Free
  <2>3. Held(u)' = Held(u)
    BY <2>1, <2>2 DEF Held
  <2>4. pc'[u] = pc[u] /\ locks'[u] = locks[u] /\ work'[u] = work[u]
    BY <2>1 DEF Goto
  <2> QED BY <2>1, <2>3, <2>4
<1>8. CASE PostLeg(t)
  <2>1. UNCHANGED <<owner, cmd, locks, stale>>
    BY <1>8 DEF PostLeg
  <2>2. pc'[u] = pc[u] /\ work'[u] = work[u] /\ fresh'[u] = fresh[u] /\ plan'[u] = plan[u]
    BY <1>8 DEF PostLeg, Goto
  <2> QED BY <2>1, <2>2 DEF Held
<1> QED BY <1>1, <1>2, <1>3, <1>4, <1>5, <1>6, <1>7, <1>8 DEF ThreadStep, Step

-----------------------------------------------------------------------------
(***************************************************************************)
(* Planning, locking and posting.                                          *)
(***************************************************************************)
\* Who has just planned has posted nothing.
LEMMA NothingDone ==
  ASSUME TypeInv', NEW t \in Threads, Held(t)' = {}, \A w \in Wallets : fresh'[t][w] = << >>,
         plan'[t] \in Tasks(t)'
  PROVE  OnTask(t)'
PROOF
<1>1. balance' \in [Wallets -> Int] /\ book' \in Books /\ plan'[t] \in Seq(Leg)
  BY DEF TypeInv, TypeOK, Books
<1>2. Here(t)' = Clerk'
  <2>1. \A w \in Wallets : owner'[w] # t
    BY DEF Held
  <2>2. [w \in Wallets |-> IF owner'[w] = t THEN work'[t][w] ELSE balance'[w]] = balance'
    BY <1>1, <2>1
  <2>3. \A w \in Wallets : book'[w] \o fresh'[t][w] = book'[w]
    BY <1>1, ConcatEmptySeq DEF Books
  <2>4. [w \in Wallets |-> book'[w] \o fresh'[t][w]] = book'
    BY <1>1, <2>3 DEF Books
  <2> QED BY <2>2, <2>4 DEF Here, Clerk, PageOf
<1>3. Clerk' \in Pages /\ Clerk'.ok
  BY <1>1 DEF Clerk, PageOf, Pages
<1>4. PICK F : Leads(F, cmd'[t].tx, << >>, Clerk', Clerk')
  BY <1>3, LeadsNowhere
<1>5. Leads(F, cmd[t].tx, << >>, Clerk, Here(t))'
  BY <1>2, <1>4 DEF Leads, Posts
<1>6. Done(t, << >>)'
  <2>1. \A i \in 1..Len(<< >>) : << >>[i].wallet \in Held(t)'
    OBVIOUS
  <2> QED BY <1>5, <2>1 DEF Done
<1>7. plan'[t] = << >> \o plan'[t] /\ << >> \in Seq(Leg)
  BY <1>1, ConcatEmptySeq
<1> QED BY <1>6, <1>7 DEF OnTask

LEMMA BeginPostingClerk ==
  ASSUME TypeInv, TypeInv', BookInv, NEW t \in Threads, BeginPosting(t)
  PROVE  ThreadInv(t)'
PROOF
<1>1. /\ pc[t] = "begin" /\ cmd[t].kind # "reverse" /\ cmd' = cmd /\ fresh' = fresh
      /\ plan'[t] = LegsOf(cmd[t]) /\ owner' = owner
      /\ \/ cmd[t].kind = "transfer" /\ pc'[t] = "locking" /\ locks'[t] = LocksOf(cmd[t])
         \/ cmd[t].kind # "transfer" /\ pc'[t] = "posting"
  BY DEF TypeInv, TypeOK, BeginPosting, Goto
<1>2. Held(t)' = {} /\ \A w \in Wallets : fresh'[t][w] = << >>
  BY <1>1 DEF BookInv, OwnersAtWork, OnlyOwnersWrite, InTransaction, Held
<1>3. plan'[t] \in Tasks(t)'
  BY <1>1 DEF Tasks
<1>4. OnTask(t)'
  BY <1>2, <1>3, NothingDone
<1>5. SenderHeld(t)'
  BY <1>1 DEF SenderHeld
<1>6. PageRows(t)'
  BY <1>2 DEF PageRows
<1> QED BY <1>4, <1>5, <1>6 DEF ThreadInv, OnTrack

LEMMA BeginReversalClerk ==
  ASSUME TypeInv, TypeInv', BookInv, NEW t \in Threads, BeginReversal(t)
  PROVE  ThreadInv(t)'
PROOF
<1>1. /\ pc[t] = "begin" /\ cmd[t].kind = "reverse" /\ cmd' = cmd /\ fresh' = fresh
      /\ owner' = owner /\ book' = book
  BY DEF BeginReversal, tables
<1>2. Held(t)' = {} /\ \A w \in Wallets : fresh'[t][w] = << >>
  BY <1>1 DEF BookInv, OwnersAtWork, OnlyOwnersWrite, InTransaction, Held
<1>3. pc'[t] \in {"failing", "posting"}
  BY DEF TypeInv, TypeOK, BeginReversal, Goto
<1>4. SenderHeld(t)' /\ PageRows(t)'
  BY <1>1, <1>3 DEF SenderHeld, PageRows
<1>5. OnTrack(t)'
  <2>1. CASE pc'[t] = "failing"
    BY <2>1 DEF OnTrack, Counted, Planned
  <2>2. CASE pc'[t] = "posting"
    <3>1. ~(PlacesOf(book, cmd[t].tx) = {} \/ ReversalsOf(book, cmd[t].tx) # {})
      BY <2>2 DEF TypeInv, TypeOK, BeginReversal, Goto
    <3>2. PICK order \in SetToSeqs(PlacesOf(book, cmd[t].tx)) :
            plan' = [plan EXCEPT ![t] =
              [i \in 1..Len(order) |-> MirrorOf(order[i][1], book[order[i][1]][order[i][2]])]]
      BY <3>1, Zenon DEF BeginReversal
    <3>3. plan'[t] = MirrorsOf(book, order)
      BY <3>2 DEF TypeInv, TypeOK, MirrorsOf
    <3>4. plan'[t] \in Tasks(t)'
      BY <1>1, <3>3 DEF Tasks
    <3> QED BY <1>2, <3>4, NothingDone DEF OnTrack
  <2> QED BY <1>3, <2>1, <2>2
<1> QED BY <1>4, <1>5 DEF ThreadInv

\* A transfer locks its sender first.
LEMMA SenderFirst ==
  ASSUME NEW c \in Commands
  PROVE  Head(LocksOf(c)) = c.from
PROOF
<1>1. c.from \in WalletIds /\ c.to \in WalletIds /\ c.fees \in WalletIds
  BY CommandsAssumption DEF Command
<1> DEFINE fst == <<c.from, c.to>>
           snd == IF c.fee > 0 THEN <<c.fees>> ELSE << >>
<1>2. fst \in Seq(WalletIds) /\ snd \in Seq(WalletIds) /\ Len(fst) = 2 /\ fst[1] = c.from
  BY <1>1
<1>3. LocksOf(c) = fst \o snd
  BY DEF LocksOf
<1> HIDE DEF fst, snd
<1>4. fst \o snd \in Seq(WalletIds) /\ (fst \o snd)[1] = c.from
  BY <1>2
<1>5. \A s \in Seq(WalletIds) : s # << >> => Head(s) = s[1]
  OBVIOUS
<1>6. LocksOf(c) # << >>
  BY LegsType
<1> QED BY <1>3, <1>4, <1>5, <1>6

LEMMA LockRowClerk ==
  ASSUME TypeInv, NEW t \in Threads, LockRow(t), ThreadInv(t)
  PROVE  ThreadInv(t)'
PROOF
<1>1. PICK w \in Wanted(t) \cap Wallets :
        /\ Free(t, w)
        /\ owner' = [owner EXCEPT ![w] = t]
        /\ work' = IF owner[w] = t THEN work ELSE [work EXCEPT ![t][w] = balance[w]]
        /\ IF pc[t] = "locking"
             THEN /\ locks' = [locks EXCEPT ![t] = Tail(@)]
                  /\ Goto(t, IF Len(locks[t]) = 1 THEN "checking" ELSE "locking")
             ELSE UNCHANGED <<locks, pc>>
        /\ UNCHANGED <<tables, idem, cmd, plan, fresh, stale, client, events>>
  BY DEF LockRow
<1>2. UNCHANGED <<balance, book, cmd, plan, fresh, stale>>
  BY <1>1 DEF tables
<1>3. Held(t)' = Held(t) \cup {w}
  BY <1>1 DEF TypeInv, TypeOK, Held
<1>4. Here(t)' = Here(t)
  <2>1. \A v \in Wallets :
          (IF owner'[v] = t THEN work'[t][v] ELSE balance[v])
            = (IF owner[v] = t THEN work[t][v] ELSE balance[v])
    <3> SUFFICES ASSUME NEW v \in Wallets
                 PROVE  (IF owner'[v] = t THEN work'[t][v] ELSE balance[v])
                          = (IF owner[v] = t THEN work[t][v] ELSE balance[v])
      OBVIOUS
    <3>1. CASE v # w
      BY <1>1, <3>1 DEF TypeInv, TypeOK
    <3>2. CASE v = w
      BY <1>1, <3>2 DEF TypeInv, TypeOK
    <3> QED BY <3>1, <3>2
  <2> QED BY <1>2, <2>1 DEF Here, PageOf
<1>5. OnTrack(t)'
  <2>1. pc[t] \in {"locking", "posting"}
    BY <1>1 DEF Wanted
  <2>2. Outdated(t) => Outdated(t)'
    BY <1>2, <1>3 DEF Outdated, Touched, PlanRows
  <2>3. OnTask(t) => OnTask(t)'
    BY <1>2, <1>3, <1>4, SameTask
  <2> QED BY <2>1, <2>2, <2>3 DEF ThreadInv, OnTrack, Counted, Planned
<1>6. SenderHeld(t)'
  <2>1. CASE pc[t] = "locking"
    <3>1. w = Head(locks[t]) /\ cmd[t] \in Commands
      BY <1>1, <2>1 DEF Wanted, TypeInv, TypeOK
    <3>2. cmd[t].from \in Held(t)'
      BY <1>3, <2>1, <3>1, SenderFirst DEF ThreadInv, SenderHeld
    <3>3. pc'[t] \in {"locking", "checking"}
      BY <1>1, <2>1 DEF Goto, TypeInv, TypeOK
    <3> QED BY <1>2, <2>1, <3>2, <3>3 DEF ThreadInv, SenderHeld
  <2>2. CASE pc[t] = "posting"
    BY <1>1, <1>2, <1>3, <2>2 DEF ThreadInv, SenderHeld
  <2> QED BY <1>1, <2>1, <2>2 DEF Wanted
<1>7. PageRows(t)'
  BY <1>2 DEF ThreadInv, PageRows
<1> QED BY <1>5, <1>6, <1>7 DEF ThreadInv

LEMMA CheckFundsClerk ==
  ASSUME TypeInv, BookInv', NEW t \in Threads, CheckFunds(t), ThreadInv(t)
  PROVE  ThreadInv(t)'
PROOF
<1> DEFINE c == cmd[t]
<1>1. /\ pc[t] = "checking" /\ UNCHANGED <<balance, book, owner, cmd, plan, work, fresh, stale>>
      /\ pc'[t] = IF TotalDebit(c) > work[t][c.from] THEN "failing" ELSE "posting"
  BY DEF TypeInv, TypeOK, CheckFunds, Goto, private, tables
<1>2. /\ c.kind = "transfer" /\ plan[t] = LegsOf(c) /\ c.from \in Held(t)
      /\ c \in Commands /\ TotalDebit(c) \in Int
  <2>1. c \in Commands
    BY <1>1 DEF TypeInv, TypeOK
  <2>2. TotalDebit(c) \in Int
    BY <2>1, CommandsAssumption DEF TotalDebit, Command
  <2> QED BY <1>1, <2>1, <2>2 DEF ThreadInv, SenderHeld
<1>3. CASE pc'[t] = "failing"
  BY <1>1, <1>3, LeavesOff DEF Counted, Planned
<1>4. CASE pc'[t] = "posting"
  <2>1. Held(t)' = Held(t)
    BY <1>1 DEF Held
  <2>2. OnTask(t)
    BY <1>1, <1>2 DEF ThreadInv, OnTrack, Outdated, Counted, Planned
  <2>3. OnTrack(t)'
    BY <1>1, <2>1, <2>2, SameHere, SameTask DEF OnTrack
  <2>4. work[t][c.from] = balance[c.from]
    <3>1. PICK legs \in Tasks(t) : \E done \in Seq(Leg) : legs = done \o plan[t] /\ Done(t, done)
      BY <2>2 DEF OnTask
    <3>2. PICK done \in Seq(Leg) : legs = done \o plan[t] /\ Done(t, done)
      BY <3>1
    <3>3. done = << >>
      <4>1. plan[t] \in Seq(Leg) /\ legs = plan[t]
        BY <1>2, <3>1 DEF Tasks, TypeInv, TypeOK
      <4>2. \A d, r \in Seq(Leg) : d \o r = r => d = << >>
        BY ConcatEqualIffEmpty
      <4> QED BY <3>2, <4>1, <4>2
    <3>4. PICK F : Leads(F, c.tx, << >>, Clerk, Here(t))
      BY <3>2, <3>3 DEF Done
    <3>5. Clerk = Here(t)
      BY <3>4 DEF Leads
    <3>6. Clerk.balance[c.from] = Here(t).balance[c.from]
      BY <3>5
    <3> QED BY <1>2, <3>6 DEF Clerk, Here, PageOf, Held
  <2>5. TotalDebit(c) <= balance[c.from]
    <3>1. work[t][c.from] \in Int
      BY <1>2 DEF TypeInv, TypeOK, Held
    <3>2. ~(TotalDebit(c) > work[t][c.from])
      BY <1>1, <1>4
    <3> QED BY <1>2, <2>4, <3>1, <3>2
  <2>6. SenderHeld(t)'
    BY <1>1, <1>2, <1>4, <2>1, <2>5 DEF SenderHeld
  <2>7. PageRows(t)'
    BY <1>1 DEF ThreadInv, PageRows
  <2> QED BY <2>3, <2>6, <2>7 DEF ThreadInv
<1> QED BY <1>1, <1>3, <1>4

LEMMA StoreResultClerk ==
  ASSUME TypeInv, NEW t \in Threads, StoreResult(t), ThreadInv(t)
  PROVE  ThreadInv(t)'
PROOF
<1>1. /\ pc[t] = "posting" /\ UNCHANGED <<balance, book, owner, cmd, plan, work, fresh, stale>>
      /\ pc'[t] = "commit"
  BY DEF TypeInv, TypeOK, StoreResult, Goto, private, tables
<1>2. Held(t)' = Held(t)
  BY <1>1 DEF Held
<1>3. Touched(t)' = Touched(t)
  BY <1>1, <1>2 DEF Touched, PlanRows
<1>4. Outdated(t) => Outdated(t)'
  BY <1>1, <1>3 DEF Outdated
<1>5. OnTask(t) => OnTask(t)'
  BY <1>1, <1>2, SameHere, SameTask
<1>6. OnTrack(t)'
  BY <1>1, <1>4, <1>5 DEF ThreadInv, OnTrack, Counted, Planned
<1>7. SenderHeld(t)' /\ PageRows(t)'
  BY <1>1, <1>2 DEF ThreadInv, SenderHeld, PageRows
<1> QED BY <1>6, <1>7 DEF ThreadInv

\* What a thread posts next, on its own page.
LEMMA PostsHere ==
  ASSUME TypeInv, TypeInv', UNCHANGED <<balance, book, owner>>, NEW t \in Threads,
         NEW leg \in Leg, leg.wallet \in Held(t), Covered(leg, work[t][leg.wallet]),
         work' = [work EXCEPT ![t][leg.wallet] = EntryOf(cmd[t].tx, leg, work[t][leg.wallet]).after],
         fresh' = [fresh EXCEPT ![t][leg.wallet] =
                     Append(@, EntryOf(cmd[t].tx, leg, work[t][leg.wallet]))],
         EntryOf(cmd[t].tx, leg, work[t][leg.wallet]) \in Entry
  PROVE  Posts(cmd[t].tx, leg, Here(t), Here(t)')
PROOF
<1> DEFINE w == leg.wallet
           e == EntryOf(cmd[t].tx, leg, work[t][w])
<1>1. w \in Wallets /\ owner[w] = t /\ fresh[t][w] \in Seq(Entry) /\ book[w] \in Seq(Entry)
  BY DEF TypeInv, TypeOK, Held
<1>2. Here(t).balance[w] = work[t][w] /\ Here(t).book[w] = book[w] \o fresh[t][w]
  BY <1>1 DEF Here, PageOf
<1>3. work'[t][w] = e.after /\ fresh'[t][w] = Append(fresh[t][w], e)
      /\ \A v \in Wallets : v # w => work'[t][v] = work[t][v] /\ fresh'[t][v] = fresh[t][v]
  BY <1>1 DEF TypeInv, TypeOK
<1> HIDE DEF e
<1>4. Here(t)'.balance[w] = e.after /\ Here(t)'.book[w] = book[w] \o Append(fresh[t][w], e)
  BY <1>1, <1>3 DEF Here, PageOf
<1>5. book[w] \o Append(fresh[t][w], e) = Append(book[w] \o fresh[t][w], e)
  <2> DEFINE s == book[w]
             r == fresh[t][w]
  <2>1. s \in Seq(Entry) /\ r \in Seq(Entry) /\ e \in Entry /\ <<e>> \in Seq(Entry)
    BY <1>1 DEF e
  <2> HIDE DEF s, r
  <2>2. s \o r \in Seq(Entry) /\ (s \o r) \o <<e>> = s \o (r \o <<e>>)
    BY <2>1, ConcatAssociative, ConcatProperties
  <2>3. Append(r, e) = r \o <<e>> /\ Append(s \o r, e) = (s \o r) \o <<e>>
    BY <2>1, <2>2, AppendIsConcat
  <2>4. s \o Append(r, e) = Append(s \o r, e)
    BY <2>2, <2>3
  <2> QED BY <2>4 DEF s, r
<1>6. ASSUME NEW v \in Wallets, v # w
      PROVE  Here(t)'.balance[v] = Here(t).balance[v] /\ Here(t)'.book[v] = Here(t).book[v]
  <2>1. work'[t][v] = work[t][v] /\ fresh'[t][v] = fresh[t][v]
    BY <1>3, <1>6
  <2>2. Here(t).balance[v] = IF owner[v] = t THEN work[t][v] ELSE balance[v]
    BY DEF Here, PageOf
  <2>3. Here(t)'.balance[v] = IF owner'[v] = t THEN work'[t][v] ELSE balance'[v]
    BY DEF Here, PageOf
  <2>4. Here(t).book[v] = book[v] \o fresh[t][v] /\ Here(t)'.book[v] = book'[v] \o fresh'[t][v]
    BY DEF Here, PageOf
  <2> QED BY <2>1, <2>2, <2>3, <2>4
<1> QED BY <1>1, <1>2, <1>4, <1>5, <1>6 DEF Posts, e

LEMMA PostLegClerk ==
  ASSUME TypeInv, TypeInv', BookInv', NEW t \in Threads, PostLeg(t), ThreadInv(t)
  PROVE  ThreadInv(t)'
PROOF
<1>0. PICK leg \in Leg, rest \in Seq(Leg) : leg = Head(plan[t]) /\ rest = Tail(plan[t])
  BY HeadTailProperties DEF TypeInv, TypeOK, PostLeg
<1> DEFINE w == leg.wallet
           e == EntryOf(cmd[t].tx, leg, work[t][w])
<1>1. /\ pc[t] = "posting" /\ plan[t] # << >> /\ w \in Held(t) /\ w \in Wallets
      /\ UNCHANGED <<balance, book, owner, cmd, stale>>
  BY <1>0 DEF PostLeg, Held, tables
<1>2. /\ plan[t] \in Seq(Leg)
      /\ plan[t] = <<leg>> \o rest /\ plan[t][1] = leg
      /\ \A i \in 1..Len(plan[t]) : i = 1 \/ \E j \in 1..Len(rest) : plan[t][i] = rest[j]
  <2>1. plan[t] \in Seq(Leg)
    BY DEF TypeInv, TypeOK
  <2>2. \A s \in Seq(Leg) : s # << >> =>
          /\ Head(s) \in Leg /\ Tail(s) \in Seq(Leg) /\ s = <<Head(s)>> \o Tail(s) /\ s[1] = Head(s)
          /\ \A i \in 1..Len(s) : i = 1 \/ \E j \in 1..Len(Tail(s)) : s[i] = Tail(s)[j]
    <3> SUFFICES ASSUME NEW s \in Seq(Leg), s # << >>
                 PROVE  /\ Head(s) \in Leg /\ Tail(s) \in Seq(Leg) /\ s = <<Head(s)>> \o Tail(s)
                        /\ s[1] = Head(s)
                        /\ \A i \in 1..Len(s) : i = 1 \/ \E j \in 1..Len(Tail(s)) : s[i] = Tail(s)[j]
      OBVIOUS
    <3>1. Head(s) \in Leg /\ Tail(s) \in Seq(Leg) /\ s[1] = Head(s) /\ s = <<Head(s)>> \o Tail(s)
      OBVIOUS
    <3>2. Len(Tail(s)) = Len(s) - 1 /\ (\A j \in 1..Len(Tail(s)) : Tail(s)[j] = s[j + 1]) /\ Len(s) \in Nat
      BY HeadTailProperties
    <3>3. ASSUME NEW i \in 1..Len(s), i # 1
          PROVE  \E j \in 1..Len(Tail(s)) : s[i] = Tail(s)[j]
      <4>1. i - 1 \in 1..Len(Tail(s)) /\ (i - 1) + 1 = i
        BY <3>2, <3>3
      <4> QED BY <3>2, <4>1
    <3> QED BY <3>1, <3>3
  <2> QED BY <1>0, <1>1, <2>1, <2>2
<1>3. e \in Entry
  <2>1. cmd[t] \in Commands
    BY <1>1 DEF TypeInv, TypeOK
  <2>2. cmd[t].tx \in Txs
    BY <2>1, CommandsAssumption DEF Command
  <2>3. work[t][w] \in Int
    BY <1>1 DEF TypeInv, TypeOK
  <2> QED BY <2>2, <2>3, EntryType
<1>4. CASE ~Covered(leg, work[t][w])
  <2>1. pc'[t] = "failing" /\ fresh' = fresh
    BY <1>0, <1>4 DEF PostLeg, Goto, TypeInv, TypeOK
  <2> QED BY <1>1, <2>1, LeavesOff DEF Counted, Planned
<1>5. CASE Covered(leg, work[t][w])
  <2>1. /\ work' = [work EXCEPT ![t][w] = e.after]
        /\ fresh' = [fresh EXCEPT ![t][w] = Append(@, e)]
        /\ plan' = [plan EXCEPT ![t] = rest]
        /\ pc'[t] = "posting"
    BY <1>0, <1>1, <1>5 DEF PostLeg
  <2>2. Posts(cmd[t].tx, leg, Here(t), Here(t)')
    BY <1>1, <1>2, <1>3, <1>5, <2>1, PostsHere
  <2> HIDE DEF e
  <2>3. plan'[t] = rest /\ Held(t)' = Held(t)
    BY <1>1, <2>1 DEF TypeInv, TypeOK, Held
  <2>4. ASSUME Outdated(t) PROVE Outdated(t)'
    <3>1. PlanRows(t) \subseteq PlanRows(t)' \cup {w}
      <4> SUFFICES ASSUME NEW i \in 1..Len(plan[t]), i # 1
                   PROVE  \E j \in 1..Len(rest) : plan[t][i].wallet = rest[j].wallet
        BY <1>2, <2>3 DEF PlanRows
      <4> QED BY <1>2
    <3>2. Touched(t) \subseteq Touched(t)'
      BY <1>1, <2>3, <3>1 DEF Touched
    <3> QED BY <1>1, <2>4, <3>2, StillOutdated
  <2>5. ASSUME OnTask(t)
        PROVE  /\ OnTask(t)'
               /\ cmd[t].kind # "reverse" => RowIn(LegsOf(cmd[t]), w)
    <3>1. PICK legs \in Tasks(t) : \E done \in Seq(Leg) : legs = done \o plan[t] /\ Done(t, done)
      BY <2>5 DEF OnTask
    <3>2. PICK done \in Seq(Leg) : legs = done \o plan[t] /\ Done(t, done)
      BY <3>1
    <3>3. PICK F : Leads(F, cmd[t].tx, done, Clerk, Here(t))
      BY <3>2 DEF Done
    <3>4. Here(t)' \in Pages /\ Here(t)'.ok
      <4>1. balance' \in [Wallets -> Int] /\ book' \in Books /\ work'[t] \in [Wallets -> Int]
            /\ fresh'[t] \in Books
        BY DEF TypeInv, TypeOK, Books
      <4>2. \A v \in Wallets : book'[v] \o fresh'[t][v] \in Seq(Entry)
        BY <4>1, ConcatProperties DEF Books
      <4>3. [v \in Wallets |-> book'[v] \o fresh'[t][v]] \in Books
        BY <4>2 DEF Books
      <4>4. [v \in Wallets |-> IF owner'[v] = t THEN work'[t][v] ELSE balance'[v]] \in [Wallets -> Int]
        BY <4>1
      <4> QED BY <4>3, <4>4 DEF Here, PageOf, Pages
    <3>5. PICK G : Leads(G, cmd[t].tx, Append(done, leg), Clerk, Here(t)')
      <4> DEFINE q == Here(t)
                 r == Here(t)'
                 tx == cmd[t].tx
      <4>1. r \in Pages /\ r.ok /\ Leads(F, tx, done, Clerk, q) /\ Posts(tx, leg, q, r) /\ leg \in Leg
        BY <1>2, <2>2, <3>3, <3>4
      <4> HIDE DEF q, r, tx
      <4>2. \E G : Leads(G, tx, Append(done, leg), Clerk, r)
        BY <3>2, <4>1, LeadsOn
      <4> QED BY <4>2 DEF r, tx
    <3>6. Clerk' = Clerk /\ cmd' = cmd
      BY <1>1 DEF Clerk
    <3>7. Leads(G, cmd[t].tx, Append(done, leg), Clerk, Here(t))'
      BY <3>5, <3>6 DEF Leads, Posts
    <3>8. /\ Append(done, leg) \in Seq(Leg)
          /\ \A i \in 1..Len(Append(done, leg)) : Append(done, leg)[i].wallet \in Held(t)'
      <4>1. /\ Append(done, leg) \in Seq(Leg) /\ Len(Append(done, leg)) = Len(done) + 1
            /\ (\A i \in 1..Len(done) : Append(done, leg)[i] = done[i])
            /\ Append(done, leg)[Len(done) + 1] = leg /\ Len(done) \in Nat
        BY <1>2, AppendProperties
      <4>2. \A i \in 1..(Len(done) + 1) : i \in 1..Len(done) \/ i = Len(done) + 1
        BY <4>1
      <4>3. \A i \in 1..Len(done) : done[i].wallet \in Held(t)
        BY <3>2 DEF Done
      <4> QED BY <1>1, <2>3, <4>1, <4>2, <4>3
    <3>9. Done(t, Append(done, leg))'
      BY <3>7, <3>8 DEF Done
    <3>10. legs = Append(done, leg) \o plan'[t]
      <4>1. <<leg>> \in Seq(Leg)
        BY <1>2
      <4>2. (done \o <<leg>>) \o rest = done \o (<<leg>> \o rest)
        BY <1>2, <4>1, ConcatAssociative
      <4>3. Append(done, leg) = done \o <<leg>>
        BY <1>2, AppendIsConcat
      <4> QED BY <1>2, <2>3, <3>2, <4>2, <4>3
    <3>11. legs \in Tasks(t)'
      BY <1>1 DEF Tasks, MirrorsOf
    <3>12. OnTask(t)'
      BY <3>8, <3>9, <3>10, <3>11 DEF OnTask
    <3>13. ASSUME cmd[t].kind # "reverse" PROVE RowIn(LegsOf(cmd[t]), w)
      <4>1. legs = LegsOf(cmd[t])
        BY <3>13 DEF Tasks
      <4>2. /\ Len(done) \in Nat /\ Len(plan[t]) \in Nat /\ Len(plan[t]) # 0
            /\ Len(legs) = Len(done) + Len(plan[t])
            /\ \A i \in 1..(Len(done) + Len(plan[t])) :
                 legs[i] = IF i <= Len(done) THEN done[i] ELSE plan[t][i - Len(done)]
        <5>1. Len(plan[t]) \in Nat /\ Len(plan[t]) # 0
          BY <1>1, <1>2
        <5> DEFINE r == plan[t]
        <5>2. r \in Seq(Leg) /\ legs = done \o r
          BY <1>2, <3>2
        <5> HIDE DEF r
        <5>3. /\ Len(legs) = Len(done) + Len(r)
              /\ \A i \in 1..(Len(done) + Len(r)) : legs[i] = IF i <= Len(done) THEN done[i] ELSE r[i - Len(done)]
          BY <5>2, ConcatProperties
        <5> QED BY <5>1, <5>3 DEF r
      <4>3. Len(done) + 1 \in 1..Len(legs) /\ legs[Len(done) + 1] = leg
        BY <1>2, <4>2
      <4> QED BY <4>1, <4>3 DEF RowIn, w
    <3> QED BY <3>12, <3>13
  <2>6. OnTrack(t)'
    BY <1>1, <2>4, <2>5 DEF ThreadInv, OnTrack, Counted, Planned
  <2>7. SenderHeld(t)'
    BY <1>1, <2>1, <2>3 DEF ThreadInv, SenderHeld
  <2>8. PageRows(t)'
    <3> SUFFICES ASSUME NEW v \in Wallets, fresh'[t][v] # << >>, cmd[t].kind # "reverse"
                 PROVE  RowIn(LegsOf(cmd[t]), v)
      BY <1>1 DEF PageRows
    <3>1. CASE v = w
      BY <1>1, <2>5, <3>1 DEF ThreadInv, OnTrack, Outdated, Counted, Planned
    <3>2. CASE v # w
      <4>1. fresh'[t][v] = fresh[t][v]
        BY <2>1, <3>2 DEF TypeInv, TypeOK
      <4> QED BY <4>1 DEF ThreadInv, PageRows
    <3> QED BY <3>1, <3>2
  <2> QED BY <2>6, <2>7, <2>8 DEF ThreadInv
<1> QED BY <1>4, <1>5

-----------------------------------------------------------------------------
(***************************************************************************)
(* The commit.                                                             *)
(***************************************************************************)
LEMMA PagesNext ==
  ASSUME TypeInv', NEW t \in Threads
  PROVE  Clerk' \in Pages /\ Clerk'.ok /\ Here(t)' \in Pages /\ Here(t)'.ok
PROOF
<1>1. balance' \in [Wallets -> Int] /\ book' \in Books /\ work'[t] \in [Wallets -> Int] /\ fresh'[t] \in Books
  BY DEF TypeInv, TypeOK, Books
<1>2. \A w \in Wallets : book'[w] \o fresh'[t][w] \in Seq(Entry)
  BY <1>1, ConcatProperties DEF Books
<1>3. [w \in Wallets |-> book'[w] \o fresh'[t][w]] \in Books
  BY <1>2 DEF Books
<1>4. [w \in Wallets |-> IF owner'[w] = t THEN work'[t][w] ELSE balance'[w]] \in [Wallets -> Int]
  BY <1>1
<1> QED BY <1>1, <1>3, <1>4 DEF Clerk, Here, PageOf, Pages

\* What the thread that commits had on its pages is now in the tables.
LEMMA CommitHere ==
  ASSUME NEW t \in Threads, Commit(t)
  PROVE  Here(t) = Clerk'
PROOF
<1>1. balance' = [w \in Wallets |-> IF owner[w] = t THEN work[t][w] ELSE balance[w]]
  BY DEF Commit, Held
<1>2. book' = [w \in Wallets |-> book[w] \o fresh[t][w]]
  BY DEF Commit
<1> QED BY <1>1, <1>2 DEF Here, Clerk, PageOf

\* It has posted all its command asks of the books as they are.
LEMMA CommitDone ==
  ASSUME TypeInv, ReversalInv, NEW t \in Threads, Commit(t), ThreadInv(t)
  PROVE  \E legs \in Tasks(t) :
           /\ legs \in Seq(Leg)
           /\ \A i \in 1..Len(legs) : legs[i].wallet \in Held(t)
           /\ \E F : Leads(F, cmd[t].tx, legs, Clerk, Clerk')
PROOF
<1>1. pc[t] = "commit" /\ plan[t] = << >>
  BY DEF Commit, ReversalInv, PlanDone
<1>2. ~Outdated(t)
  <2>1. PlanRows(t) = {}
    BY <1>1 DEF PlanRows
  <2> QED BY <2>1 DEF Outdated, Touched, ReversalInv, HeldIsFresh
<1>3. OnTask(t)
  BY <1>1, <1>2 DEF ThreadInv, OnTrack, Counted
<1>4. PICK legs \in Tasks(t) : \E done \in Seq(Leg) : legs = done \o plan[t] /\ Done(t, done)
  BY <1>3 DEF OnTask
<1>5. PICK done \in Seq(Leg) : legs = done \o plan[t] /\ Done(t, done)
  BY <1>4
<1>6. legs = done
  BY <1>1, <1>5, ConcatEmptySeq
<1>7. PICK F : Leads(F, cmd[t].tx, done, Clerk, Here(t))
  BY <1>5 DEF Done
<1>8. Leads(F, cmd[t].tx, legs, Clerk, Clerk')
  BY <1>6, <1>7, CommitHere
<1>9. \A i \in 1..Len(legs) : legs[i].wallet \in Held(t)
  BY <1>5, <1>6 DEF Done
<1> QED BY <1>6, <1>8, <1>9

\* The originals it books stand in rows its command moves.
LEMMA CommitBookRows ==
  ASSUME TypeInv, ReversalInv, EventsInv, BookRows, UNCHANGED setting,
         NEW t \in Threads, Commit(t), ThreadInv(t)
  PROVE  BookRows'
PROOF
<1> SUFFICES ASSUME NEW w \in Wallets, NEW i \in 1..Len(book'[w]), book'[w][i].type # "REVERSAL"
             PROVE  \E c \in setting.commands :
                      c.kind # "reverse" /\ c.tx = book'[w][i].tx /\ RowIn(LegsOf(c), w)
  BY DEF BookRows
<1> DEFINE s == book[w]
           r == fresh[t][w]
<1>1. s \in Seq(Entry) /\ r \in Seq(Entry) /\ book'[w] = s \o r
  BY DEF Commit, TypeInv, TypeOK
<1>2. Joins(book'[w], s, r)
  <2> HIDE DEF s, r
  <2> QED BY <1>1, ConcatEntries
<1>3. CASE i \in 1..Len(s)
  <2>1. book'[w][i] = book[w][i]
    BY <1>2, <1>3 DEF Joins
  <2> QED BY <1>3, <2>1 DEF BookRows
<1>4. CASE i \notin 1..Len(s)
  <2>1. PICK j \in 1..Len(r) : i = Len(s) + j
    BY <1>2, <1>4 DEF Joins
  <2>2. book'[w][i] = fresh[t][w][j]
    BY <1>2, <2>1 DEF Joins
  <2>3. fresh[t][w][j].tx = cmd[t].tx
    BY <2>1 DEF ReversalInv, PagesHonest
  <2>4. cmd[t] \in setting.commands /\ pc[t] = "commit"
    BY DEF Commit, EventsInv, CommandsGiven
  <2>5. cmd[t].kind # "reverse"
    BY <2>1, <2>2, <2>4 DEF EventsInv, MirrorsOnly
  <2>6. fresh[t][w] # << >>
    <3> HIDE DEF s
    <3>1. Len(r) # 0
      BY <1>1, <2>1
    <3> QED BY <3>1
  <2>7. RowIn(LegsOf(cmd[t]), w)
    BY <2>5, <2>6 DEF ThreadInv, PageRows
  <2> QED BY <2>2, <2>3, <2>4, <2>5, <2>7
<1> QED BY <1>3, <1>4

\* New entries of another transaction leave the places of this one alone.
LEMMA SamePlaces ==
  ASSUME NEW b \in Books, NEW n \in Books, NEW d \in Books, Extended(d, b, n), NEW tx,
         \A w \in Wallets : \A j \in 1..Len(n[w]) : n[w][j].tx # tx
  PROVE  /\ PlacesOf(d, tx) = PlacesOf(b, tx)
         /\ \A p \in PlacesOf(b, tx) : d[p[1]][p[2]] = b[p[1]][p[2]]
PROOF
<1>1. ASSUME NEW w \in Wallets PROVE Joins(d[w], b[w], n[w])
  <2> DEFINE s == b[w]
             r == n[w]
  <2>1. s \in Seq(Entry) /\ r \in Seq(Entry) /\ d[w] = s \o r
    BY DEF Extended, Books
  <2> HIDE DEF s, r
  <2>2. Joins(d[w], s, r)
    BY <2>1, ConcatEntries
  <2> QED BY <2>2 DEF s, r
<1>2. \A w \in Wallets : \A i \in 1..Len(b[w]) : i \in 1..Len(d[w]) /\ d[w][i] = b[w][i]
  BY <1>1 DEF Joins
<1>3. \A w \in Wallets : \A i \in 1..Len(d[w]) : d[w][i].tx = tx => i \in 1..Len(b[w])
  <2> SUFFICES ASSUME NEW w \in Wallets, NEW i \in 1..Len(d[w]), d[w][i].tx = tx, i \notin 1..Len(b[w])
               PROVE  FALSE
    OBVIOUS
  <2>1. PICK j \in 1..Len(n[w]) : i = Len(b[w]) + j
    BY <1>1 DEF Joins
  <2>2. d[w][i] = n[w][j]
    BY <1>1, <2>1 DEF Joins
  <2> QED BY <2>2
<1>4. \A p : p \in PlacesOf(d, tx) <=> p \in PlacesOf(b, tx)
  <2>1. \A p : p \in PlacesOf(b, tx) <=>
          \E w \in Wallets : \E i \in 1..Len(b[w]) : p = <<w, i>> /\ b[w][i].tx = tx
    BY PlacesAre
  <2>2. \A p : p \in PlacesOf(d, tx) <=>
          \E w \in Wallets : \E i \in 1..Len(d[w]) : p = <<w, i>> /\ d[w][i].tx = tx
    BY PlacesAre
  <2>3. ASSUME NEW p, p \in PlacesOf(b, tx) PROVE p \in PlacesOf(d, tx)
    <3>1. PICK w \in Wallets : \E i \in 1..Len(b[w]) : p = <<w, i>> /\ b[w][i].tx = tx
      BY <2>1, <2>3
    <3>2. PICK i \in 1..Len(b[w]) : p = <<w, i>> /\ b[w][i].tx = tx
      BY <3>1
    <3>3. i \in 1..Len(d[w]) /\ d[w][i].tx = tx
      BY <1>2, <3>2
    <3> QED BY <2>2, <3>2, <3>3
  <2>4. ASSUME NEW p, p \in PlacesOf(d, tx) PROVE p \in PlacesOf(b, tx)
    <3>1. PICK w \in Wallets : \E i \in 1..Len(d[w]) : p = <<w, i>> /\ d[w][i].tx = tx
      BY <2>2, <2>4
    <3>2. PICK i \in 1..Len(d[w]) : p = <<w, i>> /\ d[w][i].tx = tx
      BY <3>1
    <3>3. i \in 1..Len(b[w]) /\ b[w][i].tx = tx
      BY <1>2, <1>3, <3>2
    <3> QED BY <2>1, <3>2, <3>3
  <2> QED BY <2>3, <2>4
<1>5. \A p \in PlacesOf(b, tx) : p[1] \in Wallets /\ p[2] \in 1..Len(b[p[1]])
  BY PlacesAre
<1> QED BY <1>2, <1>4, <1>5

\* What a reversal of another transaction has to mirror is not changed by the commit.
LEMMA OtherTasks ==
  ASSUME TypeInv, TypeInv', ReversalInv, NEW t \in Threads, Commit(t),
         NEW u \in Threads, cmd'[u] = cmd[u],
         cmd[u].kind = "reverse" => cmd[t].tx # cmd[u].tx
  PROVE  Tasks(u)' = Tasks(u)
PROOF
<1>1. CASE cmd[u].kind # "reverse"
  BY <1>1 DEF Tasks
<1>2. CASE cmd[u].kind = "reverse"
  <2> DEFINE tx == cmd[u].tx
             P == PlacesOf(book, tx)
  <2>1. book \in Books /\ fresh[t] \in Books /\ book' \in Books
    BY DEF TypeInv, TypeOK, Books
  <2>2. Extended(book', book, fresh[t])
    BY DEF Commit, Extended
  <2>3. \A w \in Wallets : \A j \in 1..Len(fresh[t][w]) : fresh[t][w][j].tx # tx
    BY <1>2 DEF ReversalInv, PagesHonest
  <2>4. /\ PlacesOf(book', tx) = P
        /\ \A p \in P : book'[p[1]][p[2]] = book[p[1]][p[2]]
    <3> DEFINE n == fresh[t]
    <3>1. n \in Books /\ Extended(book', book, n)
          /\ \A w \in Wallets : \A j \in 1..Len(n[w]) : n[w][j].tx # tx
      BY <2>1, <2>2, <2>3
    <3> HIDE DEF n, tx
    <3> QED BY <2>1, <3>1, SamePlaces
  <2>5. ASSUME NEW order \in SetToSeqs(P) PROVE MirrorsOf(book', order) = MirrorsOf(book, order)
    <3>1. order \in Seq(P)
      BY <2>1, PlacesFinite, OrderLists DEF Books
    <3>2. \A i \in 1..Len(order) : order[i] \in P
      BY <3>1
    <3>3. \A i \in 1..Len(order) :
            book'[order[i][1]][order[i][2]] = book[order[i][1]][order[i][2]]
      BY <2>4, <3>2
    <3> QED BY <3>3 DEF MirrorsOf
  <2>6. Tasks(u)' = {MirrorsOf(book', order) : order \in SetToSeqs(P)}
    <3>1. PlacesOf(book, cmd[u].tx)' = P
      BY <2>4 DEF PlacesOf
    <3>2. \A order : MirrorsOf(book, order)' = MirrorsOf(book', order)
      BY DEF MirrorsOf
    <3> QED BY <1>2, <2>4, <3>1, <3>2 DEF Tasks
  <2>7. Tasks(u) = {MirrorsOf(book, order) : order \in SetToSeqs(P)}
    BY <1>2 DEF Tasks
  <2> QED BY <2>5, <2>6, <2>7
<1> QED BY <1>1, <1>2

\* Who posts on other rows than the ones committed stays on task.
LEMMA CommitTask ==
  ASSUME TypeInv, TypeInv', BookInv, NEW t \in Threads, Commit(t),
         NEW u \in Threads, u # t, Steady(u), Tasks(u)' = Tasks(u), OnTask(u)
  PROVE  OnTask(u)'
PROOF
<1>1. PICK legs \in Tasks(u) : \E done \in Seq(Leg) : legs = done \o plan[u] /\ Done(u, done)
  BY DEF OnTask
<1>2. PICK done \in Seq(Leg) : legs = done \o plan[u] /\ Done(u, done)
  BY <1>1
<1>3. PICK F : Leads(F, cmd[u].tx, done, Clerk, Here(u))
  BY <1>2 DEF Done
<1>4. PICK rows \in SUBSET Wallets : rows = Held(u)
  BY DEF Held
<1>5. \A w \in rows : balance'[w] = balance[w] /\ book'[w] = book[w]
  <2> SUFFICES ASSUME NEW w \in rows PROVE balance'[w] = balance[w] /\ book'[w] = book[w]
    OBVIOUS
  <2>1. owner[w] # t /\ w \in Wallets
    BY <1>4 DEF Held
  <2>2. fresh[t][w] = << >>
    BY <2>1 DEF BookInv, OnlyOwnersWrite
  <2>3. book[w] \in Seq(Entry)
    BY <2>1 DEF TypeInv, TypeOK
  <2>4. book'[w] = book[w] \o << >>
    BY <2>1, <2>2 DEF Commit
  <2>5. balance'[w] = balance[w]
    BY <2>1 DEF Commit, Held
  <2> QED BY <2>3, <2>4, <2>5, ConcatEmptySeq
<1>6. \A w \in Wallets : (owner'[w] = u <=> w \in rows) /\ (owner[w] = u <=> w \in rows)
  BY <1>4 DEF Steady, Held
<1>7. fresh'[u] = fresh[u] /\ work'[u] = work[u] /\ \A w \in Wallets \ rows : fresh[u][w] = << >>
  BY <1>6 DEF Steady, BookInv, OnlyOwnersWrite
<1>8. AgreeOn(rows, Clerk, Clerk')
  BY <1>5 DEF AgreeOn, Clerk, PageOf
<1>9. AgreeOn(rows, Here(u), Here(u)')
  <2> SUFFICES ASSUME NEW w \in rows
               PROVE  Here(u).balance[w] = Here(u)'.balance[w] /\ Here(u).book[w] = Here(u)'.book[w]
    BY DEF AgreeOn
  <2>1. Here(u).balance[w] = work[u][w] /\ Here(u).book[w] = book[w] \o fresh[u][w]
    BY <1>6 DEF Here, PageOf
  <2>2. Here(u)'.balance[w] = work'[u][w] /\ Here(u)'.book[w] = book'[w] \o fresh'[u][w]
    BY <1>6 DEF Here, PageOf
  <2> QED BY <1>5, <1>7, <2>1, <2>2
<1>10. AgreeOn(Wallets \ rows, Clerk', Here(u)')
  <2> SUFFICES ASSUME NEW w \in Wallets \ rows
               PROVE  Clerk'.balance[w] = Here(u)'.balance[w] /\ Clerk'.book[w] = Here(u)'.book[w]
    BY DEF AgreeOn
  <2>1. Here(u)'.balance[w] = balance'[w] /\ Here(u)'.book[w] = book'[w] \o fresh'[u][w]
    BY <1>6 DEF Here, PageOf
  <2>2. book'[w] \o << >> = book'[w]
    <3>1. book'[w] \in Seq(Entry)
      BY DEF TypeInv, TypeOK
    <3> QED BY <3>1, ConcatEmptySeq
  <2>3. fresh'[u][w] = << >>
    BY <1>7
  <2> QED BY <2>1, <2>2, <2>3 DEF Clerk, PageOf
<1>11. \A i \in 1..Len(done) : done[i].wallet \in rows
  BY <1>2, <1>4 DEF Done
<1>12. PICK G : Leads(G, cmd[u].tx, done, Clerk', Here(u)')
  <2> DEFINE tx == cmd[u].tx
             p == Clerk
             q == Here(u)
             p2 == Clerk'
             q2 == Here(u)'
  <2>1. p \in Pages /\ q \in Pages
    BY PagesThere
  <2>2. p2 \in Pages /\ q2 \in Pages /\ p2.ok /\ q2.ok
    BY PagesNext
  <2>3. AgreeOn(rows, p, p2) /\ AgreeOn(rows, q, q2) /\ AgreeOn(Wallets \ rows, p2, q2)
        /\ Leads(F, tx, done, p, q)
    BY <1>3, <1>8, <1>9, <1>10
  <2> HIDE DEF tx, p, q, p2, q2
  <2>4. \E G : Leads(G, tx, done, p2, q2)
    BY <1>11, <2>1, <2>2, <2>3, LeadsThere
  <2> QED BY <2>4 DEF tx, p2, q2
<1>13. Leads(G, cmd[u].tx, done, Clerk, Here(u))'
  <2>1. cmd'[u] = cmd[u]
    BY DEF Steady
  <2> QED BY <1>12, <2>1 DEF Leads, Posts
<1>14. Done(u, done)'
  <2>1. \A i \in 1..Len(done) : done[i].wallet \in Held(u)'
    BY <1>4, <1>11 DEF Steady
  <2> QED BY <1>13, <2>1 DEF Done
<1>15. legs \in Tasks(u)' /\ legs = done \o plan'[u]
  BY <1>2 DEF Steady
<1> QED BY <1>14, <1>15 DEF OnTask

\* Who reverses the transaction of the commit will meet a row it has changed.
LEMMA CommitMet ==
  ASSUME TypeInv, BookInv, ReversalInv, EventsInv, BookRows, NEW t \in Threads, Commit(t), ThreadInv(t),
         NEW u \in Threads, u # t, pc[u] \in Counted, cmd[u].kind = "reverse", cmd[t].tx = cmd[u].tx,
         ~Outdated(u)
  PROVE  Touched(u) \cap Held(t) # {}
PROOF
<1> DEFINE tx == cmd[u].tx
<1>1. tx \in Txs /\ cmd[t] \in setting.commands /\ pc[t] = "commit"
  <2>1. cmd[u] \in Commands
    BY DEF Counted, Planned, TypeInv, TypeOK
  <2> QED BY <2>1, CommandsAssumption DEF Command, Commit, EventsInv, CommandsGiven
<1>2. ReversingOf(u, tx)
  BY DEF ReversingOf, Counted, Planned
<1>3. PICK w \in RowsOf(tx) : \A v \in Threads : ReversingOf(v, tx) => w \in Touched(v)
  BY <1>1, <1>2 DEF ReversalInv, CommonRow
<1>4. CASE cmd[t].kind = "reverse"
  <2>1. ReversingOf(t, tx)
    BY <1>1, <1>4 DEF ReversingOf
  <2>2. PlanRows(t) = {}
    BY <1>1 DEF ReversalInv, PlanDone, PlanRows
  <2> QED BY <1>2, <1>3, <2>1, <2>2 DEF Touched
<1>5. CASE cmd[t].kind # "reverse"
  <2>1. ReversalsOf(book, tx) = {}
    BY <1>1, <1>2 DEF ReversalInv, LateIsStale, Outdated
  <2>2. PICK i \in 1..Len(book[w]) : w \in Wallets /\ <<w, i>> \in PlacesOf(book, tx) /\ book[w][i].tx = tx
    <3>1. book \in Books
      BY DEF TypeInv, TypeOK, Books
    <3>2. PICK p \in PlacesOf(book, tx) : w = p[1]
      BY <1>3 DEF RowsOf
    <3>3. PICK v \in Wallets : \E i \in 1..Len(book[v]) : p = <<v, i>> /\ book[v][i].tx = tx
      BY <3>1, PlacesAre
    <3>4. PICK i \in 1..Len(book[v]) : p = <<v, i>> /\ book[v][i].tx = tx
      BY <3>3
    <3> QED BY <3>2, <3>4
  <2>3. book[w][i].type # "REVERSAL"
    <3>1. <<w, i>> \notin ReversalsOf(book, tx)
      BY <2>1
    <3> QED BY <2>2, <3>1 DEF ReversalsOf
  <2>4. PICK c \in setting.commands : c.kind # "reverse" /\ c.tx = tx /\ RowIn(LegsOf(c), w)
    BY <2>2, <2>3 DEF BookRows
  <2>5. c = cmd[t]
    BY <1>1, <1>5, <2>4, OneCommand DEF EventsInv, SamePosting
  <2>6. w \in Held(t)
    <3>1. PICK legs \in Tasks(t) : \A j \in 1..Len(legs) : legs[j].wallet \in Held(t)
      BY CommitDone
    <3>2. legs = LegsOf(cmd[t])
      BY <1>5 DEF Tasks
    <3> QED BY <2>4, <2>5, <3>1, <3>2 DEF RowIn
  <2> QED BY <1>2, <1>3, <2>6
<1> QED BY <1>4, <1>5

LEMMA CommitOthers ==
  ASSUME TypeInv, TypeInv', BookInv, ReversalInv, EventsInv, BookRows,
         NEW t \in Threads, Commit(t), ThreadInv(t),
         NEW u \in Threads, u # t, ThreadInv(u)
  PROVE  ThreadInv(u)'
PROOF
<1>1. Steady(u)
  BY OthersSteady DEF ThreadStep, Step
<1>2. OnTrack(u)'
  <2> SUFFICES ASSUME pc[u] \in Counted PROVE Outdated(u)' \/ OnTask(u)'
    BY <1>1 DEF OnTrack, Steady
  <2>1. Touched(u)' = Touched(u) /\ stale[u] \subseteq stale'[u] /\ cmd'[u] = cmd[u]
    BY <1>1 DEF Steady, Touched, PlanRows
  <2>2. CASE Outdated(u)
    BY <2>1, <2>2, StillOutdated
  <2>3. CASE ~Outdated(u) /\ cmd[u].kind = "reverse" /\ cmd[t].tx = cmd[u].tx
    <3>1. Touched(u) \cap Held(t) # {}
      BY <2>3, CommitMet
    <3>2. stale'[u] = stale[u] \cup Held(t)
      BY DEF Commit, Counted, Planned, InTransaction
    <3>3. Touched(u) \cap stale'[u] # {}
      BY <3>1, <3>2
    <3> QED BY <2>1, <2>3, <3>3 DEF Outdated
  <2>4. CASE ~Outdated(u) /\ ~(cmd[u].kind = "reverse" /\ cmd[t].tx = cmd[u].tx)
    <3>1. OnTask(u)
      BY <2>4 DEF ThreadInv, OnTrack
    <3>2. Tasks(u)' = Tasks(u)
      BY <2>1, <2>4, OtherTasks
    <3> QED BY <1>1, <3>1, <3>2, CommitTask
  <2> QED BY <2>2, <2>3, <2>4
<1>3. SenderHeld(u)'
  <2>1. \A w \in Held(u) : balance'[w] = balance[w]
    BY DEF Commit, Held
  <2>2. /\ pc'[u] = pc[u] /\ cmd'[u] = cmd[u] /\ plan'[u] = plan[u] /\ locks'[u] = locks[u]
        /\ Held(u)' = Held(u)
    BY <1>1 DEF Steady
  <2>3. pc[u] \in {"posting", "commit"} /\ cmd[u].kind = "transfer" =>
          TotalDebit(cmd[u]) <= balance'[cmd[u].from]
    BY <2>1 DEF ThreadInv, SenderHeld
  <2> QED BY <2>2, <2>3 DEF ThreadInv, SenderHeld
<1>4. PageRows(u)'
  BY <1>1 DEF ThreadInv, PageRows, Steady
<1> QED BY <1>2, <1>3, <1>4 DEF ThreadInv

LEMMA ClerkCommit ==
  ASSUME TypeInv, TypeInv', BookInv, BookInv', ReversalInv, EventsInv, ClerkInv, UNCHANGED setting,
         NEW t \in Threads, Commit(t)
  PROVE  ClerkInv'
PROOF
<1>1. BookRows'
  BY CommitBookRows DEF ClerkInv
<1>2. ThreadInv(t)'
  <2>1. pc'[t] \in {"idle", "publish"}
    BY DEF Commit, Forget, Goto, TypeInv, TypeOK
  <2> QED BY <2>1, LeavesOff DEF ClerkInv, Counted, Planned, InTransaction
<1>3. ASSUME NEW u \in Threads, u # t PROVE ThreadInv(u)'
  BY <1>3, CommitOthers DEF ClerkInv
<1> QED BY <1>1, <1>2, <1>3 DEF ClerkInv

-----------------------------------------------------------------------------
(***************************************************************************)
(* Every step.                                                             *)
(***************************************************************************)
\* A step other than a commit leaves the tables alone, and its thread on task.
LEMMA OtherStep ==
  ASSUME TypeInv, TypeInv', BookInv, BookInv', NEW t \in Threads, ThreadInv(t),
         ThreadStep(t) \/ \E c \in Commands : Receive(t, c), ~Commit(t)
  PROVE  UNCHANGED <<balance, book>> /\ ThreadInv(t)'
PROOF
<1>1. CASE \E c \in Commands : Receive(t, c)
  <2>1. UNCHANGED <<balance, book>> /\ pc'[t] = "cache"
    BY <1>1 DEF Receive, Goto, tables, TypeInv, TypeOK
  <2> QED BY <2>1, LeavesOff DEF Counted, Planned, InTransaction
<1>2. CASE Publish(t)
  <2>1. UNCHANGED <<balance, book>> /\ pc'[t] = "idle"
    BY <1>2, ForgetAlone DEF Publish, tables
  <2> QED BY <2>1, LeavesOff DEF Counted, Planned, InTransaction
<1>3. CASE CheckCache(t) \/ ClaimGet(t) \/ ClaimSet(t)
  <2>1. UNCHANGED <<balance, book>>
    BY <1>3 DEF CheckCache, ClaimGet, ClaimSet, tables
  <2>2. MinorStep(t) /\ pc[t] \in {"cache", "claim", "setnx"}
    BY <1>3, MinorSteps DEF CheckCache, ClaimGet, ClaimSet
  <2>3. pc'[t] \notin Counted /\ (pc'[t] = "idle" \/ (cmd'[t] = cmd[t] /\ fresh'[t] = fresh[t]))
    BY <2>2 DEF MinorStep, Counted, Planned
  <2> QED BY <2>1, <2>3, LeavesOff DEF InTransaction
<1>4. CASE \/ LockFails(t) \/ DeadlockVictim(t) \/ DbError(t) \/ Release(t)
           \/ Rollback(t) \/ Crash(t) \/ CommitFails(t)
  <2>1. UNCHANGED <<balance, book>>
    BY <1>4 DEF LockFails, DeadlockVictim, DbError, Release, Rollback, Crash, CommitFails, tables
  <2>2. pc'[t] \in {"idle", "failing", "rollback"}
    BY <1>4 DEF LockFails, DeadlockVictim, DbError, Release, Rollback, Crash, CommitFails, Forget, Goto,
                TypeInv, TypeOK
  <2>3. MinorStep(t)
    BY <1>4, MinorSteps
  <2>4. pc'[t] \notin Counted /\ (pc'[t] = "idle" \/ (cmd'[t] = cmd[t] /\ fresh'[t] = fresh[t]))
    BY <2>2, <2>3 DEF MinorStep, Counted, Planned
  <2> QED BY <2>1, <2>4, LeavesOff DEF InTransaction
<1>5. CASE BeginPosting(t)
  BY <1>5, BeginPostingClerk DEF BeginPosting, tables
<1>6. CASE BeginReversal(t)
  BY <1>6, BeginReversalClerk DEF BeginReversal, tables
<1>7. CASE LockRow(t)
  BY <1>7, LockRowClerk DEF LockRow, tables
<1>8. CASE CheckFunds(t)
  BY <1>8, CheckFundsClerk DEF CheckFunds, tables
<1>9. CASE PostLeg(t)
  BY <1>9, PostLegClerk DEF PostLeg, tables
<1>10. CASE StoreResult(t)
  BY <1>10, StoreResultClerk DEF StoreResult, tables
<1> QED BY <1>1, <1>2, <1>3, <1>4, <1>5, <1>6, <1>7, <1>8, <1>9, <1>10 DEF ThreadStep, Step

\* Whatever happens, either some thread commits or the tables are left alone.
LEMMA CommitOrNot ==
  ASSUME TypeInv, TypeInv', BookInv, BookInv', ClerkInv, [Next]_vars, ~\E t \in Threads : Commit(t)
  PROVE  UNCHANGED <<balance, book>> /\ ClerkInv'
PROOF
<1>1. UNCHANGED setting
  BY DEF Next, vars
<1>2. CASE \E t \in Threads : ThreadStep(t) \/ \E c \in Commands : Receive(t, c)
  <2>1. PICK t \in Threads : ThreadStep(t) \/ \E c \in Commands : Receive(t, c)
    BY <1>2
  <2>2. UNCHANGED <<balance, book>> /\ ThreadInv(t)'
    BY <2>1, OtherStep DEF ClerkInv
  <2>3. ASSUME NEW u \in Threads, u # t PROVE ThreadInv(u)'
    <3>1. Steady(u)
      BY <2>1, <2>3, OthersSteady
    <3> QED BY <2>2, <3>1, SteadyThread DEF ClerkInv
  <2> QED BY <1>1, <2>2, <2>3, SameBookRows DEF ClerkInv
<1>3. CASE UNCHANGED <<tables, owner, pc, cmd, private, stale>>
  <2>1. UNCHANGED <<balance, book, owner, pc, cmd, locks, plan, work, fresh, stale>>
    BY <1>3 DEF tables, private
  <2>2. \A u \in Threads : Steady(u)
    BY <2>1 DEF Steady, Held
  <2> QED BY <1>1, <2>1, <2>2, SteadyThread, SameBookRows DEF ClerkInv
<1>4. ASSUME NEW k \in Keys, ExpireClaim(k) \/ ExpireResult(k)
      PROVE  UNCHANGED <<tables, owner, pc, cmd, private, stale>>
  BY <1>4 DEF ExpireClaim, ExpireResult
<1>5. Quiet \/ UNCHANGED vars => UNCHANGED <<tables, owner, pc, cmd, private, stale>>
  BY DEF Quiet, vars, tables, private
<1> QED BY <1>2, <1>3, <1>4, <1>5 DEF Next, ThreadStep

LEMMA ClerkStep ==
  ASSUME TypeInv, BookInv, ReversalInv, EventsInv, ClerkInv, [Next]_vars
  PROVE  ClerkInv'
PROOF
<1>1. TypeInv' /\ BookInv' /\ UNCHANGED setting
  BY TypeStep, BookStep DEF Next, vars
<1>2. CASE \E t \in Threads : Commit(t)
  BY <1>1, <1>2, ClerkCommit
<1>3. CASE ~\E t \in Threads : Commit(t)
  BY <1>1, <1>3, CommitOrNot
<1> QED BY <1>2, <1>3

LEMMA InitClerk == Init => ClerkInv
PROOF
<1> SUFFICES ASSUME Init PROVE ClerkInv
  OBVIOUS
<1>1. \A t \in Threads : ThreadInv(t)
  BY DEF Init, ThreadInv, OnTrack, SenderHeld, PageRows, Counted, Planned, Empty
<1>2. BookRows
  BY DEF Init, BookRows, Empty
<1> QED BY <1>1, <1>2 DEF ClerkInv

LEMMA ClerkKept == Spec => []ClerkInv
PROOF
<1>1. TypeInv /\ BookInv /\ ReversalInv /\ EventsInv /\ ClerkInv /\ [Next]_vars => ClerkInv'
  BY ClerkStep
<1> QED BY <1>1, InitClerk, LedgerKept, EventsKept, PTL DEF Spec

-----------------------------------------------------------------------------
(***************************************************************************)
(* The refinement.                                                         *)
(***************************************************************************)
\* The tables after a commit are what the one clerk's legs lead to.
LEMMA ClerkPosts ==
  ASSUME TypeInv, TypeInv', NEW t \in Threads, cmd[t] \in Commands,
         NEW legs \in Seq(Leg), NEW F, Leads(F, cmd[t].tx, legs, Clerk, Clerk')
  PROVE  Book!PostLegs(cmd[t].tx, legs)
PROOF
<1> DEFINE tx == cmd[t].tx
           q == Clerk'
<1>1. tx \in Txs
  BY CommandsAssumption DEF Command
<1>2. q \in Pages /\ Leads(F, tx, legs, PageOf(balance, book), q)
  BY PagesNext DEF Clerk
<1>3. balance \in [Wallets -> Int] /\ book \in Books
  BY DEF TypeInv, TypeOK, Books
<1> HIDE DEF q, tx
<1>4. Book!PostAll(tx, legs) = q
  BY <1>1, <1>2, <1>3, FoldWalks
<1>5. q.ok /\ q.balance = balance' /\ q.book = book'
  BY DEF q, Clerk, PageOf
<1> QED BY <1>4, <1>5 DEF Book!PostLegs, tx

\* A commit is one step of the clerk.
LEMMA CommitIsPost ==
  ASSUME TypeInv, TypeInv', BookInv, ReversalInv, EventsInv, ClerkInv, NEW t \in Threads, Commit(t)
  PROVE  Book!Next
PROOF
<1> DEFINE c == cmd[t]
<1>1. pc[t] = "commit" /\ c \in Commands /\ ThreadInv(t)
  BY DEF Commit, TypeInv, TypeOK, ClerkInv
<1>2. c.tx \in Txs
  BY <1>1, CommandsAssumption DEF Command
<1>3. PICK legs \in Tasks(t) :
        /\ legs \in Seq(Leg)
        /\ \E F : Leads(F, c.tx, legs, Clerk, Clerk')
  BY <1>1, CommitDone
<1>4. Book!PostLegs(c.tx, legs)
  BY <1>1, <1>3, ClerkPosts
<1>5. book' # book
  <2>1. PICK w \in Wallets : fresh[t][w] # << >>
    BY <1>1 DEF EventsInv, WorkToDo, HasPage
  <2> DEFINE s == book[w]
             r == fresh[t][w]
  <2>2. s \in Seq(Entry) /\ r \in Seq(Entry) /\ r # << >> /\ book'[w] = s \o r
    BY <2>1 DEF Commit, TypeInv, TypeOK
  <2> HIDE DEF s, r
  <2>3. s \o r # s
    BY <2>2, ConcatEqualIffEmpty
  <2> QED BY <2>2, <2>3 DEF s
<1>6. CASE c.kind # "reverse"
  <2>1. legs = Book!LegsOf(c)
    BY <1>3, <1>6, SameWords DEF Tasks
  <2>2. c.kind = "transfer" => Book!TotalDebit(c) <= balance[c.from]
    BY <1>1, SameWords DEF ThreadInv, SenderHeld
  <2>3. Book!Post(c)
    BY <1>4, <1>6, <2>1, <2>2 DEF Book!Post
  <2> QED BY <1>1, <1>5, <2>3 DEF Book!Next
<1>7. CASE c.kind = "reverse"
  <2>1. ReversingOf(t, c.tx)
    BY <1>1, <1>7 DEF ReversingOf
  <2>2. PlacesOf(book, c.tx) # {}
    BY <1>2, <2>1 DEF ReversalInv, CommonRow, RowsOf
  <2>3. ReversalsOf(book, c.tx) = {}
    <3>1. PlanRows(t) = {}
      BY <1>1 DEF ReversalInv, PlanDone, PlanRows
    <3>2. Touched(t) \cap stale[t] = {}
      BY <3>1 DEF Touched, ReversalInv, HeldIsFresh
    <3> QED BY <1>2, <2>1, <3>2 DEF ReversalInv, LateIsStale
  <2>4. PICK order \in SetToSeqs(PlacesOf(book, c.tx)) : legs = MirrorsOf(book, order)
    BY <1>3, <1>7 DEF Tasks
  <2>5. order \in Book!SetToSeqs(Book!PlacesOf(book, c.tx))
    <3> QED BY <2>4, SameWords, SameOrders
  <2>6. legs = Book!Mirrors(order)
    BY <2>4, SameWords DEF MirrorsOf, Book!Mirrors
  <2>7. Book!ReverseTx(c)
    BY <1>4, <1>7, <2>2, <2>3, <2>5, <2>6, SameWords DEF Book!ReverseTx
  <2> QED BY <1>1, <1>5, <2>7 DEF Book!Next
<1> QED BY <1>6, <1>7

\* The tables behave as if one clerk posted commands one by one, each posting in one go
\* and against the current balances, however often the same command is posted: whatever
\* requests interleave, fail or die, and whatever snapshot they planned on, no reader of
\* the committed tables can tell.
THEOREM OneClerk == Spec => ImplementsBook
PROOF
<1>1. Init => Book!Init
  BY DEF Init, Book!Init, Empty
<1>2. TypeInv /\ BookInv /\ ReversalInv /\ EventsInv /\ ClerkInv /\ [Next]_vars
        => [Book!Next]_<<balance, book>>
  <2> SUFFICES ASSUME TypeInv, BookInv, ReversalInv, EventsInv, ClerkInv, [Next]_vars
               PROVE  Book!Next \/ UNCHANGED <<balance, book>>
    OBVIOUS
  <2>1. TypeInv' /\ BookInv'
    BY TypeStep, BookStep
  <2>2. CASE \E t \in Threads : Commit(t)
    BY <2>1, <2>2, CommitIsPost
  <2>3. CASE ~\E t \in Threads : Commit(t)
    BY <2>1, <2>3, CommitOrNot
  <2> QED BY <2>2, <2>3
<1> QED BY <1>1, <1>2, LedgerKept, EventsKept, ClerkKept, PTL DEF Spec, ImplementsBook, Book!Spec, Book!vars

-----------------------------------------------------------------------------
(***************************************************************************)
(* What a leg or an entry moves, and the sums of what they move.           *)
(***************************************************************************)
Moved(e) == IF e.dir = "CREDIT" THEN e.amount ELSE -e.amount

Moves(b, tx) == [p \in PlacesOf(b, tx) |-> Moved(b[p[1]][p[2]])]
BookSum(b, tx) == Total(Moves(b, tx), PlacesOf(b, tx))

Effects(legs) == [i \in 1..Len(legs) |-> Moved(legs[i])]
LegSum(legs) == Total(Effects(legs), 1..Len(legs))

\* What is booked of a transfer balances; what a thread has posted and has still to
\* post of one, or of its reversal, balances too.
Balanced(t, c) ==
    pc[t] \in Counted /\ cmd[t].tx = c.tx => BookSum(fresh[t], c.tx) + LegSum(plan[t]) = 0

BalanceInv ==
    \A c \in setting.commands : c.kind = "transfer" =>
        BookSum(book, c.tx) = 0 /\ \A t \in Threads : Balanced(t, c)

-----------------------------------------------------------------------------
(***************************************************************************)
(* Sums over the places of books.                                          *)
(***************************************************************************)
LEMMA PlacesFacts ==
  ASSUME NEW b \in Books, NEW tx
  PROVE  /\ IsFiniteSet(PlacesOf(b, tx))
         /\ \A p \in PlacesOf(b, tx) :
              /\ p[1] \in Wallets /\ p[2] \in 1..Len(b[p[1]]) /\ p = <<p[1], p[2]>>
              /\ b[p[1]][p[2]] \in Entry /\ b[p[1]][p[2]].tx = tx
         /\ \A p \in PlacesOf(b, tx) : Moves(b, tx)[p] = Moved(b[p[1]][p[2]])
         /\ \A p \in PlacesOf(b, tx) : Moves(b, tx)[p] \in Int
PROOF
<1>1. IsFiniteSet(PlacesOf(b, tx))
  BY PlacesFinite DEF Books
<1>2. ASSUME NEW p \in PlacesOf(b, tx)
      PROVE  /\ p[1] \in Wallets /\ p[2] \in 1..Len(b[p[1]]) /\ p = <<p[1], p[2]>>
             /\ b[p[1]][p[2]] \in Entry /\ b[p[1]][p[2]].tx = tx
  <2>1. PICK w \in Wallets : \E i \in 1..Len(b[w]) : p = <<w, i>> /\ b[w][i].tx = tx
    BY PlacesAre
  <2>2. PICK i \in 1..Len(b[w]) : p = <<w, i>> /\ b[w][i].tx = tx
    BY <2>1
  <2>3. p[1] = w /\ p[2] = i
    BY <2>2
  <2> QED BY <2>2, <2>3 DEF Books
<1>3. \A p \in PlacesOf(b, tx) : Moves(b, tx)[p] = Moved(b[p[1]][p[2]])
  BY DEF Moves
<1>4. \A e \in Entry : Moved(e) \in Int
  BY DEF Moved, Entry
<1> QED BY <1>1, <1>2, <1>3, <1>4

LEMMA BookSumType ==
  ASSUME NEW b \in Books, NEW tx
  PROVE  BookSum(b, tx) \in Int
PROOF
  BY PlacesFacts, TotalType DEF BookSum

LEMMA EmptyBookSum ==
  ASSUME NEW b, NEW tx, PlacesOf(b, tx) = {}
  PROVE  BookSum(b, tx) = 0
PROOF
  BY TotalEmpty DEF BookSum

\* One more entry of a transaction adds what it moves.
LEMMA BookSumGrows ==
  ASSUME NEW b \in Books, NEW d \in Books, NEW w \in Wallets, NEW e \in Entry, NEW tx,
         e.tx = tx, d[w] = Append(b[w], e), \A v \in Wallets : v # w => d[v] = b[v]
  PROVE  BookSum(d, tx) = BookSum(b, tx) + Moved(e)
PROOF
<1> DEFINE last == <<w, Len(b[w]) + 1>>
           P == PlacesOf(b, tx)
           Q == PlacesOf(d, tx)
           f == Moves(b, tx)
           g == Moves(d, tx)
<1>1. last \notin P /\ Q = P \cup {last} /\ d[w][Len(b[w]) + 1] = e
      /\ \A v \in Wallets : \A i \in 1..Len(b[v]) : d[v][i] = b[v][i]
  BY OneMorePlace
<1>2. IsFiniteSet(P) /\ \A p \in P : f[p] \in Int
  BY PlacesFacts
<1>3. \A p \in Q : g[p] \in Int
  BY PlacesFacts
<1>4. \A p \in P : g[p] = f[p]
  <2> SUFFICES ASSUME NEW p \in P PROVE g[p] = f[p]
    OBVIOUS
  <2>1. p[1] \in Wallets /\ p[2] \in 1..Len(b[p[1]]) /\ f[p] = Moved(b[p[1]][p[2]])
    BY PlacesFacts
  <2>2. p \in Q
    BY <1>1
  <2>3. g[p] = Moved(d[p[1]][p[2]])
    BY <2>2, PlacesFacts
  <2> QED BY <1>1, <2>1, <2>3
<1>5. g[last] = Moved(e)
  <2>1. last \in Q /\ last[1] = w /\ last[2] = Len(b[w]) + 1
    BY <1>1
  <2>2. g[last] = Moved(d[last[1]][last[2]])
    <3> HIDE DEF last
    <3> QED BY <2>1, PlacesFacts
  <2> QED BY <1>1, <2>1, <2>2
<1> HIDE DEF last, P, Q, f, g
<1>6. Total(g, Q) = Total(g, P) + g[last]
  BY <1>1, <1>2, <1>3, TotalAdd
<1>7. Total(g, P) = Total(f, P)
  BY <1>2, <1>4, TotalSame
<1> QED BY <1>5, <1>6, <1>7 DEF P, Q, f, g, BookSum

\* Books extended by new entries add up to both sums.
LEMMA BookSumExtended ==
  ASSUME NEW b \in Books, NEW n \in Books, NEW d \in Books, Extended(d, b, n), NEW tx
  PROVE  BookSum(d, tx) = BookSum(b, tx) + BookSum(n, tx)
PROOF
<1> DEFINE P == PlacesOf(b, tx)
           N == PlacesOf(n, tx)
           Q == PlacesOf(d, tx)
           f == Moves(b, tx)
           k == Moves(n, tx)
           g == Moves(d, tx)
           at == [q \in N |-> <<q[1], Len(b[q[1]]) + q[2]>>]
           I == {at[q] : q \in N}
<1>1. \A w \in Wallets : Joins(d[w], b[w], n[w]) /\ Len(b[w]) \in Nat /\ Len(n[w]) \in Nat
  <2> TAKE w \in Wallets
  <2> DEFINE s == b[w]
             r == n[w]
  <2>1. s \in Seq(Entry) /\ r \in Seq(Entry) /\ d[w] = s \o r
    BY DEF Extended, Books
  <2> HIDE DEF s, r
  <2>2. Joins(d[w], s, r) /\ Len(s) \in Nat /\ Len(r) \in Nat
    BY <2>1, ConcatEntries
  <2> QED BY <2>2 DEF s, r
<1>2. IsFiniteSet(P) /\ \A p \in P : p[1] \in Wallets /\ p[2] \in 1..Len(b[p[1]])
        /\ p = <<p[1], p[2]>> /\ b[p[1]][p[2]].tx = tx
        /\ f[p] = Moved(b[p[1]][p[2]]) /\ f[p] \in Int
  BY PlacesFacts
<1>3. IsFiniteSet(N) /\ \A p \in N : p[1] \in Wallets /\ p[2] \in 1..Len(n[p[1]])
        /\ p = <<p[1], p[2]>> /\ n[p[1]][p[2]].tx = tx
        /\ k[p] = Moved(n[p[1]][p[2]]) /\ k[p] \in Int
  BY PlacesFacts
<1>4. IsFiniteSet(Q) /\ \A p \in Q : p[1] \in Wallets /\ p[2] \in 1..Len(d[p[1]])
        /\ p = <<p[1], p[2]>> /\ d[p[1]][p[2]].tx = tx
        /\ g[p] = Moved(d[p[1]][p[2]]) /\ g[p] \in Int
  BY PlacesFacts
<1>a. \A p : p \in Q <=>
        \E v \in Wallets : \E i \in 1..Len(d[v]) : p = <<v, i>> /\ d[v][i].tx = tx
  BY PlacesAre
<1>b. \A p : p \in P <=>
        \E v \in Wallets : \E i \in 1..Len(b[v]) : p = <<v, i>> /\ b[v][i].tx = tx
  BY PlacesAre
<1>c. \A p : p \in N <=>
        \E v \in Wallets : \E i \in 1..Len(n[v]) : p = <<v, i>> /\ n[v][i].tx = tx
  BY PlacesAre
<1> HIDE DEF P, N, Q, f, k, g
<1>5. ASSUME NEW p \in P PROVE p \in Q /\ g[p] = f[p]
  <2>1. p[2] \in 1..Len(d[p[1]]) /\ d[p[1]][p[2]] = b[p[1]][p[2]]
    BY <1>1, <1>2 DEF Joins
  <2>2. p \in Q
    BY <1>2, <1>a, <2>1
  <2> QED BY <1>2, <1>4, <2>1, <2>2
<1>6. ASSUME NEW q \in N PROVE at[q] \in Q /\ at[q] \notin P /\ g[at[q]] = k[q]
  <2> DEFINE w == q[1]
             j == q[2]
             i == Len(b[w]) + j
  <2>1. w \in Wallets /\ j \in 1..Len(n[w]) /\ at[q] = <<w, i>> /\ Len(b[w]) \in Nat
    BY <1>1, <1>3
  <2>2. i \in 1..Len(d[w]) /\ d[w][i] = n[w][j]
    BY <1>1, <2>1 DEF Joins
  <2>3. at[q] \in Q
    <3>1. d[w][i].tx = tx
      BY <1>3, <2>2
    <3> HIDE DEF i, w, at
    <3> QED BY <1>a, <2>1, <2>2, <3>1
  <2>4. at[q] \notin P
    <3>1. ~(i \in 1..Len(b[w]))
      BY <2>1
    <3>2. at[q][1] = w /\ at[q][2] = i
      BY <2>1
    <3> HIDE DEF i, w, at
    <3> QED BY <1>2, <3>1, <3>2
  <2>5. g[at[q]] = Moved(d[w][i])
    <3>1. at[q][1] = w /\ at[q][2] = i
      BY <2>1
    <3> HIDE DEF i, w, at
    <3> QED BY <1>4, <2>3, <3>1
  <2>6. k[q] = Moved(n[w][j])
    BY <1>3
  <2> QED BY <2>2, <2>3, <2>4, <2>5, <2>6
<1>7. Q \subseteq P \cup I
  <2> SUFFICES ASSUME NEW p \in Q, p \notin P PROVE p \in I
    OBVIOUS
  <2> DEFINE w == p[1]
             i == p[2]
  <2>1. w \in Wallets /\ i \in 1..Len(d[w]) /\ p = <<w, i>> /\ d[w][i].tx = tx
    BY <1>4
  <2> HIDE DEF w, i
  <2>2. i \notin 1..Len(b[w])
    <3> SUFFICES ASSUME i \in 1..Len(b[w]) PROVE FALSE
      OBVIOUS
    <3>1. d[w][i] = b[w][i]
      BY <1>1, <2>1 DEF Joins
    <3> QED BY <1>b, <2>1, <3>1
  <2>3. PICK j \in 1..Len(n[w]) : i = Len(b[w]) + j
    BY <1>1, <2>1, <2>2 DEF Joins
  <2>4. d[w][i] = n[w][j]
    BY <1>1, <2>1, <2>3 DEF Joins
  <2>5. <<w, j>> \in N
    BY <1>c, <2>1, <2>4
  <2>6. at[<<w, j>>] = p
    BY <2>1, <2>3, <2>5
  <2> QED BY <2>5, <2>6
<1>8. Q = P \cup I /\ P \cap I = {}
  BY <1>5, <1>6, <1>7
<1>9. at \in Bijection(N, I)
  <2>1. ASSUME NEW q \in N, NEW r \in N, at[q] = at[r] PROVE q = r
    <3>1. q[1] = r[1] /\ Len(b[q[1]]) + q[2] = Len(b[q[1]]) + r[2]
      BY <2>1
    <3>2. Len(b[q[1]]) \in Nat /\ q[2] \in Int /\ r[2] \in Int
      BY <1>1, <1>3, <3>1
    <3>3. q[2] = r[2]
      BY <3>1, <3>2
    <3>4. q = <<q[1], q[2]>> /\ r = <<r[1], r[2]>>
      BY <1>3
    <3> QED BY <3>1, <3>3, <3>4
  <2>2. at \in [N -> I] /\ \A i \in I : \E q \in N : at[q] = i
    OBVIOUS
  <2> HIDE DEF at, I
  <2> QED BY <2>1, <2>2 DEF Bijection, Injection, Surjection, IsInjective
<1>10. Total(g, I) = Total(k, N)
  <2>1. \A q \in N : k[q] \in Int /\ g[at[q]] = k[q]
    BY <1>3, <1>6
  <2> HIDE DEF at, I
  <2> QED BY <1>3, <1>9, <2>1, TotalRenamed
<1> HIDE DEF at, I
<1>11. Total(g, P) = Total(f, P)
  BY <1>2, <1>5, TotalSame
<1>12. IsFiniteSet(I)
  BY <1>4, <1>8, FS_Subset
<1>13. Total(g, P \cup I) = Total(g, P) + Total(g, I)
  BY <1>2, <1>4, <1>8, <1>12, TotalUnion
<1> QED BY <1>8, <1>10, <1>11, <1>13 DEF P, N, Q, f, k, g, BookSum

-----------------------------------------------------------------------------
(***************************************************************************)
(* Sums over legs.                                                         *)
(***************************************************************************)
LEMMA LegFacts ==
  ASSUME NEW legs \in Seq(Leg)
  PROVE  /\ Len(legs) \in Nat /\ IsFiniteSet(1..Len(legs))
         /\ \A i \in 1..Len(legs) : Effects(legs)[i] = Moved(legs[i])
         /\ \A i \in 1..Len(legs) : Effects(legs)[i] \in Int
         /\ LegSum(legs) \in Int
PROOF
<1>1. Len(legs) \in Nat /\ \A i \in 1..Len(legs) : legs[i] \in Leg
  OBVIOUS
<1>2. IsFiniteSet(1..Len(legs))
  BY <1>1, FS_Interval
<1>3. \A i \in 1..Len(legs) : Effects(legs)[i] = Moved(legs[i])
  BY DEF Effects
<1>4. \A i \in 1..Len(legs) : Effects(legs)[i] \in Int
  BY <1>1, <1>3 DEF Moved, Leg
<1> QED BY <1>1, <1>2, <1>3, <1>4, TotalType DEF LegSum

LEMMA NoLegs == LegSum(<< >>) = 0
PROOF
<1>1. 1..Len(<< >>) = {}
  OBVIOUS
<1> QED BY <1>1, TotalEmpty DEF LegSum

\* The first leg and the others.
LEMMA LegSumSplits ==
  ASSUME NEW legs \in Seq(Leg), legs # << >>
  PROVE  LegSum(legs) = Moved(Head(legs)) + LegSum(Tail(legs))
PROOF
<1> DEFINE rest == Tail(legs)
           n == Len(legs)
           f == Effects(legs)
           g == Effects(rest)
           next == [i \in 1..(n - 1) |-> i + 1]
<1>1. n \in Nat \ {0} /\ rest \in Seq(Leg) /\ Len(rest) = n - 1
  BY HeadTailProperties
<1>2. \A i \in 1..(n - 1) : rest[i] = legs[i + 1]
  BY HeadTailProperties
<1>3. Head(legs) = legs[1]
  OBVIOUS
<1>4. IsFiniteSet(1..(n - 1)) /\ IsFiniteSet(2..n)
  BY <1>1, FS_Interval
<1>5. \A i \in 1..n : f[i] = Moved(legs[i]) /\ f[i] \in Int
  BY LegFacts
<1>6. \A i \in 1..(n - 1) : g[i] = Moved(rest[i]) /\ g[i] \in Int
  BY <1>1, LegFacts
<1>7. next \in Bijection(1..(n - 1), 2..n)
  <2> HIDE DEF n
  <2>1. next \in [1..(n - 1) -> 2..n]
    BY <1>1
  <2>2. \A i, j \in 1..(n - 1) : next[i] = next[j] => i = j
    BY <1>1
  <2>3. ASSUME NEW j \in 2..n PROVE \E i \in 1..(n - 1) : next[i] = j
    <3>1. j - 1 \in 1..(n - 1) /\ next[j - 1] = j
      BY <1>1
    <3> QED BY <3>1
  <2> HIDE DEF next
  <2> QED BY <2>1, <2>2, <2>3 DEF Bijection, Injection, Surjection, IsInjective
<1>8. \A i \in 1..(n - 1) : g[i] \in Int /\ f[next[i]] = g[i]
  <2> TAKE i \in 1..(n - 1)
  <2>1. next[i] = i + 1 /\ i + 1 \in 1..n
    BY <1>1
  <2> HIDE DEF n, f, g, next, rest
  <2> QED BY <1>2, <1>5, <1>6, <2>1
<1>9. 1..n = 2..n \cup {1} /\ 1 \notin 2..n
  BY <1>1
<1> HIDE DEF n, f, g, next, rest
<1> DEFINE first == 1..(n - 1)
           others == 2..n
<1>10. IsFiniteSet(first) /\ IsFiniteSet(others) /\ next \in Bijection(first, others)
       /\ (\A i \in first : g[i] \in Int /\ f[next[i]] = g[i]) /\ 1..n = others \cup {1}
       /\ 1 \notin others /\ (\A i \in others \cup {1} : f[i] \in Int) /\ 1 \in 1..n
  BY <1>4, <1>5, <1>7, <1>8, <1>9
<1> HIDE DEF first, others
<1>11. Total(f, others) = Total(g, first)
  BY <1>10, TotalRenamed
<1>12. Total(f, others \cup {1}) = Total(f, others) + f[1]
  <2> DEFINE one == 1
  <2>1. one \notin others /\ (\A i \in others \cup {one} : f[i] \in Int)
    BY <1>10
  <2> HIDE DEF one
  <2>2. Total(f, others \cup {one}) = Total(f, others) + f[one]
    BY <1>10, <2>1, TotalAdd
  <2> QED BY <2>2 DEF one
<1>13. Total(g, first) \in Int /\ f[1] \in Int /\ f[1] = Moved(Head(legs))
  BY <1>3, <1>5, <1>10, TotalType
<1>14. Total(f, 1..n) = f[1] + Total(g, first)
  <2>1. Total(f, 1..n) = Total(f, others \cup {1})
    BY <1>10
  <2> QED BY <1>11, <1>12, <1>13, <2>1
<1> QED BY <1>1, <1>13, <1>14 DEF LegSum, n, f, g, rest, first

LEMMA TotalUpTo ==
  ASSUME NEW m \in Nat, NEW n, n = m + 1, NEW f, \A i \in 1..n : f[i] \in Int
  PROVE  Total(f, 1..n) = Total(f, 1..m) + f[n]
PROOF
<1> DEFINE S == 1..m
<1>1. IsFiniteSet(S)
  BY FS_Interval
<1>2. 1..n = S \cup {n} /\ n \notin S /\ \A i \in S \cup {n} : f[i] \in Int
  OBVIOUS
<1> HIDE DEF S
<1>3. Total(f, S \cup {n}) = Total(f, S) + f[n]
  BY <1>1, <1>2, TotalAdd
<1> QED BY <1>2, <1>3 DEF S

\* Two legs, or four.
LEMMA FewLegs ==
  ASSUME NEW legs \in Seq(Leg)
  PROVE  /\ Len(legs) = 2 => LegSum(legs) = Moved(legs[1]) + Moved(legs[2])
         /\ Len(legs) = 4 => LegSum(legs) = Moved(legs[1]) + Moved(legs[2])
                                              + Moved(legs[3]) + Moved(legs[4])
PROOF
<1> DEFINE f == Effects(legs)
<1>1. \A i \in 1..Len(legs) : f[i] = Moved(legs[i]) /\ f[i] \in Int
  BY LegFacts
<1> HIDE DEF f
<1>2. Total(f, 1..0) = 0
  <2>1. 1..0 = {}
    OBVIOUS
  <2> QED BY <2>1, TotalEmpty
<1>u. \A m, n \in Nat : n = m + 1 /\ (\A i \in 1..n : f[i] \in Int)
        => Total(f, 1..n) = Total(f, 1..m) + f[n]
  BY TotalUpTo
<1>3. ASSUME Len(legs) \in {2, 4}
      PROVE  f[1] \in Int /\ f[2] \in Int /\ Total(f, 1..2) = f[1] + f[2]
  <2>1. \A i \in 1..2 : i \in 1..Len(legs)
    BY <1>3
  <2>2. Total(f, 1..1) = Total(f, 1..0) + f[1]
    <3>1. 0 \in Nat /\ 1 \in Nat /\ 1 = 0 + 1
      OBVIOUS
    <3>2. \A i \in 1..1 : f[i] \in Int
      BY <1>1, <2>1
    <3> QED BY <1>u, <3>1, <3>2, Zenon
  <2>3. Total(f, 1..2) = Total(f, 1..1) + f[2]
    <3>1. 1 \in Nat /\ 2 \in Nat /\ 2 = 1 + 1
      OBVIOUS
    <3>2. \A i \in 1..2 : f[i] \in Int
      BY <1>1, <2>1
    <3> QED BY <1>u, <3>1, <3>2, Zenon
  <2>4. f[1] \in Int /\ f[2] \in Int
    BY <1>1, <2>1
  <2> QED BY <1>2, <2>2, <2>3, <2>4
<1>4. ASSUME Len(legs) = 4
      PROVE  Total(f, 1..4) = f[1] + f[2] + f[3] + f[4]
  <2>1. \A i \in 1..4 : f[i] \in Int
    BY <1>1, <1>4
  <2>2. Total(f, 1..3) = Total(f, 1..2) + f[3]
    <3>1. 2 \in Nat /\ 3 \in Nat /\ 3 = 2 + 1
      OBVIOUS
    <3>2. \A i \in 1..3 : f[i] \in Int
      BY <2>1
    <3> QED BY <1>u, <3>1, <3>2, Zenon
  <2>3. Total(f, 1..4) = Total(f, 1..3) + f[4]
    <3>1. 3 \in Nat /\ 4 \in Nat /\ 4 = 3 + 1
      OBVIOUS
    <3>2. \A i \in 1..4 : f[i] \in Int
      BY <2>1
    <3> QED BY <1>u, <3>1, <3>2, Zenon
  <2>4. f[3] \in Int /\ f[4] \in Int
    BY <2>1
  <2> QED BY <1>3, <1>4, <2>2, <2>3, <2>4
<1> QED BY <1>1, <1>3, <1>4 DEF LegSum, f

\* What a transfer takes from the sender it gives to the recipient and the platform.
LEMMA TransferSum ==
  ASSUME NEW c \in Commands, c.kind = "transfer"
  PROVE  LegSum(LegsOf(c)) = 0
PROOF
<1>1. c.amount \in Int /\ c.fee \in Int
  BY CommandsAssumption DEF Command
<1>2. LegsOf(c) = TransferLegs(c) /\ LegsOf(c) \in Seq(Leg)
  BY LegsType DEF LegsOf
<1> DEFINE p == PrincipalLegs(c)
           f == FeeLegs(c)
<1>3. /\ Len(p) = 2 /\ Moved(p[1]) = -c.amount /\ Moved(p[2]) = c.amount
      /\ Len(f) = 2 /\ Moved(f[1]) = -c.fee /\ Moved(f[2]) = c.fee
  BY DEF PrincipalLegs, FeeLegs, LegOf, Moved
<1>4. p \in Seq(Leg) /\ f \in Seq(Leg)
  BY CommandsAssumption DEF Command, Leg, LegOf, Directions, EntryTypes, PrincipalLegs, FeeLegs
<1>5. CASE c.fee > 0
  <2>1. LegsOf(c) = p \o f
    BY <1>2, <1>5 DEF TransferLegs
  <2> HIDE DEF p, f
  <2>2. /\ Len(p \o f) = Len(p) + Len(f)
        /\ \A i \in 1..(Len(p) + Len(f)) :
             (p \o f)[i] = IF i <= Len(p) THEN p[i] ELSE f[i - Len(p)]
    BY <1>4, ConcatProperties, Zenon
  <2>3. Len(p \o f) = 4 /\ (p \o f)[1] = p[1] /\ (p \o f)[2] = p[2]
        /\ (p \o f)[3] = f[1] /\ (p \o f)[4] = f[2]
    BY <1>3, <2>2
  <2> DEFINE legs == LegsOf(c)
  <2>4. legs \in Seq(Leg) /\ Len(legs) = 4 /\ legs[1] = p[1] /\ legs[2] = p[2]
        /\ legs[3] = f[1] /\ legs[4] = f[2]
    BY <1>2, <2>1, <2>3
  <2> HIDE DEF legs
  <2>5. LegSum(legs) = Moved(legs[1]) + Moved(legs[2]) + Moved(legs[3]) + Moved(legs[4])
    BY <2>4, FewLegs
  <2> QED BY <1>1, <1>3, <2>4, <2>5 DEF legs
<1>6. CASE ~(c.fee > 0)
  <2>1. LegsOf(c) = p
    BY <1>2, <1>6 DEF TransferLegs
  <2> HIDE DEF p
  <2>2. LegSum(p) = Moved(p[1]) + Moved(p[2])
    BY <1>3, <1>4, FewLegs
  <2> QED BY <1>1, <1>3, <2>1, <2>2
<1> QED BY <1>5, <1>6

\* Mirrors give back what the entries moved, whatever their order.
LEMMA MirrorSum ==
  ASSUME NEW b \in Books, NEW tx, NEW order \in SetToSeqs(PlacesOf(b, tx)),
         NEW mirrors,
         mirrors = [i \in 1..Len(order) |->
                      MirrorOf(order[i][1], b[order[i][1]][order[i][2]])]
  PROVE  LegSum(mirrors) = -BookSum(b, tx)
PROOF
<1> DEFINE P == PlacesOf(b, tx)
           n == Len(order)
           k == Moves(b, tx)
           f == [i \in 1..n |-> k[order[i]]]
           g == Effects(mirrors)
<1>1. IsFiniteSet(P) /\ (\A p \in P : b[p[1]][p[2]] \in Entry)
      /\ \A p \in P : k[p] = Moved(b[p[1]][p[2]]) /\ k[p] \in Int
  BY PlacesFacts
<1>2. n \in Nat /\ order \in Bijection(1..n, P) /\ IsFiniteSet(1..n)
  <2> DEFINE m == Cardinality(P)
  <2>1. m \in Nat /\ IsFiniteSet(1..m) /\ Cardinality(1..m) = m
    BY <1>1, FS_CardinalityType, FS_Interval
  <2>2. /\ order \in [1..m -> P]
        /\ \A i, j \in 1..m : i # j => order[i] # order[j]
    BY DEF SetToSeqs
  <2>3. n = m
    BY <2>1, <2>2
  <2>4. order \in Injection(1..m, P)
    BY <2>2 DEF Injection, IsInjective
  <2>5. order \in Surjection(1..m, P)
    BY <1>1, <2>1, <2>4, FS_Injection
  <2> QED BY <2>1, <2>3, <2>4, <2>5 DEF Bijection
<1>3. \A i \in 1..n : order[i] \in P
  BY <1>2 DEF Bijection, Injection
<1>4. IsFiniteSet(1..n)
  BY <1>2
<1>5. mirrors \in Seq(Leg) /\ Len(mirrors) = n
  <2>1. mirrors \in Seq(Leg)
    BY MirrorPlan DEF Books
  <2>2. DOMAIN mirrors = 1..n
    OBVIOUS
  <2> QED BY <1>2, <2>1, <2>2
<1>6. \A i \in 1..n : f[i] \in Int /\ g[i] = -f[i]
  <2> TAKE i \in 1..n
  <2> DEFINE e == b[order[i][1]][order[i][2]]
  <2>1. e \in Entry /\ f[i] = Moved(e) /\ f[i] \in Int
    BY <1>1, <1>3
  <2>2. g[i] = Moved(mirrors[i])
    BY <1>5, LegFacts
  <2>3. mirrors[i] = MirrorOf(order[i][1], e)
    OBVIOUS
  <2> HIDE DEF e, f, g
  <2>4. Moved(MirrorOf(order[i][1], e)) = -Moved(e)
    BY <2>1 DEF MirrorOf, LegOf, Moved, Opposite, Entry, Directions
  <2> QED BY <2>1, <2>2, <2>3, <2>4
<1>7. \A i \in 1..n : f[i] \in Int /\ k[order[i]] = f[i]
  BY <1>6
<1> HIDE DEF P, k, f, g
<1> DEFINE S == 1..n
<1>8. IsFiniteSet(S) /\ order \in Bijection(S, P)
      /\ (\A i \in S : f[i] \in Int /\ k[order[i]] = f[i])
      /\ (\A i \in S : f[i] \in Int /\ g[i] = -f[i])
  BY <1>2, <1>4, <1>6, <1>7
<1> HIDE DEF S
<1>9. Total(k, P) = Total(f, S)
  BY <1>8, TotalRenamed
<1>10. Total(g, S) = -Total(f, S)
  BY <1>8, TotalOpposite
<1> QED BY <1>5, <1>9, <1>10 DEF P, k, g, S, BookSum, LegSum

-----------------------------------------------------------------------------
(***************************************************************************)
(* The steps.                                                              *)
(***************************************************************************)
\* A step of t that leaves the books alone, and its plan and its page, or leaves
\* both of these behind.
LEMMA SameBalance ==
  ASSUME BalanceInv, UNCHANGED <<setting, book>>, NEW t \in Threads, Alone(t),
         pc'[t] \in Counted => /\ pc[t] \in Counted
                               /\ cmd'[t] = cmd[t] /\ plan'[t] = plan[t] /\ fresh'[t] = fresh[t]
  PROVE  BalanceInv'
PROOF
<1> SUFFICES ASSUME NEW c \in setting.commands, c.kind = "transfer",
                    NEW u \in Threads, pc'[u] \in Counted, cmd'[u].tx = c.tx
             PROVE  BookSum(fresh'[u], c.tx) + LegSum(plan'[u]) = 0
  BY DEF BalanceInv, Balanced
<1>1. pc[u] \in Counted /\ cmd'[u] = cmd[u] /\ plan'[u] = plan[u] /\ fresh'[u] = fresh[u]
  BY DEF Alone
<1> QED BY <1>1 DEF BalanceInv, Balanced

\* A step of t that leaves the books alone and after which t is balanced.
LEMMA NewBalance ==
  ASSUME BalanceInv, UNCHANGED <<setting, book>>, NEW t \in Threads, Alone(t),
         \A c \in setting.commands : c.kind = "transfer" => Balanced(t, c)'
  PROVE  BalanceInv'
PROOF
<1> SUFFICES ASSUME NEW c \in setting.commands, c.kind = "transfer",
                    NEW u \in Threads
             PROVE  Balanced(u, c)'
  BY DEF BalanceInv
<1>1. CASE u = t
  BY <1>1
<1>2. CASE u # t
  BY <1>2 DEF BalanceInv, Balanced, Alone
<1> QED BY <1>1, <1>2

LEMMA BeginPostingBalance ==
  ASSUME TypeInv, BookInv, EventsInv, BalanceInv, UNCHANGED setting,
         NEW t \in Threads, BeginPosting(t)
  PROVE  BalanceInv'
PROOF
<1>1. /\ Alone(t) /\ UNCHANGED <<book, cmd, fresh>> /\ pc[t] = "begin"
      /\ plan'[t] = LegsOf(cmd[t]) /\ cmd[t].kind # "reverse" /\ cmd[t] \in Commands
  BY DEF TypeInv, TypeOK, BeginPosting, Goto, Alone, tables
<1>2. \A w \in Wallets : fresh[t][w] = << >>
  BY <1>1 DEF TypeInv, TypeOK, BookInv, OwnersAtWork, OnlyOwnersWrite, InTransaction
<1>3. ASSUME NEW c \in setting.commands, c.kind = "transfer", cmd[t].tx = c.tx
      PROVE  BookSum(fresh[t], c.tx) + LegSum(LegsOf(cmd[t])) = 0
  <2>1. cmd[t] \in setting.commands
    BY <1>1 DEF EventsInv, CommandsGiven
  <2>2. c = cmd[t]
    BY <1>1, <1>3, <2>1, OneCommand DEF EventsInv, SamePosting
  <2>3. BookSum(fresh[t], c.tx) = 0
    BY <1>2, NoPlaces, EmptyBookSum
  <2>4. LegSum(LegsOf(c)) = 0
    BY <1>1, <1>3, <2>2, TransferSum
  <2> QED BY <2>2, <2>3, <2>4
<1> QED BY <1>1, <1>3, NewBalance DEF Balanced

LEMMA BeginReversalBalance ==
  ASSUME TypeInv, BookInv, BalanceInv, UNCHANGED setting,
         NEW t \in Threads, BeginReversal(t)
  PROVE  BalanceInv'
PROOF
<1>1. Alone(t) /\ UNCHANGED <<book, cmd, fresh>> /\ pc[t] = "begin" /\ book \in Books
  BY DEF TypeInv, TypeOK, BeginReversal, Goto, Alone, tables, Books
<1>2. \A w \in Wallets : fresh[t][w] = << >>
  BY SMTT(20), ZenonT(20), <1>1 DEF TypeInv, TypeOK, BookInv, OwnersAtWork, OnlyOwnersWrite, InTransaction
<1> DEFINE places == PlacesOf(book, cmd[t].tx)
<1>3. CASE places = {} \/ ReversalsOf(book, cmd[t].tx) # {}
  <2>1. pc'[t] = "failing"
    BY <1>3 DEF TypeInv, TypeOK, BeginReversal, Goto
  <2> QED BY <1>1, <2>1, SameBalance DEF Counted, Planned
<1>4. CASE ~(places = {} \/ ReversalsOf(book, cmd[t].tx) # {})
  <2>1. PICK order \in SetToSeqs(places) :
          plan' = [plan EXCEPT ![t] =
            [i \in 1..Len(order) |-> MirrorOf(order[i][1], book[order[i][1]][order[i][2]])]]
    BY <1>4 DEF BeginReversal
  <2>2. plan'[t] = [i \in 1..Len(order) |->
                      MirrorOf(order[i][1], book[order[i][1]][order[i][2]])]
    BY <2>1 DEF TypeInv, TypeOK
  <2>3. LegSum(plan'[t]) = -BookSum(book, cmd[t].tx)
    BY <1>1, <2>2, MirrorSum
  <2>4. ASSUME NEW c \in setting.commands, c.kind = "transfer", cmd[t].tx = c.tx
        PROVE  BookSum(fresh[t], c.tx) + LegSum(plan'[t]) = 0
    <3>1. BookSum(fresh[t], c.tx) = 0
      BY <1>2, NoPlaces, EmptyBookSum
    <3>2. BookSum(book, c.tx) = 0
      BY <2>4 DEF BalanceInv
    <3> QED BY <2>3, <2>4, <3>1, <3>2
  <2> QED BY <1>1, <2>4, NewBalance DEF Balanced
<1> QED BY <1>3, <1>4

LEMMA PostLegBalance ==
  ASSUME TypeInv, BalanceInv, UNCHANGED setting, NEW t \in Threads, PostLeg(t)
  PROVE  BalanceInv'
PROOF
<1> DEFINE leg == Head(plan[t])
           w == leg.wallet
           entry == EntryOf(cmd[t].tx, leg, work[t][w])
<1>1. pc[t] = "posting" /\ plan[t] # << >> /\ w \in Wallets /\ UNCHANGED <<book, cmd>>
  BY DEF PostLeg, Held, tables
<1>2. plan[t] \in Seq(Leg) /\ leg \in Leg /\ Tail(plan[t]) \in Seq(Leg)
  BY <1>1, HeadTailProperties DEF TypeInv, TypeOK
<1>3. CASE Covered(leg, work[t][w])
  <2>1. /\ fresh' = [fresh EXCEPT ![t][w] = Append(@, entry)]
        /\ plan' = [plan EXCEPT ![t] = Tail(@)]
        /\ UNCHANGED pc
    BY <1>3 DEF PostLeg
  <2>2. cmd[t].tx \in Txs /\ work[t][w] \in Int
    BY <1>1, CommandsAssumption DEF TypeInv, TypeOK, Command
  <2>3. entry \in Entry /\ entry.tx = cmd[t].tx
    BY <1>2, <2>2, EntryType
  <2>4. Moved(entry) = Moved(leg) /\ Moved(leg) \in Int
    BY <1>2 DEF Moved, EntryOf, Leg
  <2> HIDE DEF leg, w, entry
  <2>5. fresh[t] \in Books
    BY DEF TypeInv, TypeOK, Books
  <2>6. fresh'[t] = [fresh[t] EXCEPT ![w] = Append(@, entry)]
    BY <2>1 DEF TypeInv, TypeOK
  <2>7. Append(fresh[t][w], entry) \in Seq(Entry)
    BY <1>1, <2>3, <2>5, AppendProperties DEF Books
  <2>8. /\ fresh'[t] \in Books
        /\ fresh'[t][w] = Append(fresh[t][w], entry)
        /\ \A v \in Wallets : v # w => fresh'[t][v] = fresh[t][v]
    BY <1>1, <2>5, <2>6, <2>7 DEF Books
  <2>9. BookSum(fresh'[t], cmd[t].tx) = BookSum(fresh[t], cmd[t].tx) + Moved(entry)
    <3> DEFINE b == fresh[t]
               d == fresh'[t]
               tx == cmd[t].tx
    <3>1. /\ b \in Books /\ d \in Books /\ w \in Wallets /\ entry \in Entry /\ entry.tx = tx
          /\ d[w] = Append(b[w], entry) /\ \A v \in Wallets : v # w => d[v] = b[v]
      BY <1>1, <2>3, <2>5, <2>8
    <3> HIDE DEF b, d, tx
    <3>2. BookSum(d, tx) = BookSum(b, tx) + Moved(entry)
      BY <3>1, BookSumGrows
    <3> QED BY <3>2 DEF b, d, tx
  <2>10. plan'[t] = Tail(plan[t]) /\ Alone(t) /\ pc'[t] = "posting"
    BY <1>1, <2>1 DEF TypeInv, TypeOK, Alone
  <2>11. LegSum(plan[t]) = Moved(leg) + LegSum(plan'[t]) /\ LegSum(plan'[t]) \in Int
    BY <1>1, <1>2, <2>10, LegSumSplits, LegFacts DEF leg
  <2>12. ASSUME NEW c \in setting.commands, c.kind = "transfer", cmd[t].tx = c.tx
         PROVE  BookSum(fresh'[t], c.tx) + LegSum(plan'[t]) = 0
    <3>1. BookSum(fresh[t], c.tx) + LegSum(plan[t]) = 0
      BY <1>1, <2>12 DEF BalanceInv, Balanced, Counted, Planned
    <3>2. BookSum(fresh[t], c.tx) \in Int
      BY <2>5, BookSumType
    <3> QED BY <2>4, <2>9, <2>11, <2>12, <3>1, <3>2
  <2> QED BY <1>1, <2>10, <2>12, NewBalance DEF Balanced
<1>4. CASE ~Covered(leg, work[t][w])
  <2>1. pc'[t] = "failing" /\ Alone(t)
    BY <1>1, <1>4 DEF PostLeg, Goto, TypeInv, TypeOK, Alone
  <2> QED BY <1>1, <2>1, SameBalance DEF Counted, Planned
<1> QED BY <1>3, <1>4

LEMMA CommitBalance ==
  ASSUME TypeInv, BookInv, ReversalInv, BalanceInv, UNCHANGED setting,
         NEW t \in Threads, Commit(t)
  PROVE  BalanceInv'
PROOF
<1> DEFINE new == fresh[t]
<1>1. /\ pc[t] = "commit" /\ book' = [w \in Wallets |-> book[w] \o new[w]]
      /\ book \in Books /\ new \in Books
  BY DEF Commit, TypeInv, TypeOK, Books
<1>2. book' \in Books /\ Extended(book', book, new)
  <2>1. \A w \in Wallets : book[w] \o new[w] \in Seq(Entry)
    BY <1>1, ConcatProperties DEF Books
  <2> HIDE DEF new
  <2> QED BY <1>1, <2>1 DEF Extended, Books
<1>3. Alone(t) /\ pc'[t] \in {"publish", "idle"}
  <2>1. CASE Announced(cmd[t])
    BY <2>1 DEF TypeInv, TypeOK, Commit, Goto, Alone
  <2>2. CASE ~Announced(cmd[t])
    BY <2>2, ForgetAlone DEF Commit
  <2> QED BY <2>1, <2>2
<1>4. ASSUME NEW c \in setting.commands, c.kind = "transfer"
      PROVE  BookSum(book', c.tx) = 0
  <2>1. BookSum(book', c.tx) = BookSum(book, c.tx) + BookSum(new, c.tx)
    <3> HIDE DEF new
    <3> QED BY <1>1, <1>2, BookSumExtended
  <2>2. BookSum(book, c.tx) = 0
    BY <1>4 DEF BalanceInv
  <2>3. CASE cmd[t].tx = c.tx
    <3>1. BookSum(new, c.tx) + LegSum(plan[t]) = 0
      BY <1>1, <1>4, <2>3 DEF BalanceInv, Balanced, Counted
    <3>2. LegSum(plan[t]) = 0
      BY <1>1, NoLegs DEF ReversalInv, PlanDone
    <3>3. BookSum(new, c.tx) \in Int
      BY <1>1, BookSumType
    <3> HIDE DEF new
    <3> QED BY <2>1, <2>2, <3>1, <3>2, <3>3
  <2>4. CASE cmd[t].tx # c.tx
    <3>1. \A w \in Wallets : \A i \in 1..Len(new[w]) : new[w][i].tx # c.tx
      BY <2>4 DEF ReversalInv, PagesHonest
    <3>2. PlacesOf(new, c.tx) = {}
      <4> HIDE DEF new
      <4>1. \A p : p \notin PlacesOf(new, c.tx)
        BY <1>1, <3>1, PlacesAre
      <4> QED BY <4>1
    <3>3. BookSum(new, c.tx) = 0
      BY <3>2, EmptyBookSum
    <3> QED BY <2>1, <2>2, <3>3
  <2> QED BY <2>3, <2>4
<1>5. ASSUME NEW c \in setting.commands, c.kind = "transfer", NEW u \in Threads
      PROVE  Balanced(u, c)'
  <2>1. CASE u = t
    BY <1>3, <2>1 DEF Balanced, Counted, Planned
  <2>2. CASE u # t
    BY <1>3, <1>5, <2>2 DEF BalanceInv, Balanced, Alone
  <2> QED BY <2>1, <2>2
<1> QED BY <1>4, <1>5 DEF BalanceInv

LEMMA BalanceStep ==
  ASSUME TypeInv, BookInv, ReversalInv, EventsInv, BalanceInv, [Next]_vars
  PROVE  BalanceInv'
PROOF
<1> USE DEF Counted, Planned
<1>0. UNCHANGED setting
  BY DEF Next, vars
<1>1. CASE UNCHANGED vars
  <2>1. UNCHANGED <<setting, book, pc, cmd, plan, fresh>>
    BY <1>1 DEF vars
  <2> QED BY <2>1 DEF BalanceInv, Balanced
<1>2. ASSUME NEW k \in Keys, ExpireClaim(k) \/ ExpireResult(k)
      PROVE  BalanceInv'
  <2>1. UNCHANGED <<book, pc, cmd, plan, fresh>>
    BY <1>2 DEF ExpireClaim, ExpireResult, private, tables
  <2> QED BY <1>0, <2>1 DEF BalanceInv, Balanced
<1>3. ASSUME NEW t \in Threads,
             \/ CheckCache(t) \/ ClaimGet(t) \/ ClaimSet(t)
             \/ LockRow(t) \/ LockFails(t) \/ DeadlockVictim(t) \/ CheckFunds(t)
             \/ DbError(t) \/ Release(t) \/ Rollback(t) \/ Crash(t) \/ CommitFails(t)
      PROVE  BalanceInv'
  BY <1>0, <1>3, MinorSteps, SameBalance DEF MinorStep
<1>4. ASSUME NEW t \in Threads, NEW c \in Commands, Receive(t, c) PROVE BalanceInv'
  <2>1. Alone(t) /\ pc'[t] = "cache" /\ UNCHANGED book
    BY <1>4 DEF TypeInv, TypeOK, Receive, Goto, private, tables, Alone
  <2> QED BY <1>0, <2>1, SameBalance
<1>5. ASSUME NEW t \in Threads, BeginPosting(t) PROVE BalanceInv'
  BY <1>0, <1>5, BeginPostingBalance
<1>6. ASSUME NEW t \in Threads, BeginReversal(t) PROVE BalanceInv'
  BY <1>0, <1>6, BeginReversalBalance
<1>7. ASSUME NEW t \in Threads, PostLeg(t) PROVE BalanceInv'
  BY <1>0, <1>7, PostLegBalance
<1>8. ASSUME NEW t \in Threads, StoreResult(t) PROVE BalanceInv'
  <2>1. Alone(t) /\ UNCHANGED <<book, cmd, plan, fresh>> /\ pc[t] = "posting"
    BY <1>8 DEF TypeInv, TypeOK, StoreResult, Goto, private, tables, Alone
  <2> QED BY <1>0, <2>1, SameBalance
<1>9. ASSUME NEW t \in Threads, Commit(t) PROVE BalanceInv'
  BY <1>0, <1>9, CommitBalance
<1>10. ASSUME NEW t \in Threads, Publish(t) PROVE BalanceInv'
  <2>1. Alone(t) /\ pc'[t] = "idle" /\ UNCHANGED book
    BY <1>10, ForgetAlone DEF Publish, tables
  <2> QED BY <1>0, <2>1, SameBalance
<1> QED BY <1>1, <1>2, <1>3, <1>4, <1>5, <1>6, <1>7, <1>8, <1>9, <1>10 DEF Next, Step, Quiet

LEMMA BalanceKept == Spec => []BalanceInv
PROOF
<1>1. Init => BalanceInv
  <2> SUFFICES ASSUME Init, NEW c \in setting.commands
               PROVE  BookSum(book, c.tx) = 0 /\ \A t \in Threads : Balanced(t, c)
    BY DEF BalanceInv
  <2>1. PlacesOf(book, c.tx) = {}
    BY NoPlaces DEF Init, Empty
  <2>2. \A t \in Threads : pc[t] \notin Counted
    BY DEF Init, Counted, Planned
  <2> QED BY <2>1, <2>2, EmptyBookSum DEF Balanced
<1>2. TypeInv /\ BookInv /\ ReversalInv /\ EventsInv /\ BalanceInv /\ [Next]_vars => BalanceInv'
  BY BalanceStep
<1> QED BY <1>1, <1>2, LedgerKept, EventsKept, PTL DEF Spec

\* The sum the property states is that sum.
LEMMA SignedSum ==
  ASSUME NEW tx, book \in Books
  PROVE  MapThenSumSet(Signed, PlacesOf(book, tx)) = BookSum(book, tx)
PROOF
<1> DEFINE S == PlacesOf(book, tx)
           k == Moves(book, tx)
           f == [p \in S |-> Signed(p)]
           Def(h) == [s \in SUBSET S |->
                        IF s = {} THEN 0 ELSE Signed(AnyOf(s)) + h[s \ {AnyOf(s)}]]
           it == CHOOSE h : h = Def(h)
<1>1. IsFiniteSet(S) /\ \A p \in S : k[p] = Moved(book[p[1]][p[2]]) /\ k[p] \in Int
  BY PlacesFacts
<1>2. \A p \in S : f[p] \in Int /\ f[p] = k[p]
  BY <1>1 DEF Signed, Moved
<1>3. MapThenSumSet(Signed, S) = it[S]
  BY DEF MapThenSumSet, MapThenFoldSet, AnyOf
<1>4. PICK g : SumsUp(g, f, S)
  <2> HIDE DEF f, S
  <2> QED BY <1>1, <1>2, SumExists
<1>5. \A s \in SUBSET S : s # {} => f[AnyOf(s)] = Signed(AnyOf(s))
  BY DEF AnyOf
<1>6. \A h : Adds(h, f, S) <=> h = Def(h)
  <2> TAKE h
  <2>1. [s \in SUBSET S |-> IF s = {} THEN 0 ELSE f[AnyOf(s)] + h[s \ {AnyOf(s)}]] = Def(h)
    <3> HIDE DEF f, k
    <3> QED BY <1>5
  <2> HIDE DEF f, S, Def
  <2> QED BY <2>1 DEF Adds
<1>7. g = Def(g)
  <2> HIDE DEF f, S, Def
  <2> QED BY <1>4, <1>6 DEF SumsUp
<1>8. it = Def(it)
  <2> HIDE DEF Def
  <2> QED BY <1>7
<1> HIDE DEF f, S, k, Def, it
<1>9. it = g
  BY <1>1, <1>2, <1>4, <1>6, <1>8, SumUnique DEF SumsUp
<1>10. Total(f, S) = g[S]
  BY <1>1, <1>4, TotalIs
<1>11. Total(k, S) = Total(f, S)
  BY <1>1, <1>2, TotalSame
<1> QED BY <1>3, <1>9, <1>10, <1>11 DEF BookSum, S, k

\* Double entry, for all wallets, commands, threads and faults: the committed entries of a
\* transfer, those of its reversal included, add up to zero.
THEOREM EntriesBalance == Spec => []TransfersBalance
PROOF
<1>1. TypeInv /\ BalanceInv => TransfersBalance
  BY SignedSum DEF TypeInv, TypeOK, Books, BalanceInv, TransfersBalance
<1> QED BY <1>1, LedgerKept, BalanceKept, PTL
=============================================================================
