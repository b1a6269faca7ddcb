--------------------------- MODULE PlatformProofs ---------------------------
(***************************************************************************)
(* Proofs about the services that count: the passwords api-core lets a     *)
(* client try, the attempts notification-service makes, the sums that the  *)
(* readers of the ledger take of it, and the edits between two names in    *)
(* aml-service.                                                            *)
(***************************************************************************)
EXTENDS Services, FoldFacts

(***************************************************************************)
(* api-core's authentication.                                              *)
(***************************************************************************)
AuthTyped ==
    /\ fails \in [Phones -> Nat] /\ guesses \in [Phones -> Nat]
    /\ pc \in [Handlers -> AUTH!Labels]
    /\ req \in [Handlers -> AuthRequests \cup {NoRequest}]
    /\ \A h \in Handlers : pc[h] # "idle" => req[h] \in AuthRequests

\* The handlers of a phone at these labels.
AuthAt(p, labels) == {h \in Handlers : pc[h] \in labels /\ req[h].phone = p}

\* Who may still try a password.
AuthTrying == {"password?"}

\* Who tried a wrong one, that is not counted yet or about to lock the phone; with a
\* limit of one the handler that arms the expiry locks next.
AuthFailing == {"count", "lock"} \cup (IF LockoutAfter = 1 THEN {"expire"} ELSE {})

\* What auth:fail tells of the tries, as it does not stop at the limit.
AuthCounted(p) == IF fails[p] < LockoutAfter THEN fails[p] ELSE LockoutAfter - 1

\* While a phone is open its tries are counted or at hand; once it is locked those who
\* are past the lock check are all who still try; and who deletes the counter has
\* locked the phone.
AuthBounded(p) ==
    /\ p \notin lock => guesses[p] <= AuthCounted(p) + Cardinality(AuthAt(p, AuthFailing))
    /\ p \in lock => guesses[p] + Cardinality(AuthAt(p, AuthTrying))
                       <= LockoutAfter - 1 + Cardinality(Handlers)
    /\ \A h \in Handlers : pc[h] = "clear" /\ req[h].phone = p => p \in lock

AuthCalm == {"dies", "slow"} \cap setting.faults = {}

AuthInv == part = "auth" => AuthTyped /\ (AuthCalm => \A p \in Phones : AuthBounded(p))

\* A step while the authentication runs is one of it.
LEMMA AuthRuns ==
    ASSUME [Next]_vars, part' = "auth"
    PROVE  part = "auth" /\ (AUTH!Next \/ UNCHANGED <<setting, authVars>>)
BY DEF Next, vars

\* The constants; the service counts as the theorems do.
LEMMA AuthConstants ==
    /\ IsFiniteSet(Handlers) /\ Cardinality(Handlers) \in Nat
    /\ \A S : AUTH!Cardinality(S) = Cardinality(S)
    /\ LockoutAfter \in Nat \ {0} /\ NoRequest \notin AuthRequests
    /\ \A r \in AuthRequests : r.phone \in Phones /\ r.op \in DOMAIN AUTH!FirstLabel
<1>1. AUTH!AuthAssumption
    BY ServicesAssumption
<1>2. IsFiniteSet(Handlers)
    BY <1>1 DEF AUTH!AuthAssumption, AUTH!IsFiniteSet, IsFiniteSet
<1>3. \A S : AUTH!Cardinality(S) = Cardinality(S)
    BY DEF AUTH!Cardinality, Cardinality
<1>4. \A r \in AuthRequests : r.phone \in Phones /\ r.op \in DOMAIN AUTH!FirstLabel
    BY <1>1 DEF AUTH!AuthAssumption, AUTH!Request, AUTH!FirstLabel
<1> QED
    BY <1>1, <1>2, <1>3, <1>4, FS_CardinalityType DEF AUTH!AuthAssumption

\* The handlers at some labels are so many, and no more than there are.
LEMMA AuthSize ==
    ASSUME NEW p, NEW labels
    PROVE  /\ IsFiniteSet(AuthAt(p, labels)) /\ Cardinality(AuthAt(p, labels)) \in Nat
           /\ IsFiniteSet(AuthAt(p, labels)') /\ Cardinality(AuthAt(p, labels)') \in Nat
<1>1. AuthAt(p, labels) \subseteq Handlers /\ AuthAt(p, labels)' \subseteq Handlers
    BY DEF AuthAt
<1> QED
    BY <1>1, AuthConstants, FS_Subset, FS_CardinalityType

\* When one handler moves, its phone's handlers at some labels are one more or one
\* fewer, or as many.
LEMMA AuthMoves ==
    ASSUME NEW h \in Handlers, \A g \in Handlers : g # h => pc'[g] = pc[g] /\ req'[g] = req[g],
           NEW p, NEW labels
    PROVE  LET before == pc[h] \in labels /\ req[h].phone = p
               after == pc'[h] \in labels /\ req'[h].phone = p
           IN  Cardinality(AuthAt(p, labels)') =
                 Cardinality(AuthAt(p, labels)) + (IF after THEN 1 ELSE 0) - (IF before THEN 1 ELSE 0)
<1> DEFINE before == pc[h] \in labels /\ req[h].phone = p
           after == pc'[h] \in labels /\ req'[h].phone = p
           A == AuthAt(p, labels)
           B == AuthAt(p, labels)'
           R == A \ {h}
<1>1. /\ h \in A <=> before
      /\ h \in B <=> after
      /\ B \ {h} = R
    BY DEF AuthAt
<1>2. IsFiniteSet(A) /\ IsFiniteSet(B) /\ Cardinality(A) \in Nat /\ Cardinality(B) \in Nat
    BY AuthSize
<1> HIDE DEF A, B, before, after
<1>3. Cardinality(R) = Cardinality(A) - (IF before THEN 1 ELSE 0)
  <2>1. CASE before
    BY <1>1, <1>2, <2>1, FS_RemoveElement
  <2>2. CASE ~ before
    <3>1. R = A
        BY <1>1, <2>2
    <3> QED
        BY <1>2, <2>2, <3>1
  <2> QED
    BY <2>1, <2>2
<1>4. Cardinality(R) = Cardinality(B) - (IF after THEN 1 ELSE 0)
  <2>1. CASE after
    BY <1>1, <1>2, <2>1, FS_RemoveElement
  <2>2. CASE ~ after
    <3>1. R = B
        BY <1>1, <2>2
    <3> QED
        BY <1>2, <2>2, <3>1
  <2> QED
    BY <2>1, <2>2
<1>5. Cardinality(B) = Cardinality(A) + (IF after THEN 1 ELSE 0) - (IF before THEN 1 ELSE 0)
    BY <1>2, <1>3, <1>4
<1> QED
    BY <1>5 DEF A, B, before, after

\* Who failed and who tries are different handlers.
LEMMA AuthRoom ==
    ASSUME NEW p
    PROVE  Cardinality(AuthAt(p, AuthFailing)) + Cardinality(AuthAt(p, AuthTrying))
             <= Cardinality(Handlers)
<1> DEFINE A == AuthAt(p, AuthFailing)
           B == AuthAt(p, AuthTrying)
<1>1. A \cap B = {} /\ A \cup B \subseteq Handlers
    BY DEF AuthAt, AuthFailing, AuthTrying
<1>2. IsFiniteSet(A) /\ IsFiniteSet(B) /\ Cardinality(A) \in Nat /\ Cardinality(B) \in Nat
    BY AuthSize
<1> HIDE DEF A, B
<1>3. Cardinality(A \cup B) = Cardinality(A) + Cardinality(B)
  <2>1. Cardinality(A \cup B) = Cardinality(A) + Cardinality(B) - Cardinality(A \cap B)
    BY <1>2, FS_Union
  <2>2. Cardinality(A \cap B) = 0
    BY <1>1, FS_EmptySet
  <2> QED
    BY <1>2, <2>1, <2>2
<1>4. Cardinality(A \cup B) <= Cardinality(Handlers)
    BY <1>1, AuthConstants, FS_Subset
<1> QED
    BY <1>3, <1>4 DEF A, B
\* Only h moves.
AuthOnly(h) ==
    /\ setting' = setting
    /\ \A g \in Handlers : g # h => pc'[g] = pc[g] /\ req'[g] = req[g]

\* Going on to a label, and ending.
LEMMA AuthGoes ==
    ASSUME AuthTyped, NEW h \in Handlers, NEW label \in AUTH!Labels, pc[h] # "idle",
           AUTH!Goto(h, label), setting' = setting,
           fails' \in [Phones -> Nat], guesses' \in [Phones -> Nat]
    PROVE  AuthTyped' /\ AuthOnly(h) /\ pc'[h] = label /\ req'[h] = req[h]
BY DEF AuthTyped, AuthOnly, AUTH!Goto

LEMMA AuthEnds ==
    ASSUME AuthTyped, NEW h \in Handlers, AUTH!End(h), setting' = setting,
           fails' \in [Phones -> Nat], guesses' \in [Phones -> Nat]
    PROVE  AuthTyped' /\ AuthOnly(h) /\ pc'[h] = "idle" /\ req'[h] = NoRequest
<1>1. "idle" \in AUTH!Labels
    BY DEF AUTH!Labels
<1> QED
    BY <1>1 DEF AuthTyped, AuthOnly, AUTH!End

\* A handler that serves a request serves one of a phone.
LEMMA AuthServes ==
    ASSUME AuthTyped, NEW h \in Handlers, pc[h] # "idle"
    PROVE  req[h] \in AuthRequests /\ req[h].phone \in Phones
BY AuthConstants DEF AuthTyped

AuthWatched == AuthTrying \cup AuthFailing \cup {"clear"}

\* A move that neither counts, tries nor locks changes nothing.
LEMMA AuthMovesOn ==
    ASSUME NEW h \in Handlers, AuthOnly(h), UNCHANGED <<lock, fails, guesses>>,
           pc[h] \notin AuthWatched, pc'[h] \notin AuthWatched,
           \A p \in Phones : AuthBounded(p)
    PROVE  \A p \in Phones : AuthBounded(p)'
<1> TAKE p \in Phones
<1>1. ASSUME NEW labels, labels \subseteq AuthWatched
      PROVE  Cardinality(AuthAt(p, labels)') = Cardinality(AuthAt(p, labels))
  <2>1. pc[h] \notin labels /\ pc'[h] \notin labels
    BY <1>1
  <2> QED
    BY <2>1, AuthMoves, AuthSize DEF AuthOnly
<1>2. /\ Cardinality(AuthAt(p, AuthTrying)') = Cardinality(AuthAt(p, AuthTrying))
      /\ Cardinality(AuthAt(p, AuthFailing)') = Cardinality(AuthAt(p, AuthFailing))
    BY <1>1 DEF AuthWatched
<1>3. AuthCounted(p)' = AuthCounted(p)
    BY DEF AuthCounted
<1>4. \A g \in Handlers : pc'[g] = "clear" => pc[g] = "clear" /\ req'[g] = req[g]
    BY DEF AuthOnly, AuthWatched
<1> QED
    BY <1>2, <1>3, <1>4 DEF AuthBounded

\* What does not concern the lock, the counter and the tries.
LEMMA AuthAside ==
    ASSUME AuthTyped, NEW h \in Handlers,
           \/ AUTH!FindPhone(h) \/ AUTH!InsertUser(h) \/ AUTH!SendOtp(h)
           \/ AUTH!CompareCode(h) \/ AUTH!DeleteCode(h) \/ AUTH!MarkVerified(h)
           \/ AUTH!LockStatus(h) \/ AUTH!IssueTokens(h) \/ AUTH!Refresh(h)
           \/ AUTH!CompareMpin(h) \/ AUTH!SetMpin(h)
    PROVE  /\ AuthTyped' /\ AuthOnly(h) /\ UNCHANGED <<lock, fails, guesses>>
           /\ pc[h] \notin AuthWatched /\ pc'[h] \notin AuthWatched
<1> DEFINE Aside == {"find", "insert", "send", "code?", "code del", "verified", "status", "issue",
                     "token?", "mpin?", "mpin"}
<1>1. /\ pc[h] \in Aside
      /\ AUTH!End(h) \/ \E label \in Aside : AUTH!Goto(h, label)
      /\ UNCHANGED <<setting, lock, fails, guesses>>
  <2>1. CASE AUTH!FindPhone(h) \/ AUTH!InsertUser(h) \/ AUTH!SendOtp(h)
    BY <2>1 DEF AUTH!FindPhone, AUTH!InsertUser, AUTH!SendOtp, AUTH!redis
  <2>2. CASE AUTH!CompareCode(h) \/ AUTH!DeleteCode(h) \/ AUTH!MarkVerified(h)
    BY <2>2 DEF AUTH!CompareCode, AUTH!DeleteCode, AUTH!MarkVerified, AUTH!redis
  <2>3. CASE AUTH!LockStatus(h) \/ AUTH!IssueTokens(h) \/ AUTH!Refresh(h)
    BY <2>3 DEF AUTH!LockStatus, AUTH!IssueTokens, AUTH!Refresh, AUTH!redis
  <2>4. CASE AUTH!CompareMpin(h) \/ AUTH!SetMpin(h)
    BY <2>4 DEF AUTH!CompareMpin, AUTH!SetMpin, AUTH!redis
  <2> QED
    BY <2>1, <2>2, <2>3, <2>4
<1>2. /\ Aside \subseteq AUTH!Labels /\ "idle" \notin Aside
      /\ \A label \in Aside \cup {"idle"} : label \notin AuthWatched
    BY DEF AUTH!Labels, AuthWatched, AuthTrying, AuthFailing
<1>3. fails' \in [Phones -> Nat] /\ guesses' \in [Phones -> Nat]
    BY <1>1 DEF AuthTyped
<1> HIDE DEF Aside
<1>4. AuthTyped' /\ AuthOnly(h) /\ pc'[h] \in Aside \cup {"idle"}
    BY <1>1, <1>2, <1>3, AuthEnds, AuthGoes
<1> QED
    BY <1>1, <1>2, <1>4

\* A request arrives.
LEMMA AuthReceive ==
    ASSUME AuthTyped, NEW h \in Handlers, NEW r \in AuthRequests, AUTH!Receive(h, r)
    PROVE  /\ AuthTyped' /\ AuthOnly(h) /\ UNCHANGED <<lock, fails, guesses>>
           /\ pc[h] \notin AuthWatched /\ pc'[h] \notin AuthWatched
<1>1. PICK label \in {"find", "lock?", "code?", "token?", "mpin?"} : label = AUTH!FirstLabel[r.op]
    BY AuthConstants DEF AUTH!FirstLabel
<1>2. /\ pc[h] = "idle" /\ pc' = [pc EXCEPT ![h] = label] /\ req' = [req EXCEPT ![h] = r]
      /\ UNCHANGED <<setting, lock, fails, guesses>>
    BY <1>1 DEF AUTH!Receive, AUTH!redis
<1>3. label \in AUTH!Labels /\ label \notin AuthWatched /\ "idle" \notin AuthWatched
    BY DEF AUTH!Labels, AuthWatched, AuthTrying, AuthFailing
<1> QED
    BY <1>2, <1>3 DEF AuthTyped, AuthOnly

\* What a move of h does to the numbers of its phone, and not to those of others.
LEMMA AuthNumbers ==
    ASSUME AuthTyped, NEW h \in Handlers, AuthOnly(h), pc[h] # "idle",
           \/ req'[h] = req[h]
           \/ pc'[h] = "idle"
    PROVE  \A p \in Phones : \A labels : "idle" \notin labels =>
             /\ Cardinality(AuthAt(p, labels)) \in Nat /\ Cardinality(AuthAt(p, labels)') \in Nat
             /\ p # req[h].phone =>
                  Cardinality(AuthAt(p, labels)') = Cardinality(AuthAt(p, labels))
             /\ p = req[h].phone =>
                  Cardinality(AuthAt(p, labels)') =
                    Cardinality(AuthAt(p, labels))
                      + (IF pc'[h] \in labels THEN 1 ELSE 0) - (IF pc[h] \in labels THEN 1 ELSE 0)
<1> TAKE p \in Phones
<1> TAKE labels
<1> HAVE "idle" \notin labels
<1>1. Cardinality(AuthAt(p, labels)) \in Nat /\ Cardinality(AuthAt(p, labels)') \in Nat
    BY AuthSize
<1>2. pc'[h] \in labels => req'[h] = req[h]
    OBVIOUS
<1>3. Cardinality(AuthAt(p, labels)') =
        Cardinality(AuthAt(p, labels))
          + (IF pc'[h] \in labels /\ req'[h].phone = p THEN 1 ELSE 0)
          - (IF pc[h] \in labels /\ req[h].phone = p THEN 1 ELSE 0)
    BY AuthMoves DEF AuthOnly
<1>4. CASE p # req[h].phone
    BY <1>1, <1>2, <1>3, <1>4
<1>5. CASE p = req[h].phone
    BY <1>1, <1>2, <1>3, <1>5
<1> QED
    BY <1>1, <1>4, <1>5

\* The phones a move of h is not about stay bounded.
LEMMA AuthOthers ==
    ASSUME AuthTyped, NEW h \in Handlers, AuthOnly(h), pc[h] # "idle",
           req'[h] = req[h] \/ pc'[h] = "idle",
           NEW p \in Phones, p # req[h].phone, AuthBounded(p),
           p \in lock' <=> p \in lock, fails'[p] = fails[p], guesses'[p] = guesses[p]
    PROVE  AuthBounded(p)'
<1>1. "idle" \notin AuthTrying /\ "idle" \notin AuthFailing
    BY DEF AuthTrying, AuthFailing
<1>2. /\ Cardinality(AuthAt(p, AuthTrying)') = Cardinality(AuthAt(p, AuthTrying))
      /\ Cardinality(AuthAt(p, AuthFailing)') = Cardinality(AuthAt(p, AuthFailing))
    BY <1>1, AuthNumbers
<1>3. AuthCounted(p)' = AuthCounted(p)
    BY DEF AuthCounted
<1>4. \A g \in Handlers : pc'[g] = "clear" /\ req'[g].phone = p => pc[g] = "clear" /\ req[g].phone = p
    BY DEF AuthOnly
<1> QED
    BY <1>2, <1>3, <1>4 DEF AuthBounded

\* The lock is looked at before the password.
LEMMA AuthCheckLock ==
    ASSUME AuthTyped, NEW h \in Handlers, AUTH!CheckLock(h)
    PROVE  AuthTyped' /\ ((\A p \in Phones : AuthBounded(p)) => \A p \in Phones : AuthBounded(p)')
<1> DEFINE q == req[h].phone
<1>1. /\ pc[h] = "lock?" /\ UNCHANGED <<setting, lock, fails, guesses>>
      /\ IF q \in lock THEN AUTH!End(h) ELSE AUTH!Goto(h, "password?")
    BY DEF AUTH!CheckLock, AUTH!redis
<1>2. q \in Phones
    BY <1>1, AuthServes
<1>3. /\ AuthTyped' /\ AuthOnly(h)
      /\ \/ pc'[h] = "idle" /\ q \in lock
         \/ pc'[h] = "password?" /\ req'[h] = req[h] /\ q \notin lock
  <2>1. "password?" \in AUTH!Labels /\ fails' \in [Phones -> Nat] /\ guesses' \in [Phones -> Nat]
    BY <1>1 DEF AUTH!Labels, AuthTyped
  <2>2. CASE q \in lock
    BY <1>1, <2>1, <2>2, AuthEnds
  <2>3. CASE q \notin lock
    BY <1>1, <2>1, <2>3, AuthGoes
  <2> QED
    BY <2>2, <2>3
<1>4. ASSUME \A p \in Phones : AuthBounded(p)
      PROVE  \A p \in Phones : AuthBounded(p)'
  <2>1. CASE pc'[h] = "idle"
    <3>1. "lock?" \notin AuthWatched /\ "idle" \notin AuthWatched
        BY DEF AuthWatched, AuthTrying, AuthFailing
    <3> QED
        BY <1>1, <1>3, <1>4, <2>1, <3>1, AuthMovesOn
  <2>2. CASE pc'[h] = "password?" /\ req'[h] = req[h] /\ q \notin lock
    <3> TAKE p \in Phones
    <3>1. CASE p # q
        BY <1>1, <1>3, <1>4, <2>2, <3>1, AuthOthers
    <3>2. CASE p = q
      <4>1. AuthCounted(p)' = AuthCounted(p) /\ p \notin lock'
        BY <1>1, <2>2, <3>2 DEF AuthCounted
      <4>2. Cardinality(AuthAt(p, AuthFailing)') = Cardinality(AuthAt(p, AuthFailing))
        <5>1. "idle" \notin AuthFailing /\ "lock?" \notin AuthFailing /\ "password?" \notin AuthFailing
            BY DEF AuthFailing
        <5> QED
            BY <1>1, <1>3, <2>2, <3>2, <5>1, AuthNumbers
      <4>3. \A g \in Handlers : ~ (pc'[g] = "clear" /\ req'[g].phone = p)
        BY <1>3, <1>4, <2>2, <3>2 DEF AuthOnly, AuthBounded
      <4> QED
        BY <1>1, <1>4, <2>2, <3>2, <4>1, <4>2, <4>3 DEF AuthBounded
    <3> QED
        BY <3>1, <3>2
  <2> QED
    BY <1>3, <2>1, <2>2
<1> QED
    BY <1>3, <1>4

AuthAll == \A p \in Phones : AuthBounded(p)

\* A wrong password is a try by one who is past the check, to be counted.
LEMMA AuthTestPassword ==
    ASSUME AuthTyped, NEW h \in Handlers, AUTH!TestPassword(h)
    PROVE  AuthTyped' /\ (AuthAll => AuthAll')
<1> DEFINE q == req[h].phone
<1>1. /\ pc[h] = "password?" /\ UNCHANGED <<setting, lock, fails>>
      /\ \/ AUTH!Goto(h, "count") /\ guesses' = [guesses EXCEPT ![q] = @ + 1]
         \/ (AUTH!Goto(h, "forgive") \/ AUTH!End(h)) /\ guesses' = guesses
    BY DEF AUTH!TestPassword, AUTH!redis
<1>2. q \in Phones
    BY <1>1, AuthServes
<1>3. /\ fails' \in [Phones -> Nat] /\ guesses' \in [Phones -> Nat]
      /\ "count" \in AUTH!Labels /\ "forgive" \in AUTH!Labels
  <2>1. fails' \in [Phones -> Nat] /\ guesses' \in [Phones -> Nat]
    BY <1>1 DEF AuthTyped
  <2>2. "count" \in AUTH!Labels /\ "forgive" \in AUTH!Labels
    BY DEF AUTH!Labels
  <2> QED
    BY <2>1, <2>2
<1>4. /\ AuthTyped' /\ AuthOnly(h)
      /\ \/ /\ pc'[h] = "count" /\ req'[h] = req[h]
            /\ guesses' = [guesses EXCEPT ![q] = @ + 1]
         \/ /\ pc'[h] = "idle" \/ (pc'[h] = "forgive" /\ req'[h] = req[h])
            /\ guesses' = guesses
    BY <1>1, <1>3, AuthGoes, AuthEnds
<1>5. ASSUME AuthAll, NEW p \in Phones
      PROVE  AuthBounded(p)'
  <2>1. CASE p # q
    <3>1. guesses'[p] = guesses[p]
        BY <1>4, <2>1 DEF AuthTyped
    <3> QED
        BY <1>1, <1>4, <1>5, <2>1, <3>1, AuthOthers DEF AuthAll
  <2>2. CASE p = q
    <3>1. /\ "idle" \notin AuthFailing /\ "password?" \notin AuthFailing /\ "count" \in AuthFailing
          /\ "forgive" \notin AuthFailing
          /\ "idle" \notin AuthTrying /\ "password?" \in AuthTrying /\ "count" \notin AuthTrying
          /\ "forgive" \notin AuthTrying
        BY DEF AuthFailing, AuthTrying
    <3>2. /\ Cardinality(AuthAt(p, AuthFailing)) \in Nat /\ Cardinality(AuthAt(p, AuthTrying)) \in Nat
          /\ Cardinality(AuthAt(p, AuthFailing)') =
               Cardinality(AuthAt(p, AuthFailing)) + (IF pc'[h] = "count" THEN 1 ELSE 0)
          /\ Cardinality(AuthAt(p, AuthTrying)') = Cardinality(AuthAt(p, AuthTrying)) - 1
        BY <1>1, <1>4, <2>2, <3>1, AuthNumbers
    <3>3. guesses[p] \in Nat /\ guesses'[p] = guesses[p] + (IF pc'[h] = "count" THEN 1 ELSE 0)
        BY <1>4, <2>2 DEF AuthTyped
    <3>4. AuthCounted(p)' = AuthCounted(p) /\ AuthCounted(p) \in Int /\ (p \in lock' <=> p \in lock)
        BY <1>1, AuthConstants DEF AuthCounted, AuthTyped
    <3>5. \A g \in Handlers : pc'[g] = "clear" /\ req'[g].phone = p
                               => pc[g] = "clear" /\ req[g].phone = p
        BY <1>4 DEF AuthOnly
    <3>6. Cardinality(Handlers) \in Nat /\ LockoutAfter \in Nat
        BY AuthConstants
    <3>7. AuthBounded(p)
        BY <1>5 DEF AuthAll
    <3>8. p \notin lock => guesses'[p] <= AuthCounted(p) + Cardinality(AuthAt(p, AuthFailing)')
        BY <3>2, <3>3, <3>4, <3>7 DEF AuthBounded
    <3>9. p \in lock => guesses'[p] + Cardinality(AuthAt(p, AuthTrying)')
                            <= LockoutAfter - 1 + Cardinality(Handlers)
        BY <3>2, <3>3, <3>6, <3>7 DEF AuthBounded
    <3>10. \A g \in Handlers : pc'[g] = "clear" /\ req'[g].phone = p => p \in lock'
        BY <3>4, <3>5, <3>7 DEF AuthBounded
    <3> QED
        BY <3>4, <3>8, <3>9, <3>10 DEF AuthBounded
  <2> QED
    BY <2>1, <2>2
<1> QED
    BY <1>4, <1>5 DEF AuthAll

\* A failure is counted: what was at hand is counted now, or about to lock.
LEMMA AuthCountFailure ==
    ASSUME AuthTyped, NEW h \in Handlers, AUTH!CountFailure(h)
    PROVE  AuthTyped' /\ (AuthAll => AuthAll')
<1> DEFINE q == req[h].phone
           next == AUTH!AfterCount(fails[q] + 1)
<1>1. /\ pc[h] = "count" /\ UNCHANGED <<setting, lock, guesses>>
      /\ fails' = [fails EXCEPT ![q] = @ + 1]
      /\ IF next = "idle" THEN AUTH!End(h) ELSE AUTH!Goto(h, next)
    BY DEF AUTH!CountFailure
<1>2. q \in Phones
    BY <1>1, AuthServes
<1>3. /\ fails' \in [Phones -> Nat] /\ guesses' \in [Phones -> Nat]
      /\ "expire" \in AUTH!Labels /\ "lock" \in AUTH!Labels
  <2>1. fails' \in [Phones -> Nat] /\ guesses' \in [Phones -> Nat]
    <3>1. fails' = [fails EXCEPT ![q] = @ + 1] /\ guesses' = guesses
        BY <1>1
    <3>2. fails \in [Phones -> Nat] /\ guesses \in [Phones -> Nat]
        BY DEF AuthTyped
    <3> HIDE DEF q, next
    <3>3. fails[q] + 1 \in Nat
        BY <1>2, <3>2
    <3> QED
        BY <3>1, <3>2, <3>3
  <2>2. "expire" \in AUTH!Labels /\ "lock" \in AUTH!Labels
    BY DEF AUTH!Labels
  <2> QED
    BY <2>1, <2>2
<1>4. fails[q] \in Nat /\ fails'[q] = fails[q] + 1
    BY <1>1, <1>2 DEF AuthTyped
<1>5. /\ next \in {"expire", "lock", "idle"}
      /\ next = "expire" <=> fails[q] = 0
      /\ next = "lock" <=> fails[q] # 0 /\ fails[q] + 1 >= LockoutAfter
    BY <1>4 DEF AUTH!AfterCount
<1> HIDE DEF next
<1>6. AuthTyped' /\ AuthOnly(h) /\ pc'[h] = next /\ (next = "idle" \/ req'[h] = req[h])
    BY <1>1, <1>3, <1>5, AuthGoes, AuthEnds
<1>7. ASSUME AuthAll, NEW p \in Phones
      PROVE  AuthBounded(p)'
  <2>1. CASE p # q
    <3>1. fails'[p] = fails[p]
        BY <1>1, <2>1 DEF AuthTyped
    <3> QED
        BY <1>1, <1>6, <1>7, <2>1, <3>1, AuthOthers DEF AuthAll
  <2>2. CASE p = q
    <3>1. /\ "idle" \notin AuthFailing /\ "count" \in AuthFailing /\ "lock" \in AuthFailing
          /\ "expire" \in AuthFailing <=> LockoutAfter = 1
          /\ "idle" \notin AuthTrying /\ "count" \notin AuthTrying
          /\ next \notin AuthTrying
        BY <1>5 DEF AuthFailing, AuthTrying
    <3>2. /\ Cardinality(AuthAt(p, AuthFailing)) \in Nat
          /\ Cardinality(AuthAt(p, AuthFailing)') =
               Cardinality(AuthAt(p, AuthFailing)) + (IF next \in AuthFailing THEN 1 ELSE 0) - 1
          /\ Cardinality(AuthAt(p, AuthTrying)') = Cardinality(AuthAt(p, AuthTrying))
        BY <1>1, <1>6, <2>2, <3>1, AuthNumbers
    <3>3. AuthCounted(p)' = AuthCounted(p) + (IF next \in AuthFailing THEN 0 ELSE 1)
      <4>1. LockoutAfter \in Nat \ {0}
        BY AuthConstants
      <4>2. next \in AuthFailing <=> fails[q] + 1 >= LockoutAfter
        BY <1>4, <1>5, <3>1, <4>1
      <4> QED
        BY <1>4, <2>2, <4>1, <4>2 DEF AuthCounted
    <3>4. AuthCounted(p) \in Int /\ guesses[p] \in Nat
        BY AuthConstants DEF AuthCounted, AuthTyped
    <3>5. \A g \in Handlers : pc'[g] = "clear" /\ req'[g].phone = p
                               => pc[g] = "clear" /\ req[g].phone = p
        BY <1>5, <1>6 DEF AuthOnly
    <3>6. AuthBounded(p)
        BY <1>7 DEF AuthAll
    <3>7. p \notin lock => guesses[p] <= AuthCounted(p)' + Cardinality(AuthAt(p, AuthFailing)')
        BY <3>2, <3>3, <3>4, <3>6 DEF AuthBounded
    <3> QED
        BY <1>1, <3>2, <3>5, <3>6, <3>7 DEF AuthBounded
  <2> QED
    BY <2>1, <2>2
<1> QED
    BY <1>6, <1>7 DEF AuthAll

\* The expiry is armed; with a limit of one the lock is next.
LEMMA AuthArmExpiry ==
    ASSUME AuthTyped, NEW h \in Handlers, AUTH!ArmExpiry(h)
    PROVE  AuthTyped' /\ (AuthAll => AuthAll')
<1> DEFINE q == req[h].phone
<1>1. /\ pc[h] = "expire" /\ UNCHANGED <<setting, lock, fails, guesses>>
      /\ IF LockoutAfter = 1 THEN AUTH!Goto(h, "lock") ELSE AUTH!End(h)
    BY DEF AUTH!ArmExpiry
<1>2. q \in Phones
    BY <1>1, AuthServes
<1>3. fails' \in [Phones -> Nat] /\ guesses' \in [Phones -> Nat] /\ "lock" \in AUTH!Labels
  <2>1. fails' \in [Phones -> Nat] /\ guesses' \in [Phones -> Nat]
    BY <1>1 DEF AuthTyped
  <2>2. "lock" \in AUTH!Labels
    BY DEF AUTH!Labels
  <2> QED
    BY <2>1, <2>2
<1>4. CASE LockoutAfter # 1
  <2>1. AuthTyped' /\ AuthOnly(h) /\ pc'[h] = "idle"
    BY <1>1, <1>3, <1>4, AuthEnds
  <2>2. "expire" \notin AuthWatched /\ "idle" \notin AuthWatched
    BY <1>4 DEF AuthWatched, AuthTrying, AuthFailing
  <2> QED
    BY <1>1, <2>1, <2>2, AuthMovesOn DEF AuthAll
<1>5. CASE LockoutAfter = 1
  <2>1. AuthTyped' /\ AuthOnly(h) /\ pc'[h] = "lock" /\ req'[h] = req[h]
    BY <1>1, <1>3, <1>5, AuthGoes
  <2>2. ASSUME AuthAll, NEW p \in Phones
        PROVE  AuthBounded(p)'
    <3>1. CASE p # q
        BY <1>1, <2>1, <2>2, <3>1, AuthOthers DEF AuthAll
    <3>2. CASE p = q
      <4>1. /\ "idle" \notin AuthFailing /\ "expire" \in AuthFailing /\ "lock" \in AuthFailing
            /\ "idle" \notin AuthTrying /\ "expire" \notin AuthTrying /\ "lock" \notin AuthTrying
        BY <1>5 DEF AuthFailing, AuthTrying
      <4>2. /\ Cardinality(AuthAt(p, AuthFailing)') = Cardinality(AuthAt(p, AuthFailing))
            /\ Cardinality(AuthAt(p, AuthTrying)') = Cardinality(AuthAt(p, AuthTrying))
        BY <1>1, <2>1, <3>2, <4>1, AuthNumbers
      <4>3. AuthCounted(p)' = AuthCounted(p)
        BY <1>1 DEF AuthCounted
      <4>4. \A g \in Handlers : pc'[g] = "clear" /\ req'[g].phone = p
                                 => pc[g] = "clear" /\ req[g].phone = p
        BY <2>1 DEF AuthOnly
      <4> QED
        BY <1>1, <2>2, <4>2, <4>3, <4>4 DEF AuthBounded, AuthAll
    <3> QED
        BY <3>1, <3>2
  <2> QED
    BY <2>1, <2>2 DEF AuthAll
<1> QED
    BY <1>4, <1>5

\* The lock is set: who failed is counted among the limit, who tries has a try left.
LEMMA AuthSetLock ==
    ASSUME AuthTyped, NEW h \in Handlers, AUTH!SetLock(h)
    PROVE  AuthTyped' /\ (AuthAll => AuthAll')
<1> DEFINE q == req[h].phone
<1>1. /\ pc[h] = "lock" /\ UNCHANGED <<setting, fails, guesses>>
      /\ lock' = lock \cup {q} /\ AUTH!Goto(h, "clear")
    BY DEF AUTH!SetLock
<1>2. q \in Phones
    BY <1>1, AuthServes
<1>3. fails' \in [Phones -> Nat] /\ guesses' \in [Phones -> Nat] /\ "clear" \in AUTH!Labels
  <2>1. fails' \in [Phones -> Nat] /\ guesses' \in [Phones -> Nat]
    BY <1>1 DEF AuthTyped
  <2>2. "clear" \in AUTH!Labels
    BY DEF AUTH!Labels
  <2> QED
    BY <2>1, <2>2
<1>4. AuthTyped' /\ AuthOnly(h) /\ pc'[h] = "clear" /\ req'[h] = req[h]
    BY <1>1, <1>3, AuthGoes
<1>5. ASSUME AuthAll, NEW p \in Phones
      PROVE  AuthBounded(p)'
  <2>1. CASE p # q
    BY <1>1, <1>4, <1>5, <2>1, AuthOthers DEF AuthAll
  <2>2. CASE p = q
    <3>1. "idle" \notin AuthTrying /\ "clear" \notin AuthTrying /\ "lock" \notin AuthTrying
        BY DEF AuthTrying
    <3>2. /\ Cardinality(AuthAt(p, AuthTrying)') = Cardinality(AuthAt(p, AuthTrying))
          /\ Cardinality(AuthAt(p, AuthTrying)) \in Nat
        BY <1>1, <1>4, <2>2, <3>1, AuthNumbers
    <3>3. guesses[p] + Cardinality(AuthAt(p, AuthTrying)) <= LockoutAfter - 1 + Cardinality(Handlers)
      <4>1. AuthBounded(p)
        BY <1>5 DEF AuthAll
      <4>2. CASE p \in lock
        BY <4>1, <4>2 DEF AuthBounded
      <4>3. CASE p \notin lock
        <5>1. guesses[p] <= AuthCounted(p) + Cardinality(AuthAt(p, AuthFailing))
            BY <4>1, <4>3 DEF AuthBounded
        <5>2. /\ Cardinality(AuthAt(p, AuthFailing)) + Cardinality(AuthAt(p, AuthTrying))
                   <= Cardinality(Handlers)
              /\ Cardinality(AuthAt(p, AuthFailing)) \in Nat
            BY AuthRoom, AuthSize
        <5>3. /\ AuthCounted(p) <= LockoutAfter - 1 /\ AuthCounted(p) \in Int
              /\ guesses[p] \in Nat /\ LockoutAfter \in Nat /\ Cardinality(Handlers) \in Nat
            BY AuthConstants DEF AuthCounted, AuthTyped
        <5> QED
            BY <3>2, <5>1, <5>2, <5>3
      <4> QED
        BY <4>2, <4>3
    <3>4. p \in lock' /\ guesses' = guesses
        BY <1>1, <2>2
    <3> QED
        BY <3>2, <3>3, <3>4 DEF AuthBounded
  <2> QED
    BY <2>1, <2>2
<1> QED
    BY <1>4, <1>5 DEF AuthAll

\* The counter is deleted under the lock.
LEMMA AuthClearFailures ==
    ASSUME AuthTyped, NEW h \in Handlers, AUTH!ClearFailures(h)
    PROVE  AuthTyped' /\ (AuthAll => AuthAll')
<1> DEFINE q == req[h].phone
<1>1. /\ pc[h] = "clear" /\ UNCHANGED <<setting, lock, guesses>>
      /\ fails' = [fails EXCEPT ![q] = 0] /\ AUTH!Goto(h, "status")
    BY DEF AUTH!ClearFailures, AUTH!StartOver
<1>2. q \in Phones
    BY <1>1, AuthServes
<1>3. fails' \in [Phones -> Nat] /\ guesses' \in [Phones -> Nat] /\ "status" \in AUTH!Labels
  <2>1. fails' = [fails EXCEPT ![q] = 0] /\ guesses' = guesses
    BY <1>1
  <2>2. fails' \in [Phones -> Nat] /\ guesses' \in [Phones -> Nat]
    BY <2>1 DEF AuthTyped
  <2>3. "status" \in AUTH!Labels
    BY DEF AUTH!Labels
  <2> QED
    BY <2>2, <2>3
<1>4. AuthTyped' /\ AuthOnly(h) /\ pc'[h] = "status" /\ req'[h] = req[h]
    BY <1>1, <1>3, AuthGoes
<1>5. ASSUME AuthAll, NEW p \in Phones
      PROVE  AuthBounded(p)'
  <2>1. CASE p # q
    <3>1. fails'[p] = fails[p]
        BY <1>1, <2>1 DEF AuthTyped
    <3> QED
        BY <1>1, <1>4, <1>5, <2>1, <3>1, AuthOthers DEF AuthAll
  <2>2. CASE p = q
    <3>1. "idle" \notin AuthTrying /\ "clear" \notin AuthTrying /\ "status" \notin AuthTrying
        BY DEF AuthTrying
    <3>2. Cardinality(AuthAt(p, AuthTrying)') = Cardinality(AuthAt(p, AuthTrying))
        BY <1>1, <1>4, <2>2, <3>1, AuthNumbers
    <3>3. p \in lock /\ AuthBounded(p) /\ p \in lock'
        BY <1>1, <1>5, <2>2 DEF AuthAll, AuthBounded
    <3> QED
        BY <1>1, <3>2, <3>3 DEF AuthBounded
  <2> QED
    BY <2>1, <2>2
<1> QED
    BY <1>4, <1>5 DEF AuthAll

\* Where the tries start over nothing is at stake.
LEMMA AuthFresh ==
    ASSUME AuthTyped, AuthTyped', NEW p \in Phones, guesses'[p] = 0, p \in lock' => p \in lock,
           \A g \in Handlers : pc'[g] = "clear" /\ req'[g].phone = p => p \in lock',
           p \in lock' => Cardinality(AuthAt(p, AuthTrying)') <= Cardinality(AuthAt(p, AuthTrying)),
           AuthBounded(p)
    PROVE  AuthBounded(p)'
<1>1. /\ Cardinality(AuthAt(p, AuthFailing)') \in Nat /\ Cardinality(AuthAt(p, AuthTrying)) \in Nat
      /\ Cardinality(AuthAt(p, AuthTrying)') \in Nat
    BY AuthSize
<1>2. /\ AuthCounted(p)' >= 0 /\ AuthCounted(p)' \in Int /\ guesses[p] \in Nat
      /\ LockoutAfter \in Nat /\ Cardinality(Handlers) \in Nat
    BY AuthConstants DEF AuthCounted, AuthTyped
<1>3. p \notin lock' => guesses'[p] <= AuthCounted(p)' + Cardinality(AuthAt(p, AuthFailing)')
    BY <1>1, <1>2
<1>4. p \in lock' => guesses'[p] + Cardinality(AuthAt(p, AuthTrying)')
                        <= LockoutAfter - 1 + Cardinality(Handlers)
    BY <1>1, <1>2 DEF AuthBounded
<1> QED
    BY <1>3, <1>4 DEF AuthBounded

\* The right password starts over.
LEMMA AuthForgive ==
    ASSUME AuthTyped, NEW h \in Handlers, AUTH!Forgive(h)
    PROVE  AuthTyped' /\ (AuthAll => AuthAll')
<1> DEFINE q == req[h].phone
<1>1. /\ pc[h] = "forgive" /\ UNCHANGED <<setting, lock>>
      /\ fails' = [fails EXCEPT ![q] = 0] /\ guesses' = [guesses EXCEPT ![q] = 0]
      /\ AUTH!Goto(h, "issue")
    BY DEF AUTH!Forgive, AUTH!StartOver
<1>2. q \in Phones
    BY <1>1, AuthServes
<1>3. fails' \in [Phones -> Nat] /\ guesses' \in [Phones -> Nat] /\ "issue" \in AUTH!Labels
  <2>1. fails' = [fails EXCEPT ![q] = 0] /\ guesses' = [guesses EXCEPT ![q] = 0]
    BY <1>1
  <2>2. fails' \in [Phones -> Nat] /\ guesses' \in [Phones -> Nat]
    BY <2>1 DEF AuthTyped
  <2>3. "issue" \in AUTH!Labels
    BY DEF AUTH!Labels
  <2> QED
    BY <2>2, <2>3
<1>4. AuthTyped' /\ AuthOnly(h) /\ pc'[h] = "issue" /\ req'[h] = req[h]
    BY <1>1, <1>3, AuthGoes
<1>5. ASSUME AuthAll, NEW p \in Phones
      PROVE  AuthBounded(p)'
  <2>1. CASE p # q
    <3>1. fails'[p] = fails[p] /\ guesses'[p] = guesses[p]
        BY <1>1, <2>1 DEF AuthTyped
    <3> QED
        BY <1>1, <1>4, <1>5, <2>1, <3>1, AuthOthers DEF AuthAll
  <2>2. CASE p = q
    <3>1. "idle" \notin AuthTrying /\ "forgive" \notin AuthTrying /\ "issue" \notin AuthTrying
        BY DEF AuthTrying
    <3>2. /\ Cardinality(AuthAt(p, AuthTrying)') = Cardinality(AuthAt(p, AuthTrying))
          /\ Cardinality(AuthAt(p, AuthTrying)) \in Nat
        BY <1>1, <1>4, <2>2, <3>1, AuthNumbers
    <3>3. guesses'[p] = 0
        BY <1>1, <2>2 DEF AuthTyped
    <3>4. \A g \in Handlers : pc'[g] = "clear" /\ req'[g].phone = p
                               => pc[g] = "clear" /\ req[g].phone = p
        BY <1>4 DEF AuthOnly
    <3>5. AuthBounded(p)
        BY <1>5 DEF AuthAll
    <3>6. \A g \in Handlers : pc'[g] = "clear" /\ req'[g].phone = p => p \in lock'
        BY <1>1, <3>4, <3>5 DEF AuthBounded
    <3> QED
        BY <1>1, <1>4, <3>2, <3>3, <3>5, <3>6, AuthFresh
  <2> QED
    BY <2>1, <2>2
<1> QED
    BY <1>4, <1>5 DEF AuthAll

\* Time passes: codes and tokens expire, a lock and a counter too.
LEMMA AuthExpires ==
    ASSUME AuthTyped, NEW q \in Phones,
           AUTH!CodeExpires(q) \/ AUTH!LockExpires(q) \/ AUTH!FailuresExpire(q) \/ AUTH!TokenExpires(q)
    PROVE  AuthTyped' /\ (AuthCalm /\ AuthAll => AuthAll')
<1>1. UNCHANGED <<setting, pc, req>>
    BY DEF AUTH!CodeExpires, AUTH!LockExpires, AUTH!FailuresExpire, AUTH!TokenExpires, AUTH!redis
<1>2. \A p, labels : AuthAt(p, labels)' = AuthAt(p, labels)
    BY <1>1 DEF AuthAt
<1>3. CASE UNCHANGED <<lock, fails, guesses>>
  <2>1. AuthTyped'
    BY <1>1, <1>3 DEF AuthTyped
  <2>2. \A p : AuthCounted(p)' = AuthCounted(p)
    BY <1>3 DEF AuthCounted
  <2>3. AuthAll => AuthAll'
    BY <1>1, <1>2, <1>3, <2>2 DEF AuthAll, AuthBounded
  <2> QED
    BY <2>1, <2>3
<1>4. CASE AUTH!LockExpires(q) \/ AUTH!FailuresExpire(q)
  <2>1. /\ guesses' = [guesses EXCEPT ![q] = 0]
        /\ fails' = fails \/ fails' = [fails EXCEPT ![q] = 0]
        /\ \/ lock' = lock
           \/ lock' = lock \ {q} /\ (AuthCalm => \A h \in Handlers : pc[h] = "clear" => req[h].phone # q)
    BY <1>4 DEF AUTH!LockExpires, AUTH!FailuresExpire, AUTH!StartOver, AuthCalm, AUTH!Fault
  <2>2. AuthTyped'
    <3>1. fails' \in [Phones -> Nat] /\ guesses' \in [Phones -> Nat]
        BY <2>1 DEF AuthTyped
    <3> QED
        BY <1>1, <3>1 DEF AuthTyped
  <2>3. ASSUME AuthCalm, AuthAll, NEW p \in Phones
        PROVE  AuthBounded(p)'
    <3>1. AuthBounded(p)
        BY <2>3 DEF AuthAll
    <3>2. CASE p # q
      <4>1. fails'[p] = fails[p] /\ guesses'[p] = guesses[p] /\ (p \in lock' <=> p \in lock)
        BY <2>1, <3>2 DEF AuthTyped
      <4>2. AuthCounted(p)' = AuthCounted(p)
        BY <4>1 DEF AuthCounted
      <4> QED
        BY <1>1, <1>2, <3>1, <4>1, <4>2 DEF AuthBounded
    <3>3. CASE p = q
      <4>1. guesses'[p] = 0
        BY <2>1, <3>3 DEF AuthTyped
      <4>2. p \in lock' => p \in lock
        BY <2>1
      <4>3. \A g \in Handlers : pc'[g] = "clear" /\ req'[g].phone = p => p \in lock'
        BY <1>1, <2>1, <2>3, <3>1, <3>3 DEF AuthBounded
      <4>4. Cardinality(AuthAt(p, AuthTrying)') <= Cardinality(AuthAt(p, AuthTrying))
        BY <1>2, AuthSize
      <4> QED
        BY <2>2, <3>1, <4>1, <4>2, <4>3, <4>4, AuthFresh
    <3> QED
        BY <3>2, <3>3
  <2> QED
    BY <2>2, <2>3 DEF AuthAll
<1>5. CASE AUTH!CodeExpires(q) \/ AUTH!TokenExpires(q)
    BY <1>3, <1>5 DEF AUTH!CodeExpires, AUTH!TokenExpires, AUTH!redis
<1> QED
    BY <1>4, <1>5

\* A handler that dies leaves its tries uncounted, where handlers die.
LEMMA AuthDies ==
    ASSUME AuthTyped, NEW h \in Handlers, AUTH!Dies(h)
    PROVE  AuthTyped' /\ ~ AuthCalm'
<1>1. AUTH!End(h) /\ setting' = setting /\ fails' = fails /\ guesses' = guesses
      /\ AUTH!Fault("dies")
    BY DEF AUTH!Dies, AUTH!redis
<1>2. fails' \in [Phones -> Nat] /\ guesses' \in [Phones -> Nat]
    BY <1>1 DEF AuthTyped
<1>3. AuthTyped'
    BY <1>1, <1>2, AuthEnds
<1> QED
    BY <1>1, <1>3 DEF AuthCalm, AUTH!Fault

\* A step of a handler.
LEMMA AuthStep ==
    ASSUME AuthTyped, NEW h \in Handlers, AUTH!Step(h), AuthCalm => AuthAll
    PROVE  AuthTyped' /\ (AuthCalm' => AuthAll')
<1>1. setting' = setting
    BY DEF AUTH!Step, AUTH!FindPhone, AUTH!InsertUser, AUTH!SendOtp, AUTH!CompareCode,
           AUTH!DeleteCode, AUTH!MarkVerified, AUTH!LockStatus, AUTH!IssueTokens, AUTH!Refresh,
           AUTH!CompareMpin, AUTH!SetMpin, AUTH!CheckLock, AUTH!TestPassword, AUTH!CountFailure,
           AUTH!ArmExpiry, AUTH!SetLock, AUTH!ClearFailures, AUTH!Forgive
<1>2. AuthCalm' => AuthCalm
    BY <1>1 DEF AuthCalm
<1>3. CASE \/ AUTH!FindPhone(h) \/ AUTH!InsertUser(h) \/ AUTH!SendOtp(h)
           \/ AUTH!CompareCode(h) \/ AUTH!DeleteCode(h) \/ AUTH!MarkVerified(h)
           \/ AUTH!LockStatus(h) \/ AUTH!IssueTokens(h) \/ AUTH!Refresh(h)
           \/ AUTH!CompareMpin(h) \/ AUTH!SetMpin(h)
  <2>1. AuthTyped'
    BY <1>3, AuthAside
  <2>2. AuthAll => AuthAll'
    BY <1>3, AuthAside, AuthMovesOn DEF AuthAll
  <2> QED
    BY <1>2, <2>1, <2>2
<1>4. CASE AUTH!CheckLock(h)
    BY <1>2, <1>4, AuthCheckLock DEF AuthAll
<1>5. CASE AUTH!TestPassword(h)
    BY <1>2, <1>5, AuthTestPassword
<1>6. CASE AUTH!CountFailure(h)
    BY <1>2, <1>6, AuthCountFailure
<1>7. CASE AUTH!ArmExpiry(h)
    BY <1>2, <1>7, AuthArmExpiry
<1>8. CASE AUTH!SetLock(h)
    BY <1>2, <1>8, AuthSetLock
<1>9. CASE AUTH!ClearFailures(h)
    BY <1>2, <1>9, AuthClearFailures
<1>10. CASE AUTH!Forgive(h)
    BY <1>2, <1>10, AuthForgive
<1> QED
    BY <1>3, <1>4, <1>5, <1>6, <1>7, <1>8, <1>9, <1>10 DEF AUTH!Step

LEMMA AuthKept == AuthInv /\ [Next]_vars => AuthInv'
<1> SUFFICES ASSUME AuthInv, [Next]_vars, part' = "auth"
             PROVE  AuthTyped' /\ (AuthCalm' => AuthAll')
    BY DEF AuthInv, AuthAll
<1>1. part = "auth" /\ (AUTH!Next \/ UNCHANGED <<setting, authVars>>)
    BY AuthRuns
<1>2. AuthTyped /\ (AuthCalm => AuthAll)
    BY <1>1 DEF AuthInv, AuthAll
<1>3. ASSUME NEW h \in Handlers, NEW r \in AuthRequests, AUTH!Receive(h, r)
      PROVE  AuthTyped' /\ (AuthCalm' => AuthAll')
  <2>1. AuthCalm' => AuthCalm
    BY <1>3 DEF AuthCalm, AUTH!Receive
  <2>2. AuthTyped'
    BY <1>2, <1>3, AuthReceive
  <2>3. AuthAll => AuthAll'
    BY <1>2, <1>3, AuthReceive, AuthMovesOn DEF AuthAll
  <2> QED
    BY <1>2, <2>1, <2>2, <2>3
<1>4. ASSUME NEW h \in Handlers, AUTH!Step(h)
      PROVE  AuthTyped' /\ (AuthCalm' => AuthAll')
    BY <1>2, <1>4, AuthStep
<1>5. ASSUME NEW h \in Handlers, AUTH!Dies(h)
      PROVE  AuthTyped' /\ (AuthCalm' => AuthAll')
    BY <1>2, <1>5, AuthDies
<1>6. ASSUME NEW q \in Phones,
             AUTH!CodeExpires(q) \/ AUTH!LockExpires(q) \/ AUTH!FailuresExpire(q)
               \/ AUTH!TokenExpires(q)
      PROVE  AuthTyped' /\ (AuthCalm' => AuthAll')
  <2>1. AuthTyped' /\ (AuthCalm /\ AuthAll => AuthAll')
    BY <1>2, <1>6, AuthExpires
  <2>2. AuthCalm' => AuthCalm
    BY <1>6 DEF AuthCalm, AUTH!CodeExpires, AUTH!LockExpires, AUTH!FailuresExpire, AUTH!TokenExpires
  <2> QED
    BY <1>2, <2>1, <2>2
<1>7. ASSUME UNCHANGED <<setting, authVars>>
      PROVE  AuthTyped' /\ (AuthCalm' => AuthAll')
  <2>1. UNCHANGED <<setting, lock, fails, pc, req, guesses>>
    BY <1>7 DEF authVars
  <2>2. AuthTyped'
    BY <1>2, <2>1 DEF AuthTyped
  <2>3. ASSUME NEW p \in Phones PROVE AuthBounded(p)' = AuthBounded(p)
    BY <2>1 DEF AuthBounded, AuthCounted, AuthAt
  <2> QED
    BY <1>2, <2>1, <2>2, <2>3 DEF AuthAll, AuthCalm
<1>8. AUTH!Quiet => UNCHANGED <<setting, authVars>>
    BY DEF AUTH!Quiet, AUTH!vars, AUTH!redis, authVars
<1> QED
    BY <1>1, <1>3, <1>4, <1>5, <1>6, <1>7, <1>8 DEF AUTH!Next

LEMMA AuthStarts == Init => AuthInv
<1> SUFFICES ASSUME Init, part = "auth"
             PROVE  AuthTyped /\ \A p \in Phones : AuthBounded(p)
    BY DEF AuthInv
<1>1. AUTH!Idle
    BY DEF Init
<1>2. AuthTyped
  <2>1. "idle" \in AUTH!Labels
    BY DEF AUTH!Labels
  <2> QED
    BY <1>1, <2>1 DEF AUTH!Idle, AuthTyped
<1>3. ASSUME NEW p \in Phones PROVE AuthBounded(p)
  <2>1. p \notin lock /\ guesses[p] = 0 /\ fails[p] = 0 /\ \A h \in Handlers : pc[h] = "idle"
    BY <1>1 DEF AUTH!Idle
  <2>2. AuthCounted(p) >= 0 /\ AuthCounted(p) \in Int
    BY <2>1, AuthConstants DEF AuthCounted
  <2>3. Cardinality(AuthAt(p, AuthFailing)) \in Nat
    BY AuthSize
  <2> QED
    BY <2>1, <2>2, <2>3 DEF AuthBounded
<1> QED
    BY <1>2, <1>3

\* However the handlers of one phone interleave around the lock, the counter and its
\* reset, the wrong passwords between two fresh starts are at most the limit and one
\* for every other handler: of any number of handlers, with any limit.
THEOREM GuessesAreFew == Spec => []FewGuesses
<1>1. Init => AuthInv
    BY AuthStarts
<1>2. AuthInv /\ [Next]_vars => AuthInv'
    BY AuthKept
<1>3. AuthInv => FewGuesses
  <2> SUFFICES ASSUME AuthInv, part = "auth", AuthCalm, NEW p \in Phones
               PROVE  guesses[p] <= LockoutAfter - 1 + AUTH!Cardinality(Handlers)
    BY DEF FewGuesses, AUTH!FewGuesses, AuthCalm
  <2>1. AuthBounded(p) /\ guesses[p] \in Nat /\ fails[p] \in Nat
    BY DEF AuthInv, AuthTyped
  <2>2. AUTH!Cardinality(Handlers) = Cardinality(Handlers) /\ Cardinality(Handlers) \in Nat
        /\ LockoutAfter \in Nat \ {0}
    BY AuthConstants
  <2>3. /\ Cardinality(AuthAt(p, AuthFailing)) \in Nat /\ Cardinality(AuthAt(p, AuthTrying)) \in Nat
        /\ Cardinality(AuthAt(p, AuthFailing)) + Cardinality(AuthAt(p, AuthTrying))
             <= Cardinality(Handlers)
    BY AuthSize, AuthRoom
  <2>4. AuthCounted(p) <= LockoutAfter - 1 /\ AuthCounted(p) \in Int
    BY <2>1, <2>2 DEF AuthCounted
  <2> QED
    BY <2>1, <2>2, <2>3, <2>4 DEF AuthBounded
<1> QED
    BY <1>1, <1>2, <1>3, PTL DEF Spec

(***************************************************************************)
(* notification-service.                                                   *)
(***************************************************************************)
NtfCalm == setting.faults \subseteq {"fails", "slow"}
NtfSure == setting.faults \subseteq {"fails"}

NtfRow == [status : {"PENDING", "SENT", "FAILED"}, attempts : Nat, due : {"never", "later", "now"}]
NtfItem == [id : Nat, attempts : Nat]
NtfWork == [job : {"none", "message", "test", "retry"},
            at : {"idle", "insert", "send", "sent", "failed", "bury"},
            msg : SUBSET Messages, batch : Seq(NtfItem)]

NtfTyped ==
    /\ row \in Seq(NtfRow) /\ Len(row) <= NoticeRows
    /\ work \in [Workers -> NtfWork]
    /\ ntfSends \in [Ntf!Ids -> Nat] /\ ntfArrived \in [Ntf!Ids -> Nat]

\* The x-th row of a batch fits what is known of it: one to be dispatched is pending and
\* as it was read, the first of the batch may have been asked for once more.
NtfFits(sure, x, doing1, item, r, asks, gets) ==
    /\ doing1.job # "retry" => r.due = "never"
    /\ x # 1 \/ doing1.at = "send" =>
         /\ r.status = "PENDING" /\ item.attempts = r.attempts
         /\ asks <= r.attempts /\ (sure => gets = 0)
    /\ x = 1 /\ doing1.at \in {"sent", "failed"} =>
         /\ r.status = "PENDING" /\ item.attempts = r.attempts
         /\ asks <= r.attempts + 1
         /\ sure => gets <= 1 /\ (doing1.at = "failed" => gets = 0)
    /\ x = 1 /\ doing1.at = "bury" => r.status = "FAILED"
NtfHeld(w) ==
    /\ work[w].batch = << >> => work[w].at \in {"idle", "insert"}
    /\ work[w].batch # << >> => work[w].at \in {"send", "sent", "failed", "bury"}
    /\ \A x \in DOMAIN work[w].batch :
         LET item == work[w].batch[x]
         IN  /\ item.id \in DOMAIN row
             /\ NtfFits(NtfSure, x, work[w], item, row[item.id], ntfSends[item.id], ntfArrived[item.id])

\* Nobody has a row that somebody else has, or has it twice; one cron run at most.
NtfAlone ==
    \A v, w \in Workers : \A x \in DOMAIN work[v].batch, y \in DOMAIN work[w].batch :
        work[v].batch[x].id = work[w].batch[y].id => v = w /\ x = y
NtfOneRun == \A v, w \in Workers : work[v].job = "retry" /\ work[w].job = "retry" => v = w

\* The asks for one row: no more than its attempts, but for the one under way.
NtfTries(w, id) ==
    work[w].at \in {"sent", "failed"} /\ work[w].batch # << >> /\ work[w].batch[1].id = id
NtfCounts(sure, r, asks, gets) ==
    asks <= MaxAttempts /\ (sure => gets <= 1) /\ (r.status = "PENDING" => r.attempts < MaxAttempts)
NtfRests(sure, r, asks, gets) == r.status = "PENDING" => asks <= r.attempts /\ (sure => gets = 0)
NtfKnown(id) ==
    /\ NtfCounts(NtfSure, row[id], ntfSends[id], ntfArrived[id])
    /\ NtfRests(NtfSure, row[id], ntfSends[id], ntfArrived[id]) \/ \E w \in Workers : NtfTries(w, id)

NtfGood ==
    /\ NtfTyped /\ NtfAlone /\ NtfOneRun
    /\ \A w \in Workers : NtfHeld(w)
    /\ \A id \in DOMAIN row : NtfKnown(id)
    /\ \A id \in Ntf!Ids \ DOMAIN row : ntfSends[id] = 0 /\ ntfArrived[id] = 0
NtfInv == part = "notifications" /\ NtfCalm => NtfGood

\* A step while the notifications run is one of theirs.
LEMMA NtfRuns ==
    ASSUME [Next]_vars, part' = "notifications"
    PROVE  part = "notifications" /\ (Ntf!Next \/ UNCHANGED <<setting, notificationVars>>)
BY DEF Next, vars

LEMMA NtfConstants ==
    /\ NoticeRows \in Nat /\ MaxAttempts \in Nat \ {0} /\ Ntf!Ids = 1..NoticeRows
<1>1. Ntf!NotificationsAssumption
    BY ServicesAssumption
<1> QED
    BY <1>1 DEF Ntf!NotificationsAssumption, Ntf!Ids

LEMMA NtfResting == Ntf!Resting \in NtfWork
<1>1. << >> \in Seq(NtfItem)
    OBVIOUS
<1> QED
    BY <1>1 DEF Ntf!Resting, NtfWork

LEMMA NtfStarts == Init => NtfInv
<1> SUFFICES ASSUME Init, part = "notifications" PROVE NtfGood
    BY DEF NtfInv
<1>1. Ntf!Idle
    BY DEF Init
<1>2. row = << >> /\ DOMAIN row = {} /\ row \in Seq(NtfRow) /\ Len(row) = 0
    BY <1>1 DEF Ntf!Idle
<1>3. \A w \in Workers : work[w] = Ntf!Resting /\ work[w].batch = << >> /\ work[w].at = "idle"
                         /\ work[w].job = "none" /\ DOMAIN work[w].batch = {}
    BY <1>1 DEF Ntf!Idle, Ntf!Resting
<1>4. NtfTyped
    BY <1>1, <1>2, NtfConstants, NtfResting DEF Ntf!Idle, NtfTyped
<1>5. NtfAlone /\ NtfOneRun
    BY <1>3 DEF NtfAlone, NtfOneRun
<1>6. \A w \in Workers : NtfHeld(w)
    BY <1>3 DEF NtfHeld
<1> QED
    BY <1>1, <1>2, <1>4, <1>5, <1>6 DEF NtfGood, Ntf!Idle

\* What the types say of one row and of one worker.
LEMMA NtfShapes ==
    ASSUME NtfTyped
    PROVE  /\ DOMAIN row = 1..Len(row) /\ Len(row) \in Nat /\ Len(row) <= NoticeRows
           /\ DOMAIN row \subseteq Ntf!Ids
           /\ \A x \in DOMAIN row : row[x] \in NtfRow
           /\ \A x \in Ntf!Ids : ntfSends[x] \in Nat /\ ntfArrived[x] \in Nat
           /\ \A w \in Workers : work[w] \in NtfWork /\ work[w].batch \in Seq(NtfItem)
<1>1. DOMAIN row = 1..Len(row) /\ Len(row) \in Nat /\ \A x \in DOMAIN row : row[x] \in NtfRow
    BY DEF NtfTyped
<1>2. DOMAIN row \subseteq Ntf!Ids
    BY <1>1, NtfConstants DEF NtfTyped
<1> QED
    BY <1>1, <1>2 DEF NtfTyped, NtfWork

\* The row a worker is about: the first of its batch.
LEMMA NtfHead ==
    ASSUME NtfGood, NEW w \in Workers, work[w].at \in {"send", "sent", "failed", "bury"}
    PROVE  /\ work[w].batch # << >> /\ 1 \in DOMAIN work[w].batch
           /\ Ntf!Current(w) = work[w].batch[1] /\ work[w].batch[1] \in NtfItem
           /\ work[w].batch[1].id \in DOMAIN row
           /\ NtfFits(NtfSure, 1, work[w], work[w].batch[1], row[work[w].batch[1].id],
                      ntfSends[work[w].batch[1].id], ntfArrived[work[w].batch[1].id])
           /\ NtfKnown(work[w].batch[1].id)
<1>1. NtfTyped /\ NtfHeld(w) /\ work[w].batch \in Seq(NtfItem)
    BY NtfShapes DEF NtfGood
<1>2. work[w].batch # << >>
    BY <1>1 DEF NtfHeld
<1>3. 1 \in DOMAIN work[w].batch /\ work[w].batch[1] \in NtfItem
    BY <1>1, <1>2
<1>4. Ntf!Current(w) = work[w].batch[1]
    BY <1>1, <1>2 DEF Ntf!Current
<1>5. /\ work[w].batch[1].id \in DOMAIN row
      /\ NtfFits(NtfSure, 1, work[w], work[w].batch[1], row[work[w].batch[1].id],
                 ntfSends[work[w].batch[1].id], ntfArrived[work[w].batch[1].id])
    BY <1>1, <1>3 DEF NtfHeld
<1> QED
    BY <1>2, <1>3, <1>4, <1>5 DEF NtfGood

\* A step of w that writes no row but the first of its batch: what it does to w.
NtfAbout(w, id) ==
    /\ work[w].batch # << >> /\ work[w].batch[1].id = id
    /\ \A v \in Workers \ {w} : work'[v] = work[v]
    /\ setting' = setting /\ DOMAIN row' = DOMAIN row
    /\ \A x \in Ntf!Ids \ {id} : row'[x] = row[x] /\ ntfSends'[x] = ntfSends[x]
                                 /\ ntfArrived'[x] = ntfArrived[x]

\* What is written of one row.
NtfWrite(id, r, a, g) ==
    /\ id \in DOMAIN row /\ r \in NtfRow /\ a \in Nat /\ g \in Nat
    /\ row' = [row EXCEPT ![id] = r] /\ ntfSends' = [ntfSends EXCEPT ![id] = a]
    /\ ntfArrived' = [ntfArrived EXCEPT ![id] = g]

LEMMA NtfWrites ==
    ASSUME NtfGood, NEW id, NEW r, NEW a, NEW g, NtfWrite(id, r, a, g)
    PROVE  /\ row' \in Seq(NtfRow) /\ Len(row') = Len(row) /\ DOMAIN row' = DOMAIN row
           /\ ntfSends' \in [Ntf!Ids -> Nat] /\ ntfArrived' \in [Ntf!Ids -> Nat]
           /\ row'[id] = r /\ ntfSends'[id] = a /\ ntfArrived'[id] = g
           /\ \A x \in Ntf!Ids \ {id} : row'[x] = row[x] /\ ntfSends'[x] = ntfSends[x]
                                        /\ ntfArrived'[x] = ntfArrived[x]
<1>1. NtfTyped /\ DOMAIN row \subseteq Ntf!Ids
    BY NtfShapes DEF NtfGood
<1>2. /\ row' \in Seq(NtfRow) /\ Len(row') = Len(row) /\ DOMAIN row' = DOMAIN row
      /\ row'[id] = r
    BY <1>1 DEF NtfTyped, NtfWrite
<1>3. \A x \in Ntf!Ids \ {id} : row'[x] = row[x]
    BY <1>1 DEF NtfTyped, NtfWrite
<1>4. /\ ntfSends' \in [Ntf!Ids -> Nat] /\ ntfSends'[id] = a
      /\ \A x \in Ntf!Ids \ {id} : ntfSends'[x] = ntfSends[x]
    BY <1>1 DEF NtfTyped, NtfWrite
<1>5. /\ ntfArrived' \in [Ntf!Ids -> Nat] /\ ntfArrived'[id] = g
      /\ \A x \in Ntf!Ids \ {id} : ntfArrived'[x] = ntfArrived[x]
    BY <1>1 DEF NtfTyped, NtfWrite
<1> QED
    BY <1>2, <1>3, <1>4, <1>5

LEMMA NtfElsewhere ==
    ASSUME NtfGood, NEW w \in Workers, NEW id, NtfAbout(w, id)
    PROVE  /\ \A v \in Workers \ {w} : NtfHeld(v)'
           /\ \A x \in DOMAIN row \ {id} : NtfKnown(x)'
           /\ \A x \in Ntf!Ids \ DOMAIN row : ntfSends'[x] = 0 /\ ntfArrived'[x] = 0
<1>1. NtfTyped /\ DOMAIN row \subseteq Ntf!Ids /\ NtfSure' = NtfSure
    BY NtfShapes DEF NtfGood, NtfAbout, NtfSure
<1>2. 1 \in DOMAIN work[w].batch /\ id \in DOMAIN row
  <2>1. work[w].batch \in Seq(NtfItem) /\ work[w].batch # << >>
    BY <1>1, NtfShapes DEF NtfAbout
  <2>2. 1 \in DOMAIN work[w].batch
    BY <2>1
  <2> QED
    BY <2>2 DEF NtfGood, NtfHeld, NtfAbout
<1>3. ASSUME NEW v \in Workers \ {w} PROVE NtfHeld(v)'
  <2>1. NtfHeld(v) /\ work'[v] = work[v]
    BY DEF NtfGood, NtfAbout
  <2>2. ASSUME NEW x \in DOMAIN work[v].batch
        PROVE  LET item == work[v].batch[x]
               IN  /\ item.id \in DOMAIN row'
                   /\ row'[item.id] = row[item.id] /\ ntfSends'[item.id] = ntfSends[item.id]
                   /\ ntfArrived'[item.id] = ntfArrived[item.id]
    <3>1. work[v].batch[x].id \in DOMAIN row
        BY <2>1 DEF NtfHeld
    <3>2. work[v].batch[x].id # id
        BY <1>2 DEF NtfGood, NtfAlone, NtfAbout
    <3> QED
        BY <1>1, <3>1, <3>2 DEF NtfAbout
  <2> QED
    BY <1>1, <2>1, <2>2, SMTT(30) DEF NtfHeld, NtfFits
<1>4. ASSUME NEW x \in DOMAIN row \ {id} PROVE NtfKnown(x)'
  <2>1. NtfKnown(x) /\ row'[x] = row[x] /\ ntfSends'[x] = ntfSends[x] /\ ntfArrived'[x] = ntfArrived[x]
    BY <1>1 DEF NtfGood, NtfAbout
  <2>2. ASSUME NEW v \in Workers, NtfTries(v, x) PROVE NtfTries(v, x)'
    <3>1. v # w
        BY <2>2 DEF NtfTries, NtfAbout
    <3> QED
        BY <2>2, <3>1 DEF NtfTries, NtfAbout
  <2> QED
    BY <1>1, <2>1, <2>2 DEF NtfKnown, NtfCounts, NtfRests
<1>5. \A x \in Ntf!Ids \ DOMAIN row : ntfSends'[x] = 0 /\ ntfArrived'[x] = 0
    BY <1>2 DEF NtfGood, NtfAbout
<1> QED
    BY <1>3, <1>4, <1>5

\* The worker goes on with the same row.
LEMMA NtfGoes ==
    ASSUME NtfGood, NEW w \in Workers, NEW id, NEW r, NEW a, NEW g,
           NEW label \in {"send", "sent", "failed", "bury"},
           work[w].batch # << >>, work[w].batch[1].id = id, setting' = setting,
           NtfWrite(id, r, a, g), Ntf!Goto(w, label), work[w].at \in {"send", "sent", "failed", "bury"},
           NtfFits(NtfSure, 1, [work[w] EXCEPT !.at = label], work[w].batch[1], r, a, g),
           NtfCounts(NtfSure, r, a, g), NtfRests(NtfSure, r, a, g) \/ label \in {"sent", "failed"}
    PROVE  NtfGood'
<1>1. NtfTyped /\ work \in [Workers -> NtfWork] /\ DOMAIN row \subseteq Ntf!Ids /\ id \in DOMAIN row
    BY NtfShapes DEF NtfGood, NtfTyped, NtfWrite
<1>2. /\ work' \in [Workers -> NtfWork] /\ work'[w] = [work[w] EXCEPT !.at = label]
      /\ work'[w].at = label /\ work'[w].job = work[w].job /\ work'[w].batch = work[w].batch
      /\ \A v \in Workers \ {w} : work'[v] = work[v]
    BY <1>1 DEF Ntf!Goto, NtfWork
<1>3. /\ row' \in Seq(NtfRow) /\ Len(row') = Len(row) /\ DOMAIN row' = DOMAIN row
      /\ ntfSends' \in [Ntf!Ids -> Nat] /\ ntfArrived' \in [Ntf!Ids -> Nat]
      /\ row'[id] = r /\ ntfSends'[id] = a /\ ntfArrived'[id] = g
      /\ \A x \in Ntf!Ids \ {id} : row'[x] = row[x] /\ ntfSends'[x] = ntfSends[x]
                                   /\ ntfArrived'[x] = ntfArrived[x]
    BY NtfWrites
<1>4. NtfTyped'
    BY <1>1, <1>2, <1>3 DEF NtfTyped
<1>5. NtfAbout(w, id)
    BY <1>2, <1>3 DEF NtfAbout
<1>6. NtfAlone' /\ NtfOneRun'
  <2>1. \A v \in Workers : work'[v].batch = work[v].batch /\ work'[v].job = work[v].job
    BY <1>2
  <2> QED
    BY <2>1 DEF NtfGood, NtfAlone, NtfOneRun
<1>7. NtfHeld(w)'
  <2>1. NtfHeld(w) /\ work[w].batch \in Seq(NtfItem) /\ 1 \in DOMAIN work[w].batch
    <3>1. work[w].batch \in Seq(NtfItem) /\ work[w].batch # << >>
        BY <1>1, NtfShapes
    <3> QED
        BY <3>1 DEF NtfGood
  <2>2. ASSUME NEW x \in DOMAIN work[w].batch
        PROVE  LET item == work[w].batch[x]
               IN  /\ item.id \in DOMAIN row'
                   /\ NtfFits(NtfSure', x, work'[w], item, row'[item.id], ntfSends'[item.id],
                              ntfArrived'[item.id])
    <3>1. work[w].batch[x].id \in DOMAIN row'
        BY <1>3, <2>1 DEF NtfHeld
    <3>2. CASE x = 1
        BY <1>2, <1>3, <3>1, <3>2 DEF NtfFits, NtfSure
    <3>3. CASE x # 1
      <4>1. work[w].batch[x].id # id
        BY <2>1, <3>3 DEF NtfGood, NtfAlone
      <4>2. /\ NtfFits(NtfSure, x, work[w], work[w].batch[x], row[work[w].batch[x].id],
                       ntfSends[work[w].batch[x].id], ntfArrived[work[w].batch[x].id])
            /\ work[w].batch[x].id \in DOMAIN row
        BY <2>1 DEF NtfHeld
      <4> QED
        BY <1>1, <1>2, <1>3, <3>1, <3>3, <4>1, <4>2, SMTT(30) DEF NtfFits, NtfSure
    <3> QED
        BY <3>2, <3>3
  <2>3. work'[w].batch # << >> /\ work'[w].at \in {"send", "sent", "failed", "bury"}
    BY <1>2
  <2> QED
    BY <1>2, <2>2, <2>3 DEF NtfHeld
<1>8. NtfKnown(id)'
  <2>1. label \in {"sent", "failed"} => NtfTries(w, id)'
    BY <1>2 DEF NtfTries
  <2> QED
    BY <1>3, <2>1 DEF NtfKnown, NtfCounts, NtfRests, NtfSure
<1> QED
    BY <1>3, <1>4, <1>5, <1>6, <1>7, <1>8, NtfElsewhere DEF NtfGood

\* The worker leaves the first row of its batch, and with the last one its job.
LEMMA NtfLeaves ==
    ASSUME NEW s \in NtfWork, s.batch # << >>
    PROVE  LET t == IF Len(s.batch) > 1 THEN [s EXCEPT !.at = "send", !.batch = Tail(s.batch)]
                    ELSE Ntf!Resting
           IN  /\ t \in NtfWork /\ t.job \in {s.job, "none"}
               /\ t.batch = << >> => t.at = "idle"
               /\ t.batch # << >> => t.at = "send" /\ t.job = s.job
               /\ \A x \in DOMAIN t.batch : x + 1 \in DOMAIN s.batch /\ t.batch[x] = s.batch[x + 1]
                                            /\ x \in Nat \ {0}
<1> DEFINE t == IF Len(s.batch) > 1 THEN [s EXCEPT !.at = "send", !.batch = Tail(s.batch)]
                ELSE Ntf!Resting
<1>1. s.batch \in Seq(NtfItem)
    BY DEF NtfWork
<1>2. CASE Len(s.batch) > 1
  <2>1. /\ Tail(s.batch) \in Seq(NtfItem) /\ Tail(s.batch) # << >>
        /\ \A x \in DOMAIN Tail(s.batch) : x + 1 \in DOMAIN s.batch
                /\ Tail(s.batch)[x] = s.batch[x + 1] /\ x \in Nat \ {0}
    <3>1. /\ Tail(s.batch) \in Seq(NtfItem) /\ Len(Tail(s.batch)) = Len(s.batch) - 1
          /\ \A x \in 1..(Len(s.batch) - 1) : Tail(s.batch)[x] = s.batch[x + 1]
        BY <1>1, <1>2
    <3>3. \A q \in Seq(NtfItem) : DOMAIN q = 1..Len(q) /\ Len(q) \in Nat /\ (Len(q) > 0 => q # << >>)
        OBVIOUS
    <3>2. /\ Tail(s.batch) # << >> /\ DOMAIN Tail(s.batch) = 1..(Len(s.batch) - 1)
          /\ DOMAIN s.batch = 1..Len(s.batch) /\ Len(s.batch) \in Nat
        BY <1>1, <1>2, <3>1, <3>3
    <3> QED
        BY <3>1, <3>2
  <2>2. t = [s EXCEPT !.at = "send", !.batch = Tail(s.batch)]
    BY <1>2
  <2>3. t \in NtfWork /\ t.at = "send" /\ t.job = s.job /\ t.batch = Tail(s.batch)
    BY <2>1, <2>2 DEF NtfWork
  <2> QED
    BY <2>1, <2>3
<1>3. CASE ~ (Len(s.batch) > 1)
  <2>1. t = Ntf!Resting
    BY <1>3
  <2>2. DOMAIN << >> = {}
    OBVIOUS
  <2>3. t \in NtfWork /\ t.job = "none" /\ t.at = "idle" /\ t.batch = << >>
    BY <2>1, NtfResting DEF Ntf!Resting
  <2> HIDE DEF t
  <2>4. DOMAIN t.batch = {}
    BY <2>2, <2>3
  <2> QED
    BY <2>3, <2>4 DEF t
<1> QED
    BY <1>2, <1>3

LEMMA NtfFinishes ==
    ASSUME NtfGood, NEW w \in Workers, NEW id, NEW r, NEW a, NEW g,
           work[w].batch # << >>, work[w].batch[1].id = id, setting' = setting,
           NtfWrite(id, r, a, g), Ntf!Finish(w),
           NtfCounts(NtfSure, r, a, g), NtfRests(NtfSure, r, a, g)
    PROVE  NtfGood'
<1>1. NtfTyped /\ work \in [Workers -> NtfWork] /\ DOMAIN row \subseteq Ntf!Ids /\ id \in DOMAIN row
    BY NtfShapes DEF NtfGood, NtfTyped, NtfWrite
<1>2. /\ work' \in [Workers -> NtfWork] /\ work'[w].job \in {work[w].job, "none"}
      /\ work'[w].batch = << >> => work'[w].at = "idle"
      /\ work'[w].batch # << >> => work'[w].at = "send" /\ work'[w].job = work[w].job
      /\ \A x \in DOMAIN work'[w].batch :
           x + 1 \in DOMAIN work[w].batch /\ work'[w].batch[x] = work[w].batch[x + 1] /\ x \in Nat \ {0}
      /\ \A v \in Workers \ {w} : work'[v] = work[v]
  <2> DEFINE t == IF Len(work[w].batch) > 1
                    THEN [work[w] EXCEPT !.at = "send", !.batch = Tail(work[w].batch)]
                    ELSE Ntf!Resting
  <2>1. work' = [work EXCEPT ![w] = t]
    BY DEF Ntf!Finish
  <2>2. work[w] \in NtfWork
    BY <1>1
  <2>3. /\ t \in NtfWork /\ t.job \in {work[w].job, "none"}
        /\ t.batch = << >> => t.at = "idle"
        /\ t.batch # << >> => t.at = "send" /\ t.job = work[w].job
        /\ \A x \in DOMAIN t.batch : x + 1 \in DOMAIN work[w].batch
                /\ t.batch[x] = work[w].batch[x + 1] /\ x \in Nat \ {0}
    BY <2>2, NtfLeaves
  <2> HIDE DEF t
  <2>4. work' \in [Workers -> NtfWork] /\ work'[w] = t /\ \A v \in Workers \ {w} : work'[v] = work[v]
    BY <1>1, <2>1, <2>3
  <2> QED
    BY <2>3, <2>4
<1>3. /\ row' \in Seq(NtfRow) /\ Len(row') = Len(row) /\ DOMAIN row' = DOMAIN row
      /\ ntfSends' \in [Ntf!Ids -> Nat] /\ ntfArrived' \in [Ntf!Ids -> Nat]
      /\ row'[id] = r /\ ntfSends'[id] = a /\ ntfArrived'[id] = g
      /\ \A x \in Ntf!Ids \ {id} : row'[x] = row[x] /\ ntfSends'[x] = ntfSends[x]
                                   /\ ntfArrived'[x] = ntfArrived[x]
    BY NtfWrites
<1>4. NtfTyped'
    BY <1>1, <1>2, <1>3 DEF NtfTyped
<1>5. NtfAbout(w, id)
    BY <1>2, <1>3 DEF NtfAbout
<1>6. NtfAlone'
  <2> SUFFICES ASSUME NEW u \in Workers, NEW v \in Workers, NEW x \in DOMAIN work'[u].batch,
                      NEW y \in DOMAIN work'[v].batch,
                      work'[u].batch[x].id = work'[v].batch[y].id
               PROVE  u = v /\ x = y
    BY DEF NtfAlone
  <2>1. PICK m \in DOMAIN work[u].batch :
            work'[u].batch[x] = work[u].batch[m] /\ m = IF u = w THEN x + 1 ELSE x
    BY <1>2
  <2>2. PICK n \in DOMAIN work[v].batch :
            work'[v].batch[y] = work[v].batch[n] /\ n = IF v = w THEN y + 1 ELSE y
    BY <1>2
  <2>3. u = v /\ m = n
    BY <2>1, <2>2 DEF NtfGood, NtfAlone
  <2>4. u = w => x \in Nat /\ y \in Nat
    BY <1>2, <2>3
  <2> QED
    BY <2>1, <2>2, <2>3, <2>4
<1>7. NtfOneRun'
  <2>1. \A v \in Workers : work'[v].job = "retry" => work[v].job = "retry"
    BY <1>2
  <2> QED
    BY <2>1 DEF NtfGood, NtfOneRun
<1>8. NtfHeld(w)'
  <2>1. NtfHeld(w) /\ NtfSure' = NtfSure /\ 1 \in DOMAIN work[w].batch
    <3>1. work[w].batch \in Seq(NtfItem)
        BY <1>1, NtfShapes
    <3> QED
        BY <3>1 DEF NtfGood, NtfSure
  <2>2. ASSUME NEW x \in DOMAIN work'[w].batch
        PROVE  LET item == work'[w].batch[x]
               IN  /\ item.id \in DOMAIN row'
                   /\ NtfFits(NtfSure, x, work'[w], item, row'[item.id], ntfSends'[item.id],
                              ntfArrived'[item.id])
    <3> DEFINE item == work'[w].batch[x]
    <3>1. /\ x + 1 \in DOMAIN work[w].batch /\ item = work[w].batch[x + 1] /\ x + 1 # 1
          /\ work'[w].at = "send" /\ work'[w].job = work[w].job
      <4>1. work'[w].batch \in Seq(NtfItem)
        BY <1>4, <1>2 DEF NtfWork
      <4>2. work'[w].batch # << >>
        BY <4>1
      <4> QED
        BY <1>2, <4>2
    <3>2. item.id \in DOMAIN row /\ item.id # id
        BY <2>1, <3>1 DEF NtfHeld, NtfGood, NtfAlone
    <3>3. NtfFits(NtfSure, x + 1, work[w], item, row[item.id], ntfSends[item.id], ntfArrived[item.id])
        BY <2>1, <3>1 DEF NtfHeld
    <3>4. row'[item.id] = row[item.id] /\ ntfSends'[item.id] = ntfSends[item.id]
          /\ ntfArrived'[item.id] = ntfArrived[item.id]
        BY <1>1, <1>3, <3>2
    <3> HIDE DEF item
    <3>5. NtfFits(NtfSure, x, work'[w], item, row'[item.id], ntfSends'[item.id], ntfArrived'[item.id])
        BY <3>1, <3>3, <3>4 DEF NtfFits
    <3> QED
        BY <1>3, <3>2, <3>5 DEF item
  <2> QED
    BY <1>2, <2>1, <2>2 DEF NtfHeld
<1>9. NtfKnown(id)'
    BY <1>3 DEF NtfKnown, NtfCounts, NtfRests, NtfSure
<1> QED
    BY <1>3, <1>4, <1>5, <1>6, <1>7, <1>8, <1>9, NtfElsewhere DEF NtfGood

\* Dispatching.
LEMMA NtfSends ==
    ASSUME NtfGood, NtfCalm, NEW w \in Workers, Ntf!Send(w) PROVE NtfGood'
<1>0. PICK id, a : id = work[w].batch[1].id /\ a = ntfSends[id] + 1
    OBVIOUS
<1>1. /\ work[w].at = "send" /\ work[w].batch # << >> /\ Ntf!Current(w) = work[w].batch[1]
      /\ work[w].batch[1] \in NtfItem /\ id \in DOMAIN row
      /\ NtfFits(NtfSure, 1, work[w], work[w].batch[1], row[id], ntfSends[id], ntfArrived[id])
      /\ NtfKnown(id)
    BY <1>0, NtfHead DEF Ntf!Send
<1>2. /\ row[id] \in NtfRow /\ ntfSends[id] \in Nat /\ ntfArrived[id] \in Nat /\ NtfTyped
      /\ MaxAttempts \in Nat
    BY <1>1, NtfShapes, NtfConstants DEF NtfGood
<1>3. /\ row[id].status = "PENDING" /\ work[w].batch[1].attempts = row[id].attempts
      /\ ntfSends[id] <= row[id].attempts /\ row[id].attempts < MaxAttempts
      /\ (NtfSure => ntfArrived[id] = 0) /\ row[id].attempts \in Nat
      /\ (work[w].job # "retry" => row[id].due = "never")
    BY <1>1, <1>2 DEF NtfFits, NtfKnown, NtfCounts, NtfRow
<1>4. /\ setting' = setting /\ row' = row
      /\ ntfSends' = [ntfSends EXCEPT ![id] = a]
  <2>1. Ntf!CountTo(MaxAttempts + 1, ntfSends[id]) = a
    BY <1>0, <1>2, <1>3 DEF Ntf!CountTo
  <2> QED
    BY <1>0, <1>1, <2>1 DEF Ntf!Send
<1>5. PICK label \in {"sent", "failed"}, g \in {Ntf!CountTo(2, ntfArrived[id]), ntfArrived[id]} :
        /\ Ntf!Goto(w, label) /\ ntfArrived' = [ntfArrived EXCEPT ![id] = g]
        /\ NtfSure => (label = "failed" => g = ntfArrived[id])
  <2>1. ntfArrived = [ntfArrived EXCEPT ![id] = ntfArrived[id]]
    BY <1>2 DEF NtfTyped
  <2>2. NtfSure => ~ Ntf!Fault("slow")
    BY DEF NtfSure, Ntf!Fault
  <2> QED
    BY <1>0, <1>1, <2>1, <2>2 DEF Ntf!Send
<1>6. g \in Nat /\ (NtfSure => g <= 1 /\ (label = "failed" => g = 0))
    BY <1>2, <1>3, <1>5 DEF Ntf!CountTo
<1>7. NtfWrite(id, row[id], a, g)
  <2>1. row = [row EXCEPT ![id] = row[id]]
    BY <1>2 DEF NtfTyped
  <2>2. row' = [row EXCEPT ![id] = row[id]] /\ ntfArrived' = [ntfArrived EXCEPT ![id] = g]
    BY <1>4, <1>5, <2>1, Zenon
  <2>3. a \in Nat
    BY <1>0, <1>2
  <2> QED
    BY <1>1, <1>2, <1>4, <1>6, <2>2, <2>3, Zenon DEF NtfWrite
<1>8. NtfFits(NtfSure, 1, [work[w] EXCEPT !.at = label], work[w].batch[1], row[id], a, g)
  <2>1. work[w] \in NtfWork
    BY <1>2 DEF NtfTyped
  <2>2. [work[w] EXCEPT !.at = label].at = label /\ [work[w] EXCEPT !.at = label].job = work[w].job
    BY <2>1 DEF NtfWork
  <2> QED
    BY <1>0, <1>2, <1>3, <1>5, <1>6, <2>2, SMTT(30) DEF NtfFits
<1>9. NtfCounts(NtfSure, row[id], a, g)
    BY <1>0, <1>2, <1>3, <1>6 DEF NtfCounts
<1> QED
    BY <1>1, <1>4, <1>5, <1>7, <1>8, <1>9, <1>0, NtfGoes

LEMMA NtfMarksSent ==
    ASSUME NtfGood, NtfCalm, NEW w \in Workers, Ntf!MarkSent(w) PROVE NtfGood'
<1> DEFINE id == work[w].batch[1].id
           r == [row[id] EXCEPT !.status = "SENT"]
<1>1. /\ work[w].at = "sent" /\ work[w].batch # << >> /\ Ntf!Current(w) = work[w].batch[1]
      /\ work[w].batch[1] \in NtfItem /\ id \in DOMAIN row
      /\ NtfKnown(id)
    BY NtfHead DEF Ntf!MarkSent
<1>2. /\ row[id] \in NtfRow /\ ntfSends[id] \in Nat /\ ntfArrived[id] \in Nat /\ NtfTyped
    BY <1>1, NtfShapes DEF NtfGood
<1>3. r \in NtfRow /\ r.status = "SENT"
    BY <1>2 DEF NtfRow
<1>4. /\ setting' = setting /\ row' = [row EXCEPT ![id] = r] /\ Ntf!Finish(w)
      /\ UNCHANGED <<ntfSends, ntfArrived>>
  <2>1. ~ Ntf!Fault("errors")
    BY DEF NtfCalm, Ntf!Fault
  <2> QED
    BY <1>1, <2>1 DEF Ntf!MarkSent
<1>5. NtfWrite(id, r, ntfSends[id], ntfArrived[id])
  <2>1. /\ ntfSends = [ntfSends EXCEPT ![id] = ntfSends[id]]
        /\ ntfArrived = [ntfArrived EXCEPT ![id] = ntfArrived[id]]
    BY <1>2 DEF NtfTyped
  <2> QED
    BY <1>1, <1>2, <1>3, <1>4, <2>1 DEF NtfWrite
<1> HIDE DEF r
<1>6. NtfCounts(NtfSure, r, ntfSends[id], ntfArrived[id]) /\ NtfRests(NtfSure, r, ntfSends[id], ntfArrived[id])
    BY <1>1, <1>3 DEF NtfKnown, NtfCounts, NtfRests
<1> QED
    BY <1>1, <1>4, <1>5, <1>6, NtfFinishes

\* A failed attempt is counted, and after the last one the row is given up.
LEMMA NtfMarksFailed ==
    ASSUME NtfGood, NtfCalm, NEW w \in Workers, Ntf!MarkFailed(w) PROVE NtfGood'
<1>0. PICK id, n : id = work[w].batch[1].id /\ n = work[w].batch[1].attempts + 1
    OBVIOUS
<1> DEFINE r1 == [row[id] EXCEPT !.status = "FAILED", !.attempts = n]
           r2 == [row[id] EXCEPT !.status = "PENDING", !.attempts = n, !.due = "later"]
<1>1. /\ work[w].at = "failed" /\ work[w].batch # << >> /\ Ntf!Current(w) = work[w].batch[1]
      /\ work[w].batch[1] \in NtfItem /\ id \in DOMAIN row
      /\ NtfFits(NtfSure, 1, work[w], work[w].batch[1], row[id], ntfSends[id], ntfArrived[id])
      /\ NtfKnown(id)
    BY <1>0, NtfHead DEF Ntf!MarkFailed
<1>2. /\ row[id] \in NtfRow /\ ntfSends[id] \in Nat /\ ntfArrived[id] \in Nat /\ NtfTyped
      /\ MaxAttempts \in Nat /\ n \in Nat
  <2>1. work[w].batch[1].attempts \in Nat /\ n = work[w].batch[1].attempts + 1
    BY <1>0, <1>1 DEF NtfItem
  <2>2. NtfTyped
    BY DEF NtfGood
  <2> QED
    BY <1>1, <2>1, <2>2, NtfShapes, NtfConstants, SMTT(30)
<1>3. /\ n = row[id].attempts + 1 /\ ntfSends[id] <= n /\ n <= MaxAttempts
      /\ (NtfSure => ntfArrived[id] = 0)
      /\ (work[w].job # "retry" => row[id].due = "never")
      /\ NtfCounts(NtfSure, row[id], ntfSends[id], ntfArrived[id])
  <2>1. /\ row[id].status = "PENDING" /\ work[w].batch[1].attempts = row[id].attempts
        /\ ntfSends[id] <= row[id].attempts + 1 /\ (NtfSure => ntfArrived[id] = 0)
        /\ (work[w].job # "retry" => row[id].due = "never")
    BY <1>1 DEF NtfFits
  <2>2. row[id].attempts \in Nat /\ row[id].attempts < MaxAttempts
    BY <1>1, <1>2, <2>1 DEF NtfKnown, NtfCounts, NtfRow
  <2>3. NtfCounts(NtfSure, row[id], ntfSends[id], ntfArrived[id])
    BY <1>1 DEF NtfKnown
  <2>4. n = row[id].attempts + 1
    BY <1>0, <2>1
  <2> QED
    BY <1>2, <2>1, <2>2, <2>3, <2>4
<1>4. /\ r1 \in NtfRow /\ r1.status = "FAILED" /\ r1.due = row[id].due
      /\ r2 \in NtfRow /\ r2.attempts = n
    BY <1>2 DEF NtfRow
<1>5. /\ ntfSends = [ntfSends EXCEPT ![id] = ntfSends[id]]
      /\ ntfArrived = [ntfArrived EXCEPT ![id] = ntfArrived[id]]
    BY <1>2 DEF NtfTyped
<1>6. /\ setting' = setting /\ UNCHANGED <<ntfSends, ntfArrived>>
      /\ \/ row' = [row EXCEPT ![id] = r1] /\ Ntf!Goto(w, "bury")
         \/ n < MaxAttempts /\ row' = [row EXCEPT ![id] = r2] /\ Ntf!Finish(w)
  <2>1. ~ Ntf!Fault("errors")
    BY DEF NtfCalm, Ntf!Fault
  <2>2. ~ Ntf!GivesUp(n) => n < MaxAttempts
    BY <1>2 DEF Ntf!GivesUp
  <2>3. Ntf!RetryAt = "later"
    BY DEF Ntf!RetryAt
  <2>4. Ntf!Current(w).id = id /\ Ntf!Current(w).attempts + 1 = n
    BY <1>0, <1>1
  <2> QED
    BY <2>1, <2>2, <2>3, <2>4, Zenon DEF Ntf!MarkFailed
<1> HIDE DEF r1, r2
<1>7. CASE row' = [row EXCEPT ![id] = r1] /\ Ntf!Goto(w, "bury")
  <2>1. NtfWrite(id, r1, ntfSends[id], ntfArrived[id])
    BY <1>1, <1>2, <1>4, <1>5, <1>6, <1>7 DEF NtfWrite
  <2>2. NtfCounts(NtfSure, r1, ntfSends[id], ntfArrived[id]) /\ NtfRests(NtfSure, r1, ntfSends[id], ntfArrived[id])
    BY <1>3, <1>4 DEF NtfCounts, NtfRests
  <2>3. NtfFits(NtfSure, 1, [work[w] EXCEPT !.at = "bury"], work[w].batch[1], r1, ntfSends[id], ntfArrived[id])
    <3>1. work[w] \in NtfWork
        BY <1>2 DEF NtfTyped
    <3>2. [work[w] EXCEPT !.at = "bury"].at = "bury" /\ [work[w] EXCEPT !.at = "bury"].job = work[w].job
        BY <3>1 DEF NtfWork
    <3> QED
        BY <1>3, <1>4, <3>2 DEF NtfFits
  <2> QED
    BY <1>1, <1>6, <1>7, <2>1, <2>2, <2>3, NtfGoes, <1>0
<1>8. CASE n < MaxAttempts /\ row' = [row EXCEPT ![id] = r2] /\ Ntf!Finish(w)
  <2>1. NtfWrite(id, r2, ntfSends[id], ntfArrived[id])
    BY <1>1, <1>2, <1>4, <1>5, <1>6, <1>8 DEF NtfWrite
  <2>2. NtfCounts(NtfSure, r2, ntfSends[id], ntfArrived[id]) /\ NtfRests(NtfSure, r2, ntfSends[id], ntfArrived[id])
    BY <1>2, <1>3, <1>4, <1>8 DEF NtfCounts, NtfRests
  <2> QED
    BY <1>1, <1>6, <1>8, <2>1, <2>2, NtfFinishes, <1>0
<1> QED
    BY <1>6, <1>7, <1>8

LEMMA NtfBuries ==
    ASSUME NtfGood, NEW w \in Workers, Ntf!Bury(w) PROVE NtfGood'
<1> DEFINE id == work[w].batch[1].id
<1>1. /\ work[w].at = "bury" /\ work[w].batch # << >> /\ id \in DOMAIN row
      /\ NtfFits(NtfSure, 1, work[w], work[w].batch[1], row[id], ntfSends[id], ntfArrived[id])
      /\ NtfKnown(id)
    BY NtfHead DEF Ntf!Bury
<1>2. row[id] \in NtfRow /\ ntfSends[id] \in Nat /\ ntfArrived[id] \in Nat /\ NtfTyped
    BY <1>1, NtfShapes DEF NtfGood
<1>3. setting' = setting /\ Ntf!Finish(w) /\ UNCHANGED <<row, ntfSends, ntfArrived>>
    BY DEF Ntf!Bury
<1>4. NtfWrite(id, row[id], ntfSends[id], ntfArrived[id])
  <2>1. /\ row = [row EXCEPT ![id] = row[id]] /\ ntfSends = [ntfSends EXCEPT ![id] = ntfSends[id]]
        /\ ntfArrived = [ntfArrived EXCEPT ![id] = ntfArrived[id]]
    BY <1>2 DEF NtfTyped
  <2> QED
    BY <1>1, <1>2, <1>3, <2>1 DEF NtfWrite
<1>5. /\ NtfCounts(NtfSure, row[id], ntfSends[id], ntfArrived[id])
      /\ NtfRests(NtfSure, row[id], ntfSends[id], ntfArrived[id])
    BY <1>1 DEF NtfFits, NtfKnown, NtfRests
<1> QED
    BY <1>1, <1>3, <1>4, <1>5, NtfFinishes

\* What touches neither rows nor workers.
LEMMA NtfStays ==
    ASSUME NtfGood, UNCHANGED <<setting, row, work, ntfSends, ntfArrived>> PROVE NtfGood'
<1>1. NtfTyped' /\ NtfAlone' /\ NtfOneRun'
    BY DEF NtfGood, NtfTyped, NtfAlone, NtfOneRun
<1>2. \A w \in Workers : NtfHeld(w)'
    BY DEF NtfGood, NtfHeld, NtfSure
<1>3. \A id \in DOMAIN row' : NtfKnown(id)'
    BY DEF NtfGood, NtfKnown, NtfTries, NtfSure
<1> QED
    BY <1>1, <1>2, <1>3 DEF NtfGood

\* A step of w that changes what w does, and of the rows at most adds one.
NtfSame(w) ==
    /\ setting' = setting /\ UNCHANGED <<ntfSends, ntfArrived>>
    /\ DOMAIN row \subseteq DOMAIN row' /\ \A x \in DOMAIN row : row'[x] = row[x]
    /\ work[w].batch = << >>
    /\ work' \in [Workers -> NtfWork] /\ \A v \in Workers \ {w} : work'[v] = work[v]

LEMMA NtfKeepsRows ==
    ASSUME NtfGood, NEW w \in Workers, NtfSame(w)
    PROVE  /\ \A v \in Workers \ {w} : NtfHeld(v)'
           /\ \A x \in DOMAIN row : NtfKnown(x)'
<1>1. NtfSure' = NtfSure
    BY DEF NtfSame, NtfSure
<1>2. ASSUME NEW v \in Workers \ {w} PROVE NtfHeld(v)'
  <2>1. NtfHeld(v) /\ work'[v] = work[v]
    BY DEF NtfGood, NtfSame
  <2> QED
    BY <1>1, <2>1 DEF NtfHeld, NtfSame
<1>3. ASSUME NEW x \in DOMAIN row PROVE NtfKnown(x)'
  <2>1. NtfKnown(x) /\ row'[x] = row[x] /\ ntfSends'[x] = ntfSends[x] /\ ntfArrived'[x] = ntfArrived[x]
    BY DEF NtfGood, NtfSame
  <2>2. ASSUME NEW v \in Workers, NtfTries(v, x) PROVE NtfTries(v, x)'
    BY <2>2 DEF NtfTries, NtfSame
  <2> QED
    BY <1>1, <2>1, <2>2 DEF NtfKnown
<1> QED
    BY <1>2, <1>3

\* A message is taken up, or a test; nothing is dispatched yet.
LEMMA NtfTakes ==
    ASSUME NtfGood, NEW w \in Workers, NEW m \in Messages, NEW job \in {"message", "test"},
           work[w] = Ntf!Resting, UNCHANGED <<setting, row, ntfSends, ntfArrived>>,
           work' = [work EXCEPT ![w] = [job |-> job, at |-> "insert", msg |-> {m}, batch |-> << >>]]
    PROVE  NtfGood'
<1> DEFINE new == [job |-> job, at |-> "insert", msg |-> {m}, batch |-> << >>]
<1>1. << >> \in Seq(NtfItem) /\ DOMAIN << >> = {}
    OBVIOUS
<1>2. new \in NtfWork /\ new.at = "insert" /\ new.job # "retry" /\ new.batch = << >>
    BY <1>1 DEF NtfWork
<1>3. NtfTyped /\ work \in [Workers -> NtfWork] /\ work' = [work EXCEPT ![w] = new]
    BY DEF NtfGood, NtfTyped
<1> HIDE DEF new
<1>4. /\ work' \in [Workers -> NtfWork] /\ work'[w].at = "insert" /\ work'[w].job # "retry"
      /\ work'[w].batch = << >> /\ DOMAIN work'[w].batch = {}
      /\ \A v \in Workers \ {w} : work'[v] = work[v]
    BY <1>1, <1>2, <1>3
<1>5. NtfSame(w)
    BY <1>4 DEF NtfSame, Ntf!Resting
<1>6. NtfTyped'
    BY <1>3, <1>4 DEF NtfTyped
<1>7. NtfAlone' /\ NtfOneRun'
    BY <1>4 DEF NtfGood, NtfAlone, NtfOneRun
<1>8. NtfHeld(w)'
    BY <1>4 DEF NtfHeld
<1> QED
    BY <1>5, <1>6, <1>7, <1>8, NtfKeepsRows DEF NtfGood

LEMMA NtfInserts ==
    ASSUME NtfGood, NtfCalm, NEW w \in Workers, Ntf!InsertRow(w) PROVE NtfGood'
<1> DEFINE item == [id |-> Len(row) + 1, attempts |-> 0]
           r == [status |-> "PENDING", attempts |-> 0, due |-> "never"]
           new == [work[w] EXCEPT !.at = "send", !.batch = <<item>>]
<1>1. /\ NtfTyped /\ work \in [Workers -> NtfWork] /\ work[w] \in NtfWork
      /\ work[w].at = "insert" /\ NtfHeld(w) /\ work[w].batch \in Seq(NtfItem)
    BY NtfShapes DEF NtfGood, NtfTyped, Ntf!InsertRow
<1>2. /\ setting' = setting /\ UNCHANGED <<ntfSends, ntfArrived>> /\ Len(row) < NoticeRows
      /\ row' = Append(row, r) /\ work' = [work EXCEPT ![w] = new]
  <2>1. ~ Ntf!Fault("errors")
    BY DEF NtfCalm, Ntf!Fault
  <2>2. [work EXCEPT ![w].at = "send", ![w].batch = <<item>>] = [work EXCEPT ![w] = new]
    BY <1>1
  <2> QED
    BY <2>1, <2>2 DEF Ntf!InsertRow
<1>3. work[w].batch = << >>
    BY <1>1 DEF NtfHeld
<1>4. PICK n \in Nat : n = Len(row) + 1
    BY <1>1 DEF NtfTyped
<1>5. item \in NtfItem /\ item.id = n /\ item.attempts = 0
    BY <1>1, <1>4 DEF NtfTyped, NtfItem
<1>6. r \in NtfRow /\ r.status = "PENDING" /\ r.attempts = 0 /\ r.due = "never"
    BY DEF NtfRow
<1>7. /\ row' \in Seq(NtfRow) /\ Len(row') = n /\ DOMAIN row' = DOMAIN row \cup {n}
      /\ n \notin DOMAIN row /\ row'[n] = r /\ \A x \in DOMAIN row : row'[x] = row[x]
      /\ n <= NoticeRows /\ n \in Ntf!Ids
  <2>1. row \in Seq(NtfRow) /\ DOMAIN row = 1..Len(row) /\ Len(row) \in Nat /\ Len(row) <= NoticeRows
    BY <1>1 DEF NtfTyped
  <2> HIDE DEF r
  <2>2. row' \in Seq(NtfRow) /\ Len(row') = n /\ row'[n] = r /\ \A x \in 1..Len(row) : row'[x] = row[x]
    BY <1>2, <1>4, <1>6, <2>1
  <2> QED
    BY <1>2, <1>4, <2>1, <2>2, NtfConstants
<1>8. <<item>> \in Seq(NtfItem) /\ DOMAIN <<item>> = {1} /\ <<item>>[1] = item /\ <<item>> # << >>
  <2> HIDE DEF item
  <2>1. <<item>> \in Seq(NtfItem) /\ Len(<<item>>) = 1 /\ <<item>>[1] = item
    BY <1>5
  <2> QED
    BY <2>1
<1> HIDE DEF item, r
<1>9. new \in NtfWork /\ new.at = "send" /\ new.job = work[w].job /\ new.batch = <<item>>
    BY <1>1, <1>8 DEF NtfWork
<1> HIDE DEF new
<1>10. /\ work' \in [Workers -> NtfWork] /\ work'[w].at = "send" /\ work'[w].job = work[w].job
       /\ work'[w].batch = <<item>> /\ \A v \in Workers \ {w} : work'[v] = work[v]
    BY <1>1, <1>2, <1>9
<1>11. NtfSame(w)
    BY <1>2, <1>3, <1>7, <1>10 DEF NtfSame
<1>12. NtfTyped'
    BY <1>1, <1>2, <1>7, <1>10 DEF NtfTyped
<1>13. NtfAlone'
  <2>1. \A v \in Workers : \A x \in DOMAIN work[v].batch : work[v].batch[x].id # n
    BY <1>7 DEF NtfGood, NtfHeld
  <2>2. \A x \in DOMAIN work'[w].batch : x = 1 /\ work'[w].batch[x].id = n
    BY <1>5, <1>8, <1>10
  <2> QED
    BY <1>10, <2>1, <2>2 DEF NtfGood, NtfAlone
<1>14. NtfOneRun'
  <2>1. \A v \in Workers : work'[v].job = work[v].job
    BY <1>10
  <2> QED
    BY <2>1 DEF NtfGood, NtfOneRun
<1>15. ntfSends'[n] = 0 /\ ntfArrived'[n] = 0
    BY <1>2, <1>7 DEF NtfGood
<1>16. NtfHeld(w)'
  <2>1. \A s : NtfFits(s, 1, work'[w], item, r, 0, 0)
    BY <1>5, <1>6, <1>10 DEF NtfFits
  <2>2. \A x \in DOMAIN work'[w].batch : x = 1 /\ work'[w].batch[x] = item
    BY <1>8, <1>10
  <2> QED
    BY <1>5, <1>7, <1>8, <1>10, <1>15, <2>1, <2>2 DEF NtfHeld
<1>17. NtfKnown(n)'
  <2>1. \A s : NtfCounts(s, r, 0, 0) /\ NtfRests(s, r, 0, 0)
    BY <1>6, NtfConstants DEF NtfCounts, NtfRests
  <2> QED
    BY <1>7, <1>15, <2>1 DEF NtfKnown
<1> QED
    BY <1>2, <1>7, <1>11, <1>12, <1>13, <1>14, <1>16, <1>17, NtfKeepsRows DEF NtfGood

\* The cron run reads the due rows, none of which anybody has.
LEMMA NtfRetries ==
    ASSUME NtfGood, NtfCalm, NEW w \in Workers, Ntf!RetryDue(w) PROVE NtfGood'
<1>1. /\ NtfTyped /\ work \in [Workers -> NtfWork] /\ NtfHeld(w)
      /\ DOMAIN row = 1..Len(row) /\ Len(row) \in Nat
      /\ \A x \in DOMAIN row : row[x] \in NtfRow
    BY NtfShapes DEF NtfGood, NtfTyped
<1>2. PICK rows \in Ntf!SetToSeqs(Ntf!Due) :
         /\ work[w] = Ntf!Resting /\ \A v \in Workers : work[v].job # "retry"
         /\ Ntf!Due # {}
         /\ work' = [work EXCEPT ![w] =
                        [job |-> "retry", at |-> "send", msg |-> {}, batch |-> rows]]
         /\ UNCHANGED <<setting, row, ntfSends, ntfArrived>>
  <2>1. ~ Ntf!Fault("overlap")
    BY DEF NtfCalm, Ntf!Fault
  <2> QED
    BY <2>1 DEF Ntf!RetryDue
<1>3. \A item \in Ntf!Due :
        /\ item \in NtfItem /\ item.id \in DOMAIN row /\ item.attempts = row[item.id].attempts
        /\ row[item.id].status = "PENDING" /\ row[item.id].due = "now"
    BY <1>1 DEF Ntf!Due, Ntf!IsDue, NtfItem, NtfRow
<1>4. \A p, q \in Ntf!Due : p.id = q.id => p = q
    BY DEF Ntf!Due
<1>5. Cardinality(Ntf!Due) \in Nat /\ Cardinality(Ntf!Due) # 0
  <2>1. IsFiniteSet(DOMAIN row)
    BY <1>1, FS_Interval
  <2> DEFINE Times == {n \in DOMAIN row : Ntf!IsDue(n)}
             F == [n \in Times |-> [id |-> n, attempts |-> row[n].attempts]]
  <2>2. IsFiniteSet(Times)
    BY <2>1, FS_Subset
  <2>3. F \in Surjection(Times, Ntf!Due)
    BY DEF Surjection, Ntf!Due
  <2>4. IsFiniteSet(Ntf!Due)
    BY <2>2, <2>3, FS_Surjection
  <2> QED
    BY <1>2, <2>4, FS_CardinalityType, FS_EmptySet
<1>6. /\ rows \in Seq(NtfItem) /\ rows # << >>
      /\ \A x \in DOMAIN rows : rows[x] \in Ntf!Due
      /\ \A x, y \in DOMAIN rows : rows[x] = rows[y] => x = y
  <2>1. Ntf!Cardinality(Ntf!Due) = Cardinality(Ntf!Due)
    BY DEF Ntf!Cardinality, Cardinality
  <2>2. PICK n \in Nat \ {0} : n = Cardinality(Ntf!Due)
    BY <1>5
  <2>3. /\ rows \in [1..n -> Ntf!Due]
        /\ \A x, y \in 1..n : x # y => rows[x] # rows[y]
    BY <2>1, <2>2 DEF Ntf!SetToSeqs
  <2>4. rows \in [1..n -> NtfItem]
    BY <1>3, <2>3
  <2>5. rows \in Seq(NtfItem) /\ Len(rows) = n
    BY <2>2, <2>4
  <2> QED
    BY <2>2, <2>3, <2>5
<1> DEFINE new == [job |-> "retry", at |-> "send", msg |-> {}, batch |-> rows]
<1>7. new \in NtfWork /\ new.at = "send" /\ new.job = "retry" /\ new.batch = rows
    BY <1>6 DEF NtfWork
<1>8. work' = [work EXCEPT ![w] = new]
    BY <1>2
<1> HIDE DEF new
<1>9. /\ work' \in [Workers -> NtfWork] /\ work'[w].at = "send" /\ work'[w].job = "retry"
      /\ work'[w].batch = rows /\ \A v \in Workers \ {w} : work'[v] = work[v]
    BY <1>1, <1>7, <1>8
<1>10. NtfSame(w)
    BY <1>2, <1>9 DEF NtfSame, Ntf!Resting
<1>11. NtfTyped'
    BY <1>1, <1>2, <1>9 DEF NtfTyped
<1>12. \A v \in Workers : \A y \in DOMAIN work[v].batch :
           work[v].batch[y].id \in DOMAIN row /\ row[work[v].batch[y].id].due = "never"
    BY <1>2 DEF NtfGood, NtfHeld, NtfFits
<1>13. NtfAlone'
  <2>1. ASSUME NEW x \in DOMAIN rows, NEW v \in Workers \ {w}, NEW y \in DOMAIN work[v].batch
        PROVE  rows[x].id # work[v].batch[y].id
    BY <1>3, <1>6, <1>12
  <2>2. \A x, y \in DOMAIN rows : rows[x].id = rows[y].id => x = y
    BY <1>4, <1>6
  <2> QED
    BY <1>9, <2>1, <2>2 DEF NtfGood, NtfAlone
<1>14. NtfOneRun'
  <2>1. \A v \in Workers : work'[v].job = "retry" => v = w
    BY <1>2, <1>9
  <2> QED
    BY <2>1 DEF NtfOneRun
<1>15. NtfHeld(w)'
  <2>1. ASSUME NEW x \in DOMAIN rows
        PROVE  LET id == rows[x].id
               IN  /\ id \in DOMAIN row
                   /\ NtfFits(NtfSure, x, work'[w], rows[x], row[id], ntfSends[id], ntfArrived[id])
    <3>1. PICK id \in DOMAIN row : /\ id = rows[x].id /\ rows[x].attempts = row[id].attempts
                                   /\ row[id].status = "PENDING" /\ row[id].due = "now"
        BY <1>3, <1>6
    <3>2. \A v \in Workers : ~ NtfTries(v, id)
      <4>1. ASSUME NEW v \in Workers, NtfTries(v, id) PROVE FALSE
        <5>1. work[v].batch \in Seq(NtfItem) /\ work[v].batch # << >> /\ work[v].batch[1].id = id
            BY <1>1, <4>1, NtfShapes DEF NtfTries
        <5>2. 1 \in DOMAIN work[v].batch
            BY <5>1
        <5> QED
            BY <1>12, <3>1, <5>1, <5>2
      <4> QED
        BY <4>1
    <3>3. NtfRests(NtfSure, row[id], ntfSends[id], ntfArrived[id])
        BY <3>2 DEF NtfGood, NtfKnown
    <3>4. NtfFits(NtfSure, x, work'[w], rows[x], row[id], ntfSends[id], ntfArrived[id])
        BY <1>9, <3>1, <3>3 DEF NtfFits, NtfRests
    <3> QED
        BY <3>1, <3>4
  <2>2. NtfSure' = NtfSure
    BY <1>2 DEF NtfSure
  <2> QED
    BY <1>2, <1>6, <1>9, <2>1, <2>2 DEF NtfHeld
<1> QED
    BY <1>2, <1>10, <1>11, <1>13, <1>14, <1>15, NtfKeepsRows DEF NtfGood

LEMMA NtfTime ==
    ASSUME NtfGood, NEW id \in Ntf!Ids, Ntf!TimePasses(id) PROVE NtfGood'
<1> DEFINE r == [row[id] EXCEPT !.due = "now"]
<1>1. /\ id \in DOMAIN row /\ row[id].due = "later" /\ row' = [row EXCEPT ![id] = r]
      /\ UNCHANGED <<setting, work, ntfSends, ntfArrived>>
    BY DEF Ntf!TimePasses
<1>2. /\ NtfTyped /\ row[id] \in NtfRow /\ NtfSure' = NtfSure
    BY <1>1, NtfShapes DEF NtfGood, NtfSure
<1>3. r \in NtfRow /\ r.status = row[id].status /\ r.attempts = row[id].attempts
    BY <1>2 DEF NtfRow
<1> HIDE DEF r
<1>4. /\ row' \in Seq(NtfRow) /\ Len(row') = Len(row) /\ DOMAIN row' = DOMAIN row /\ row'[id] = r
      /\ \A x \in DOMAIN row \ {id} : row'[x] = row[x]
    BY <1>1, <1>2, <1>3 DEF NtfTyped
<1>5. NtfTyped' /\ NtfAlone' /\ NtfOneRun'
    BY <1>1, <1>2, <1>4 DEF NtfGood, NtfTyped, NtfAlone, NtfOneRun
<1>6. ASSUME NEW w \in Workers PROVE NtfHeld(w)'
  <2>1. NtfHeld(w)
    BY DEF NtfGood
  <2>2. ASSUME NEW x \in DOMAIN work[w].batch
        PROVE  LET item == work[w].batch[x]
               IN  /\ item.id \in DOMAIN row'
                   /\ NtfFits(NtfSure, x, work[w], item, row'[item.id], ntfSends[item.id],
                              ntfArrived[item.id])
    <3>1. PICK item : item = work[w].batch[x]
        OBVIOUS
    <3>2. /\ item.id \in DOMAIN row
          /\ NtfFits(NtfSure, x, work[w], item, row[item.id], ntfSends[item.id], ntfArrived[item.id])
        BY <2>1, <3>1 DEF NtfHeld
    <3>3. NtfFits(NtfSure, x, work[w], item, row'[item.id], ntfSends[item.id], ntfArrived[item.id])
      <4>1. CASE item.id = id
        BY <1>1, <1>3, <1>4, <3>2, <4>1 DEF NtfFits
      <4>2. CASE item.id # id
        BY <1>4, <3>2, <4>2
      <4> QED
        BY <4>1, <4>2
    <3> QED
        BY <1>4, <3>1, <3>2, <3>3
  <2> QED
    BY <1>1, <1>2, <1>4, <2>1, <2>2 DEF NtfHeld
<1>7. ASSUME NEW x \in DOMAIN row PROVE NtfKnown(x)'
  <2>1. NtfKnown(x)
    BY DEF NtfGood
  <2>2. row'[x].status = row[x].status /\ row'[x].attempts = row[x].attempts
    BY <1>3, <1>4
  <2>3. \A w \in Workers : NtfTries(w, x)' <=> NtfTries(w, x)
    BY <1>1 DEF NtfTries
  <2> QED
    BY <1>1, <1>2, <2>1, <2>2, <2>3 DEF NtfKnown, NtfCounts, NtfRests
<1> QED
    BY <1>1, <1>4, <1>5, <1>6, <1>7 DEF NtfGood

LEMMA NtfKept == NtfInv /\ [Next]_vars => NtfInv'
<1> SUFFICES ASSUME NtfInv, [Next]_vars, part' = "notifications", NtfCalm'
             PROVE  NtfGood'
    BY DEF NtfInv
<1>1. part = "notifications" /\ (Ntf!Next \/ UNCHANGED <<setting, notificationVars>>)
    BY NtfRuns
<1>2. setting' = setting
    BY <1>1 DEF Ntf!Next, Ntf!Publish, Ntf!SendTest, Ntf!Step, Ntf!Deliver, Ntf!InsertRow, Ntf!Send,
                Ntf!MarkSent, Ntf!MarkFailed, Ntf!Bury, Ntf!RetryDue, Ntf!TimePasses, Ntf!Die,
                Ntf!Quiet, Ntf!vars
<1>3. NtfCalm /\ NtfGood
    BY <1>1, <1>2 DEF NtfCalm, NtfInv
<1>4. ASSUME NEW w \in Workers, NEW m \in Messages, Ntf!Deliver(w, m) \/ Ntf!SendTest(w, m)
      PROVE  NtfGood'
  <2>1. CASE UNCHANGED <<setting, row, work, ntfSends, ntfArrived>>
    BY <1>3, <2>1, NtfStays
  <2>2. CASE work' # work
    <3>1. PICK job \in {"message", "test"} :
            /\ work[w] = Ntf!Resting /\ UNCHANGED <<setting, row, ntfSends, ntfArrived>>
            /\ work' = [work EXCEPT ![w] =
                          [job |-> job, at |-> "insert", msg |-> {m}, batch |-> << >>]]
        BY <1>4, <2>2 DEF Ntf!Deliver, Ntf!SendTest
    <3> QED
        BY <1>3, <3>1, NtfTakes
  <2> QED
    BY <1>4, <2>1, <2>2 DEF Ntf!Deliver, Ntf!SendTest
<1>5. CASE \E m \in Messages : Ntf!Publish(m)
    BY <1>3, <1>5, NtfStays DEF Ntf!Publish
<1>6. CASE \E w \in Workers : Ntf!Step(w) \/ Ntf!RetryDue(w)
    BY <1>3, <1>4, <1>6, NtfInserts, NtfSends, NtfMarksSent, NtfMarksFailed, NtfBuries, NtfRetries
       DEF Ntf!Step
<1>7. CASE \E id \in Ntf!Ids : Ntf!TimePasses(id)
    BY <1>3, <1>7, NtfTime
<1>8. ~ Ntf!Die
    BY <1>3 DEF Ntf!Die, Ntf!Fault, NtfCalm
<1>9. CASE Ntf!Quiet \/ UNCHANGED <<setting, notificationVars>>
    BY <1>3, <1>9, NtfStays DEF Ntf!Quiet, Ntf!vars, notificationVars
<1> QED
    BY <1>1, <1>4, <1>5, <1>6, <1>7, <1>8, <1>9 DEF Ntf!Next

\* No row is asked for more than MAX_ATTEMPTS times, nor told twice, with any number of
\* workers, rows and messages, however dispatches, tests and cron runs interleave.
THEOREM RowsAreTriedEnough == Spec => []TriedEnough
<1>1. Init => NtfInv
    BY NtfStarts
<1>2. NtfInv /\ [Next]_vars => NtfInv'
    BY NtfKept
<1>3. NtfInv => TriedEnough
  <2> SUFFICES ASSUME NtfInv, part = "notifications", NtfCalm, NEW id \in Ntf!Ids
               PROVE  ntfSends[id] <= MaxAttempts /\ (NtfSure => ntfArrived[id] <= 1)
    BY DEF TriedEnough, Ntf!TriedEnough, NtfCalm, NtfSure
  <2>1. CASE id \in DOMAIN row
    BY <2>1 DEF NtfInv, NtfGood, NtfKnown, NtfCounts
  <2>2. CASE id \notin DOMAIN row
    BY <2>2, NtfConstants DEF NtfInv, NtfGood
  <2> QED
    BY <2>1, <2>2
<1> QED
    BY <1>1, <1>2, <1>3, PTL DEF Spec

(***************************************************************************)
(* What looks at the ledger's books.                                       *)
(***************************************************************************)
\* The sums of the model are the sums of FoldFacts.
LEMMA AuditSums ==
    ASSUME NEW f, DOMAIN f = Wallets PROVE Audit!FoldFunction(+, 0, f) = Total(f, Wallets)
<1>1. Audit!FoldFunction(+, 0, f) = Total(f, DOMAIN f)
    BY DEF Audit!FoldFunction, Audit!FoldFunctionOnSet, Audit!MapThenFoldSet, Total, MapThenSumSet,
           MapThenFoldSet
<1> QED
    BY <1>1

\* A sum of numbers that are all 0.
LEMMA AuditZero ==
    ASSUME NEW S, IsFiniteSet(S), NEW f, \A x \in S : f[x] = 0
    PROVE  Total(f, S) = 0
<1>1. \A x \in S : f[x] \in Int /\ f[x] = -f[x]
    OBVIOUS
<1>2. Total(f, S) \in Int
    BY <1>1, TotalType
<1>3. Total(f, S) = -Total(f, S)
    BY <1>1, TotalOpposite
<1> QED
    BY <1>2, <1>3

\* A transfer leaves the sum as it was.
AuditMove(f, g, S, a, b, n) ==
    /\ IsFiniteSet(S) /\ a \in S /\ b \in S /\ a # b /\ n \in Int /\ \A x \in S : f[x] \in Int
    /\ g[a] = f[a] - n /\ g[b] = f[b] + n /\ \A x \in S \ {a, b} : g[x] = f[x]

LEMMA AuditMoves ==
    ASSUME NEW f, NEW g, NEW S, NEW a, NEW b, NEW n, AuditMove(f, g, S, a, b, n)
    PROVE  Total(g, S) = Total(f, S)
<1>0. /\ IsFiniteSet(S) /\ a \in S /\ b \in S /\ a # b /\ n \in Int /\ \A x \in S : f[x] \in Int
      /\ g[a] = f[a] - n /\ g[b] = f[b] + n /\ \A x \in S \ {a, b} : g[x] = f[x]
    BY DEF AuditMove
<1> DEFINE R == S \ {a, b}
<1>1. /\ IsFiniteSet(R) /\ IsFiniteSet(R \cup {a}) /\ a \notin R /\ b \notin R \cup {a}
      /\ (R \cup {a}) \cup {b} = S
    BY <1>0, FS_RemoveElement, FS_Subset
<1>2. \A x \in S : g[x] \in Int
    BY <1>0
<1>3. Total(g, R) = Total(f, R) /\ Total(f, R) \in Int
    BY <1>0, <1>1, TotalSame, TotalType
<1>4. Total(f, R \cup {a}) = Total(f, R) + f[a] /\ Total(g, R \cup {a}) = Total(g, R) + g[a]
    BY <1>0, <1>1, <1>2, TotalAdd
<1>5. /\ Total(f, (R \cup {a}) \cup {b}) = Total(f, R \cup {a}) + f[b]
      /\ Total(g, (R \cup {a}) \cup {b}) = Total(g, R \cup {a}) + g[b]
    BY <1>0, <1>1, <1>2, TotalAdd
<1>6. f[a] \in Int /\ f[b] \in Int
    BY <1>0
<1> HIDE DEF R
<1>7. /\ Total(f, S) = Total(f, R \cup {a}) + f[b]
      /\ Total(g, S) = Total(g, R \cup {a}) + g[b]
    BY <1>1, <1>5, Zenon
<1> QED
    BY <1>0, <1>3, <1>4, <1>6, <1>7

\* The sum of one deposit for each wallet of E, and of what else there is.
LEMMA AuditDeposits ==
    ASSUME NEW S, IsFiniteSet(S), NEW E, E \subseteq S, NEW n \in Int, NEW f, NEW g,
           \A x \in S : f[x] \in Int /\ g[x] = (IF x \in E THEN n ELSE 0) + f[x]
    PROVE  Total(g, S) = n * Cardinality(E) + Total(f, S)
<1> DEFINE Fits(U) == Total(g, U) = n * Cardinality(E \cap U) + Total(f, U)
           T == {U \in SUBSET S : Fits(U)}
<1>1. \A x \in S : g[x] \in Int
    OBVIOUS
<1>2. {} \in T
  <2>1. Total(g, {}) = 0 /\ Total(f, {}) = 0
    BY TotalEmpty
  <2>2. Cardinality(E \cap {}) = 0
    BY FS_EmptySet
  <2> QED
    BY <2>1, <2>2
<1>3. ASSUME NEW U \in SUBSET S, NEW x \in S, U \in T, x \notin U PROVE U \cup {x} \in T
  <2>1. IsFiniteSet(U) /\ IsFiniteSet(E \cap U)
    BY FS_Subset
  <2>2. /\ Total(g, U \cup {x}) = Total(g, U) + g[x] /\ Total(f, U \cup {x}) = Total(f, U) + f[x]
        /\ Total(f, U) \in Int /\ f[x] \in Int
    BY <1>1, <1>3, <2>1, TotalAdd, TotalType
  <2>3. Cardinality(E \cap U) \in Nat
    BY <2>1, FS_CardinalityType
  <2>4. Total(g, U) = n * Cardinality(E \cap U) + Total(f, U)
    BY <1>3
  <2>5. CASE x \in E
    <3>1. E \cap (U \cup {x}) = (E \cap U) \cup {x} /\ x \notin E \cap U
        BY <1>3, <2>5
    <3>2. Cardinality(E \cap (U \cup {x})) = Cardinality(E \cap U) + 1
        BY <2>1, <3>1, FS_AddElement, ZenonT(30)
    <3>3. \A m \in Nat : n * (m + 1) = n * m + n /\ n * m \in Int
        OBVIOUS
    <3>4. g[x] = n + f[x]
        BY <2>5
    <3>5. Fits(U \cup {x})
        BY <2>2, <2>3, <2>4, <3>2, <3>3, <3>4
    <3> QED
        BY <3>5
  <2>6. CASE x \notin E
    <3>0. E \cap (U \cup {x}) = E \cap U
        BY <2>6
    <3>1. Cardinality(E \cap (U \cup {x})) = Cardinality(E \cap U)
        BY <3>0, Zenon
    <3>2. \A m \in Nat : n * m \in Int
        OBVIOUS
    <3>3. g[x] = f[x]
        BY <2>2, <2>6
    <3>4. Fits(U \cup {x})
        BY <2>2, <2>3, <2>4, <3>1, <3>2, <3>3
    <3> QED
        BY <3>4
  <2> QED
    BY <2>5, <2>6
<1>4. S \in T
  <2> HIDE DEF T
  <2> QED
    BY <1>2, <1>3, SubsetSteps
<1>5. E \cap S = E
    OBVIOUS
<1> QED
    BY <1>4, <1>5

\* Differences that are all 0 but one at most cancel only if there are none.
LEMMA AuditCancels ==
    ASSUME NEW S, IsFiniteSet(S), NEW f, NEW g, \A x \in S : f[x] \in Int /\ g[x] = -f[x],
           Cardinality({x \in S : f[x] # 0}) <= 1
    PROVE  Total(g, S) = 0 <=> {x \in S : f[x] # 0} = {}
<1> DEFINE offs == {x \in S : f[x] # 0}
<1>1. IsFiniteSet(offs) /\ Cardinality(offs) \in Nat
    BY FS_Subset, FS_CardinalityType
<1>2. CASE offs = {}
  <2>1. \A x \in S : g[x] = 0
    BY <1>2
  <2> QED
    BY <1>2, <2>1, AuditZero
<1>3. CASE offs # {}
  <2>1. Cardinality(offs) = 1
    <3>1. Cardinality(offs) # 0
        BY <1>1, <1>3, FS_EmptySet
    <3> HIDE DEF offs
    <3> QED
        BY <1>1, <3>1 DEF offs
  <2>2. PICK x : offs = {x}
    BY <1>1, <2>1, FS_Singleton
  <2>3. x \in S /\ f[x] # 0 /\ \A y \in S \ {x} : g[y] = 0
    BY <2>2
  <2>4. IsFiniteSet(S \ {x}) /\ (S \ {x}) \cup {x} = S
    BY <2>3, FS_RemoveElement
  <2>5. Total(g, S \ {x}) = 0
    BY <2>3, <2>4, AuditZero
  <2>6. Total(g, (S \ {x}) \cup {x}) = Total(g, S \ {x}) + g[x]
    <3>1. \A y \in (S \ {x}) \cup {x} : g[y] \in Int
        BY <2>3
    <3> QED
        BY <2>4, <3>1, TotalAdd
  <2>7. f[x] \in Int /\ g[x] = -f[x]
    BY <2>3
  <2>8. Total(g, S) = Total(g, S \ {x}) + g[x]
    BY <2>4, <2>6, Zenon
  <2>9. Total(g, S) = -f[x] /\ f[x] # 0
    BY <2>3, <2>5, <2>7, <2>8
  <2> QED
    BY <1>3, <2>7, <2>9
<1> QED
    BY <1>2, <1>3

AuditTyped ==
    /\ setting.entries \subseteq Wallets /\ setting.off \in [Wallets -> Int]
    /\ computed \in [Wallets -> Int] /\ stored \in [Wallets -> Int]
    /\ entries \in [Wallets -> Nat] /\ commits \in Nat
\* All the money there is: what was deposited and what other means added.
AuditMoney == 2 * Amount * Cardinality(setting.entries) + Total(setting.off, Wallets)
\* The balances differ from the sums of the entries by what other means added.
AuditBooks ==
    /\ \A w \in Wallets : entries[w] > 0 => w \in setting.entries
    /\ Audit!Opened => /\ \A w \in setting.entries : entries[w] > 0
                       /\ \A w \in Wallets : stored[w] = computed[w] + setting.off[w]
                       /\ Total(stored, Wallets) = AuditMoney
\* What a verification read is true until something commits.
AuditVerify ==
    verify.at \in {"reading", "done"} =>
        /\ Audit!Opened /\ verify.since \in Nat /\ verify.since <= commits
        /\ verify.left \subseteq setting.entries /\ (verify.at = "done" => verify.left = {})
        /\ verify = [at |-> verify.at, since |-> verify.since,
                     discrepancies |-> verify.discrepancies, computed |-> verify.computed,
                     left |-> verify.left]
        /\ verify.since = commits =>
             /\ verify.computed = computed
             /\ verify.discrepancies =
                  {w \in setting.entries \ verify.left : Audit!Differs(stored[w], computed[w])}
\* What the reports read and say is that sum, whenever they read.
AuditDelta == [w \in Wallets |-> -setting.off[w]]
AuditReport ==
    /\ \A r \in reading : r.delta = AuditDelta
    /\ report # Audit!NoReport => (report.status = "BALANCED" <=> Total(AuditDelta, Wallets) = 0)
\* A checkpoint under way holds the balances of the moment at which it began.
AuditSaved(c) == c = [w \in Wallets |-> c[w]]
AuditCut(c) == Total([w \in Wallets |-> c[w].balance], Wallets) = AuditMoney
AuditSnapshot ==
    /\ snapshot.left # {} =>
         /\ snapshot = [balance |-> snapshot.balance, left |-> snapshot.left,
                        saved |-> snapshot.saved]
         /\ snapshot.left \subseteq Wallets /\ AuditSaved(snapshot.saved)
         /\ snapshot.balance \in [Wallets -> Int] /\ Total(snapshot.balance, Wallets) = AuditMoney
         /\ \A w \in Wallets \ snapshot.left : snapshot.saved[w].balance = snapshot.balance[w]
    /\ AuditSaved(checkpoint)
    /\ checkpoint = [w \in Wallets |-> Audit!NoCheckpoint] \/ AuditCut(checkpoint)

AuditGood == AuditTyped /\ AuditBooks /\ AuditVerify /\ AuditReport /\ AuditSnapshot
AuditInv == part = "audit" => AuditGood

LEMMA AuditRuns ==
    ASSUME [Next]_vars, part' = "audit"
    PROVE  part = "audit" /\ (Audit!Next \/ UNCHANGED <<setting, auditVars>>)
BY DEF Next, vars

LEMMA AuditConstants == Amount \in Nat \ {0} /\ IsFiniteSet(Wallets) /\ AuditSettings \subseteq Audit!Setting
<1>1. Audit!AuditAssumption
    BY ServicesAssumption
<1>2. Audit!IsFiniteSet(Wallets) = IsFiniteSet(Wallets)
    BY DEF Audit!IsFiniteSet, IsFiniteSet
<1> QED
    BY <1>1, <1>2 DEF Audit!AuditAssumption

LEMMA AuditStarts == Init => AuditInv
<1> SUFFICES ASSUME Init, part = "audit" PROVE AuditGood
    BY DEF AuditInv
<1>1. Audit!Idle /\ setting \in Audit!Setting
    BY AuditConstants DEF Init
<1>2. AuditTyped
    BY <1>1 DEF Audit!Idle, Audit!Setting, AuditTyped
<1>3. \A w \in Wallets : entries[w] = 0
    BY <1>1 DEF Audit!Idle
<1>4. AuditBooks
    BY <1>2, <1>3 DEF AuditBooks, AuditTyped, Audit!Opened
<1>5. AuditVerify /\ AuditReport
    BY <1>1 DEF AuditVerify, AuditReport, Audit!Idle, Audit!NoVerify
<1>6. AuditSnapshot
    BY <1>1 DEF AuditSnapshot, AuditSaved, Audit!Idle
<1> QED
    BY <1>2, <1>4, <1>5, <1>6 DEF AuditGood

\* The reports and the checkpoint when only the books or the verification change.
LEMMA AuditKeepsRest ==
    ASSUME AuditGood, setting' = setting
    PROVE  /\ UNCHANGED <<reading, report>> => AuditReport'
           /\ UNCHANGED <<snapshot, checkpoint>> => AuditSnapshot'
           /\ UNCHANGED <<computed, entries, stored, commits>> => AuditTyped' /\ AuditBooks'
           /\ UNCHANGED <<computed, entries, stored, commits, verify>> => AuditVerify'
<1>1. AuditMoney' = AuditMoney /\ AuditDelta' = AuditDelta
    BY DEF AuditMoney, AuditDelta
<1>2. UNCHANGED <<reading, report>> => AuditReport'
    BY <1>1 DEF AuditGood, AuditReport, Audit!NoReport
<1>3. UNCHANGED <<snapshot, checkpoint>> => AuditSnapshot'
    BY <1>1 DEF AuditGood, AuditSnapshot, AuditSaved, AuditCut, Audit!NoCheckpoint
<1>4. UNCHANGED <<computed, entries, stored, commits>> => AuditTyped' /\ AuditBooks'
    BY <1>1 DEF AuditGood, AuditTyped, AuditBooks, Audit!Opened
<1>5. UNCHANGED <<computed, entries, stored, commits, verify>> => AuditVerify'
    BY DEF AuditGood, AuditVerify, Audit!Opened, Audit!Differs, Audit!Distance, Audit!TOLERANCE
<1> QED
    BY <1>2, <1>3, <1>4, <1>5

LEMMA AuditOpens ==
    ASSUME AuditGood, Audit!Open PROVE AuditGood'
<1>1. /\ ~ Audit!Opened /\ setting' = setting /\ commits' = commits
      /\ entries' = [w \in Wallets |-> IF w \in setting.entries THEN 1 ELSE 0]
      /\ computed' = [w \in Wallets |-> 2 * Amount * entries'[w]]
      /\ stored' = [w \in Wallets |-> computed'[w] + setting.off[w]]
      /\ UNCHANGED <<verify, snapshot, checkpoint, reading, report>>
    BY DEF Audit!Open, Audit!ledger, Audit!daily
<1>2. AuditTyped /\ Amount \in Nat
    BY AuditConstants DEF AuditGood
<1>3. \A w \in Wallets : /\ entries'[w] = IF w \in setting.entries THEN 1 ELSE 0
                         /\ computed'[w] = IF w \in setting.entries THEN 2 * Amount ELSE 0
                         /\ stored'[w] = computed'[w] + setting.off[w]
    BY <1>1, <1>2
<1>4. AuditTyped'
    BY <1>1, <1>2, <1>3 DEF AuditTyped
<1>5. Total(stored', Wallets) = AuditMoney
  <2>1. \A x \in Wallets : /\ setting.off[x] \in Int
                           /\ stored'[x] = (IF x \in setting.entries THEN 2 * Amount ELSE 0) + setting.off[x]
    BY <1>2, <1>3 DEF AuditTyped
  <2>2. 2 * Amount \in Int /\ setting.entries \subseteq Wallets /\ IsFiniteSet(Wallets)
    BY <1>2, AuditConstants DEF AuditTyped
  <2> QED
    BY <2>1, <2>2, AuditDeposits DEF AuditMoney
<1>6. AuditBooks'
  <2>1. \A w \in Wallets : entries'[w] > 0 => w \in setting.entries
    BY <1>3
  <2>2. \A w \in setting.entries : entries'[w] > 0
    BY <1>2, <1>3 DEF AuditTyped
  <2>3. AuditMoney' = AuditMoney
    BY <1>1 DEF AuditMoney
  <2> QED
    BY <1>1, <1>3, <1>5, <2>1, <2>2, <2>3 DEF AuditBooks
<1>7. AuditVerify'
    BY <1>1 DEF AuditGood, AuditVerify
<1> QED
    BY <1>1, <1>4, <1>6, <1>7, AuditKeepsRest DEF AuditGood

LEMMA AuditTransfers ==
    ASSUME AuditGood, NEW from \in Wallets, NEW to \in Wallets, Audit!Transfer(from, to)
    PROVE  AuditGood'
<1>1. /\ from # to /\ entries[from] > 0 /\ entries[to] > 0 /\ setting' = setting
      /\ computed' = [computed EXCEPT ![from] = @ - Amount, ![to] = @ + Amount]
      /\ stored' = [stored EXCEPT ![from] = @ - Amount, ![to] = @ + Amount]
      /\ entries' = [entries EXCEPT ![from] = @ + 1, ![to] = @ + 1]
      /\ commits' = commits + 1
      /\ UNCHANGED <<verify, snapshot, checkpoint, reading, report>>
    BY DEF Audit!Transfer, Audit!ledger, Audit!daily
<1>2. AuditTyped /\ AuditBooks /\ Amount \in Nat
    BY AuditConstants DEF AuditGood
<1>3. /\ computed'[from] = computed[from] - Amount /\ computed'[to] = computed[to] + Amount
      /\ stored'[from] = stored[from] - Amount /\ stored'[to] = stored[to] + Amount
      /\ \A w \in Wallets \ {from, to} : computed'[w] = computed[w] /\ stored'[w] = stored[w]
    BY <1>1, <1>2 DEF AuditTyped
<1>4. \A w \in Wallets : entries'[w] >= entries[w] /\ (entries'[w] > 0 => entries[w] > 0)
    BY <1>1, <1>2 DEF AuditTyped
<1>5. AuditTyped'
    BY <1>1, <1>2 DEF AuditTyped
<1>6. Audit!Opened
    BY <1>1, <1>2 DEF AuditBooks, Audit!Opened
<1>7. AuditBooks'
  <2>1. Total(stored', Wallets) = Total(stored, Wallets)
    <3>1. \A w \in Wallets : stored[w] \in Int
        BY <1>2 DEF AuditTyped
    <3>2. IsFiniteSet(Wallets) /\ Amount \in Int
        BY <1>2, AuditConstants
    <3>3. /\ from # to /\ stored'[from] = stored[from] - Amount
          /\ stored'[to] = stored[to] + Amount
          /\ \A w \in Wallets \ {from, to} : stored'[w] = stored[w]
        BY <1>1, <1>3
    <3>4. AuditMove(stored, stored', Wallets, from, to, Amount)
        BY <3>1, <3>2, <3>3 DEF AuditMove
    <3> QED
        BY <3>4, AuditMoves, Zenon
  <2>2. \A w \in Wallets : stored'[w] = computed'[w] + setting.off[w]
    BY <1>2, <1>3, <1>6 DEF AuditTyped, AuditBooks
  <2>3. AuditMoney' = AuditMoney
    BY <1>1 DEF AuditMoney
  <2>4. \A w \in setting.entries : entries'[w] > 0
    BY <1>2, <1>4, <1>5, <1>6, <1>1 DEF AuditTyped, AuditBooks
  <2>5. \A w \in Wallets : entries'[w] > 0 => w \in setting.entries
    BY <1>2, <1>4 DEF AuditBooks
  <2>6. Total(stored, Wallets) = AuditMoney
    BY <1>2, <1>6 DEF AuditBooks
  <2> QED
    BY <1>1, <2>1, <2>2, <2>3, <2>4, <2>5, <2>6 DEF AuditBooks
<1>8. AuditVerify'
  <2> SUFFICES ASSUME verify.at \in {"reading", "done"} PROVE AuditVerify'
    BY <1>1 DEF AuditVerify
  <2>1. /\ verify.since \in Nat /\ verify.since <= commits
        /\ verify.left \subseteq setting.entries /\ (verify.at = "done" => verify.left = {})
        /\ verify = [at |-> verify.at, since |-> verify.since,
                     discrepancies |-> verify.discrepancies, computed |-> verify.computed,
                     left |-> verify.left]
    BY DEF AuditGood, AuditVerify
  <2>2. verify.since <= commits' /\ verify.since # commits'
    BY <1>1, <1>2, <2>1 DEF AuditTyped
  <2>3. Audit!Opened'
    BY <1>1, <1>2, <1>4, <1>5, <1>6 DEF Audit!Opened, AuditTyped
  <2> QED
    BY <1>1, <2>1, <2>2, <2>3 DEF AuditVerify
<1> QED
    BY <1>1, <1>5, <1>7, <1>8, AuditKeepsRest DEF AuditGood

\* The verification.
LEMMA AuditVerifies ==
    ASSUME AuditGood, Audit!computedBalances \/ Audit!CompareBalance PROVE AuditGood'
<1>1. UNCHANGED <<setting, computed, entries, stored, commits, snapshot, checkpoint, reading, report>>
    BY DEF Audit!computedBalances, Audit!CompareBalance, Audit!books, Audit!daily
<1>2. AuditTyped /\ AuditBooks /\ AuditVerify
    BY DEF AuditGood
<1>3. Audit!Opened' <=> Audit!Opened
    BY <1>1 DEF Audit!Opened
<1>4. CASE Audit!computedBalances
  <2>1. /\ Audit!Opened
        /\ verify' = [at |-> "reading", since |-> commits, discrepancies |-> {},
                      computed |-> computed, left |-> {w \in Wallets : entries[w] > 0}]
    BY <1>4 DEF Audit!computedBalances
  <2>2. {w \in Wallets : entries[w] > 0} = setting.entries
    BY <1>2, <2>1 DEF AuditBooks, AuditTyped
  <2>3. /\ verify'.at = "reading" /\ verify'.since = commits /\ verify'.discrepancies = {}
        /\ verify'.computed = computed /\ verify'.left = setting.entries
    BY <2>1, <2>2
  <2>4. verify' = [at |-> verify'.at, since |-> verify'.since, discrepancies |-> verify'.discrepancies,
                   computed |-> verify'.computed, left |-> verify'.left]
    BY <2>1
  <2>5. commits \in Nat
    BY <1>2 DEF AuditTyped
  <2> QED
    BY <1>1, <1>3, <2>1, <2>3, <2>4, <2>5, AuditKeepsRest DEF AuditVerify, AuditGood
<1>5. CASE Audit!CompareBalance
  <2>1. PICK w \in verify.left :
            /\ verify.at = "reading"
            /\ verify' = [verify EXCEPT
                   !.left = @ \ {w},
                   !.discrepancies = IF Audit!Differs(stored[w], verify.computed[w]) THEN @ \cup {w} ELSE @,
                   !.at = IF verify.left = {w} THEN "done" ELSE @]
    BY <1>5 DEF Audit!CompareBalance
  <2>2. /\ Audit!Opened /\ verify.since \in Nat /\ verify.since <= commits
        /\ verify.left \subseteq setting.entries
        /\ verify = [at |-> verify.at, since |-> verify.since,
                     discrepancies |-> verify.discrepancies, computed |-> verify.computed,
                     left |-> verify.left]
        /\ verify.since = commits =>
             /\ verify.computed = computed
             /\ verify.discrepancies =
                  {v \in setting.entries \ verify.left : Audit!Differs(stored[v], computed[v])}
    BY <1>2, <2>1 DEF AuditVerify
  <2>3. /\ verify'.at = IF verify.left = {w} THEN "done" ELSE "reading"
        /\ verify'.since = verify.since /\ verify'.computed = verify.computed
        /\ verify'.left = verify.left \ {w}
        /\ verify'.discrepancies = IF Audit!Differs(stored[w], verify.computed[w])
                                   THEN verify.discrepancies \cup {w} ELSE verify.discrepancies
        /\ verify' = [at |-> verify'.at, since |-> verify'.since,
                      discrepancies |-> verify'.discrepancies, computed |-> verify'.computed,
                      left |-> verify'.left]
    BY <2>1, <2>2
  <2>4. ASSUME verify.since = commits
        PROVE  verify'.discrepancies =
                   {v \in setting.entries \ verify'.left : Audit!Differs(stored[v], computed[v])}
    BY <2>1, <2>2, <2>3, <2>4
  <2>5. \A v : Audit!Differs(stored[v], computed[v])' <=> Audit!Differs(stored[v], computed[v])
    BY <1>1 DEF Audit!Differs, Audit!Distance, Audit!TOLERANCE
  <2>6. AuditVerify'
    BY <1>1, <1>3, <2>2, <2>3, <2>4, <2>5 DEF AuditVerify
  <2> QED
    BY <1>1, <2>6, AuditKeepsRest DEF AuditGood
<1> QED
    BY <1>4, <1>5

\* The checkpoint.
LEMMA AuditSnapshots ==
    ASSUME AuditGood, Audit!snapshotAll \/ Audit!SaveCheckpoint PROVE AuditGood'
<1>1. UNCHANGED <<setting, computed, entries, stored, commits, verify, reading, report>>
    BY DEF Audit!snapshotAll, Audit!SaveCheckpoint, Audit!books, Audit!daily
<1>2. AuditTyped /\ AuditBooks /\ AuditSnapshot
    BY DEF AuditGood
<1>3. AuditMoney' = AuditMoney
    BY <1>1 DEF AuditMoney
<1>4. CASE Audit!snapshotAll
  <2>1. /\ Audit!Opened /\ checkpoint' = checkpoint
        /\ snapshot' = [balance |-> stored, left |-> Wallets, saved |-> checkpoint]
    BY <1>4 DEF Audit!snapshotAll
  <2>2. /\ snapshot'.balance = stored /\ snapshot'.left = Wallets /\ snapshot'.saved = checkpoint
        /\ snapshot' = [balance |-> snapshot'.balance, left |-> snapshot'.left, saved |-> snapshot'.saved]
    BY <2>1
  <2>3. stored \in [Wallets -> Int] /\ Total(stored, Wallets) = AuditMoney
    BY <1>2, <2>1 DEF AuditTyped, AuditBooks
  <2>4. AuditSnapshot'
    BY <1>2, <1>3, <2>1, <2>2, <2>3 DEF AuditSnapshot, AuditSaved, AuditCut, Audit!NoCheckpoint
  <2> QED
    BY <1>1, <2>4, AuditKeepsRest DEF AuditGood
<1>5. CASE Audit!SaveCheckpoint
  <2>1. PICK w, saved :
            /\ w \in snapshot.left
            /\ saved = [snapshot.saved EXCEPT
                            ![w] = [balance |-> snapshot.balance[w], entriesCount |-> entries[w]]]
            /\ snapshot' = [snapshot EXCEPT !.left = @ \ {w}, !.saved = saved]
            /\ checkpoint' = IF snapshot.left = {w} THEN saved ELSE checkpoint
    BY <1>5 DEF Audit!SaveCheckpoint, Audit!BalanceOf
  <2>2. /\ snapshot = [balance |-> snapshot.balance, left |-> snapshot.left, saved |-> snapshot.saved]
        /\ snapshot.left \subseteq Wallets /\ AuditSaved(snapshot.saved)
        /\ snapshot.balance \in [Wallets -> Int] /\ Total(snapshot.balance, Wallets) = AuditMoney
        /\ \A v \in Wallets \ snapshot.left : snapshot.saved[v].balance = snapshot.balance[v]
    BY <1>2, <2>1 DEF AuditSnapshot
  <2>3. /\ snapshot'.balance = snapshot.balance /\ snapshot'.left = snapshot.left \ {w}
        /\ snapshot'.saved = saved
        /\ snapshot' = [balance |-> snapshot'.balance, left |-> snapshot'.left, saved |-> snapshot'.saved]
    BY <2>1, <2>2
  <2>4. w \in Wallets /\ AuditSaved(saved) /\ saved[w].balance = snapshot.balance[w]
        /\ \A v \in Wallets \ {w} : saved[v] = snapshot.saved[v]
    BY <2>1, <2>2 DEF AuditSaved
  <2>5. \A v \in Wallets \ (snapshot.left \ {w}) : saved[v].balance = snapshot.balance[v]
    BY <2>2, <2>4
  <2>6. CASE snapshot.left = {w}
    <3>1. checkpoint' = saved /\ snapshot'.left = {}
        BY <2>1, <2>3, <2>6
    <3>2. \A v \in Wallets : saved[v].balance = snapshot.balance[v]
        BY <2>5, <2>6
    <3>3. AuditCut(saved)
      <4> DEFINE held == [v \in Wallets |-> saved[v].balance]
      <4>1. \A v \in Wallets : snapshot.balance[v] \in Int /\ held[v] = snapshot.balance[v]
        BY <2>2, <3>2
      <4> HIDE DEF held
      <4>2. Total(held, Wallets) = Total(snapshot.balance, Wallets)
        BY <4>1, AuditConstants, TotalSame
      <4> QED
        BY <2>2, <4>2 DEF AuditCut, held
    <3>4. AuditCut(checkpoint)'
        BY <1>3, <3>1, <3>3 DEF AuditCut
    <3>5. AuditSaved(checkpoint)'
        BY <2>4, <3>1 DEF AuditSaved
    <3>6. AuditSnapshot'
        BY <3>1, <3>4, <3>5 DEF AuditSnapshot
    <3> QED
        BY <1>1, <3>6, AuditKeepsRest DEF AuditGood
  <2>7. CASE snapshot.left # {w}
    <3>1. checkpoint' = checkpoint
        BY <2>1, <2>7
    <3>2. AuditSaved(checkpoint)'
        BY <1>2, <3>1 DEF AuditSaved, AuditSnapshot
    <3>3. checkpoint' = [v \in Wallets |-> Audit!NoCheckpoint] \/ AuditCut(checkpoint)'
        BY <1>2, <1>3, <3>1 DEF AuditSnapshot, AuditCut
    <3>4. AuditSaved(snapshot.saved)' /\ snapshot'.left \subseteq Wallets
        BY <2>2, <2>3, <2>4 DEF AuditSaved
    <3>5. /\ snapshot'.balance \in [Wallets -> Int] /\ Total(snapshot'.balance, Wallets) = AuditMoney'
          /\ \A v \in Wallets \ snapshot'.left : snapshot'.saved[v].balance = snapshot'.balance[v]
        BY <1>3, <2>2, <2>3, <2>5
    <3>6. AuditSnapshot'
        BY <2>3, <3>2, <3>3, <3>4, <3>5 DEF AuditSnapshot, Audit!NoCheckpoint
    <3> QED
        BY <1>1, <3>6, AuditKeepsRest DEF AuditGood
  <2> QED
    BY <2>6, <2>7
<1> QED
    BY <1>4, <1>5

\* The daily report.
LEMMA AuditReports ==
    ASSUME AuditGood, Audit!walletTotals \/ \E r \in reading : Audit!Generate(r) PROVE AuditGood'
<1>1. UNCHANGED <<setting, computed, entries, stored, commits, verify, snapshot, checkpoint>>
    BY DEF Audit!walletTotals, Audit!Generate, Audit!books, Audit!ledger
<1>2. AuditTyped /\ AuditBooks /\ AuditReport
    BY DEF AuditGood
<1>3. AuditDelta' = AuditDelta
    BY <1>1 DEF AuditDelta
<1>4. CASE Audit!walletTotals
  <2>1. /\ Audit!Opened /\ report' = report
        /\ reading' = reading \cup
               {[number |-> asked', since |-> commits,
                 delta |-> [w \in Wallets |-> computed[w] - stored[w]]]}
    BY <1>4 DEF Audit!walletTotals
  <2>2. [w \in Wallets |-> computed[w] - stored[w]] = AuditDelta
    BY <1>2, <2>1 DEF AuditTyped, AuditBooks, AuditDelta
  <2>3. \A r \in reading' : r.delta = AuditDelta
    BY <1>2, <2>1, <2>2 DEF AuditReport
  <2>4. AuditReport'
    BY <1>2, <1>3, <2>1, <2>3 DEF AuditReport, Audit!NoReport
  <2> QED
    BY <1>1, <2>4, AuditKeepsRest DEF AuditGood
<1>5. ASSUME NEW r \in reading, Audit!Generate(r) PROVE AuditGood'
  <2>1. /\ reading' = reading \ {r}
        /\ report' = [status |-> IF Audit!FoldFunction(+, 0, r.delta) = 0 THEN "BALANCED" ELSE "UNBALANCED",
                      number |-> r.number]
    BY <1>5 DEF Audit!Generate
  <2>2. r.delta = AuditDelta
    BY <1>2 DEF AuditReport
  <2>3. Audit!FoldFunction(+, 0, r.delta) = Total(AuditDelta, Wallets)
    <3>1. DOMAIN AuditDelta = Wallets
        BY DEF AuditDelta
    <3>2. Audit!FoldFunction(+, 0, AuditDelta) = Total(AuditDelta, Wallets)
        BY <3>1, AuditSums
    <3> QED
        BY <2>2, <3>2
  <2>4. report'.status = "BALANCED" <=> Total(AuditDelta, Wallets) = 0
    BY <2>1, <2>3
  <2>5. AuditReport'
    BY <1>2, <1>3, <2>1, <2>4 DEF AuditReport
  <2> QED
    BY <1>1, <2>5, AuditKeepsRest DEF AuditGood
<1> QED
    BY <1>4, <1>5

LEMMA AuditKeeps == AuditInv /\ [Next]_vars => AuditInv'
<1> SUFFICES ASSUME AuditInv, [Next]_vars, part' = "audit" PROVE AuditGood'
    BY DEF AuditInv
<1>1. AuditGood /\ (Audit!Next \/ UNCHANGED <<setting, auditVars>>)
    BY AuditRuns DEF AuditInv
<1>2. CASE Audit!Open \/ \E from, to \in Wallets : Audit!Transfer(from, to)
    BY <1>1, <1>2, AuditOpens, AuditTransfers, Zenon
<1>3. CASE Audit!computedBalances \/ Audit!CompareBalance \/ Audit!snapshotAll \/ Audit!SaveCheckpoint
    BY <1>1, <1>3, AuditVerifies, AuditSnapshots, Zenon
<1>4. CASE Audit!walletTotals \/ \E r \in reading : Audit!Generate(r)
    BY <1>1, <1>4, AuditReports, Zenon
<1>5. CASE Audit!Quiet \/ UNCHANGED <<setting, auditVars>>
  <2>1. UNCHANGED <<setting, computed, entries, stored, commits, verify, snapshot, checkpoint, reading,
                    report>>
    BY <1>5 DEF Audit!Quiet, Audit!vars, Audit!books, Audit!ledger, Audit!daily, auditVars
  <2> QED
    BY <1>1, <2>1, AuditKeepsRest DEF AuditGood
<1> QED
    BY <1>1, <1>2, <1>3, <1>4, <1>5 DEF Audit!Next

\* The readers of the books are right, with any finite number of wallets, of transfers that
\* commit while they read, of reports and of checkpoints, whatever other means did to the
\* balances before.
THEOREM ReadersTellTheTruth == Spec => []ReadingsAreTrue
<1>1. Init => AuditInv
    BY AuditStarts
<1>2. AuditInv /\ [Next]_vars => AuditInv'
    BY AuditKeeps
<1>3. AuditInv => ReadingsAreTrue
  <2> SUFFICES ASSUME AuditGood PROVE Audit!ReadingsAreTrue
    BY DEF AuditInv, ReadingsAreTrue
  <2>1. AuditTyped /\ AuditBooks /\ AuditVerify /\ AuditReport /\ AuditSnapshot
    BY DEF AuditGood
  <2>2. ASSUME verify.at = "done", verify.since = commits
        PROVE  verify.discrepancies =
                 {w \in Wallets : entries[w] > 0 /\ Audit!Distance(setting.off[w], 0) > Audit!TOLERANCE}
    <3>1. /\ Audit!Opened /\ verify.left = {}
          /\ verify.discrepancies =
               {w \in setting.entries \ {} : Audit!Differs(stored[w], computed[w])}
        BY <2>1, <2>2 DEF AuditVerify
    <3>2. \A w \in Wallets : entries[w] > 0 <=> w \in setting.entries
        BY <2>1, <3>1 DEF AuditBooks, AuditTyped
    <3>3. \A w \in Wallets : Audit!Differs(stored[w], computed[w])
                               <=> Audit!Distance(setting.off[w], 0) > Audit!TOLERANCE
        BY <2>1, <3>1 DEF AuditBooks, AuditTyped, Audit!Differs, Audit!Distance, Audit!TOLERANCE
    <3> QED
        BY <2>1, <3>1, <3>2, <3>3 DEF AuditTyped
  <2>3. ASSUME report # Audit!NoReport, Cardinality({w \in Wallets : setting.off[w] # 0}) <= 1
        PROVE  report.status = "BALANCED" <=> {w \in Wallets : setting.off[w] # 0} = {}
    <3>1. \A w \in Wallets : setting.off[w] \in Int /\ AuditDelta[w] = -setting.off[w]
        BY <2>1 DEF AuditTyped, AuditDelta
    <3>2. Total(AuditDelta, Wallets) = 0 <=> {w \in Wallets : setting.off[w] # 0} = {}
        BY <2>3, <3>1, AuditConstants, AuditCancels
    <3> QED
        BY <2>1, <2>3, <3>2 DEF AuditReport
  <2>4. Audit!ReportsAreRight
    <3>1. \A S : Audit!Cardinality(S) = Cardinality(S)
        BY DEF Audit!Cardinality, Cardinality
    <3> QED
        BY <2>2, <2>3, <3>1 DEF Audit!ReportsAreRight
  <2>5. Audit!CheckpointIsACut
    <3>1. Audit!Cardinality(setting.entries) = Cardinality(setting.entries)
        BY DEF Audit!Cardinality, Cardinality
    <3>2. Audit!FoldFunction(+, 0, setting.off) = Total(setting.off, Wallets)
        BY <2>1, AuditSums DEF AuditTyped
    <3>3. Audit!FoldFunction(+, 0, [w \in Wallets |-> checkpoint[w].balance])
            = Total([w \in Wallets |-> checkpoint[w].balance], Wallets)
        BY AuditSums
    <3>4. CASE AuditCut(checkpoint)
        BY <3>1, <3>2, <3>3, <3>4 DEF Audit!CheckpointIsACut, AuditCut, AuditMoney
    <3>5. CASE checkpoint = [w \in Wallets |-> Audit!NoCheckpoint] /\ Wallets # {}
        BY <3>5 DEF Audit!CheckpointIsACut
    <3>6. CASE Wallets = {}
      <4>1. setting.entries = {}
        BY <2>1, <3>6 DEF AuditTyped
      <4>2. Cardinality(setting.entries) = 0
        BY <4>1, FS_EmptySet
      <4>3. \A f : Total(f, Wallets) = 0
        BY <3>6, TotalEmpty
      <4>4. AuditCut(checkpoint)
        BY <4>2, <4>3, AuditConstants DEF AuditCut, AuditMoney
      <4> QED
        BY <3>1, <3>2, <3>3, <4>4 DEF Audit!CheckpointIsACut, AuditCut, AuditMoney
    <3> QED
        BY <2>1, <3>4, <3>5, <3>6 DEF AuditSnapshot
  <2> QED
    BY <2>4, <2>5 DEF Audit!ReadingsAreTrue
<1> QED
    BY <1>1, <1>2, <1>3, PTL DEF Spec

(***************************************************************************)
(* aml-service's screening of a name.                                      *)
(***************************************************************************)
\* What names are made of once they are normalized.
ScreenSymbols == {Fold[c] : c \in DOMAIN Fold} \cup {Screen!Blank}
ScreenWords == Seq(ScreenSymbols)

LEMMA ScreenMax ==
    ASSUME NEW n \in Nat, NEW S, S \subseteq 1..n, S # {} PROVE Screen!Max(S) \in S
<1> DEFINE T == {m \in Nat : n - m \in S}
<1>0. \A x \in S : x \in Nat /\ n - x \in Nat /\ n - (n - x) = x
    OBVIOUS
<1>1. T \subseteq Nat /\ \A x \in S : n - x \in T
    BY <1>0
<1> HIDE DEF T
<1>2. PICK m \in T : \A d \in T : m <= d
    BY <1>1, LeastNumber
<1>3. m \in Nat /\ n - m \in S
    BY <1>2 DEF T
<1>4. \A y \in S : n - m >= y
    BY <1>0, <1>1, <1>2, <1>3
<1> QED
    BY <1>3, <1>4 DEF Screen!Max

\* What a fold begins in and does not leave.
LEMMA ScreenFold ==
    ASSUME NEW n \in Nat, NEW X, NEW g, g[{}] \in X,
           \A s \in SUBSET (1..n) : s # {} /\ g[s \ {Screen!Max(s)}] \in X => g[s] \in X
    PROVE  g[1..n] \in X
<1> DEFINE T == {U \in SUBSET (1..n) : g[U] \notin X}
<1> SUFFICES ASSUME T # {} PROVE FALSE
    OBVIOUS
<1>1. IsFiniteSet(1..n)
    BY FS_Interval
<1>2. PICK U \in T : \A V \in SUBSET U : V # U => V \notin T
  <2>1. T \subseteq SUBSET (1..n)
    OBVIOUS
  <2> HIDE DEF T
  <2> QED
    BY <1>1, <2>1, SmallestSet
<1>3. U # {} /\ U \subseteq 1..n /\ g[U] \notin X
    BY <1>2
<1>4. Screen!Max(U) \in U
    BY <1>3, ScreenMax
<1>5. U \ {Screen!Max(U)} \notin T
    BY <1>2, <1>4
<1> QED
    BY <1>3, <1>5

\* The folds over what comes before are what they are defined to be.
ScreenFolds(g, n, base, step) ==
    g = [s \in SUBSET (1..n) |-> IF s = {} THEN base
           ELSE step[<<Screen!Max(s), g[s \ {Screen!Max(s)}]>>]]

LEMMA ScreenFoldIs ==
    ASSUME NEW n \in Nat, NEW X, NEW base \in X, NEW step \in [(1..n) \X X -> X]
    PROVE  \E g \in [SUBSET (1..n) -> X] : ScreenFolds(g, n, base, step)
<1> DEFINE ch == [s \in SUBSET (1..n) |-> Screen!Max(s)]
<1>1. IsFiniteSet(1..n)
    BY FS_Interval
<1>2. \A s \in SUBSET (1..n) : s # {} => ch[s] \in s
    BY ScreenMax
<1>3. PICK g \in [SUBSET (1..n) -> X] : Folds(g, 1..n, ch, base, step)
    <2> HIDE DEF ch
    <2> QED
        BY <1>1, <1>2, FoldExists
<1>4. g = [s \in SUBSET (1..n) |-> IF s = {} THEN base ELSE step[<<ch[s], g[s \ {ch[s]}]>>]]
    BY <1>3 DEF Folds
<1>5. g = [s \in SUBSET (1..n) |-> IF s = {} THEN base
             ELSE step[<<Screen!Max(s), g[s \ {Screen!Max(s)}]>>]]
    BY <1>4
<1>6. ScreenFolds(g, n, base, step)
    BY <1>5 DEF ScreenFolds
<1> QED
    BY <1>6, Zenon

LEMMA ScreenLast ==
    ASSUME NEW X, NEW s \in Seq(X), s # << >>
    PROVE  Screen!Last(s) \in X /\ Screen!Front(s) \in Seq(X)
BY DEF Screen!Last, Screen!Front

\* A name normalized; its words; and the listed names.
LEMMA ScreenNormal ==
    ASSUME NEW raw \in Seq(STRING) PROVE Screen!normalizeName(raw) \in ScreenWords
<1> DEFINE n == Len(raw)
           Op(a, c) == Screen!Normalized(a, c)
           Def(h) == [s \in SUBSET (1..n) |-> IF s = {} THEN << >>
                        ELSE Op(h[s \ {Screen!Max(s)}], raw[Screen!Max(s)])]
           it == CHOOSE h : h = Def(h)
<1>1. Screen!FoldLeft(Screen!Normalized, << >>, raw) = it[1..n]
  <2>1. DOMAIN raw = 1..n
    OBVIOUS
  <2> QED
    BY <2>1 DEF Screen!FoldLeft, Screen!MapThenFoldSet
<1>2. \A a \in ScreenWords : \A c : Op(a, c) \in ScreenWords
  <2> SUFFICES ASSUME NEW a \in Seq(ScreenSymbols), NEW c
               PROVE  Screen!Normalized(a, c) \in Seq(ScreenSymbols)
    BY DEF ScreenWords
  <2>1. Screen!Blank \in ScreenSymbols /\ (c \in DOMAIN Fold => Fold[c] \in ScreenSymbols)
    BY DEF ScreenSymbols
  <2> QED
    BY <2>1 DEF Screen!Normalized
<1>3. n \in Nat /\ << >> \in ScreenWords
    BY DEF ScreenWords
<1> HIDE DEF Op
<1>4. it = Def(it)
  <2> DEFINE step == [p \in (1..n) \X ScreenWords |-> Op(p[2], raw[p[1]])]
  <2>1. step \in [(1..n) \X ScreenWords -> ScreenWords]
    BY <1>2
  <2>2. \A x \in 1..n, a \in ScreenWords : step[<<x, a>>] = Op(a, raw[x])
    OBVIOUS
  <2> HIDE DEF step
  <2>3. PICK g \in [SUBSET (1..n) -> ScreenWords] : ScreenFolds(g, n, << >>, step)
    <3> HIDE DEF n
    <3> QED
        BY <1>3, <2>1, ScreenFoldIs, Zenon
  <2>4. \A s \in SUBSET (1..n) : s # {} =>
            step[<<Screen!Max(s), g[s \ {Screen!Max(s)}]>>]
                = Op(g[s \ {Screen!Max(s)}], raw[Screen!Max(s)])
    BY <1>3, <2>2, ScreenMax
  <2>5. g = Def(g)
    BY <2>3, <2>4 DEF ScreenFolds
  <2> HIDE DEF Def
  <2> QED
    BY <2>5
<1> HIDE DEF it
<1>5. it[1..n] \in ScreenWords
  <2>1. it[{}] \in ScreenWords
    BY <1>3, <1>4
  <2>2. ASSUME NEW s \in SUBSET (1..n), s # {}, it[s \ {Screen!Max(s)}] \in ScreenWords
        PROVE  it[s] \in ScreenWords
    BY <1>2, <1>4, <2>2
  <2> QED
    BY <1>3, <2>1, <2>2, ScreenFold
<1> QED
    BY <1>1, <1>5, ScreenLast DEF Screen!normalizeName, ScreenWords

LEMMA ScreenSplits ==
    ASSUME NEW s \in ScreenWords
    PROVE  Screen!FoldLeft(Screen!Split, << << >> >>, s) \in Seq(ScreenWords) \ {<< >>}
<1> DEFINE n == Len(s)
           Words == Seq(ScreenWords) \ {<< >>}
           none == << << >> >>
           Op(a, c) == Screen!Split(a, c)
           Def(h) == [u \in SUBSET (1..n) |-> IF u = {} THEN none
                        ELSE Op(h[u \ {Screen!Max(u)}], s[Screen!Max(u)])]
           it == CHOOSE h : h = Def(h)
<1>1. Screen!FoldLeft(Screen!Split, none, s) = it[1..n]
  <2>1. DOMAIN s = 1..n
    BY DEF ScreenWords
  <2> QED
    BY <2>1 DEF Screen!FoldLeft, Screen!MapThenFoldSet
<1>2. \A a \in Words : \A x \in 1..n : Op(a, s[x]) \in Words
  <2> SUFFICES ASSUME NEW a \in Seq(ScreenWords), a # << >>, NEW x \in 1..n
               PROVE  Screen!Split(a, s[x]) \in Words
    OBVIOUS
  <2>1. s[x] \in ScreenSymbols
    BY DEF ScreenWords
  <2>2. Screen!Last(a) \in ScreenWords /\ Screen!Front(a) \in Seq(ScreenWords)
    BY ScreenLast
  <2>3. Append(Screen!Last(a), s[x]) \in ScreenWords /\ << >> \in ScreenWords
    BY <2>1, <2>2 DEF ScreenWords
  <2>4. /\ Append(a, << >>) \in Words
        /\ Append(Screen!Front(a), Append(Screen!Last(a), s[x])) \in Words
    BY <2>2, <2>3
  <2> QED
    BY <2>4 DEF Screen!Split
<1>3. n \in Nat /\ none \in Words
    BY DEF ScreenWords
<1> HIDE DEF none, Words
<1> HIDE DEF Op
<1>4. it = Def(it)
  <2> DEFINE step == [p \in (1..n) \X Words |-> Op(p[2], s[p[1]])]
  <2>1. step \in [(1..n) \X Words -> Words]
    BY <1>2
  <2>2. \A x \in 1..n, a \in Words : step[<<x, a>>] = Op(a, s[x])
    OBVIOUS
  <2> HIDE DEF step
  <2>3. PICK g \in [SUBSET (1..n) -> Words] : ScreenFolds(g, n, none, step)
    <3> HIDE DEF n
    <3> QED
        BY <1>3, <2>1, ScreenFoldIs, Zenon
  <2>4. \A u \in SUBSET (1..n) : u # {} =>
            step[<<Screen!Max(u), g[u \ {Screen!Max(u)}]>>]
                = Op(g[u \ {Screen!Max(u)}], s[Screen!Max(u)])
    BY <1>3, <2>2, ScreenMax
  <2>5. g = Def(g)
    BY <2>3, <2>4 DEF ScreenFolds
  <2> HIDE DEF Def
  <2> QED
    BY <2>5
<1> HIDE DEF it
<1>5. it[1..n] \in Words
  <2>1. it[{}] \in Words
    BY <1>3, <1>4
  <2>2. ASSUME NEW u \in SUBSET (1..n), u # {}, it[u \ {Screen!Max(u)}] \in Words
        PROVE  it[u] \in Words
    BY <1>2, <1>4, <2>2
  <2> QED
    BY <1>3, <2>1, <2>2, ScreenFold
<1> QED
    BY <1>1, <1>5 DEF none, Words

LEMMA ScreenTokens ==
    ASSUME NEW raw \in Seq(STRING)
    PROVE  /\ Screen!tokenize(raw) \in Seq(ScreenWords)
           /\ Screen!normalizeName(raw) # << >> => Screen!tokenize(raw) # << >>
BY ScreenNormal, ScreenSplits DEF Screen!tokenize

LEMMA ScreenCandidates == Screen!Candidates \in Seq(Seq(STRING))
<1> DEFINE n == Len(Lists)
           Names == Seq(Seq(STRING))
           Op(a, c) == a \o c
           Def(h) == [s \in SUBSET (1..n) |-> IF s = {} THEN << >>
                        ELSE Op(h[s \ {Screen!Max(s)}], Lists[Screen!Max(s)])]
           it == CHOOSE h : h = Def(h)
<1>0. Lists \in Seq(Names)
    BY ServicesAssumption DEF Screen!ScreeningAssumption
<1>1. Screen!Candidates = it[1..n]
  <2>1. DOMAIN Lists = 1..n
    BY <1>0
  <2> QED
    BY <2>1 DEF Screen!Candidates, Screen!FoldLeft, Screen!MapThenFoldSet
<1>2. \A a \in Names : \A x \in 1..n : Op(a, Lists[x]) \in Names
    BY <1>0
<1>3. n \in Nat /\ << >> \in Names
    BY <1>0
<1> HIDE DEF Names
<1> HIDE DEF Op
<1>4. it = Def(it)
  <2> DEFINE step == [p \in (1..n) \X Names |-> Op(p[2], Lists[p[1]])]
  <2>1. step \in [(1..n) \X Names -> Names]
    BY <1>2
  <2>2. \A x \in 1..n, a \in Names : step[<<x, a>>] = Op(a, Lists[x])
    OBVIOUS
  <2> HIDE DEF step
  <2>3. PICK g \in [SUBSET (1..n) -> Names] : ScreenFolds(g, n, << >>, step)
    <3> HIDE DEF n
    <3> QED
        BY <1>3, <2>1, ScreenFoldIs, Zenon
  <2>4. \A s \in SUBSET (1..n) : s # {} =>
            step[<<Screen!Max(s), g[s \ {Screen!Max(s)}]>>]
                = Op(g[s \ {Screen!Max(s)}], Lists[Screen!Max(s)])
    BY <1>3, <2>2, ScreenMax
  <2>5. g = Def(g)
    BY <2>3, <2>4 DEF ScreenFolds
  <2> HIDE DEF Def
  <2> QED
    BY <2>5
<1> HIDE DEF it
<1>5. it[1..n] \in Names
  <2>1. it[{}] \in Names
    BY <1>3, <1>4
  <2>2. ASSUME NEW s \in SUBSET (1..n), s # {}, it[s \ {Screen!Max(s)}] \in Names
        PROVE  it[s] \in Names
    BY <1>2, <1>4, <2>2
  <2> QED
    BY <1>3, <2>1, <2>2, ScreenFold
<1> QED
    BY <1>1, <1>5 DEF Names

(***************************************************************************)
(* The distance by its definition.                                         *)
(***************************************************************************)
LEMMA ScreenMin ==
    ASSUME NEW x \in Nat, NEW y \in Nat, NEW z \in Nat PROVE Screen!Min({x, y, z}) \in Nat
<1>1. {x, y, z} \subseteq Nat /\ {x, y, z} # {}
    OBVIOUS
<1>2. PICK m \in {x, y, z} : \A n \in {x, y, z} : m <= n
    BY <1>1, LeastNumber
<1>3. Screen!Min({x, y, z}) \in {x, y, z}
    BY <1>2 DEF Screen!Min
<1> QED
    BY <1>3

ScreenCost(a, b, m, n) == IF a[m] = b[n] THEN 0 ELSE 1

\* One row of the table follows another one.
ScreenRow(a, b, m, n, r, q) ==
    q[0] = m /\ \A y \in 1..n :
                   q[y] = Screen!Min({r[y] + 1, q[y - 1] + 1, r[y - 1] + ScreenCost(a, b, m, y)})

LEMMA ScreenRowExists ==
    ASSUME NEW a, NEW b, NEW m \in Nat, NEW n \in Nat, NEW r \in [0..n -> Nat]
    PROVE  \E q \in [0..n -> Nat] : ScreenRow(a, b, m, n, r, q)
<1> DEFINE T == {x \in Nat : x <= n => \E q \in [0..x -> Nat] : ScreenRow(a, b, m, x, r, q)}
<1>1. 0 \in T
  <2> DEFINE q == [y \in 0..0 |-> m]
  <2>1. q \in [0..0 -> Nat] /\ ScreenRow(a, b, m, 0, r, q)
    BY DEF ScreenRow
  <2> QED
    BY <2>1
<1>2. ASSUME NEW x \in Nat, x \in T PROVE x + 1 \in T
  <2> SUFFICES ASSUME x + 1 <= n PROVE \E q \in [0..(x + 1) -> Nat] : ScreenRow(a, b, m, x + 1, r, q)
    OBVIOUS
  <2>1. PICK q \in [0..x -> Nat] : ScreenRow(a, b, m, x, r, q)
    BY <1>2
  <2> DEFINE v == Screen!Min({r[x + 1] + 1, q[x] + 1, r[x] + ScreenCost(a, b, m, x + 1)})
             p == [y \in 0..(x + 1) |-> IF y = x + 1 THEN v ELSE q[y]]
  <2>2. v \in Nat
    <3>1. /\ r[x + 1] + 1 \in Nat /\ q[x] + 1 \in Nat /\ r[x] + ScreenCost(a, b, m, x + 1) \in Nat
        BY SMTT(30) DEF ScreenCost
    <3> QED
        BY <3>1, ScreenMin
  <2> HIDE DEF v
  <2>3. p \in [0..(x + 1) -> Nat] /\ p[x + 1] = v /\ \A y \in 0..x : p[y] = q[y]
    BY <2>2
  <2> HIDE DEF p
  <2>4. p[0] = m
    BY <2>1, <2>3 DEF ScreenRow
  <2>5. ASSUME NEW y \in 1..(x + 1)
        PROVE  p[y] = Screen!Min({r[y] + 1, p[y - 1] + 1, r[y - 1] + ScreenCost(a, b, m, y)})
    <3>1. CASE y = x + 1
      <4>1. y - 1 = x /\ p[y - 1] = q[x] /\ p[y] = v
        BY <2>3, <3>1
      <4> QED
        BY <3>1, <4>1 DEF v
    <3>2. CASE y # x + 1
      <4>1. y \in 1..x /\ y - 1 \in 0..x /\ p[y] = q[y] /\ p[y - 1] = q[y - 1]
        BY <2>3, <3>2
      <4> QED
        BY <2>1, <4>1 DEF ScreenRow
    <3> QED
        BY <3>1, <3>2
  <2>6. ScreenRow(a, b, m, x + 1, r, p)
    BY <2>4, <2>5 DEF ScreenRow
  <2> QED
    BY <2>3, <2>6, Zenon
<1>3. n \in T
  <2> HIDE DEF T
  <2> QED
    BY <1>1, <1>2, NumberSteps
<1> QED
    BY <1>3

ScreenRows(a, b, m, n, t) ==
    /\ \A y \in 0..n : t[0][y] = y
    /\ \A x \in 1..m : ScreenRow(a, b, x, n, t[x - 1], t[x])

LEMMA ScreenRowsExist ==
    ASSUME NEW a, NEW b, NEW m \in Nat, NEW n \in Nat
    PROVE  \E t \in [0..m -> [0..n -> Nat]] : ScreenRows(a, b, m, n, t)
<1> DEFINE R == [0..n -> Nat]
           T == {x \in Nat : \E t \in [0..x -> R] : ScreenRows(a, b, x, n, t)}
<1>1. 0 \in T
  <2> DEFINE r == [y \in 0..n |-> y]
             t == [x \in 0..0 |-> r]
  <2>1. t \in [0..0 -> R] /\ ScreenRows(a, b, 0, n, t)
    BY DEF ScreenRows
  <2> QED
    BY <2>1
<1>2. ASSUME NEW x \in Nat, x \in T PROVE x + 1 \in T
  <2>1. PICK t \in [0..x -> R] : ScreenRows(a, b, x, n, t)
    BY <1>2
  <2>2. t[x] \in [0..n -> Nat] /\ x + 1 \in Nat
    BY <2>1
  <2>3. PICK q \in [0..n -> Nat] : ScreenRow(a, b, x + 1, n, t[x], q)
    BY <2>2, ScreenRowExists, Zenon
  <2> DEFINE p == [y \in 0..(x + 1) |-> IF y = x + 1 THEN q ELSE t[y]]
  <2>4. p \in [0..(x + 1) -> R] /\ p[x + 1] = q /\ \A y \in 0..x : p[y] = t[y]
    BY <2>1, <2>3
  <2> HIDE DEF p, R
  <2>5. ASSUME NEW y \in 1..(x + 1) PROVE ScreenRow(a, b, y, n, p[y - 1], p[y])
    <3>1. CASE y = x + 1
      <4>1. p[y - 1] = t[x] /\ p[y] = q
        BY <2>4, <3>1
      <4> QED
        BY <2>3, <3>1, <4>1
    <3>2. CASE y # x + 1
      <4>1. y \in 1..x /\ p[y - 1] = t[y - 1] /\ p[y] = t[y]
        BY <2>4, <3>2
      <4> QED
        BY <2>1, <4>1 DEF ScreenRows
    <3> QED
        BY <3>1, <3>2
  <2>6. ScreenRows(a, b, x + 1, n, p)
    BY <2>1, <2>4, <2>5 DEF ScreenRows
  <2> QED
    BY <2>4, <2>6
<1>3. m \in T
  <2> HIDE DEF T
  <2> QED
    BY <1>1, <1>2, NumberSteps
<1> QED
    BY <1>3

\* The table whose last cell the distance is.
ScreenCells(a, b) == (0..Len(a)) \X (0..Len(b))
ScreenEntry(d, a, b, m, n) ==
    IF m = 0 THEN n ELSE IF n = 0 THEN m
    ELSE Screen!Min({d[<<m - 1, n>>] + 1, d[<<m, n - 1>>] + 1,
                     d[<<m - 1, n - 1>>] + ScreenCost(a, b, m, n)})
ScreenFull(d, a, b) == d = [c \in ScreenCells(a, b) |-> ScreenEntry(d, a, b, c[1], c[2])]
ScreenTable(a, b) == CHOOSE d : ScreenFull(d, a, b)

LEMMA ScreenTableExists ==
    ASSUME NEW a, NEW b, Len(a) \in Nat, Len(b) \in Nat
    PROVE  \E d : ScreenFull(d, a, b)
<1> DEFINE M == Len(a)
           N == Len(b)
<1>1. PICK t \in [0..M -> [0..N -> Nat]] : ScreenRows(a, b, M, N, t)
    BY ScreenRowsExist
<1> DEFINE d == [c \in ScreenCells(a, b) |-> t[c[1]][c[2]]]
<1>2. \A x \in 0..M, y \in 0..N : d[<<x, y>>] = t[x][y]
    BY DEF ScreenCells
<1>3. ASSUME NEW x \in 0..M, NEW y \in 0..N PROVE t[x][y] = ScreenEntry(d, a, b, x, y)
  <2> HIDE DEF d
  <2>1. CASE x = 0
    BY <1>1, <2>1 DEF ScreenRows, ScreenEntry
  <2>2. CASE x # 0
    <3>1. x \in 1..M /\ x - 1 \in 0..M
        BY <2>2
    <3>2. ScreenRow(a, b, x, N, t[x - 1], t[x])
        BY <1>1, <3>1 DEF ScreenRows
    <3>3. CASE y = 0
        BY <2>2, <3>2, <3>3 DEF ScreenRow, ScreenEntry
    <3>4. CASE y # 0
      <4>1. y \in 1..N /\ y - 1 \in 0..N
        BY <3>4
      <4>2. /\ d[<<x - 1, y>>] = t[x - 1][y] /\ d[<<x, y - 1>>] = t[x][y - 1]
            /\ d[<<x - 1, y - 1>>] = t[x - 1][y - 1]
        BY <1>2, <3>1, <4>1
      <4>3. t[x][y] = Screen!Min({t[x - 1][y] + 1, t[x][y - 1] + 1,
                                  t[x - 1][y - 1] + ScreenCost(a, b, x, y)})
        BY <3>2, <4>1 DEF ScreenRow
      <4> QED
        BY <2>2, <3>4, <4>2, <4>3 DEF ScreenEntry
    <3> QED
        BY <3>3, <3>4
  <2> QED
    BY <2>1, <2>2
<1>4. \A c \in ScreenCells(a, b) : c[1] \in 0..M /\ c[2] \in 0..N
    BY DEF ScreenCells
<1>5. \A c \in ScreenCells(a, b) : t[c[1]][c[2]] = ScreenEntry(d, a, b, c[1], c[2])
  <2> HIDE DEF d
  <2> QED
    BY <1>3, <1>4
<1>6. d = [c \in ScreenCells(a, b) |-> ScreenEntry(d, a, b, c[1], c[2])]
  <2> DEFINE e == d
  <2>1. \A c \in ScreenCells(a, b) : t[c[1]][c[2]] = ScreenEntry(e, a, b, c[1], c[2])
    BY <1>5
  <2>2. d = [c \in ScreenCells(a, b) |-> ScreenEntry(e, a, b, c[1], c[2])]
    <3> HIDE DEF e
    <3> QED
        BY <2>1
  <2> QED
    BY <2>2
<1> HIDE DEF d
<1>7. ScreenFull(d, a, b)
    BY <1>6 DEF ScreenFull
<1> QED
    BY <1>7

LEMMA ScreenTableIs ==
    ASSUME NEW a, NEW b, Len(a) \in Nat, Len(b) \in Nat
    PROVE  /\ Screen!Distance(a, b) = ScreenTable(a, b)[<<Len(a), Len(b)>>]
           /\ \A x \in 0..Len(a), y \in 0..Len(b) :
                 ScreenTable(a, b)[<<x, y>>] = ScreenEntry(ScreenTable(a, b), a, b, x, y)
<1>1. Screen!Distance(a, b) = ScreenTable(a, b)[<<Len(a), Len(b)>>]
    BY DEF Screen!Distance, ScreenTable, ScreenFull, ScreenCells, ScreenEntry, ScreenCost
<1>2. ScreenFull(ScreenTable(a, b), a, b)
    BY ScreenTableExists DEF ScreenTable
<1>3. PICK d : d = ScreenTable(a, b)
    OBVIOUS
<1>4. \A x \in 0..Len(a), y \in 0..Len(b) : d[<<x, y>>] = ScreenEntry(d, a, b, x, y)
    BY <1>2, <1>3 DEF ScreenFull, ScreenCells
<1> QED
    BY <1>1, <1>3, <1>4

LEMMA ScreenTableType ==
    ASSUME NEW a, NEW b, Len(a) \in Nat, Len(b) \in Nat,
           NEW x \in 0..Len(a), NEW y \in 0..Len(b)
    PROVE  ScreenTable(a, b)[<<x, y>>] \in Nat
<1> DEFINE d == ScreenTable(a, b)
           T == {m \in Nat : m <= Len(a) => \A n \in 0..Len(b) : d[<<m, n>>] \in Nat}
<1>1. \A m \in 0..Len(a), n \in 0..Len(b) : d[<<m, n>>] = ScreenEntry(d, a, b, m, n)
    BY ScreenTableIs
<1> HIDE DEF d
<1>2. 0 \in T
  <2>1. \A n \in 0..Len(b) : d[<<0, n>>] = ScreenEntry(d, a, b, 0, n)
    <3>1. 0 \in 0..Len(a)
        OBVIOUS
    <3> QED
        BY <1>1, <3>1, Zenon
  <2>2. \A n : ScreenEntry(d, a, b, 0, n) = n
    BY DEF ScreenEntry
  <2>3. \A n \in 0..Len(b) : d[<<0, n>>] = n
    BY <2>1, <2>2, Zenon
  <2> QED
    BY <2>3
<1>3. ASSUME NEW m \in Nat, m \in T PROVE m + 1 \in T
  <2> SUFFICES ASSUME m + 1 <= Len(a), NEW z \in 0..Len(b) PROVE d[<<m + 1, z>>] \in Nat
    OBVIOUS
  <2>0. m \in 0..Len(a) /\ m + 1 \in 0..Len(a) /\ m + 1 # 0 /\ (m + 1) - 1 = m
    OBVIOUS
  <2>1. \A n \in 0..Len(b) : d[<<m, n>>] \in Nat
    BY <1>3, <2>0
  <2> DEFINE U == {n \in Nat : n <= Len(b) => d[<<m + 1, n>>] \in Nat}
  <2>2. 0 \in U
    <3>1. d[<<m + 1, 0>>] = ScreenEntry(d, a, b, m + 1, 0)
        BY <1>1, <2>0
    <3> QED
        BY <2>0, <3>1 DEF ScreenEntry
  <2>3. ASSUME NEW n \in Nat, n \in U PROVE n + 1 \in U
    <3> SUFFICES ASSUME n + 1 <= Len(b) PROVE d[<<m + 1, n + 1>>] \in Nat
        OBVIOUS
    <3>1. n \in 0..Len(b) /\ n + 1 \in 0..Len(b) /\ n + 1 # 0 /\ (n + 1) - 1 = n
        OBVIOUS
    <3>2. d[<<m + 1, n + 1>>] = ScreenEntry(d, a, b, m + 1, n + 1)
        BY <1>1, <2>0, <3>1
    <3>3. /\ d[<<m, n + 1>>] + 1 \in Nat /\ d[<<m + 1, n>>] + 1 \in Nat
          /\ d[<<m, n>>] + ScreenCost(a, b, m + 1, n + 1) \in Nat
      <4>1. d[<<m, n + 1>>] \in Nat /\ d[<<m, n>>] \in Nat
        BY <2>1, <3>1
      <4>2. d[<<m + 1, n>>] \in Nat
        BY <2>3, <3>1
      <4>3. ScreenCost(a, b, m + 1, n + 1) \in Nat
        BY DEF ScreenCost
      <4>4. \A u, v \in Nat : u + v \in Nat
        OBVIOUS
      <4> QED
        BY <4>1, <4>2, <4>3, <4>4, 1 \in Nat, Zenon
    <3>4. Screen!Min({d[<<m, n + 1>>] + 1, d[<<m + 1, n>>] + 1,
                      d[<<m, n>>] + ScreenCost(a, b, m + 1, n + 1)}) \in Nat
        BY <3>3, ScreenMin
    <3> QED
        BY <2>0, <3>1, <3>2, <3>4 DEF ScreenEntry
  <2>4. z \in U
    <3> HIDE DEF U
    <3> QED
        BY <2>2, <2>3, NumberSteps
  <2> QED
    BY <2>4
<1>4. x \in T
  <2> HIDE DEF T
  <2> QED
    BY <1>2, <1>3, NumberSteps
<1> QED
    BY <1>4 DEF d

(***************************************************************************)
(* What is close enough is found.                                          *)
(***************************************************************************)
\* Words that are shared are counted, as often as they occur.
LEMMA ScreenShared ==
    ASSUME NEW X, NEW a \in Seq(X), NEW b \in Seq(X), a # << >>,
           5 * Cardinality(Screen!ToSet(a) \cap Screen!ToSet(b))
             >= 3 * Cardinality(Screen!ToSet(a) \cup Screen!ToSet(b))
    PROVE  Screen!AtLeast(Screen!tokenJaccard(a, b), <<3, 5>>)
<1> DEFINE A == Screen!ToSet(a)
           B == Screen!ToSet(b)
           S == {x \in DOMAIN a : a[x] \in B}
           f == [x \in S |-> a[x]]
<1>1. IsFiniteSet(DOMAIN a) /\ IsFiniteSet(DOMAIN b) /\ DOMAIN a # {}
  <2>1. /\ DOMAIN a = 1..Len(a) /\ DOMAIN b = 1..Len(b) /\ 1 \in DOMAIN a
        /\ Len(a) \in Nat /\ Len(b) \in Nat
    OBVIOUS
  <2>2. IsFiniteSet(1..Len(a)) /\ IsFiniteSet(1..Len(b))
    BY <2>1, FS_Interval
  <2> QED
    BY <2>1, <2>2, Zenon
<1>2. IsFiniteSet(A) /\ IsFiniteSet(B)
  <2> DEFINE fa == [x \in DOMAIN a |-> a[x]]
             fb == [x \in DOMAIN b |-> b[x]]
  <2>1. fa \in Surjection(DOMAIN a, A) /\ fb \in Surjection(DOMAIN b, B)
    BY DEF Surjection, Screen!ToSet
  <2> HIDE DEF fa, fb, A, B
  <2> QED
    BY <1>1, <2>1, FS_Surjection
<1>3. IsFiniteSet(S) /\ IsFiniteSet(A \cap B) /\ IsFiniteSet(A \cup B)
    BY <1>1, <1>2, FS_Subset, FS_Union
<1>4. Cardinality(A \cap B) <= Cardinality(S)
  <2>1. f \in Surjection(S, A \cap B)
    BY DEF Surjection, Screen!ToSet
  <2> QED
    BY <1>3, <2>1, FS_Surjection
<1>5. Cardinality(A \cap B) \in Nat /\ Cardinality(S) \in Nat /\ Cardinality(A \cup B) \in Nat
    BY <1>3, FS_CardinalityType
<1>6. b # << >>
  <2> SUFFICES ASSUME b = << >> PROVE FALSE
    OBVIOUS
  <2>1. B = {}
    BY DEF Screen!ToSet
  <2>2. A \cap B = {}
    BY <2>1
  <2>3. A \cup B # {}
    BY <1>1 DEF Screen!ToSet
  <2>4. Cardinality(A \cap B) = 0 /\ Cardinality(A \cup B) # 0
    BY <1>3, <2>2, <2>3, FS_EmptySet, Zenon
  <2> HIDE DEF A, B
  <2> QED
    BY <1>5, <2>4 DEF A, B
<1>7. Screen!tokenJaccard(a, b) = <<Cardinality(S), Cardinality(A \cup B)>>
  <2>1. \A U : Screen!Cardinality(U) = Cardinality(U)
    BY DEF Screen!Cardinality, Cardinality
  <2> QED
    BY <1>6, <2>1 DEF Screen!tokenJaccard
<1> HIDE DEF A, B, S
<1>8. 5 * Cardinality(A \cap B) >= 3 * Cardinality(A \cup B)
    BY DEF A, B
<1> QED
    BY <1>4, <1>5, <1>7, <1>8 DEF Screen!AtLeast

(***************************************************************************)
(* The screening's steps.                                                  *)
(***************************************************************************)
\* No candidate before n is close.
ScreenNone(n) == \A c \in DOMAIN Screen!Candidates : c < n => ~ Screen!Close(c)

\* The search: a name that is not empty, and nothing close passed over.
ScreenSearch == k \in Nat \ {0} /\ Screen!A # << >> /\ (best.of = 0 => ScreenNone(k))

\* The row in place is the table's; in the middle of a row, the next row up to the cell.
ScreenAtRow(a, b) ==
    /\ b # << >> /\ i \in 1..(Len(a) + 1) /\ dp \in [0..Len(b) -> Nat]
    /\ \A y \in 0..Len(b) : dp[y] = ScreenTable(a, b)[<<i - 1, y>>]
ScreenAtCell(a, b) ==
    /\ i \in 1..Len(a) /\ j \in 1..Len(b) /\ dp \in [0..Len(b) -> Nat]
    /\ prev = ScreenTable(a, b)[<<i - 1, j - 1>>]
    /\ \A y \in 0..Len(b) : y < j => dp[y] = ScreenTable(a, b)[<<i, y>>]
    /\ \A y \in 0..Len(b) : y >= j => dp[y] = ScreenTable(a, b)[<<i - 1, y>>]

ScreenAt ==
    /\ phase \in {"row", "cell", "compare"} => k \in DOMAIN Screen!Candidates
    /\ phase = "row" => ScreenAtRow(Screen!A, Screen!B)
    /\ phase = "cell" => ScreenAtCell(Screen!A, Screen!B)
    /\ phase = "compare" => dp[Len(Screen!B)] = Screen!Distance(Screen!A, Screen!B)

ScreenDone ==
    phase = "done" /\ kind = "none" /\ Screen!A # << >> =>
        \A c \in DOMAIN Screen!Candidates : ~ Screen!Close(c)

ScreenGood ==
    /\ setting \in ScreeningSettings
    /\ phase # "idle" => name \in Seq(STRING)
    /\ phase \in {"fuzzy", "row", "cell", "compare"} => ScreenSearch
    /\ ScreenAt /\ ScreenDone
ScreenInv == part = "screening" => ScreenGood

LEMMA ScreenRuns ==
    ASSUME [Next]_vars, part' = "screening"
    PROVE  part = "screening" /\ (Screen!Next \/ UNCHANGED <<setting, screenVars>>)
BY DEF Next, vars

LEMMA ScreenStarts == Init => ScreenInv
<1> SUFFICES ASSUME Init, part = "screening" PROVE ScreenGood
    BY DEF ScreenInv
<1>1. setting \in ScreeningSettings /\ phase = "idle"
    BY DEF Init, Screen!Idle
<1> QED
    BY <1>1 DEF ScreenGood, ScreenAt, ScreenDone

LEMMA ScreenSame ==
    ASSUME name' = name
    PROVE  /\ Screen!A' = Screen!A /\ (\A c : Screen!Close(c)' = Screen!Close(c))
           /\ k' = k => Screen!B' = Screen!B
BY DEF Screen!A, Screen!B, Screen!Close

LEMMA ScreenConstants ==
    /\ Screen!Candidates \in Seq(Seq(STRING))
    /\ \A s \in ScreeningSettings : \A raw \in s.names : raw \in Seq(STRING)
BY ScreenCandidates, ServicesAssumption DEF Screen!ScreeningAssumption

LEMMA ScreenNames ==
    /\ name \in Seq(STRING) => Screen!A \in ScreenWords /\ Len(Screen!A) \in Nat
    /\ k \in DOMAIN Screen!Candidates =>
         /\ Screen!Candidates[k] \in Seq(STRING) /\ Screen!B \in ScreenWords
         /\ Len(Screen!B) \in Nat /\ k \in Nat
<1>1. ASSUME name \in Seq(STRING) PROVE Screen!A \in ScreenWords
    BY <1>1, ScreenNormal DEF Screen!A
<1>2. ASSUME k \in DOMAIN Screen!Candidates
      PROVE  Screen!Candidates[k] \in Seq(STRING) /\ Screen!B \in ScreenWords /\ k \in Nat
  <2>1. Screen!Candidates[k] \in Seq(STRING) /\ k \in Nat
    BY <1>2, ScreenConstants
  <2> QED
    BY <2>1, ScreenNormal DEF Screen!B
<1>3. \A s \in ScreenWords : Len(s) \in Nat
    BY DEF ScreenWords
<1> QED
    BY <1>1, <1>2, <1>3, Zenon

\* A step of the search that changes no result keeps what was passed over.
ScreenStays ==
    /\ UNCHANGED <<setting, name, k, best>>
    /\ phase \in {"fuzzy", "row", "cell", "compare"}
    /\ phase' \in {"fuzzy", "row", "cell", "compare"}

LEMMA ScreenKeepsSearch ==
    ASSUME ScreenGood, ScreenStays
    PROVE  setting' \in ScreeningSettings /\ name' \in Seq(STRING) /\ ScreenSearch' /\ ScreenDone'
<1>1. setting' \in ScreeningSettings /\ name' \in Seq(STRING) /\ ScreenSearch /\ k' = k /\ best' = best
    BY DEF ScreenGood, ScreenStays
<1>2. Screen!A' = Screen!A /\ \A c : Screen!Close(c)' = Screen!Close(c)
    BY ScreenSame DEF ScreenStays
<1>3. ScreenNone(k)' = ScreenNone(k)
    BY <1>1, <1>2 DEF ScreenNone
<1>4. ScreenSearch'
    BY <1>1, <1>2, <1>3 DEF ScreenSearch
<1> QED
    BY <1>1, <1>4 DEF ScreenStays, ScreenDone

\* The table at a cell whose neighbours are known.
LEMMA ScreenTableAt ==
    ASSUME NEW a, NEW b, Len(a) \in Nat, Len(b) \in Nat
    PROVE  /\ \A y \in 0..Len(b) : ScreenTable(a, b)[<<0, y>>] = y
           /\ \A x \in 0..Len(a) : ScreenTable(a, b)[<<x, 0>>] = x
           /\ \A x \in 1..Len(a), y \in 1..Len(b) :
                 ScreenTable(a, b)[<<x, y>>] =
                     Screen!Min({ScreenTable(a, b)[<<x - 1, y>>] + 1,
                                 ScreenTable(a, b)[<<x, y - 1>>] + 1,
                                 ScreenTable(a, b)[<<x - 1, y - 1>>] + ScreenCost(a, b, x, y)})
<1>1. PICK d : d = ScreenTable(a, b)
    OBVIOUS
<1>2. \A x \in 0..Len(a), y \in 0..Len(b) : d[<<x, y>>] = ScreenEntry(d, a, b, x, y)
    BY <1>1, ScreenTableIs
<1>3. \A y \in 0..Len(b) : d[<<0, y>>] = y
  <2> SUFFICES ASSUME NEW y \in 0..Len(b) PROVE d[<<0, y>>] = y
    OBVIOUS
  <2>1. d[<<0, y>>] = ScreenEntry(d, a, b, 0, y)
    BY <1>2
  <2> QED
    BY <2>1 DEF ScreenEntry
<1>4. \A x \in 0..Len(a) : d[<<x, 0>>] = x
  <2> SUFFICES ASSUME NEW x \in 0..Len(a) PROVE d[<<x, 0>>] = x
    OBVIOUS
  <2>1. d[<<x, 0>>] = ScreenEntry(d, a, b, x, 0)
    BY <1>2
  <2> QED
    BY <2>1 DEF ScreenEntry
<1>5. \A x \in 1..Len(a), y \in 1..Len(b) :
          d[<<x, y>>] = Screen!Min({d[<<x - 1, y>>] + 1, d[<<x, y - 1>>] + 1,
                                    d[<<x - 1, y - 1>>] + ScreenCost(a, b, x, y)})
  <2> SUFFICES ASSUME NEW x \in 1..Len(a), NEW y \in 1..Len(b)
               PROVE  d[<<x, y>>] = Screen!Min({d[<<x - 1, y>>] + 1, d[<<x, y - 1>>] + 1,
                                                d[<<x - 1, y - 1>>] + ScreenCost(a, b, x, y)})
    OBVIOUS
  <2>1. d[<<x, y>>] = ScreenEntry(d, a, b, x, y) /\ x # 0 /\ y # 0
    BY <1>2
  <2> QED
    BY <2>1 DEF ScreenEntry
<1> QED
    BY <1>1, <1>3, <1>4, <1>5, Zenon

LEMMA ScreenBegins ==
    ASSUME ScreenGood, part = "screening",
           (\E raw \in setting.names : Screen!Screen(raw)) \/ Screen!MatchExactly
    PROVE  ScreenGood'
<1>1. setting' \in ScreeningSettings /\ phase' # "idle" /\ phase' \notin {"row", "cell", "compare"}
    BY DEF ScreenGood, Screen!Screen, Screen!MatchExactly
<1>2. name' \in Seq(STRING)
  <2>1. ASSUME NEW raw \in setting.names, Screen!Screen(raw) PROVE name' \in Seq(STRING)
    BY <2>1, ScreenConstants DEF ScreenGood, Screen!Screen
  <2>2. CASE Screen!MatchExactly
    BY <2>2 DEF ScreenGood, Screen!MatchExactly
  <2> QED
    BY <2>1, <2>2
<1>3. phase' = "fuzzy" => ScreenSearch'
  <2> SUFFICES ASSUME phase' = "fuzzy" PROVE ScreenSearch'
    OBVIOUS
  <2>1. Screen!MatchExactly
    BY DEF Screen!Screen
  <2>2. name' = name /\ k' = 1 /\ Screen!A # << >>
    BY <2>1 DEF Screen!MatchExactly
  <2>3. Screen!A' # << >>
    BY <2>2, ScreenSame
  <2>4. \A c \in DOMAIN Screen!Candidates : ~ c < 1
    BY ScreenConstants
  <2>5. ScreenNone(k)'
    BY <2>2, <2>4 DEF ScreenNone
  <2> QED
    BY <2>2, <2>3, <2>5 DEF ScreenSearch
<1>4. ScreenDone'
  <2> SUFFICES ASSUME phase' = "done", kind' = "none", Screen!A' # << >> PROVE FALSE
    BY DEF ScreenDone
  <2>1. Screen!MatchExactly
    BY DEF Screen!Screen
  <2>2. name' = name /\ Screen!A = << >>
    BY <2>1 DEF Screen!MatchExactly
  <2> QED
    BY <2>2, ScreenSame
<1> QED
    BY <1>1, <1>2, <1>3, <1>4 DEF ScreenGood, ScreenAt

LEMMA ScreenFirst ==
    ASSUME ScreenGood, Screen!FirstRow PROVE ScreenGood'
<1>1. /\ phase = "fuzzy" /\ UNCHANGED <<setting, name, k, best>> /\ ScreenSearch
      /\ name \in Seq(STRING) /\ setting \in ScreeningSettings
    BY DEF ScreenGood, Screen!FirstRow
<1>2. Screen!A' = Screen!A /\ Screen!B' = Screen!B /\ \A c : Screen!Close(c)' = Screen!Close(c)
    BY <1>1, ScreenSame
<1>3. CASE k > Len(Screen!Candidates)
  <2>1. phase' = "done" /\ (kind' = "none" => best.of = 0)
    BY <1>3 DEF Screen!FirstRow
  <2>2. \A c \in DOMAIN Screen!Candidates : c < k
    BY <1>1, <1>3, ScreenConstants DEF ScreenSearch
  <2>3. best.of = 0 => \A c \in DOMAIN Screen!Candidates : ~ Screen!Close(c)
    BY <1>1, <2>2 DEF ScreenSearch, ScreenNone
  <2>4. ScreenDone'
    BY <1>2, <2>1, <2>3 DEF ScreenDone
  <2> QED
    BY <1>1, <2>1, <2>4 DEF ScreenGood, ScreenAt
<1>4. CASE ~ k > Len(Screen!Candidates)
  <2>1. k \in DOMAIN Screen!Candidates
    BY <1>1, <1>4, ScreenConstants DEF ScreenSearch
  <2>2. PICK a, b : a = Screen!A /\ b = Screen!B
    OBVIOUS
  <2>3. Len(a) \in Nat /\ Len(b) \in Nat /\ b \in ScreenWords /\ a \in ScreenWords
    BY <1>1, <2>1, <2>2, ScreenNames
  <2>4. CASE b = << >>
    <3>1. phase' = "compare" /\ dp' = [c \in {0} |-> Len(a)]
        BY <1>4, <2>2, <2>4 DEF Screen!FirstRow
    <3>2. Len(b) = 0
        BY <2>4
    <3>3. Screen!Distance(a, b) = ScreenTable(a, b)[<<Len(a), 0>>]
        BY <2>3, <3>2, ScreenTableIs
    <3>4. Screen!Distance(a, b) = Len(a)
        BY <2>3, <3>3, ScreenTableAt
    <3>5. dp'[Len(b)] = Screen!Distance(a, b)
        BY <3>1, <3>2, <3>4
    <3>6. ScreenAt'
      <4>1. Screen!Distance(Screen!A, Screen!B)' = Screen!Distance(a, b)
        BY <1>2, <2>2
      <4>2. dp[Len(Screen!B)]' = dp'[Len(b)]
        BY <1>2, <2>2
      <4> QED
        BY <1>1, <2>1, <3>1, <3>5, <4>1, <4>2 DEF ScreenAt
    <3>7. ScreenStays
        BY <1>1, <3>1 DEF ScreenStays
    <3> QED
        BY <3>1, <3>6, <3>7, ScreenKeepsSearch DEF ScreenGood
  <2>5. CASE b # << >>
    <3>1. phase' = "row" /\ dp' = [c \in 0..Len(b) |-> c] /\ i' = 1
        BY <1>4, <2>2, <2>5 DEF Screen!FirstRow
    <3>2. \A y \in 0..Len(b) : dp'[y] = ScreenTable(a, b)[<<i' - 1, y>>]
      <4>1. \A y \in 0..Len(b) : ScreenTable(a, b)[<<0, y>>] = y
        BY <2>3, ScreenTableAt
      <4>2. i' - 1 = 0
        BY <3>1
      <4> QED
        BY <3>1, <4>1, <4>2
    <3>3. dp' \in [0..Len(b) -> Nat] /\ i' \in 1..(Len(a) + 1)
        BY <2>3, <3>1
    <3>4. ScreenAtRow(a, b)'
        BY <2>5, <3>2, <3>3 DEF ScreenAtRow
    <3>5. ScreenAt'
        BY <1>1, <1>2, <2>1, <2>2, <3>1, <3>4 DEF ScreenAt, ScreenAtRow
    <3>6. ScreenStays
        BY <1>1, <3>1 DEF ScreenStays
    <3> QED
        BY <3>1, <3>5, <3>6, ScreenKeepsSearch DEF ScreenGood
  <2> QED
    BY <2>4, <2>5
<1> QED
    BY <1>3, <1>4

LEMMA ScreenNextRow ==
    ASSUME ScreenGood, Screen!NextRow PROVE ScreenGood'
<1>1. /\ phase = "row" /\ UNCHANGED <<setting, name, k, i, best, kind>>
      /\ name \in Seq(STRING) /\ k \in DOMAIN Screen!Candidates
    BY DEF ScreenGood, ScreenAt, Screen!NextRow
<1>2. PICK a, b : a = Screen!A /\ b = Screen!B
    OBVIOUS
<1>3. Screen!A' = a /\ Screen!B' = b
    BY <1>1, <1>2, ScreenSame
<1>4. Len(a) \in Nat /\ Len(b) \in Nat /\ b \in ScreenWords /\ a \in ScreenWords
    BY <1>1, <1>2, ScreenNames
<1>5. ScreenAtRow(a, b)
    BY <1>1, <1>2 DEF ScreenGood, ScreenAt
<1>6. CASE i > Len(a)
  <2>1. phase' = "compare" /\ dp' = dp
    BY <1>2, <1>6 DEF Screen!NextRow
  <2>2. i - 1 = Len(a) /\ Len(b) \in 0..Len(b)
    BY <1>4, <1>5, <1>6 DEF ScreenAtRow
  <2>3. dp[Len(b)] = ScreenTable(a, b)[<<i - 1, Len(b)>>]
    BY <1>5, <2>2 DEF ScreenAtRow
  <2>4. dp'[Len(b)] = Screen!Distance(a, b)
    BY <1>4, <2>1, <2>2, <2>3, ScreenTableIs
  <2>5. Screen!Distance(Screen!A, Screen!B)' = Screen!Distance(a, b)
    BY <1>3
  <2>6. dp[Len(Screen!B)]' = dp'[Len(b)]
    BY <1>3
  <2>7. ScreenAt'
    BY <1>1, <2>1, <2>4, <2>5, <2>6 DEF ScreenAt
  <2>8. ScreenStays
    BY <1>1, <2>1 DEF ScreenStays
  <2> QED
    BY <2>1, <2>7, <2>8, ScreenKeepsSearch DEF ScreenGood
<1>7. CASE ~ i > Len(a)
  <2>1. prev' = dp[0] /\ dp' = [dp EXCEPT ![0] = i] /\ j' = 1 /\ phase' = "cell"
    BY <1>2, <1>7 DEF Screen!NextRow
  <2>2. /\ i \in 1..Len(a) /\ i \in Nat /\ dp \in [0..Len(b) -> Nat] /\ 0 \in 0..Len(b)
        /\ 1 \in 1..Len(b)
    BY <1>4, <1>5, <1>7 DEF ScreenAtRow, ScreenWords
  <2>3. prev' = ScreenTable(a, b)[<<i - 1, 0>>]
    BY <1>5, <2>1, <2>2 DEF ScreenAtRow
  <2>4. dp' \in [0..Len(b) -> Nat] /\ dp'[0] = i /\ \A y \in 0..Len(b) : y # 0 => dp'[y] = dp[y]
    BY <2>1, <2>2
  <2>5. dp'[0] = ScreenTable(a, b)[<<i, 0>>]
    BY <1>4, <2>2, <2>4, ScreenTableAt
  <2>6. \A y \in 0..Len(b) : y < 1 => dp'[y] = ScreenTable(a, b)[<<i, y>>]
    BY <2>5
  <2>7. \A y \in 0..Len(b) : y >= 1 => dp'[y] = ScreenTable(a, b)[<<i - 1, y>>]
    BY <1>5, <2>4 DEF ScreenAtRow
  <2>8. 1 - 1 = 0
    OBVIOUS
  <2>9. ScreenAtCell(a, b)'
    BY <1>1, <2>1, <2>2, <2>3, <2>4, <2>6, <2>7, <2>8 DEF ScreenAtCell
  <2>10. ScreenAtCell(Screen!A, Screen!B)'
    BY <1>3, <2>9 DEF ScreenAtCell
  <2>11. ScreenAt'
    BY <1>1, <2>1, <2>10 DEF ScreenAt
  <2>12. ScreenStays
    BY <1>1, <2>1 DEF ScreenStays
  <2> QED
    BY <2>1, <2>11, <2>12, ScreenKeepsSearch DEF ScreenGood
<1> QED
    BY <1>6, <1>7

LEMMA ScreenNextCell ==
    ASSUME ScreenGood, Screen!NextCell PROVE ScreenGood'
<1>1. /\ phase = "cell" /\ UNCHANGED <<setting, name, k, best, kind>>
      /\ name \in Seq(STRING) /\ k \in DOMAIN Screen!Candidates
    BY DEF ScreenGood, ScreenAt, Screen!NextCell
<1>2. PICK a, b : a = Screen!A /\ b = Screen!B
    OBVIOUS
<1>3. Screen!A' = a /\ Screen!B' = b
    BY <1>1, <1>2, ScreenSame
<1>4. Len(a) \in Nat /\ Len(b) \in Nat /\ b \in ScreenWords /\ a \in ScreenWords
    BY <1>1, <1>2, ScreenNames
<1>5. ScreenAtCell(a, b)
    BY <1>1, <1>2 DEF ScreenGood, ScreenAt
<1>6. PICK d : d = ScreenTable(a, b)
    OBVIOUS
<1>7. /\ i \in 1..Len(a) /\ j \in 1..Len(b) /\ dp \in [0..Len(b) -> Nat] /\ prev = d[<<i - 1, j - 1>>]
      /\ \A y \in 0..Len(b) : y < j => dp[y] = d[<<i, y>>]
      /\ \A y \in 0..Len(b) : y >= j => dp[y] = d[<<i - 1, y>>]
    BY <1>5, <1>6 DEF ScreenAtCell
<1>8. /\ j \in 0..Len(b) /\ j - 1 \in 0..Len(b) /\ j - 1 < j /\ j >= j /\ i \in 0..Len(a)
    BY <1>4, <1>7
<1>9. dp[j] = d[<<i - 1, j>>] /\ dp[j - 1] = d[<<i, j - 1>>]
    BY <1>7, <1>8
<1>10. PICK cell : cell = Screen!Min({dp[j] + 1, dp[j - 1] + 1, prev + ScreenCost(a, b, i, j)})
    OBVIOUS
<1>11. cell = d[<<i, j>>] /\ cell \in Nat
  <2>1. d[<<i, j>>] = Screen!Min({d[<<i - 1, j>>] + 1, d[<<i, j - 1>>] + 1,
                                  d[<<i - 1, j - 1>>] + ScreenCost(a, b, i, j)})
    <3>1. \A x \in 1..Len(a), y \in 1..Len(b) :
              d[<<x, y>>] = Screen!Min({d[<<x - 1, y>>] + 1, d[<<x, y - 1>>] + 1,
                                        d[<<x - 1, y - 1>>] + ScreenCost(a, b, x, y)})
      <4>1. \A x \in 1..Len(a), y \in 1..Len(b) :
                ScreenTable(a, b)[<<x, y>>] =
                    Screen!Min({ScreenTable(a, b)[<<x - 1, y>>] + 1,
                                ScreenTable(a, b)[<<x, y - 1>>] + 1,
                                ScreenTable(a, b)[<<x - 1, y - 1>>] + ScreenCost(a, b, x, y)})
        BY <1>4, ScreenTableAt
      <4> QED
        BY <1>6, <4>1
    <3> QED
        BY <1>7, <3>1
  <2>2. d[<<i, j>>] \in Nat
    BY <1>4, <1>6, <1>8, ScreenTableType
  <2> QED
    BY <1>7, <1>9, <1>10, <2>1, <2>2
<1>12. /\ dp' = [dp EXCEPT ![j] = cell] /\ prev' = dp[j]
       /\ j < Len(b) => j' = j + 1 /\ i' = i /\ phase' = "cell"
       /\ ~ j < Len(b) => i' = i + 1 /\ phase' = "row"
    BY <1>2, <1>10 DEF Screen!NextCell, Screen!Kept, ScreenCost
<1>13. dp' \in [0..Len(b) -> Nat] /\ dp'[j] = cell /\ \A y \in 0..Len(b) : y # j => dp'[y] = dp[y]
    BY <1>7, <1>8, <1>11, <1>12
<1>14. \A y \in 0..Len(b) : y <= j => dp'[y] = d[<<i, y>>]
  <2> SUFFICES ASSUME NEW y \in 0..Len(b), y <= j PROVE dp'[y] = d[<<i, y>>]
    OBVIOUS
  <2>1. CASE y = j
    BY <1>11, <1>13, <2>1
  <2>2. CASE y # j
    <3>1. y < j
        BY <1>4, <1>8, <2>2
    <3>2. dp'[y] = dp[y]
        BY <1>13, <2>2
    <3> QED
        BY <1>7, <3>1, <3>2
  <2> QED
    BY <2>1, <2>2
<1>15. ScreenStays
    BY <1>1, <1>12 DEF ScreenStays
<1>16. CASE j < Len(b)
  <2>1. j' = j + 1 /\ i' = i /\ phase' = "cell" /\ j' - 1 = j /\ j' \in 1..Len(b)
    BY <1>4, <1>7, <1>12, <1>16
  <2>2. prev' = d[<<i - 1, j>>]
    BY <1>9, <1>12
  <2>3. \A y \in 0..Len(b) : y < j + 1 => dp'[y] = d[<<i, y>>]
    BY <1>4, <1>7, <1>14
  <2>4. \A y \in 0..Len(b) : y >= j + 1 => dp'[y] = d[<<i - 1, y>>]
    BY <1>4, <1>7, <1>13
  <2>5. ScreenAtCell(a, b)'
    BY <1>6, <1>7, <1>13, <2>1, <2>2, <2>3, <2>4 DEF ScreenAtCell
  <2>6. ScreenAtCell(Screen!A, Screen!B)'
    BY <1>3, <2>5 DEF ScreenAtCell
  <2>7. ScreenAt'
    BY <1>1, <2>1, <2>6 DEF ScreenAt
  <2> QED
    BY <1>15, <2>1, <2>7, ScreenKeepsSearch DEF ScreenGood
<1>17. CASE ~ j < Len(b)
  <2>1. i' = i + 1 /\ phase' = "row" /\ i' - 1 = i /\ i' \in 1..(Len(a) + 1) /\ j = Len(b) /\ b # << >>
    BY <1>4, <1>7, <1>12, <1>17 DEF ScreenWords
  <2>2. \A y \in 0..Len(b) : dp'[y] = d[<<i, y>>]
    <3>1. \A y \in 0..Len(b) : y <= Len(b)
        BY <1>4
    <3> QED
        BY <1>14, <2>1, <3>1
  <2>3. ScreenAtRow(a, b)'
    BY <1>6, <1>13, <2>1, <2>2 DEF ScreenAtRow
  <2>4. ScreenAtRow(Screen!A, Screen!B)'
    BY <1>3, <2>3 DEF ScreenAtRow
  <2>5. ScreenAt'
    BY <1>1, <2>1, <2>4 DEF ScreenAt
  <2> QED
    BY <1>15, <2>1, <2>5, ScreenKeepsSearch DEF ScreenGood
<1> QED
    BY <1>16, <1>17

LEMMA ScreenCompares ==
    ASSUME ScreenGood, Screen!Compare PROVE ScreenGood'
<1>1. /\ phase = "compare" /\ phase' = "fuzzy" /\ UNCHANGED <<setting, name, kind>> /\ k' = k + 1
      /\ name \in Seq(STRING) /\ k \in DOMAIN Screen!Candidates /\ setting \in ScreeningSettings
      /\ ScreenSearch /\ k \in Nat \ {0}
    BY DEF ScreenGood, ScreenAt, ScreenSearch, Screen!Compare
<1>2. PICK a, b : a = Screen!A /\ b = Screen!B
    OBVIOUS
<1>3. Screen!A' = a /\ \A c : Screen!Close(c)' = Screen!Close(c)
    BY <1>1, <1>2, ScreenSame
<1>4. /\ Len(a) \in Nat /\ Len(b) \in Nat /\ b \in ScreenWords /\ a \in ScreenWords /\ a # << >>
      /\ Screen!Candidates[k] \in Seq(STRING)
    BY <1>1, <1>2, ScreenNames DEF ScreenSearch
<1>5. PICK dist : dist = Screen!Distance(a, b)
    OBVIOUS
<1>6. dist \in Nat /\ dp[Len(b)] = dist
  <2>1. dp[Len(b)] = dist
    BY <1>1, <1>2, <1>5 DEF ScreenGood, ScreenAt
  <2>2. dist = ScreenTable(a, b)[<<Len(a), Len(b)>>]
    BY <1>4, <1>5, ScreenTableIs
  <2>3. Len(a) \in 0..Len(a) /\ Len(b) \in 0..Len(b)
    BY <1>4
  <2> QED
    BY <1>4, <2>1, <2>2, <2>3, ScreenTableType
<1>7. PICK u, v : u = Screen!tokenize(name) /\ v = Screen!tokenize(Screen!Candidates[k])
    OBVIOUS
<1>8. u \in Seq(ScreenWords) /\ v \in Seq(ScreenWords) /\ u # << >>
    BY <1>1, <1>2, <1>4, <1>7, ScreenTokens DEF Screen!A
<1>9. PICK jac, chr : jac = Screen!tokenJaccard(u, v) /\ chr = Screen!charSimilarity(a, b, dist)
    OBVIOUS
<1>10. Screen!Close(k) => Screen!AtLeast(jac, <<3, 5>>) \/ Screen!AtLeast(chr, <<3, 4>>)
  <2> DEFINE longest == IF Len(a) > Len(b) THEN Len(a) ELSE Len(b)
  <2>1. Screen!Close(k) =>
            \/ 4 * dist <= longest
            \/ 5 * Cardinality(Screen!ToSet(u) \cap Screen!ToSet(v))
                 >= 3 * Cardinality(Screen!ToSet(u) \cup Screen!ToSet(v))
    <3>1. \A S : Screen!Cardinality(S) = Cardinality(S)
        BY DEF Screen!Cardinality, Cardinality
    <3> QED
        BY <1>2, <1>5, <1>7, <3>1 DEF Screen!Close, Screen!B
  <2>2. ASSUME 4 * dist <= longest PROVE Screen!AtLeast(chr, <<3, 4>>)
    <3>1. longest \in Nat /\ longest # 0
        BY <1>4 DEF ScreenWords
    <3>2. chr = <<longest - dist, longest>>
        BY <1>9, <3>1 DEF Screen!charSimilarity
    <3> HIDE DEF longest
    <3>3. (longest - dist) * 4 >= 3 * longest
        BY <1>6, <2>2, <3>1
    <3> QED
        BY <3>2, <3>3 DEF Screen!AtLeast
  <2>3. ASSUME 5 * Cardinality(Screen!ToSet(u) \cap Screen!ToSet(v))
                 >= 3 * Cardinality(Screen!ToSet(u) \cup Screen!ToSet(v))
        PROVE  Screen!AtLeast(jac, <<3, 5>>)
    BY <1>8, <1>9, <2>3, ScreenShared
  <2> QED
    BY <2>1, <2>2, <2>3
<1>11. best' = IF /\ Screen!AtLeast(jac, <<3, 5>>) \/ Screen!AtLeast(chr, <<3, 4>>)
                  /\ best.of = 0 \/ ~ Screen!AtLeast(best.sim, Screen!Larger(jac, chr))
               THEN [of |-> k, sim |-> Screen!Larger(jac, chr)] ELSE best
    BY <1>2, <1>6, <1>7, <1>9 DEF Screen!Compare
<1>12. best'.of = 0 => best.of = 0 /\ ~ Screen!Close(k)
    BY <1>1, <1>10, <1>11
<1>13. best'.of = 0 => ScreenNone(k)'
  <2> SUFFICES ASSUME best'.of = 0, NEW c \in DOMAIN Screen!Candidates, c < k + 1
               PROVE  ~ Screen!Close(c)
    BY <1>1, <1>3 DEF ScreenNone
  <2>1. c \in Nat
    BY ScreenConstants
  <2>2. CASE c = k
    BY <1>12, <2>2
  <2>3. CASE c # k
    <3>1. c < k
        BY <1>1, <2>1, <2>3
    <3> QED
        BY <1>1, <1>12, <3>1 DEF ScreenSearch, ScreenNone
  <2> QED
    BY <2>2, <2>3
<1>14. ScreenSearch'
    BY <1>1, <1>3, <1>4, <1>13 DEF ScreenSearch
<1> QED
    BY <1>1, <1>14 DEF ScreenGood, ScreenAt, ScreenDone

LEMMA ScreenQuiet ==
    ASSUME ScreenGood, UNCHANGED <<setting, screenVars>> PROVE ScreenGood'
<1>1. /\ setting' = setting /\ phase' = phase /\ name' = name /\ k' = k /\ best' = best /\ kind' = kind
      /\ i' = i /\ j' = j /\ dp' = dp /\ prev' = prev
    BY DEF screenVars
<1>2. /\ Screen!A' = Screen!A /\ Screen!B' = Screen!B
      /\ \A c : Screen!Close(c)' = Screen!Close(c)
    BY <1>1, ScreenSame
<1>3. ScreenSearch' = ScreenSearch /\ ScreenDone' = ScreenDone
    BY <1>1, <1>2 DEF ScreenSearch, ScreenDone, ScreenNone
<1>4. ScreenAtRow(Screen!A, Screen!B)' = ScreenAtRow(Screen!A, Screen!B)
    BY <1>1, <1>2 DEF ScreenAtRow
<1>5. ScreenAtCell(Screen!A, Screen!B)' = ScreenAtCell(Screen!A, Screen!B)
    BY <1>1, <1>2 DEF ScreenAtCell
<1>6. (dp[Len(Screen!B)] = Screen!Distance(Screen!A, Screen!B))'
        = (dp[Len(Screen!B)] = Screen!Distance(Screen!A, Screen!B))
    BY <1>1, <1>2
<1>7. ScreenAt' = ScreenAt
    BY <1>1, <1>4, <1>5, <1>6 DEF ScreenAt
<1> QED
    BY <1>1, <1>3, <1>7 DEF ScreenGood

LEMMA ScreenKeeps == ScreenInv /\ [Next]_vars => ScreenInv'
<1> SUFFICES ASSUME ScreenInv, [Next]_vars, part' = "screening" PROVE ScreenGood'
    BY DEF ScreenInv
<1>1. ScreenGood /\ part = "screening" /\ (Screen!Next \/ UNCHANGED <<setting, screenVars>>)
    BY ScreenRuns DEF ScreenInv
<1>2. CASE (\E raw \in setting.names : Screen!Screen(raw)) \/ Screen!MatchExactly
    BY <1>1, <1>2, ScreenBegins, Zenon
<1>3. CASE Screen!FirstRow \/ Screen!NextRow
    BY <1>1, <1>3, ScreenFirst, ScreenNextRow, Zenon
<1>4. CASE Screen!NextCell \/ Screen!Compare
    BY <1>1, <1>4, ScreenNextCell, ScreenCompares, Zenon
<1>5. CASE Screen!Answered \/ UNCHANGED <<setting, screenVars>>
  <2>1. UNCHANGED <<setting, screenVars>>
    BY <1>5 DEF Screen!Answered, Screen!vars, screenVars
  <2> QED
    BY <1>1, <2>1, ScreenQuiet
<1> QED
    BY <1>1, <1>2, <1>3, <1>4, <1>5 DEF Screen!Next

\* Whatever the lists and the name: a listed name or alias that is close, by its letters or by
\* its words, is a hit, and the distance computed in a single row is the distance.
THEOREM NoNameIsMissed == Spec => []NothingMissed
<1>1. Init => ScreenInv
    BY ScreenStarts
<1>2. ScreenInv /\ [Next]_vars => ScreenInv'
    BY ScreenKeeps
<1>3. ScreenInv => NothingMissed
    BY DEF ScreenInv, ScreenGood, ScreenAt, ScreenDone, NothingMissed, Screen!NothingMissed
<1> QED
    BY <1>1, <1>2, <1>3, PTL DEF Spec
=============================================================================
