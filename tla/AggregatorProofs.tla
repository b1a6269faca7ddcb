-------------------------- MODULE AggregatorProofs --------------------------
(***************************************************************************)
(* Proofs about the legacy aggregator: the key its dashboard keeps, the    *)
(* webhooks it delivers and the payments it tells of.                      *)
(***************************************************************************)
EXTENDS Services, FiniteSetTheorems, TLAPS

(***************************************************************************)
(* The dashboard's session and keys.                                       *)
(***************************************************************************)
ConsoleCalm == {"overlap", "lost"} \cap setting.faults = {}

\* What is asked: a deed of the user's, or what a page asks when it is mounted.
ConsoleAsks == Console!Deed \cup {[op |-> o] : o \in {"me", "keys", "settings"}}
ConsoleKeys == [of : Shops \cup {"none"}, mode : {"test", "live"}, version : Nat]
ConsoleSent == [at : {"sent"}, deed : ConsoleAsks, token : Nat, key : ConsoleKeys, own : BOOLEAN]
ConsoleAnswered ==
    [at : {"answered"}, deed : ConsoleAsks, code : {"ok", "400", "401", "403", "409"}, token : Nat,
     key : ConsoleKeys, own : BOOLEAN]

ConsoleTyped ==
    /\ account \in [Shops -> [password : Nat, test : Nat, live : Nat]]
    /\ issued \in Seq(Shops) /\ stale \in Nat
    /\ token \in Nat /\ skTest \in ConsoleKeys
    /\ call \in [ConsoleCalls -> {Console!Free} \cup ConsoleSent \cup ConsoleAnswered]

\* The user waits for each answer.
ConsoleOne ==
    \A c, d \in ConsoleCalls : call[c] # Console!Free /\ call[d] # Console!Free => c = d

\* A key the server takes: the current test key of an account.
ConsoleWorks(key) ==
    /\ key.of \in Shops /\ key.mode = "test"
    /\ key.version # 0 /\ account[key.of].test = key.version

\* An answer that brings a new test key.
ConsoleRenews(c) ==
    /\ call[c].at = "answered" /\ call[c].code = "ok"
    /\ call[c].deed.op = "rotate" /\ call[c].deed.key = "test"

\* The key in the browser works unless its successor is on the way, and a key on the
\* way is none, a live one, or one that works.
ConsoleKept ==
    \/ skTest = Console!NoTestKey \/ ConsoleWorks(skTest)
    \/ \E c \in ConsoleCalls : ConsoleRenews(c)
ConsoleSound ==
    \A c \in ConsoleCalls : call[c].at = "answered" =>
        \/ call[c].key = Console!NoTestKey \/ ConsoleWorks(call[c].key)
        \/ call[c].deed.op = "rotate" /\ call[c].deed.key = "live"

ConsoleGood == ConsoleTyped /\ ConsoleOne /\ ConsoleKept /\ ConsoleSound
ConsoleInv == part = "console" /\ ConsoleCalm => ConsoleGood

\* A step while the dashboard runs is one of it.
LEMMA ConsoleRuns ==
    ASSUME [Next]_vars, part' = "console"
    PROVE  part = "console" /\ (Console!Next \/ UNCHANGED <<setting, consoleVars>>)
BY DEF Next, vars

LEMMA ConsoleStarts == Init => ConsoleInv
<1> SUFFICES ASSUME Init, part = "console" PROVE ConsoleGood
    BY DEF ConsoleInv
<1>1. Console!Idle
    BY DEF Init
<1>2. Console!NoAccount \in [password : Nat, test : Nat, live : Nat]
      /\ Console!NoTestKey \in ConsoleKeys
    BY DEF Console!NoAccount, Console!NoTestKey, ConsoleKeys
<1>3. ConsoleTyped
    BY <1>1, <1>2 DEF Console!Idle, ConsoleTyped
<1>4. skTest = Console!NoTestKey /\ \A c \in ConsoleCalls : call[c] = Console!Free
    BY <1>1 DEF Console!Idle
<1>5. Console!Free.at = "free"
    BY DEF Console!Free
<1> QED
    BY <1>3, <1>4, <1>5 DEF ConsoleGood, ConsoleOne, ConsoleKept, ConsoleSound

\* A call is free, sent or answered.
LEMMA ConsoleShapes ==
    ASSUME ConsoleTyped, NEW c \in ConsoleCalls
    PROVE  /\ call[c].at = "free" => call[c] = Console!Free
           /\ call[c] = Console!Free => call[c].at = "free"
           /\ call[c].at = "sent" => call[c] \in ConsoleSent
           /\ call[c].at = "answered" => call[c] \in ConsoleAnswered
           /\ call[c].at \in {"free", "sent", "answered"}
<1>1. call[c] \in {Console!Free} \cup ConsoleSent \cup ConsoleAnswered
    BY DEF ConsoleTyped
<1>2. call[c] \in ConsoleSent => call[c].at = "sent"
    BY DEF ConsoleSent
<1>3. call[c] \in ConsoleAnswered => call[c].at = "answered"
    BY DEF ConsoleAnswered
<1>4. Console!Free.at = "free"
    BY DEF Console!Free
<1> QED
    BY <1>1, <1>2, <1>3, <1>4

\* What a call carries.
LEMMA ConsoleCarries ==
    ASSUME ConsoleTyped, NEW c \in ConsoleCalls, call[c] # Console!Free
    PROVE  /\ call[c].deed \in ConsoleAsks /\ call[c].token \in Nat
           /\ call[c].key \in ConsoleKeys /\ call[c].own \in BOOLEAN
<1>1. call[c] \in ConsoleSent \/ call[c] \in ConsoleAnswered
    BY DEF ConsoleTyped
<1> QED
    BY <1>1 DEF ConsoleSent, ConsoleAnswered

\* A request as it is sent.
LEMMA ConsoleRequests ==
    ASSUME ConsoleTyped, NEW deed \in ConsoleAsks, NEW jwt \in Nat
    PROVE  Console!Request(deed, jwt) \in ConsoleSent
BY DEF ConsoleTyped, Console!Request, ConsoleSent

\* Calls that are left answer as before.
LEMMA ConsoleLeft ==
    ASSUME ConsoleTyped
    PROVE  /\ Console!Left \in [ConsoleCalls -> {Console!Free} \cup ConsoleSent \cup ConsoleAnswered]
           /\ \A c \in ConsoleCalls :
                /\ Console!Left[c] = Console!Free <=> call[c] = Console!Free
                /\ Console!Left[c].at = call[c].at /\ Console!Left[c].deed = call[c].deed
                /\ Console!Left[c].code = call[c].code /\ Console!Left[c].key = call[c].key
<1> SUFFICES ASSUME NEW c \in ConsoleCalls
             PROVE  /\ Console!Left[c] \in {Console!Free} \cup ConsoleSent \cup ConsoleAnswered
                    /\ Console!Left[c] = Console!Free <=> call[c] = Console!Free
                    /\ Console!Left[c].at = call[c].at /\ Console!Left[c].deed = call[c].deed
                    /\ Console!Left[c].code = call[c].code /\ Console!Left[c].key = call[c].key
    BY DEF Console!Left
<1>1. CASE call[c] = Console!Free
    BY <1>1 DEF Console!Left
<1>2. CASE call[c] \in ConsoleSent
  <2>1. call[c] # Console!Free
    BY <1>2 DEF ConsoleSent, Console!Free
  <2>2. Console!Left[c] = [call[c] EXCEPT !.own = FALSE]
    BY <2>1 DEF Console!Left
  <2>3. Console!Left[c] \in ConsoleSent
    BY <1>2, <2>2 DEF ConsoleSent
  <2>4. Console!Left[c] # Console!Free
    BY <2>3 DEF ConsoleSent, Console!Free
  <2> QED
    BY <1>2, <2>1, <2>2, <2>3, <2>4 DEF ConsoleSent
<1>3. CASE call[c] \in ConsoleAnswered
  <2>1. call[c] # Console!Free
    BY <1>3 DEF ConsoleAnswered, Console!Free
  <2>2. Console!Left[c] = [call[c] EXCEPT !.own = FALSE]
    BY <2>1 DEF Console!Left
  <2>3. Console!Left[c] \in ConsoleAnswered
    BY <1>3, <2>2 DEF ConsoleAnswered
  <2>4. Console!Left[c] # Console!Free
    BY <2>3 DEF ConsoleAnswered, Console!Free
  <2> QED
    BY <1>3, <2>1, <2>2, <2>3, <2>4 DEF ConsoleAnswered
<1> QED
    BY <1>1, <1>2, <1>3 DEF ConsoleTyped

\* The others are free when one call goes on, or is sent.
ConsoleAlone(c) == \A d \in ConsoleCalls : d # c => call[d] = Console!Free

LEMMA ConsoleWaits ==
    ASSUME ConsoleTyped, ConsoleOne, ConsoleCalm, NEW c \in ConsoleCalls,
           Console!MaySend(c) \/ call[c] # Console!Free
    PROVE  ConsoleAlone(c)
BY DEF ConsoleCalm, ConsoleOne, Console!MaySend, Console!Fault, ConsoleAlone

LEMMA ConsoleMoves ==
    ASSUME ConsoleTyped, NEW c \in ConsoleCalls, ConsoleAlone(c),
           NEW x \in {Console!Free} \cup ConsoleSent \cup ConsoleAnswered,
           call' = [call EXCEPT ![c] = x] \/ call' = [Console!Left EXCEPT ![c] = x]
    PROVE  /\ call' \in [ConsoleCalls -> {Console!Free} \cup ConsoleSent \cup ConsoleAnswered]
           /\ call'[c] = x
           /\ \A d \in ConsoleCalls : d # c => call'[d] = Console!Free /\ call'[d].at = "free"
           /\ ConsoleOne'
<1>1. /\ call' \in [ConsoleCalls -> {Console!Free} \cup ConsoleSent \cup ConsoleAnswered]
      /\ call'[c] = x
      /\ \A d \in ConsoleCalls : d # c => call'[d] = Console!Free
  <2>1. CASE call' = [call EXCEPT ![c] = x]
    BY <2>1 DEF ConsoleTyped, ConsoleAlone
  <2>2. CASE call' = [Console!Left EXCEPT ![c] = x]
    BY <2>2, ConsoleLeft DEF ConsoleAlone
  <2> QED
    BY <2>1, <2>2
<1>2. Console!Free.at = "free"
    BY DEF Console!Free
<1>3. ConsoleOne'
    BY <1>1 DEF ConsoleOne
<1> QED
    BY <1>1, <1>2, <1>3

\* A request is sent, and nothing else happens to the key and the accounts.
LEMMA ConsoleSends ==
    ASSUME ConsoleGood, ConsoleCalm, NEW c \in ConsoleCalls, Console!MaySend(c),
           NEW x \in ConsoleSent, UNCHANGED <<account, issued, stale, skTest>>, token' \in Nat,
           call' = [call EXCEPT ![c] = x] \/ call' = [Console!Left EXCEPT ![c] = x]
    PROVE  ConsoleGood'
<1>1. ConsoleTyped /\ ConsoleOne /\ ConsoleKept
    BY DEF ConsoleGood
<1>2. ConsoleAlone(c) /\ call[c] = Console!Free
    BY <1>1, ConsoleWaits DEF Console!MaySend
<1>3. /\ call' \in [ConsoleCalls -> {Console!Free} \cup ConsoleSent \cup ConsoleAnswered]
      /\ call'[c] = x
      /\ \A d \in ConsoleCalls : d # c => call'[d] = Console!Free /\ call'[d].at = "free"
      /\ ConsoleOne'
    BY <1>1, <1>2, ConsoleMoves
<1>4. ConsoleTyped'
    BY <1>1, <1>3 DEF ConsoleTyped
<1>5. \A d \in ConsoleCalls : call[d].at # "answered" /\ call'[d].at # "answered"
  <2>1. x.at = "sent" /\ Console!Free.at = "free"
    BY DEF ConsoleSent, Console!Free
  <2>2. \A d \in ConsoleCalls : call[d] = Console!Free
    BY <1>2 DEF ConsoleAlone
  <2>3. \A d \in ConsoleCalls : call'[d].at \in {"free", "sent"}
    BY <1>3, <2>1
  <2> QED
    BY <2>1, <2>2, <2>3
<1>6. skTest = Console!NoTestKey \/ ConsoleWorks(skTest)
    BY <1>1, <1>5 DEF ConsoleKept, ConsoleRenews
<1>7. ConsoleKept' /\ ConsoleSound'
    BY <1>5, <1>6 DEF ConsoleKept, ConsoleSound, ConsoleWorks
<1> QED
    BY <1>3, <1>4, <1>7 DEF ConsoleGood

\* A call ends or goes on, and leaves the key that works or takes the one it brought.
LEMMA ConsoleSettles ==
    ASSUME ConsoleGood, ConsoleCalm, NEW c \in ConsoleCalls, call[c].at = "answered",
           NEW x \in {Console!Free} \cup ConsoleSent, UNCHANGED <<account, issued, stale>>,
           token' \in Nat,
           call' = [call EXCEPT ![c] = x] \/ call' = [Console!Left EXCEPT ![c] = x],
           \/ skTest' = Console!NoTestKey
           \/ skTest' = skTest /\ ~ ConsoleRenews(c)
           \/ skTest' = call[c].key /\ ~ (call[c].deed.op = "rotate" /\ call[c].deed.key = "live")
    PROVE  ConsoleGood'
<1>1. ConsoleTyped /\ ConsoleOne /\ ConsoleKept /\ ConsoleSound
    BY DEF ConsoleGood
<1>2. call[c] # Console!Free
    BY <1>1, ConsoleShapes
<1>3. ConsoleAlone(c)
    BY <1>1, <1>2, ConsoleWaits
<1>4. /\ call' \in [ConsoleCalls -> {Console!Free} \cup ConsoleSent \cup ConsoleAnswered]
      /\ call'[c] = x
      /\ \A d \in ConsoleCalls : d # c => call'[d] = Console!Free /\ call'[d].at = "free"
      /\ ConsoleOne'
    BY <1>1, <1>3, ConsoleMoves
<1>5. \A d \in ConsoleCalls : call'[d].at # "answered"
  <2>1. x.at \in {"free", "sent"}
    BY DEF ConsoleSent, Console!Free
  <2>2. \A d \in ConsoleCalls : call'[d].at \in {"free", "sent"}
    BY <1>4, <2>1
  <2> QED
    BY <2>2
<1>6. skTest' = Console!NoTestKey \/ ConsoleWorks(skTest')
  <2>1. CASE skTest' = skTest /\ ~ ConsoleRenews(c)
    <3>1. \A d \in ConsoleCalls : ~ ConsoleRenews(d)
      <4>1. \A d \in ConsoleCalls : d # c => call[d].at = "free"
        BY <1>1, <1>3, ConsoleShapes DEF ConsoleAlone
      <4>2. \A d \in ConsoleCalls : d # c => ~ ConsoleRenews(d)
        BY <4>1 DEF ConsoleRenews
      <4> QED
        BY <2>1, <4>2
    <3> QED
        BY <1>1, <2>1, <3>1 DEF ConsoleKept
  <2>2. CASE skTest' = call[c].key /\ ~ (call[c].deed.op = "rotate" /\ call[c].deed.key = "live")
    BY <1>1, <2>2 DEF ConsoleSound
  <2> QED
    BY <2>1, <2>2
<1>7. ConsoleTyped'
  <2>1. skTest' \in ConsoleKeys
    <3>1. Console!NoTestKey \in ConsoleKeys
        BY DEF Console!NoTestKey, ConsoleKeys
    <3>2. call[c].key \in ConsoleKeys
        BY <1>1, <1>2, ConsoleCarries
    <3> QED
        BY <1>1, <3>1, <3>2 DEF ConsoleTyped
  <2> QED
    BY <1>1, <1>4, <2>1 DEF ConsoleTyped
<1>8. ConsoleKept' /\ ConsoleSound'
    BY <1>5, <1>6 DEF ConsoleKept, ConsoleSound, ConsoleWorks
<1> QED
    BY <1>4, <1>7, <1>8 DEF ConsoleGood

\* The server answers: the keys it took it takes, or the answer brings the next one,
\* and the answer's key is none or one it takes.
LEMMA ConsoleServes ==
    ASSUME ConsoleGood, ConsoleCalm, NEW c \in ConsoleCalls, call[c].at = "sent",
           UNCHANGED <<skTest, token>>,
           NEW code \in {"ok", "400", "401", "403", "409"}, NEW jwt \in Nat, NEW key \in ConsoleKeys,
           Console!Answer(c, code, jwt, key),
           account' \in [Shops -> [password : Nat, test : Nat, live : Nat]],
           issued' \in Seq(Shops), stale' \in Nat,
           \/ key = Console!NoTestKey \/ ConsoleWorks(key)'
           \/ call[c].deed.op = "rotate" /\ call[c].deed.key = "live",
           \/ \A k1 \in ConsoleKeys : ConsoleWorks(k1) => ConsoleWorks(k1)'
           \/ code = "ok" /\ call[c].deed.op = "rotate" /\ call[c].deed.key = "test"
    PROVE  ConsoleGood'
<1>1. ConsoleTyped /\ ConsoleOne /\ ConsoleKept /\ ConsoleSound
    BY DEF ConsoleGood
<1>2. call[c] # Console!Free
    BY <1>1, ConsoleShapes
<1>3. ConsoleAlone(c)
    BY <1>1, <1>2, ConsoleWaits
<1> DEFINE x == [at |-> "answered", deed |-> call[c].deed, code |-> code, token |-> jwt, key |-> key,
                 own |-> call[c].own]
<1>4. x \in ConsoleAnswered
  <2>1. call[c].deed \in ConsoleAsks /\ call[c].own \in BOOLEAN
    BY <1>1, <1>2, ConsoleCarries
  <2> QED
    BY <2>1 DEF ConsoleAnswered
<1>5. call' = [call EXCEPT ![c] = x]
    BY <1>1 DEF ConsoleTyped, Console!Answer
<1>6. /\ x.at = "answered" /\ x.deed = call[c].deed /\ x.code = code /\ x.key = key
    OBVIOUS
<1> HIDE DEF x
<1>7. /\ call' \in [ConsoleCalls -> {Console!Free} \cup ConsoleSent \cup ConsoleAnswered]
      /\ call'[c] = x
      /\ \A d \in ConsoleCalls : d # c => call'[d] = Console!Free /\ call'[d].at = "free"
      /\ ConsoleOne'
    BY <1>1, <1>3, <1>4, <1>5, ConsoleMoves
<1>8. skTest \in ConsoleKeys
    BY <1>1 DEF ConsoleTyped
<1>9. ConsoleTyped'
    BY <1>1, <1>7 DEF ConsoleTyped
<1>10. ConsoleSound'
  <2>1. \A d \in ConsoleCalls : call'[d].at = "answered" =>
          call'[d].key = key /\ call'[d].deed = call[c].deed
    BY <1>6, <1>7
  <2> QED
    BY <2>1 DEF ConsoleSound, ConsoleWorks
<1>11. ConsoleKept'
  <2>1. skTest = Console!NoTestKey \/ ConsoleWorks(skTest)
    <3>1. \A d \in ConsoleCalls : call[d].at # "answered"
        BY <1>1, <1>3, ConsoleShapes DEF ConsoleAlone
    <3> QED
        BY <1>1, <3>1 DEF ConsoleKept, ConsoleRenews
  <2>2. CASE code = "ok" /\ call[c].deed.op = "rotate" /\ call[c].deed.key = "test"
    BY <1>6, <1>7, <2>2 DEF ConsoleKept, ConsoleRenews
  <2>3. CASE \A k1 \in ConsoleKeys : ConsoleWorks(k1) => ConsoleWorks(k1)'
    <3>1. skTest = Console!NoTestKey \/ ConsoleWorks(skTest)'
        BY <1>8, <2>1, <2>3
    <3> QED
        BY <3>1 DEF ConsoleKept, ConsoleWorks
  <2> QED
    BY <2>2, <2>3
<1> QED
    BY <1>7, <1>9, <1>10, <1>11 DEF ConsoleGood

\* The browser sends a form, or a page what it loads.
LEMMA ConsoleBrowses ==
    ASSUME ConsoleGood, ConsoleCalm, NEW c \in ConsoleCalls,
           \/ \E deed \in UNION {s.deeds : s \in ConsoleSettings} : Console!Submit(c, deed)
           \/ Console!Open(c) \/ \E p \in Console!NAV : Console!GoAndLoad(c, p)
    PROVE  ConsoleGood'
<1>1. ConsoleTyped
    BY DEF ConsoleGood
<1>2. Console!MaySend(c) /\ UNCHANGED <<account, issued, stale, token, skTest>>
    BY DEF Console!Submit, Console!Open, Console!GoAndLoad, Console!server, Console!storage
<1>3. \E deed \in ConsoleAsks :
        \/ call' = [call EXCEPT ![c] = Console!Request(deed, token)]
        \/ call' = [Console!Left EXCEPT ![c] = Console!Request(deed, token)]
  <2>1. ASSUME NEW deed \in UNION {s.deeds : s \in ConsoleSettings}, Console!Submit(c, deed)
        PROVE  deed \in ConsoleAsks /\ call' = [call EXCEPT ![c] = Console!Request(deed, token)]
    <3>1. UNION {s.deeds : s \in ConsoleSettings} \subseteq Console!Deed
        BY ServicesAssumption DEF Console!ConsoleAssumption
    <3> QED
        BY <2>1, <3>1 DEF Console!Submit, ConsoleAsks
  <2>2. CASE Console!Open(c)
    BY <2>2 DEF Console!Open, ConsoleAsks
  <2>3. ASSUME NEW p \in Console!NAV, Console!GoAndLoad(c, p)
        PROVE  \E deed \in ConsoleAsks :
                 call' = [Console!Left EXCEPT ![c] = Console!Request(deed, token)]
    BY <2>3 DEF Console!GoAndLoad, Console!Loads, ConsoleAsks
  <2> QED
    BY <2>1, <2>2, <2>3
<1>4. PICK deed \in ConsoleAsks :
        \/ call' = [call EXCEPT ![c] = Console!Request(deed, token)]
        \/ call' = [Console!Left EXCEPT ![c] = Console!Request(deed, token)]
    BY <1>3
<1>5. token \in Nat /\ token' \in Nat
    BY <1>1, <1>2 DEF ConsoleTyped
<1>6. Console!Request(deed, token) \in ConsoleSent
    BY <1>1, <1>5, ConsoleRequests
<1> QED
    BY <1>2, <1>4, <1>5, <1>6, ConsoleSends

\* A link and the button that ends the session leave the key and the answers.
LEMMA ConsoleLeaves ==
    ASSUME ConsoleGood, Console!Logout \/ \E p \in Console!AuthPages \cup Console!NAV : Console!Go(p)
    PROVE  ConsoleGood'
<1>1. ConsoleTyped /\ ConsoleOne /\ ConsoleKept /\ ConsoleSound
    BY DEF ConsoleGood
<1>2. /\ UNCHANGED <<account, issued, stale, skTest>> /\ call' = Console!Left
      /\ token' = token \/ token' = 0
    BY DEF Console!Logout, Console!Go, Console!server, Console!storage
<1>3. /\ call' \in [ConsoleCalls -> {Console!Free} \cup ConsoleSent \cup ConsoleAnswered]
      /\ \A c \in ConsoleCalls :
           /\ call'[c] = Console!Free <=> call[c] = Console!Free
           /\ call'[c].at = call[c].at /\ call'[c].deed = call[c].deed
           /\ call'[c].code = call[c].code /\ call'[c].key = call[c].key
    BY <1>1, <1>2, ConsoleLeft
<1>4. ConsoleTyped'
    BY <1>1, <1>2, <1>3 DEF ConsoleTyped
<1>5. ConsoleOne'
    BY <1>1, <1>3 DEF ConsoleOne
<1>6. ConsoleKept'
    BY <1>1, <1>2, <1>3 DEF ConsoleKept, ConsoleWorks, ConsoleRenews
<1>7. ConsoleSound'
    BY <1>1, <1>2, <1>3 DEF ConsoleSound, ConsoleWorks
<1> QED
    BY <1>4, <1>5, <1>6, <1>7 DEF ConsoleGood

\* A refusal is none to the key, or forgets it; a welcome keeps a key there is; rotate
\* keeps the key it brings, if it is a test key; other answers bring none.
LEMMA ConsoleReads ==
    ASSUME ConsoleGood, ConsoleCalm, NEW c \in ConsoleCalls,
           Console!Refused(c) \/ Console!Welcome(c) \/ Console!Rotated(c) \/ Console!Done(c)
    PROVE  ConsoleGood'
<1>1. ConsoleTyped
    BY DEF ConsoleGood
<1>2. /\ call[c].at = "answered" /\ UNCHANGED <<account, issued, stale>>
      /\ token \in Nat /\ 0 \in Nat
    BY <1>1 DEF Console!Refused, Console!Welcome, Console!Rotated, Console!Done, Console!server,
           Console!storage, ConsoleTyped
<1>3. call[c].token \in Nat /\ call[c].own \in BOOLEAN
    BY <1>1, <1>2, ConsoleShapes, ConsoleCarries
<1>4. CASE Console!Refused(c)
  <2>1. /\ call' = [call EXCEPT ![c] = Console!Free] /\ ~ ConsoleRenews(c)
        /\ token' \in {0, token} /\ skTest' \in {Console!NoTestKey, skTest}
    BY <1>4 DEF Console!Refused, Console!storage, ConsoleRenews
  <2> QED
    BY <1>2, <2>1, ConsoleSettles
<1>5. CASE Console!Welcome(c)
  <2>1. /\ call[c].deed.op \in {"register", "login"} /\ ~ ConsoleRenews(c)
        /\ token' = call[c].token /\ skTest' \in {call[c].key, skTest}
        /\ call' = [Console!Left EXCEPT ![c] = Console!Request([op |-> "me"], call[c].token)]
    BY <1>5 DEF Console!Welcome, Console!Enters, ConsoleRenews
  <2>2. Console!Request([op |-> "me"], call[c].token) \in ConsoleSent
    <3>1. [op |-> "me"] \in ConsoleAsks
        BY DEF ConsoleAsks
    <3> QED
        BY <1>1, <1>3, <3>1, ConsoleRequests
  <2> QED
    BY <1>2, <1>3, <2>1, <2>2, ConsoleSettles
<1>6. CASE Console!Rotated(c)
  <2>1. /\ token' = token
        /\ IF call[c].deed.key = "test" THEN skTest' = call[c].key
             ELSE skTest' = skTest /\ ~ ConsoleRenews(c)
        /\ call' = [call EXCEPT ![c] = [Console!Request([op |-> "keys"], token) EXCEPT !.own = call[c].own]]
    BY <1>6 DEF Console!Rotated, Console!IsTestSecret, ConsoleRenews
  <2>2. [Console!Request([op |-> "keys"], token) EXCEPT !.own = call[c].own] \in ConsoleSent
    <3>1. [op |-> "keys"] \in ConsoleAsks
        BY DEF ConsoleAsks
    <3>2. Console!Request([op |-> "keys"], token) \in ConsoleSent
        BY <1>1, <1>2, <3>1, ConsoleRequests
    <3> QED
        BY <1>3, <3>2 DEF ConsoleSent
  <2> QED
    BY <1>2, <2>1, <2>2, ConsoleSettles
<1>7. CASE Console!Done(c)
  <2>1. /\ call' = [call EXCEPT ![c] = Console!Free] /\ ~ ConsoleRenews(c)
        /\ token' = token /\ skTest' = skTest
    BY <1>7 DEF Console!Done, Console!storage, Console!Enters, ConsoleRenews
  <2> QED
    BY <1>2, <2>1, ConsoleSettles
<1> QED
    BY <1>4, <1>5, <1>6, <1>7

\* A token that verifies is of an account.
LEMMA ConsoleVerified ==
    ASSUME ConsoleTyped, NEW c \in ConsoleCalls, Console!verifyJwt(call[c].token)
    PROVE  Console!merchantOf(c) \in Shops
BY DEF ConsoleTyped, Console!verifyJwt, Console!merchantOf

\* No key: what most answers bring.
LEMMA ConsoleNoKey == Console!NoTestKey \in ConsoleKeys
BY DEF Console!NoTestKey, ConsoleKeys

\* An answer that changes no account, or no key of one.
LEMMA ConsoleTells ==
    ASSUME ConsoleGood, ConsoleCalm, NEW c \in ConsoleCalls, call[c].at = "sent",
           UNCHANGED <<skTest, token>>,
           NEW code \in {"ok", "400", "401", "403", "409"}, NEW jwt \in Nat,
           Console!Answer(c, code, jwt, Console!NoTestKey),
           account' \in [Shops -> [password : Nat, test : Nat, live : Nat]],
           \A m \in Shops : account'[m].test = account[m].test,
           issued' \in Seq(Shops), stale' \in Nat
    PROVE  ConsoleGood'
<1>1. \A k1 \in ConsoleKeys : ConsoleWorks(k1) => ConsoleWorks(k1)'
    BY DEF ConsoleWorks
<1> QED
    BY <1>1, ConsoleServes, ConsoleNoKey

LEMMA ConsoleRefuses ==
    ASSUME ConsoleGood, ConsoleCalm, NEW c \in ConsoleCalls, call[c].at = "sent",
           UNCHANGED <<skTest, token>>,
           NEW code \in {"400", "401", "403", "409"}, Console!Refuse(c, code)
    PROVE  ConsoleGood'
<1>1. /\ Console!Answer(c, code, 0, Console!NoTestKey) /\ UNCHANGED <<account, issued, stale>>
    BY DEF Console!Refuse, Console!server
<1>2. /\ account' \in [Shops -> [password : Nat, test : Nat, live : Nat]]
      /\ issued' \in Seq(Shops) /\ stale' \in Nat
    BY <1>1 DEF ConsoleGood, ConsoleTyped
<1> QED
    BY <1>1, <1>2, ConsoleTells

\* A new account's first test key is the answer's; no key of it was about before.
LEMMA ConsoleRegister ==
    ASSUME ConsoleGood, ConsoleCalm, NEW c \in ConsoleCalls, Console!Register(c),
           UNCHANGED <<skTest, token>>
    PROVE  ConsoleGood'
<1> DEFINE m == call[c].deed.who
           key == [of |-> m, mode |-> "test", version |-> 1]
           fresh == [password |-> call[c].deed.typed, test |-> 1, live |-> 1]
<1>1. ConsoleTyped /\ call[c].at = "sent"
    BY DEF ConsoleGood, Console!Register, Console!Arrives
<1>2. m \in Shops /\ call[c].deed.typed \in Nat
  <2>1. call[c].deed \in ConsoleAsks /\ call[c].deed.op = "register"
    BY <1>1, ConsoleShapes, ConsoleCarries DEF Console!Register, Console!Arrives
  <2>2. call[c].deed \in Console!Deed
    BY <2>1 DEF ConsoleAsks
  <2> QED
    BY <2>2 DEF Console!Deed
<1>3. CASE account[m] # Console!NoAccount
    BY <1>1, <1>3, ConsoleRefuses DEF Console!Register
<1>4. CASE account[m] = Console!NoAccount
  <2>1. /\ account' = [account EXCEPT ![m] = fresh]
        /\ issued' = Append(issued, m) /\ stale' = stale
        /\ Console!Answer(c, "ok", Len(issued) + 1, key)
    BY <1>4 DEF Console!Register, Console!signJwt
  <2>2. /\ account' \in [Shops -> [password : Nat, test : Nat, live : Nat]]
        /\ issued' \in Seq(Shops) /\ stale' \in Nat /\ Len(issued) + 1 \in Nat
    BY <1>1, <1>2, <2>1 DEF ConsoleTyped
  <2>3. key \in ConsoleKeys
    BY <1>2 DEF ConsoleKeys
  <2>4. account'[m].test = 1 /\ \A n \in Shops \ {m} : account'[n] = account[n]
    BY <1>1, <1>2, <2>1 DEF ConsoleTyped
  <2>5. PICK k1 \in ConsoleKeys : k1 = key
    BY <2>3
  <2>6. \A k2 \in ConsoleKeys : ConsoleWorks(k2) => ConsoleWorks(k2)'
    <3>1. account[m].test = 0
        BY <1>4 DEF Console!NoAccount
    <3>2. \A k2 \in ConsoleKeys : ConsoleWorks(k2) => k2.of # m
        BY <3>1 DEF ConsoleWorks
    <3> QED
        BY <2>4, <3>2 DEF ConsoleWorks
  <2>7. key.of = m /\ key.mode = "test" /\ key.version = 1
    OBVIOUS
  <2> HIDE DEF key, m, fresh
  <2>8. ConsoleWorks(k1)'
    BY <1>2, <2>4, <2>5, <2>7 DEF ConsoleWorks
  <2> QED
    BY <1>1, <2>1, <2>2, <2>5, <2>6, <2>8, ConsoleServes
<1> QED
    BY <1>3, <1>4

LEMMA ConsoleLogin ==
    ASSUME ConsoleGood, ConsoleCalm, NEW c \in ConsoleCalls, Console!Login(c),
           UNCHANGED <<skTest, token>>
    PROVE  ConsoleGood'
<1> DEFINE m == call[c].deed.who
<1>1. ConsoleTyped /\ call[c].at = "sent"
    BY DEF ConsoleGood, Console!Login, Console!Arrives
<1>2. m \in Shops
  <2>1. call[c].deed \in ConsoleAsks /\ call[c].deed.op = "login"
    BY <1>1, ConsoleShapes, ConsoleCarries DEF Console!Login, Console!Arrives
  <2>2. call[c].deed \in Console!Deed
    BY <2>1 DEF ConsoleAsks
  <2> QED
    BY <2>2 DEF Console!Deed
<1>3. CASE account[m].password # call[c].deed.typed
    BY <1>1, <1>3, ConsoleRefuses DEF Console!Login
<1>4. CASE account[m].password = call[c].deed.typed
  <2>1. /\ issued' = Append(issued, m) /\ UNCHANGED <<account, stale>>
        /\ Console!Answer(c, "ok", Len(issued) + 1, Console!NoTestKey)
    BY <1>4 DEF Console!Login, Console!signJwt
  <2>2. /\ account' \in [Shops -> [password : Nat, test : Nat, live : Nat]]
        /\ issued' \in Seq(Shops) /\ stale' \in Nat /\ Len(issued) + 1 \in Nat
    BY <1>1, <1>2, <2>1 DEF ConsoleTyped
  <2> HIDE DEF m
  <2> QED
    BY <1>1, <2>1, <2>2, ConsoleTells
<1> QED
    BY <1>3, <1>4

LEMMA ConsoleLists ==
    ASSUME ConsoleGood, ConsoleCalm, NEW c \in ConsoleCalls,
           Console!Me(c) \/ Console!SetProfile(c) \/ Console!UseKey(c), UNCHANGED <<skTest, token>>
    PROVE  ConsoleGood'
<1>1. call[c].at = "sent"
    BY DEF Console!Me, Console!SetProfile, Console!UseKey, Console!Arrives
<1>2. \/ Console!Refuse(c, "401")
      \/ \E code \in {"ok", "401", "403"} :
           /\ Console!Answer(c, code, 0, Console!NoTestKey) /\ UNCHANGED <<account, issued, stale>>
    BY DEF Console!Me, Console!SetProfile, Console!UseKey, Console!Unauthorized, Console!server,
           Console!requireApiKey
<1>3. ASSUME NEW code \in {"ok", "401", "403"}, Console!Answer(c, code, 0, Console!NoTestKey),
             UNCHANGED <<account, issued, stale>>
      PROVE  ConsoleGood'
  <2>1. /\ account' \in [Shops -> [password : Nat, test : Nat, live : Nat]]
        /\ issued' \in Seq(Shops) /\ stale' \in Nat
    BY <1>3 DEF ConsoleGood, ConsoleTyped
  <2> QED
    BY <1>1, <1>3, <2>1, ConsoleTells
<1> QED
    BY <1>1, <1>2, <1>3, ConsoleRefuses

LEMMA ConsoleSetPassword ==
    ASSUME ConsoleGood, ConsoleCalm, NEW c \in ConsoleCalls, Console!SetPassword(c),
           UNCHANGED <<skTest, token>>
    PROVE  ConsoleGood'
<1>1. ConsoleTyped /\ call[c].at = "sent"
    BY DEF ConsoleGood, Console!SetPassword, Console!Arrives
<1>2. CASE Console!Refuse(c, "401") \/ Console!Refuse(c, "400")
    BY <1>1, <1>2, ConsoleRefuses
<1>3. CASE /\ Console!verifyJwt(call[c].token)
           /\ account' = [account EXCEPT ![Console!merchantOf(c)].password = call[c].deed.next]
           /\ Console!Answer(c, "ok", 0, Console!NoTestKey) /\ UNCHANGED <<issued, stale>>
  <2> DEFINE m == Console!merchantOf(c)
  <2>1. m \in Shops
    BY <1>1, <1>3, ConsoleVerified
  <2>2. call[c].deed.next \in Nat
    <3>1. call[c].deed \in ConsoleAsks /\ call[c].deed.op = "password"
        BY <1>1, ConsoleShapes, ConsoleCarries DEF Console!SetPassword, Console!Arrives
    <3>2. call[c].deed \in Console!Deed
        BY <3>1 DEF ConsoleAsks
    <3> QED
        BY <3>2 DEF Console!Deed
  <2> HIDE DEF m
  <2>3. /\ account' = [account EXCEPT ![m].password = call[c].deed.next]
        /\ issued' \in Seq(Shops) /\ stale' \in Nat
    BY <1>1, <1>3 DEF m, ConsoleTyped
  <2>4. /\ account' \in [Shops -> [password : Nat, test : Nat, live : Nat]]
        /\ \A n \in Shops : account'[n].test = account[n].test
    BY <1>1, <2>1, <2>2, <2>3 DEF ConsoleTyped
  <2> QED
    BY <1>1, <1>3, <2>3, <2>4, ConsoleTells
<1> QED
    BY <1>2, <1>3 DEF Console!SetPassword, Console!Unauthorized

\* The next version of a key is that key's alone.
LEMMA ConsoleBumps ==
    ASSUME NEW a \in [Shops -> [password : Nat, test : Nat, live : Nat]], NEW m \in Shops
    PROVE  /\ [a EXCEPT ![m]["test"] = @ + 1] \in [Shops -> [password : Nat, test : Nat, live : Nat]]
           /\ [a EXCEPT ![m]["test"] = @ + 1][m].test = a[m].test + 1 /\ a[m].test \in Nat
           /\ [a EXCEPT ![m]["live"] = @ + 1] \in [Shops -> [password : Nat, test : Nat, live : Nat]]
           /\ \A n \in Shops : [a EXCEPT ![m]["live"] = @ + 1][n].test = a[n].test
           /\ a[m].live \in Nat
OBVIOUS

\* A new test key is in the answer; a new live key, or none, changes no test key.
LEMMA ConsoleRotate ==
    ASSUME ConsoleGood, ConsoleCalm, NEW c \in ConsoleCalls, Console!Rotate(c),
           UNCHANGED <<skTest, token>>
    PROVE  ConsoleGood'
<1> DEFINE m == Console!merchantOf(c)
<1>1. ConsoleTyped /\ call[c].at = "sent" /\ call[c].deed.op = "rotate"
    BY DEF ConsoleGood, Console!Rotate, Console!Arrives
<1>2. CASE Console!Refuse(c, "401")
    BY <1>1, <1>2, ConsoleRefuses
<1>3. CASE /\ Console!verifyJwt(call[c].token) /\ call[c].deed.key = "test"
           /\ account' = [account EXCEPT ![m]["test"] = @ + 1]
           /\ Console!Answer(c, "ok", 0, [of |-> m, mode |-> "test", version |-> account[m]["test"] + 1])
           /\ UNCHANGED <<issued, stale>>
  <2> DEFINE key == [of |-> m, mode |-> "test", version |-> account[m].test + 1]
  <2>1. m \in Shops
    BY <1>1, <1>3, ConsoleVerified
  <2>2. Console!Answer(c, "ok", 0, key)
    BY <1>3
  <2> HIDE DEF m
  <2>3. account \in [Shops -> [password : Nat, test : Nat, live : Nat]]
        /\ issued' \in Seq(Shops) /\ stale' \in Nat
    BY <1>1, <1>3 DEF ConsoleTyped
  <2>4. /\ account' \in [Shops -> [password : Nat, test : Nat, live : Nat]]
        /\ account'[m].test = account[m].test + 1 /\ account[m].test \in Nat
    BY <1>3, <2>1, <2>3, ConsoleBumps DEF m
  <2>5. key \in ConsoleKeys
    BY <2>1, <2>4 DEF ConsoleKeys
  <2>6. key.of = m /\ key.mode = "test" /\ key.version = account[m].test + 1
    OBVIOUS
  <2>7. PICK k1 \in ConsoleKeys : k1 = key
    BY <2>5
  <2> HIDE DEF key
  <2>8. ConsoleWorks(k1)'
    BY <2>1, <2>3, <2>4, <2>6, <2>7 DEF ConsoleWorks
  <2> QED
    BY <1>1, <1>3, <2>2, <2>3, <2>4, <2>7, <2>8, ConsoleServes
<1>4. CASE /\ Console!verifyJwt(call[c].token) /\ call[c].deed.key = "live"
           /\ account' = [account EXCEPT ![m]["live"] = @ + 1]
           /\ Console!Answer(c, "ok", 0, [of |-> m, mode |-> "live", version |-> account[m]["live"] + 1])
           /\ UNCHANGED <<issued, stale>>
  <2> DEFINE key == [of |-> m, mode |-> "live", version |-> account[m].live + 1]
  <2>1. m \in Shops
    BY <1>1, <1>4, ConsoleVerified
  <2>2. Console!Answer(c, "ok", 0, key)
    BY <1>4
  <2> HIDE DEF m
  <2>3. account \in [Shops -> [password : Nat, test : Nat, live : Nat]]
        /\ issued' \in Seq(Shops) /\ stale' \in Nat
    BY <1>1, <1>4 DEF ConsoleTyped
  <2>4. /\ account' \in [Shops -> [password : Nat, test : Nat, live : Nat]]
        /\ \A n \in Shops : account'[n].test = account[n].test /\ account[m].live \in Nat
    BY <1>4, <2>1, <2>3, ConsoleBumps DEF m
  <2>5. key \in ConsoleKeys
    BY <2>1, <2>4 DEF ConsoleKeys
  <2>6. \A k1 \in ConsoleKeys : ConsoleWorks(k1) => ConsoleWorks(k1)'
    BY <2>4 DEF ConsoleWorks
  <2> HIDE DEF key
  <2> QED
    BY <1>1, <1>4, <2>2, <2>3, <2>4, <2>5, <2>6, ConsoleServes
<1>5. CASE Console!Answer(c, "ok", 0, Console!NoTestKey) /\ UNCHANGED <<account, issued, stale>>
  <2>1. /\ account' \in [Shops -> [password : Nat, test : Nat, live : Nat]]
        /\ issued' \in Seq(Shops) /\ stale' \in Nat
    BY <1>1, <1>5 DEF ConsoleTyped
  <2> QED
    BY <1>1, <1>5, <2>1, ConsoleTells
<1> QED
    BY <1>2, <1>3, <1>4, <1>5 DEF Console!Rotate, Console!Unauthorized, Console!server

LEMMA ConsoleKeeps == ConsoleInv /\ [Next]_vars => ConsoleInv'
<1> SUFFICES ASSUME ConsoleInv, [Next]_vars, part' = "console", ConsoleCalm'
             PROVE  ConsoleGood'
    BY DEF ConsoleInv
<1>1. part = "console" /\ (Console!Next \/ UNCHANGED <<setting, consoleVars>>)
    BY ConsoleRuns
<1>2. setting' = setting
    BY <1>1 DEF Console!Next, Console!Submit, Console!Open, Console!GoAndLoad, Console!Refused,
           Console!Welcome, Console!Rotated, Console!Done, Console!Lost, Console!Go, Console!Logout,
           Console!Expires, Console!Quiet, Console!vars
<1>3. ConsoleCalm /\ ConsoleGood
    BY <1>1, <1>2 DEF ConsoleCalm, ConsoleInv
<1>4. ASSUME NEW c \in ConsoleCalls,
             \/ \E deed \in UNION {s.deeds : s \in ConsoleSettings} : Console!Submit(c, deed)
             \/ Console!Open(c) \/ \E p \in Console!NAV : Console!GoAndLoad(c, p)
      PROVE  ConsoleGood'
    BY <1>3, <1>4, ConsoleBrowses
<1>5. ASSUME NEW c \in ConsoleCalls,
             \/ Console!Register(c) \/ Console!Login(c) \/ Console!Me(c) \/ Console!SetProfile(c)
             \/ Console!SetPassword(c) \/ Console!Rotate(c) \/ Console!UseKey(c),
             UNCHANGED Console!storage
      PROVE  ConsoleGood'
  <2>1. UNCHANGED <<skTest, token>>
    BY <1>5 DEF Console!storage
  <2> QED
    BY <1>3, <1>5, <2>1, ConsoleRegister, ConsoleLogin, ConsoleLists, ConsoleSetPassword,
       ConsoleRotate
<1>6. ASSUME NEW c \in ConsoleCalls,
             Console!Refused(c) \/ Console!Welcome(c) \/ Console!Rotated(c) \/ Console!Done(c)
      PROVE  ConsoleGood'
    BY <1>3, <1>6, ConsoleReads
<1>7. \A c \in ConsoleCalls : ~ Console!Lost(c)
    BY <1>3 DEF ConsoleCalm, Console!Lost, Console!Fault
<1>8. CASE Console!Logout \/ \E p \in Console!AuthPages \cup Console!NAV : Console!Go(p)
    BY <1>3, <1>8, ConsoleLeaves
<1>9. CASE UNCHANGED <<account, issued, token, skTest, call>> /\ stale' \in Nat
    BY <1>3, <1>9 DEF ConsoleGood, ConsoleTyped, ConsoleOne, ConsoleKept, ConsoleSound,
                      ConsoleWorks, ConsoleRenews
<1>10. Console!Expires \/ Console!Quiet \/ UNCHANGED <<setting, consoleVars>>
         => UNCHANGED <<account, issued, token, skTest, call>> /\ stale' \in Nat
  <2>1. stale \in Nat /\ Len(issued) \in Nat
    BY <1>3 DEF ConsoleGood, ConsoleTyped
  <2> QED
    BY <2>1 DEF Console!Expires, Console!Quiet, Console!vars, Console!server, Console!storage,
           consoleVars
<1> QED
    BY <1>1, <1>4, <1>5, <1>6, <1>7, <1>8, <1>9, <1>10 DEF Console!Next

\* A user who waits for each answer and loses none has, in the browser, the current test
\* key of an account, or its successor on the way: through any number of deeds, of any
\* number of merchants at one browser, with rotations, refusals and expiry.
THEOREM KeptKeyWorks == Spec => []KeyWorks
<1>1. Init => ConsoleInv
    BY ConsoleStarts
<1>2. ConsoleInv /\ [Next]_vars => ConsoleInv'
    BY ConsoleKeeps
<1>3. ConsoleInv => KeyWorks
  <2> SUFFICES ASSUME ConsoleInv, part = "console", ConsoleCalm
               PROVE  \/ skTest = Console!NoTestKey
                      \/ Console!requireApiKey(skTest) = "ok"
                      \/ \E c \in ConsoleCalls : call[c].at = "answered" /\ call[c].deed.op = "rotate"
    BY DEF KeyWorks, Console!KeyWorks, ConsoleCalm
  <2>1. ConsoleKept
    BY DEF ConsoleInv, ConsoleGood
  <2>2. skTest # Console!NoTestKey /\ ConsoleWorks(skTest) => Console!requireApiKey(skTest) = "ok"
    BY DEF ConsoleWorks, Console!requireApiKey, Console!resolveApiKey
  <2> QED
    BY <2>1, <2>2 DEF ConsoleKept, ConsoleRenews
<1> QED
    BY <1>1, <1>2, <1>3, PTL DEF Spec

(***************************************************************************)
(* The aggregator's webhooks.                                              *)
(***************************************************************************)
HookRow ==
    [hook : Endpoints, event : HookEvents \cup {"ping"}, status : {"failed", "delivered"}, n : Nat,
     retry : {"never", "later", "now"}]
HookDoings == {"nothing", "sending", "taken", "refused", "timer"}

\* What the process does is about a row there is, and only such are given.
HookTyped ==
    /\ setting \in HookSettings
    /\ attempt \in Seq(HookRow)
    /\ doing \in [Hook!Attempts -> HookDoings] /\ hookSends \in [Hook!Attempts -> Nat]
    /\ hook \in [Endpoints -> {"none", "checking", "active", "inactive"}]
    /\ rest \in [HookEvents -> SUBSET Endpoints] /\ listed \in [HookEvents -> SUBSET Endpoints]
    /\ \A a \in Hook!Attempts : doing[a] # "nothing" \/ hookSends[a] # 0 => a \in DOMAIN attempt

\* Nothing ends the process: it is not stopped, and no webhook it has to serve deleted.
HookLives == {"dies", "edits"} \cap setting.faults = {}
HookUp == up /\ \A e \in HookEvents : \A h \in rest[e] : Hook!IsRow(h)

\* Every try that was made is counted, or at hand, and who is at work has tries left.
HookTries ==
    \A a \in Hook!Attempts : a \in DOMAIN attempt =>
        /\ hookSends[a] <= attempt[a].n + (IF doing[a] \in {"taken", "refused"} THEN 1 ELSE 0)
        /\ attempt[a].n <= MaxAttempts
        /\ doing[a] # "nothing" => attempt[a].n < MaxAttempts

\* Where every endpoint takes what it is given, no row is ever due again.
HookSure == {"fails", "slow"} \cap setting.faults = {}
HookQuiet ==
    /\ \A a \in Hook!Attempts : doing[a] \notin {"refused", "timer"}
    /\ \A a \in DOMAIN attempt : attempt[a].retry = "never"

\* What was given is about to be recorded or done with.
HookCalm ==
    {"slow", "dies"} \cap setting.faults = {} /\ ~ {"fails", "edits"} \subseteq setting.faults
HookOnce ==
    \A a \in Hook!Attempts :
        hookSends[a] = 0 \/ (hookSends[a] = 1 /\ doing[a] \in {"taken", "nothing"})

HookGood ==
    /\ HookTyped
    /\ HookLives => HookUp /\ HookTries
    /\ HookSure => HookQuiet
    /\ HookCalm => HookOnce
HookInv == part = "webhooks" => HookGood

\* A step while the webhooks run is one of theirs.
LEMMA HookRuns ==
    ASSUME [Next]_vars, part' = "webhooks"
    PROVE  part = "webhooks" /\ (Hook!Next \/ UNCHANGED <<setting, hookVars>>)
BY DEF Next, vars

LEMMA HookConstants ==
    /\ AttemptRows \in Nat /\ MaxAttempts \in Nat \ {0}
    /\ \A s \in HookSettings : s.rows \in Nat /\ s.rows <= AttemptRows
    /\ Hook!Attempts = 1..AttemptRows
<1>1. Hook!LegacyWebhooksAssumption
    BY ServicesAssumption
<1>2. \A s \in HookSettings : s.rows \in 0..AttemptRows
    BY <1>1 DEF Hook!LegacyWebhooksAssumption, Hook!Setting
<1> QED
    BY <1>1, <1>2 DEF Hook!LegacyWebhooksAssumption, Hook!Attempts

LEMMA HookStarts == Init => HookInv
<1> SUFFICES ASSUME Init, part = "webhooks" PROVE HookGood
    BY DEF HookInv
<1>1. Hook!Idle /\ setting \in HookSettings
    BY DEF Init
<1>2. HookTyped
    BY <1>1 DEF Hook!Idle, HookTyped, HookDoings
<1>3. HookUp
    BY <1>1 DEF Hook!Idle, HookUp
<1>4. \A a \in Hook!Attempts : doing[a] = "nothing" /\ hookSends[a] = 0
    BY <1>1 DEF Hook!Idle
<1>5. DOMAIN attempt = {}
    BY <1>1 DEF Hook!Idle
<1> QED
    BY <1>2, <1>3, <1>4, <1>5 DEF HookGood, HookTries, HookQuiet, HookOnce

\* The merchant registers, and what registers is no row to serve; edits are excluded
\* where the process must live.
LEMMA HookEdits ==
    ASSUME HookGood, NEW h \in Endpoints,
           Hook!Register(h) \/ Hook!Registered(h) \/ Hook!Toggle(h) \/ Hook!Delete(h)
    PROVE  HookGood'
<1>1. UNCHANGED <<setting, up, attempt, doing, hookSends>>
    BY DEF Hook!Register, Hook!Registered, Hook!Toggle, Hook!Delete
<1>2. HookTyped
    BY DEF HookGood
<1>3. /\ rest' = rest /\ listed' = listed
      /\ \E to \in {"none", "checking", "active", "inactive"} : hook' = [hook EXCEPT ![h] = to]
      /\ HookLives => hook[h] \in {"none", "checking"}
    BY DEF Hook!Register, Hook!Registered, Hook!Toggle, Hook!Delete, Hook!Fault, HookLives
<1>4. HookTyped'
    BY <1>1, <1>2, <1>3 DEF HookTyped
<1>5. ASSUME HookLives, HookUp PROVE HookUp'
  <2>1. \A g \in Endpoints : Hook!IsRow(g) => hook'[g] = hook[g]
    BY <1>2, <1>3, <1>5 DEF Hook!IsRow, HookTyped
  <2>2. \A e \in HookEvents : rest[e] \subseteq Endpoints
    BY <1>2 DEF HookTyped
  <2> QED
    BY <1>1, <1>3, <1>5, <2>1, <2>2 DEF HookUp, Hook!IsRow
<1> QED
    BY <1>1, <1>4, <1>5 DEF HookGood, HookLives, HookSure, HookCalm, HookTries, HookQuiet, HookOnce

\* A new row is the first of its number: nothing was given for it.
LEMMA HookNew ==
    ASSUME HookGood, NEW h \in Endpoints, NEW e \in HookEvents \cup {"ping"}, Hook!NewAttempt(h, e),
           UNCHANGED <<setting, up, hook, hookSends>>,
           rest' \in [HookEvents -> SUBSET Endpoints], listed' \in [HookEvents -> SUBSET Endpoints],
           \A f \in HookEvents : \A g \in rest'[f] : g \in rest[f] \/ hook[g] = "active"
    PROVE  HookGood'
<1> DEFINE new == [hook |-> h, event |-> e, status |-> "failed", n |-> 0, retry |-> "never"]
           place == Len(attempt) + 1
<1>1. HookTyped
    BY DEF HookGood
<1>2. new \in HookRow /\ new.n = 0 /\ new.retry = "never"
    BY DEF HookRow
<1>3. /\ Len(attempt) < setting.rows /\ attempt' = Append(attempt, new)
      /\ doing' = [doing EXCEPT ![place] = "sending"]
    BY DEF Hook!NewAttempt
<1> HIDE DEF new
<1>4. /\ attempt' \in Seq(HookRow) /\ DOMAIN attempt' = DOMAIN attempt \cup {place}
      /\ place \notin DOMAIN attempt /\ attempt'[place] = new
      /\ \A a \in DOMAIN attempt : attempt'[a] = attempt[a]
  <2>1. attempt \in Seq(HookRow) /\ Len(attempt) \in Nat /\ DOMAIN attempt = 1..Len(attempt)
    BY <1>1 DEF HookTyped
  <2> QED
    BY <1>2, <1>3, <2>1
<1>5. place \in Hook!Attempts
  <2>1. Len(attempt) \in Nat
    BY <1>1 DEF HookTyped
  <2> QED
    BY <1>1, <1>3, <2>1, HookConstants DEF HookTyped
<1>6. doing[place] = "nothing" /\ hookSends[place] = 0
    BY <1>1, <1>4, <1>5 DEF HookTyped
<1> HIDE DEF place
<1>7. /\ doing' \in [Hook!Attempts -> HookDoings] /\ doing'[place] = "sending"
      /\ \A a \in Hook!Attempts \ {place} : doing'[a] = doing[a]
    BY <1>1, <1>3, <1>5 DEF HookTyped, HookDoings
<1>8. HookTyped'
    BY <1>1, <1>4, <1>6, <1>7 DEF HookTyped
<1>9. ASSUME HookUp PROVE HookUp'
    BY <1>9 DEF HookUp, Hook!IsRow
<1>10. ASSUME HookTries PROVE HookTries'
  <2>1. ASSUME NEW a \in Hook!Attempts, a \in DOMAIN attempt'
        PROVE  /\ hookSends'[a] <= attempt'[a].n + (IF doing'[a] \in {"taken", "refused"} THEN 1 ELSE 0)
               /\ attempt'[a].n <= MaxAttempts
               /\ doing'[a] # "nothing" => attempt'[a].n < MaxAttempts
    <3>1. CASE a = place
        BY <1>2, <1>4, <1>6, <1>7, <3>1, HookConstants
    <3>2. CASE a # place
        BY <1>4, <1>7, <1>10, <2>1, <3>2 DEF HookTries
    <3> QED
        BY <3>1, <3>2
  <2> QED
    BY <2>1 DEF HookTries
<1>11. ASSUME HookQuiet PROVE HookQuiet'
    BY <1>2, <1>4, <1>7, <1>11 DEF HookQuiet
<1>12. ASSUME HookOnce PROVE HookOnce'
    BY <1>6, <1>7, <1>12 DEF HookOnce
<1> QED
    BY <1>8, <1>9, <1>10, <1>11, <1>12 DEF HookGood, HookLives, HookSure, HookCalm

\* The process ends, where it may.
LEMMA HookStop ==
    ASSUME HookGood, Hook!Stop, UNCHANGED <<setting, attempt, listed, hookSends>>, ~ HookLives
    PROVE  HookGood'
<1>1. HookTyped
    BY DEF HookGood
<1>2. /\ \A a \in Hook!Attempts : doing'[a] = "nothing"
      /\ doing' \in [Hook!Attempts -> HookDoings]
    BY DEF Hook!Stop, HookDoings
<1>3. /\ hook' \in [Endpoints -> {"none", "checking", "active", "inactive"}]
      /\ rest' \in [HookEvents -> SUBSET Endpoints]
    BY <1>1 DEF Hook!Stop, HookTyped
<1>4. HookTyped'
    BY <1>1, <1>2, <1>3 DEF HookTyped
<1>5. HookQuiet => HookQuiet'
    BY <1>2 DEF HookQuiet
<1>6. HookOnce => HookOnce'
    BY <1>2 DEF HookOnce
<1> QED
    BY <1>4, <1>5, <1>6 DEF HookGood, HookLives, HookSure, HookCalm

\* A dispatch lists what is active, and takes the first.
LEMMA HookEmits ==
    ASSUME HookGood, NEW e \in HookEvents, Hook!Emit(e)
    PROVE  HookGood'
<1>1. HookTyped /\ UNCHANGED <<setting, up, hook, hookSends>>
    BY DEF HookGood, Hook!Emit
<1>2. PICK active \in SUBSET Endpoints :
        /\ \A h \in active : hook[h] = "active"
        /\ listed' = [listed EXCEPT ![e] = active]
        /\ \/ active = {} /\ UNCHANGED <<attempt, doing, rest>>
           \/ \E h \in active : Hook!Take(e, h, active)
    BY DEF Hook!Emit
<1>3. listed' \in [HookEvents -> SUBSET Endpoints]
    BY <1>1, <1>2 DEF HookTyped
<1>4. CASE UNCHANGED <<attempt, doing, rest>>
  <2>1. HookTyped'
    BY <1>1, <1>3, <1>4 DEF HookTyped
  <2>2. HookUp => HookUp'
    BY <1>1, <1>4 DEF HookUp, Hook!IsRow
  <2> QED
    BY <1>1, <1>4, <2>1, <2>2 DEF HookGood, HookLives, HookSure, HookCalm, HookTries, HookQuiet, HookOnce
<1>5. ASSUME NEW h \in active, Hook!Take(e, h, active) PROVE HookGood'
  <2>1. Hook!NewAttempt(h, e) /\ rest' = [rest EXCEPT ![e] = active \ {h}]
    BY <1>5 DEF Hook!Take
  <2>2. /\ rest' \in [HookEvents -> SUBSET Endpoints]
        /\ \A f \in HookEvents : \A g \in rest'[f] : g \in rest[f] \/ hook[g] = "active"
    BY <1>1, <1>2, <2>1 DEF HookTyped
  <2>3. h \in Endpoints
    OBVIOUS
  <2> QED
    BY <1>1, <1>3, <2>1, <2>2, <2>3, HookNew
<1> QED
    BY <1>2, <1>4, <1>5

\* A dispatch goes on with its next webhook: a row there is, while none is deleted.
LEMMA HookDispatch ==
    ASSUME HookGood, NEW e \in HookEvents, NEW h \in Endpoints, Hook!DispatchNext(e, h)
    PROVE  HookGood'
<1>1. HookTyped /\ UNCHANGED <<setting, listed, hookSends>>
    BY DEF HookGood, Hook!DispatchNext
<1>2. CASE ~ Hook!IsRow(h)
  <2>1. ~ HookLives
    BY <1>2 DEF HookGood, HookUp, Hook!DispatchNext
  <2> QED
    BY <1>1, <1>2, <2>1, HookStop DEF Hook!DispatchNext
<1>3. CASE Hook!IsRow(h)
  <2>1. Hook!NewAttempt(h, e) /\ UNCHANGED <<up, hook>> /\ rest' = [rest EXCEPT ![e] = rest[e] \ {h}]
    BY <1>3 DEF Hook!DispatchNext, Hook!Take
  <2>2. /\ rest' \in [HookEvents -> SUBSET Endpoints] /\ listed' \in [HookEvents -> SUBSET Endpoints]
        /\ \A f \in HookEvents : \A g \in rest'[f] : g \in rest[f]
    BY <1>1, <2>1 DEF HookTyped
  <2> QED
    BY <1>1, <2>1, <2>2, HookNew
<1> QED
    BY <1>2, <1>3

LEMMA HookAsks ==
    ASSUME HookGood, NEW h \in Endpoints, Hook!Replay(h) \/ Hook!Ping(h)
    PROVE  HookGood'
<1>1. HookTyped /\ UNCHANGED <<setting, up, hook, listed, rest, hookSends>>
    BY DEF HookGood, Hook!Replay, Hook!Ping
<1>2. \E e \in HookEvents \cup {"ping"} : Hook!NewAttempt(h, e)
  <2>1. CASE Hook!Replay(h)
    <3>1. PICK last \in DOMAIN attempt : Hook!NewAttempt(h, attempt[last].event)
        BY <2>1 DEF Hook!Replay
    <3>2. attempt[last] \in HookRow
        BY <1>1, <3>1 DEF HookTyped
    <3> QED
        BY <3>1, <3>2 DEF HookRow
  <2>2. CASE Hook!Ping(h)
    BY <2>2 DEF Hook!Ping
  <2> QED
    BY <2>1, <2>2
<1> QED
    BY <1>1, <1>2, HookNew DEF HookTyped

\* One row moves on, and the others stay.
HookOnly(a) ==
    /\ UNCHANGED <<setting, up, hook, listed, rest>>
    /\ attempt' \in Seq(HookRow) /\ DOMAIN attempt' = DOMAIN attempt
    /\ doing' \in [Hook!Attempts -> HookDoings] /\ hookSends' \in [Hook!Attempts -> Nat]
    /\ \A b \in DOMAIN attempt : b # a => attempt'[b] = attempt[b]
    /\ \A b \in Hook!Attempts : b # a => doing'[b] = doing[b] /\ hookSends'[b] = hookSends[b]

LEMMA HookRowMoves ==
    ASSUME HookGood, NEW a \in Hook!Attempts, a \in DOMAIN attempt, HookOnly(a),
           HookLives /\ HookTries =>
             /\ hookSends'[a] <= attempt'[a].n + (IF doing'[a] \in {"taken", "refused"} THEN 1 ELSE 0)
             /\ attempt'[a].n <= MaxAttempts
             /\ doing'[a] # "nothing" => attempt'[a].n < MaxAttempts,
           HookSure /\ HookQuiet => doing'[a] \notin {"refused", "timer"} /\ attempt'[a].retry = "never",
           HookCalm /\ HookOnce /\ (HookSure => HookQuiet) =>
             hookSends'[a] = 0 \/ (hookSends'[a] = 1 /\ doing'[a] \in {"taken", "nothing"})
    PROVE  HookGood'
<1>1. HookTyped /\ UNCHANGED <<setting, up, hook, listed, rest>>
    BY DEF HookGood, HookOnly
<1>2. HookTyped'
    BY <1>1 DEF HookTyped, HookOnly
<1>3. HookUp => HookUp'
    BY <1>1 DEF HookUp, Hook!IsRow
<1>4. HookLives /\ HookTries => HookTries'
    BY DEF HookTries, HookOnly
<1>5. HookSure /\ HookQuiet => HookQuiet'
    BY DEF HookQuiet, HookOnly
<1>6. HookCalm /\ HookOnce /\ (HookSure => HookQuiet) => HookOnce'
    BY DEF HookOnce, HookOnly
<1> QED
    BY <1>1, <1>2, <1>3, <1>4, <1>5, <1>6 DEF HookGood, HookLives, HookSure, HookCalm

\* The endpoint is given the row, or not; what comes of it is recorded; time passes.
LEMMA HookRowStays ==
    ASSUME HookTyped, NEW a \in Hook!Attempts
    PROVE  /\ a \in DOMAIN attempt => /\ attempt[a] \in HookRow /\ attempt[a].n \in Nat
                                      /\ attempt = [attempt EXCEPT ![a] = attempt[a]]
           /\ hookSends[a] \in Nat /\ hookSends = [hookSends EXCEPT ![a] = hookSends[a]]
           /\ doing[a] \in HookDoings
           /\ doing[a] # "nothing" => a \in DOMAIN attempt
<1>1. attempt \in Seq(HookRow) /\ hookSends \in [Hook!Attempts -> Nat]
      /\ doing \in [Hook!Attempts -> HookDoings]
      /\ (doing[a] # "nothing" => a \in DOMAIN attempt)
    BY DEF HookTyped
<1>2. a \in DOMAIN attempt => attempt[a] \in HookRow
    BY <1>1
<1>3. \A r \in HookRow : r.n \in Nat
    BY DEF HookRow
<1> QED
    BY <1>1, <1>2, <1>3

LEMMA HookRowSet ==
    ASSUME HookTyped, NEW a \in Hook!Attempts, a \in DOMAIN attempt,
           UNCHANGED <<setting, up, hook, listed, rest>>,
           NEW r \in HookRow, attempt' = [attempt EXCEPT ![a] = r],
           NEW d \in HookDoings, doing' = [doing EXCEPT ![a] = d],
           NEW s \in Nat, hookSends' = [hookSends EXCEPT ![a] = s]
    PROVE  HookOnly(a) /\ attempt'[a] = r /\ doing'[a] = d /\ hookSends'[a] = s
<1>1. attempt \in Seq(HookRow) /\ hookSends \in [Hook!Attempts -> Nat]
      /\ doing \in [Hook!Attempts -> HookDoings]
    BY DEF HookTyped
<1>2. /\ attempt' \in Seq(HookRow) /\ DOMAIN attempt' = DOMAIN attempt /\ attempt'[a] = r
      /\ \A b \in DOMAIN attempt : b # a => attempt'[b] = attempt[b]
    BY <1>1
<1>3. /\ doing' \in [Hook!Attempts -> HookDoings] /\ hookSends' \in [Hook!Attempts -> Nat]
      /\ doing'[a] = d /\ hookSends'[a] = s
      /\ \A b \in Hook!Attempts : b # a => doing'[b] = doing[b] /\ hookSends'[b] = hookSends[b]
    BY <1>1
<1> QED
    BY <1>2, <1>3 DEF HookOnly

\* What is written to a row.
LEMMA HookWritten ==
    ASSUME NEW x \in HookRow, NEW k1 \in Nat, NEW y \in {"never", "later", "now"}
    PROVE  /\ [x EXCEPT !.n = k1, !.retry = y] \in HookRow
           /\ [x EXCEPT !.n = k1, !.retry = y].n = k1
           /\ [x EXCEPT !.status = "delivered", !.n = k1] \in HookRow
           /\ [x EXCEPT !.status = "delivered", !.n = k1].n = k1
           /\ [x EXCEPT !.status = "delivered", !.n = k1].retry = x.retry
<1>1. [x EXCEPT !.n = k1, !.retry = y] \in HookRow
    BY DEF HookRow
<1>2. [x EXCEPT !.n = k1, !.retry = y].n = k1
    BY DEF HookRow
<1>3. [x EXCEPT !.status = "delivered", !.n = k1] \in HookRow
    BY DEF HookRow
<1>4. /\ [x EXCEPT !.status = "delivered", !.n = k1].n = k1
      /\ [x EXCEPT !.status = "delivered", !.n = k1].retry = x.retry
    BY DEF HookRow
<1> QED
    BY <1>1, <1>2, <1>3, <1>4

LEMMA HookPost ==
    ASSUME HookGood, NEW a \in Hook!Attempts, Hook!Post(a)
    PROVE  HookGood'
<1>1. HookTyped /\ doing[a] = "sending" /\ UNCHANGED <<setting, up, hook, attempt, listed, rest>>
    BY DEF HookGood, Hook!Post
<1>2. /\ a \in DOMAIN attempt /\ attempt[a] \in HookRow /\ attempt[a].n \in Nat
      /\ attempt' = [attempt EXCEPT ![a] = attempt[a]]
      /\ hookSends[a] \in Nat /\ hookSends = [hookSends EXCEPT ![a] = hookSends[a]]
    BY <1>1, HookRowStays
<1> DEFINE more == IF hookSends[a] <= MaxAttempts THEN hookSends[a] + 1 ELSE hookSends[a]
<1>3. \/ hookSends' = [hookSends EXCEPT ![a] = more] /\ doing' = [doing EXCEPT ![a] = "taken"]
      \/ /\ "slow" \in setting.faults
         /\ hookSends' = [hookSends EXCEPT ![a] = more] /\ doing' = [doing EXCEPT ![a] = "refused"]
      \/ /\ "fails" \in setting.faults
         /\ hookSends' = hookSends /\ doing' = [doing EXCEPT ![a] = "refused"]
    BY DEF Hook!Post, Hook!Fault
<1>4. more \in Nat /\ more <= hookSends[a] + 1
    BY <1>2
<1>5. HookTries => hookSends[a] <= attempt[a].n /\ attempt[a].n < MaxAttempts
    BY <1>1, <1>2 DEF HookTries
<1>6. HookQuiet => attempt[a].retry = "never"
    BY <1>2 DEF HookQuiet
<1>7. HookOnce => hookSends[a] = 0
    BY <1>1 DEF HookOnce
<1>8. MaxAttempts \in Nat /\ {"taken", "refused"} \subseteq HookDoings
    BY HookConstants DEF HookDoings
<1>9. hookSends[a] = 0 => more = 1
    BY <1>8
<1> HIDE DEF more
<1>10. CASE hookSends' = [hookSends EXCEPT ![a] = more] /\ doing' = [doing EXCEPT ![a] = "taken"]
  <2>1. /\ HookOnly(a) /\ attempt'[a] = attempt[a] /\ doing'[a] = "taken" /\ hookSends'[a] = more
    BY <1>1, <1>2, <1>4, <1>8, <1>10, HookRowSet
  <2> QED
    BY <1>2, <1>4, <1>5, <1>6, <1>7, <1>8, <1>9, <2>1, HookRowMoves
<1>11. CASE /\ "slow" \in setting.faults
            /\ hookSends' = [hookSends EXCEPT ![a] = more] /\ doing' = [doing EXCEPT ![a] = "refused"]
  <2>1. ~ HookSure /\ ~ HookCalm
    BY <1>11 DEF HookSure, HookCalm
  <2>2. /\ HookOnly(a) /\ attempt'[a] = attempt[a] /\ doing'[a] = "refused" /\ hookSends'[a] = more
    BY <1>1, <1>2, <1>4, <1>8, <1>11, HookRowSet
  <2> QED
    BY <1>2, <1>4, <1>5, <1>8, <2>1, <2>2, HookRowMoves
<1>12. CASE /\ "fails" \in setting.faults
            /\ hookSends' = hookSends /\ doing' = [doing EXCEPT ![a] = "refused"]
  <2>1. ~ HookSure
    BY <1>12 DEF HookSure
  <2>2. hookSends' = [hookSends EXCEPT ![a] = hookSends[a]]
    BY <1>2, <1>12
  <2>3. /\ HookOnly(a) /\ attempt'[a] = attempt[a] /\ doing'[a] = "refused"
        /\ hookSends'[a] = hookSends[a]
    BY <1>1, <1>2, <1>8, <1>12, <2>2, HookRowSet
  <2> QED
    BY <1>2, <1>5, <1>7, <1>8, <2>1, <2>3, HookRowMoves
<1> QED
    BY <1>3, <1>10, <1>11, <1>12

LEMMA HookRecords ==
    ASSUME HookGood, NEW a \in Hook!Attempts, Hook!RecordRefused(a) \/ Hook!RecordDelivered(a)
    PROVE  HookGood'
<1>1. HookTyped /\ UNCHANGED <<setting, up, hook, listed, rest>> /\ hookSends' = hookSends
      /\ doing[a] \in {"taken", "refused"}
    BY DEF HookGood, Hook!RecordRefused, Hook!RecordDelivered
<1>2. /\ a \in DOMAIN attempt /\ attempt[a] \in HookRow /\ attempt[a].n \in Nat
      /\ hookSends[a] \in Nat /\ hookSends' = [hookSends EXCEPT ![a] = hookSends[a]]
    BY <1>1, HookRowStays
<1>3. HookTries => hookSends[a] <= attempt[a].n + 1 /\ attempt[a].n < MaxAttempts
    BY <1>1, <1>2 DEF HookTries
<1>4. MaxAttempts \in Nat /\ {"timer", "nothing"} \subseteq HookDoings
    BY HookConstants DEF HookDoings
<1>5. CASE Hook!RecordRefused(a)
  <2> DEFINE last == Hook!IsLast(attempt[a].n)
             retry == IF last THEN attempt[a].retry ELSE "later"
             r == [attempt[a] EXCEPT !.n = @ + 1, !.retry = retry]
             d == Hook!NextDoing(attempt[a].n)
  <2>1. doing[a] = "refused" /\ doing' = [doing EXCEPT ![a] = d]
    BY <1>5 DEF Hook!RecordRefused
  <2>2. attempt' = [attempt EXCEPT ![a] = r]
    BY <1>1, <1>2, <1>5 DEF Hook!RecordRefused, HookTyped
  <2>3. r \in HookRow /\ r.n = attempt[a].n + 1
    <3>1. retry \in {"never", "later", "now"}
        BY <1>2 DEF HookRow
    <3>2. attempt[a].n + 1 \in Nat
        BY <1>2
    <3> HIDE DEF retry
    <3> QED
        BY <1>2, <3>1, <3>2, HookWritten
  <2>4. d \in {"nothing", "timer"} /\ (d = "timer" => attempt[a].n + 1 < MaxAttempts)
    BY <1>2, <1>4 DEF Hook!NextDoing, Hook!IsLast
  <2>5. ~ HookQuiet /\ (HookOnce => hookSends[a] = 0)
    BY <2>1 DEF HookQuiet, HookOnce
  <2>6. HookTries => hookSends[a] <= r.n /\ r.n <= MaxAttempts /\ (d # "nothing" => r.n < MaxAttempts)
    BY <1>2, <1>3, <1>4, <2>3, <2>4
  <2> HIDE DEF r, d
  <2>7. HookOnly(a) /\ attempt'[a] = r /\ doing'[a] = d /\ hookSends'[a] = hookSends[a]
    BY <1>1, <1>2, <1>4, <2>1, <2>2, <2>3, <2>4, HookRowSet
  <2> QED
    BY <1>2, <2>3, <2>4, <2>5, <2>6, <2>7, HookRowMoves
<1>6. CASE Hook!RecordDelivered(a)
  <2> DEFINE r == [attempt[a] EXCEPT !.status = "delivered", !.n = @ + 1]
  <2>1. doing[a] = "taken" /\ doing' = [doing EXCEPT ![a] = "nothing"]
    BY <1>6 DEF Hook!RecordDelivered
  <2>2. attempt' = [attempt EXCEPT ![a] = r]
    BY <1>1, <1>2, <1>6 DEF Hook!RecordDelivered, HookTyped
  <2>3. r \in HookRow /\ r.n = attempt[a].n + 1 /\ r.retry = attempt[a].retry
    <3>1. attempt[a].n + 1 \in Nat
        BY <1>2
    <3> QED
        BY <1>2, <3>1, HookWritten
  <2>4. (HookQuiet => r.retry = "never") /\ (HookOnce => hookSends[a] \in {0, 1})
    BY <1>2, <2>3 DEF HookQuiet, HookOnce
  <2>5. HookTries => hookSends[a] <= r.n /\ r.n <= MaxAttempts
    BY <1>2, <1>3, <1>4, <2>3
  <2> HIDE DEF r
  <2>6. HookOnly(a) /\ attempt'[a] = r /\ doing'[a] = "nothing" /\ hookSends'[a] = hookSends[a]
    BY <1>1, <1>2, <1>4, <2>1, <2>2, <2>3, HookRowSet
  <2> QED
    BY <1>2, <2>3, <2>4, <2>5, <2>6, HookRowMoves
<1> QED
    BY <1>5, <1>6

LEMMA HookTime ==
    ASSUME HookGood, NEW a \in Hook!Attempts, Hook!TimePasses(a)
    PROVE  HookGood'
<1>1. HookTyped /\ UNCHANGED <<setting, up, hook, listed, rest>> /\ hookSends' = hookSends
      /\ a \in DOMAIN attempt /\ attempt[a].retry = "later"
    BY DEF HookGood, Hook!TimePasses
<1>2. /\ attempt[a] \in HookRow /\ attempt[a].n \in Nat /\ doing[a] \in HookDoings
      /\ hookSends[a] \in Nat /\ hookSends' = [hookSends EXCEPT ![a] = hookSends[a]]
    BY <1>1, HookRowStays
<1> DEFINE r == [attempt[a] EXCEPT !.retry = "now"]
           d == IF doing[a] = "timer" THEN "sending" ELSE doing[a]
<1>3. attempt' = [attempt EXCEPT ![a] = r] /\ doing' = [doing EXCEPT ![a] = d]
    BY <1>1 DEF Hook!TimePasses, HookTyped
<1>4. r \in HookRow /\ r.n = attempt[a].n
    BY <1>2 DEF HookRow
<1>5. d \in HookDoings /\ (d = "nothing" <=> doing[a] = "nothing")
      /\ (d \in {"taken", "refused"} <=> doing[a] \in {"taken", "refused"})
      /\ (doing[a] = "taken" => d = "taken")
    BY <1>2 DEF HookDoings
<1>6. ~ HookQuiet
    BY <1>1 DEF HookQuiet
<1>7. HookTries => /\ hookSends[a] <= r.n + (IF d \in {"taken", "refused"} THEN 1 ELSE 0)
                   /\ r.n <= MaxAttempts /\ (d # "nothing" => r.n < MaxAttempts)
    BY <1>1, <1>4, <1>5 DEF HookTries
<1>8. HookOnce => hookSends[a] = 0 \/ (hookSends[a] = 1 /\ d \in {"taken", "nothing"})
    BY <1>5 DEF HookOnce
<1> HIDE DEF r, d
<1>9. HookOnly(a) /\ attempt'[a] = r /\ doing'[a] = d /\ hookSends'[a] = hookSends[a]
    BY <1>1, <1>2, <1>3, <1>4, <1>5, HookRowSet
<1> QED
    BY <1>1, <1>6, <1>7, <1>8, <1>9, HookRowMoves

\* What resumes is due again, which nothing is where no endpoint ever fails.
LEMMA HookRestart ==
    ASSUME HookGood, Hook!Restart
    PROVE  HookGood'
<1>1. HookTyped /\ UNCHANGED <<setting, hook, attempt, listed, rest, hookSends>> /\ ~ up
    BY DEF HookGood, Hook!Restart
<1>2. ~ HookLives
    BY <1>1 DEF HookGood, HookUp
<1>3. doing' = [a \in Hook!Attempts |->
         IF a \in DOMAIN attempt /\ Hook!Resumes(a) THEN "sending" ELSE "nothing"]
    BY DEF Hook!Restart
<1>4. HookTyped'
    BY <1>1, <1>3 DEF HookTyped, HookDoings
<1>5. HookQuiet => \A a \in Hook!Attempts : doing'[a] = "nothing"
    BY <1>3 DEF HookQuiet, Hook!Resumes
<1>6. HookQuiet => HookQuiet'
    BY <1>1, <1>5 DEF HookQuiet
<1>7. HookCalm => HookSure
    BY <1>2 DEF HookCalm, HookSure, HookLives
<1>8. HookQuiet /\ HookOnce => HookOnce'
    BY <1>1, <1>5 DEF HookOnce
<1> QED
    BY <1>1, <1>2, <1>4, <1>6, <1>7, <1>8 DEF HookGood, HookLives, HookSure, HookCalm

LEMMA HookKept == HookInv /\ [Next]_vars => HookInv'
<1> SUFFICES ASSUME HookInv, [Next]_vars, part' = "webhooks"
             PROVE  HookGood'
    BY DEF HookInv
<1>1. HookGood /\ (Hook!Next \/ UNCHANGED <<setting, hookVars>>)
    BY HookRuns DEF HookInv
<1>2. CASE \E h \in Endpoints : \/ Hook!Register(h) \/ Hook!Registered(h) \/ Hook!Toggle(h)
                                \/ Hook!Delete(h) \/ Hook!Replay(h) \/ Hook!Ping(h)
    BY <1>1, <1>2, HookEdits, HookAsks
<1>3. CASE \E e \in HookEvents : Hook!Emit(e) \/ \E h \in Endpoints : Hook!DispatchNext(e, h)
    BY <1>1, <1>3, HookEmits, HookDispatch
<1>4. CASE \E a \in Hook!Attempts : Hook!Step(a)
    BY <1>1, <1>4, HookPost, HookRecords, HookTime DEF Hook!Step
<1>5. CASE Hook!Die
    BY <1>1, <1>5, HookStop DEF Hook!Die, Hook!Fault, HookLives
<1>6. CASE Hook!Restart
    BY <1>1, <1>6, HookRestart
<1>7. CASE UNCHANGED <<setting, hookVars>>
  <2>1. UNCHANGED <<setting, up, hook, attempt, doing, listed, rest, hookSends>>
    BY <1>7 DEF hookVars
  <2> QED
    BY <1>1, <2>1 DEF HookGood, HookTyped, HookLives, HookUp, HookTries, HookSure, HookQuiet,
                      HookCalm, HookOnce, Hook!IsRow
<1>8. Hook!Quiet => UNCHANGED <<setting, hookVars>>
    BY DEF Hook!Quiet, Hook!vars, hookVars
<1> QED
    BY <1>1, <1>2, <1>3, <1>4, <1>5, <1>6, <1>7, <1>8 DEF Hook!Next

\* A process that lives asks an endpoint MAX_ATTEMPTS times at most for one row, and one
\* that answers in time is given a row once: with any number of webhooks, events and
\* rows, whatever the order of dispatches, timers, answers, replays and edits.
THEOREM RowsAreGivenOnce == Spec => []GivenOnce
<1>1. Init => HookInv
    BY HookStarts
<1>2. HookInv /\ [Next]_vars => HookInv'
    BY HookKept
<1>3. HookInv => GivenOnce
  <2> SUFFICES ASSUME HookInv, part = "webhooks", NEW a \in Hook!Attempts
               PROVE  /\ HookLives => hookSends[a] <= MaxAttempts
                      /\ HookCalm => hookSends[a] <= 1
    BY DEF GivenOnce, Hook!GivenOnce, HookLives, HookCalm
  <2>1. HookGood /\ hookSends[a] \in Nat /\ MaxAttempts \in Nat
        /\ (hookSends[a] # 0 => a \in DOMAIN attempt)
        /\ (a \in DOMAIN attempt => attempt[a].n \in Nat)
    BY HookConstants, HookRowStays DEF HookInv, HookGood, HookTyped
  <2>2. HookTries /\ a \in DOMAIN attempt => hookSends[a] <= MaxAttempts
    BY <2>1 DEF HookTries
  <2>3. HookOnce => hookSends[a] <= 1
    BY DEF HookOnce
  <2> QED
    BY <2>1, <2>2, <2>3 DEF HookGood
<1> QED
    BY <1>1, <1>2, <1>3, PTL DEF Spec

(***************************************************************************)
(* The payments.                                                           *)
(***************************************************************************)
PayStatuses == {"none", "pending", "processing"} \cup Pay!Terminal
PayNames == {"created", "processing"} \cup Pay!Terminal
PayTyped ==
    /\ setting \in PaymentSettings
    /\ payment \in [Pay!Payments -> [status : PayStatuses, key : Keys \cup {NoKey}, amount : Nat]]
    /\ payEvents \in [Pay!Payments -> Seq(PayNames)]

\* A final event is the last of its timeline, and the row is final by then.
PayEndsIn(status, timeline) ==
    \A n \in DOMAIN timeline :
        timeline[n] \in Pay!Terminal => n = Len(timeline) /\ status \in Pay!Terminal
PayTellsOf(status, timeline) ==
    /\ timeline # << >>
    /\ Pay!Last(timeline) = IF status = "pending" THEN "created" ELSE status

PayGood ==
    /\ PayTyped
    /\ \A p \in Pay!Payments :
         /\ PayEndsIn(payment[p].status, payEvents[p])
         /\ payment[p] # Pay!NoRow /\ ~ Pay!Fault("dies") =>
              PayTellsOf(payment[p].status, payEvents[p])
PayInv == part = "payments" => PayGood

\* What one handler writes of a payment: steps of its state machine, the last of which
\* alone may be final.
PayPath(path) ==
    /\ path \in Seq(PayNames) /\ path # << >>
    /\ \A n \in DOMAIN path :
         /\ path[n] \in {"processing"} \cup Pay!Terminal
         /\ path[n] \in Pay!Terminal => n = Len(path)

\* A step while the payments run is one of theirs.
LEMMA PayRuns ==
    ASSUME [Next]_vars, part' = "payments"
    PROVE  part = "payments" /\ (Pay!Next \/ UNCHANGED <<setting, paymentVars>>)
BY DEF Next, vars

LEMMA PayStarts == Init => PayInv
<1> SUFFICES ASSUME Init, part = "payments" PROVE PayGood
    BY DEF PayInv
<1>1. Pay!Idle /\ setting \in PaymentSettings
    BY DEF Init
<1>2. Pay!NoRow \in [status : PayStatuses, key : Keys \cup {NoKey}, amount : Nat]
    BY DEF Pay!NoRow, PayStatuses
<1>3. << >> \in Seq(PayNames) /\ DOMAIN << >> = {}
    OBVIOUS
<1> QED
    BY <1>1, <1>2, <1>3 DEF Pay!Idle, PayGood, PayTyped, PayEndsIn

\* A handler that is done, and one that is stopped after it wrote the n-th status.
LEMMA PayWrites ==
    ASSUME NEW timeline \in Seq(PayNames), NEW path, PayPath(path), NEW status,
           PayEndsIn(status, timeline), status \notin Pay!Terminal
    PROVE  /\ timeline \o path \in Seq(PayNames)
           /\ PayEndsIn(Pay!Last(path), timeline \o path)
           /\ PayTellsOf(Pay!Last(path), timeline \o path)
           /\ Pay!Last(path) \in PayStatuses
           /\ \A n \in DOMAIN path :
                /\ timeline \o SubSeq(path, 1, n - 1) \in Seq(PayNames)
                /\ PayEndsIn(path[n], timeline \o SubSeq(path, 1, n - 1))
                /\ path[n] \in PayStatuses
<1>1. path \in Seq(PayNames) /\ Len(path) \in Nat /\ Len(path) >= 1 /\ DOMAIN path = 1..Len(path)
    BY DEF PayPath
<1>2. /\ \A n \in DOMAIN path : path[n] \in {"processing"} \cup Pay!Terminal
      /\ \A n \in DOMAIN path : path[n] \in Pay!Terminal => n = Len(path)
    BY DEF PayPath
<1>3. \A n \in DOMAIN timeline : timeline[n] \notin Pay!Terminal
    BY DEF PayEndsIn
<1>4. /\ timeline \o path \in Seq(PayNames) /\ Len(timeline \o path) = Len(timeline) + Len(path)
      /\ \A n \in 1..(Len(timeline) + Len(path)) :
           (timeline \o path)[n] = IF n <= Len(timeline) THEN timeline[n]
                                   ELSE path[n - Len(timeline)]
    BY <1>1
<1>5. Pay!Last(timeline \o path) = Pay!Last(path) /\ Pay!Last(path) = path[Len(path)]
    BY <1>1, <1>4 DEF Pay!Last
<1>6. Pay!Last(path) # "pending" /\ Pay!Last(path) \in PayStatuses
    BY <1>1, <1>2, <1>5 DEF PayStatuses, Pay!Terminal
<1>7. PayEndsIn(Pay!Last(path), timeline \o path)
  <2> SUFFICES ASSUME NEW n \in DOMAIN (timeline \o path), (timeline \o path)[n] \in Pay!Terminal
               PROVE  n = Len(timeline \o path) /\ Pay!Last(path) \in Pay!Terminal
    BY DEF PayEndsIn
  <2>1. n \in 1..(Len(timeline) + Len(path))
    BY <1>4
  <2>2. n > Len(timeline)
    BY <1>3, <1>4, <2>1
  <2>3. n - Len(timeline) \in DOMAIN path /\ path[n - Len(timeline)] \in Pay!Terminal
    BY <1>1, <1>4, <2>1, <2>2
  <2> QED
    BY <1>1, <1>2, <1>4, <1>5, <2>1, <2>3, SMTT(30)
<1>8. PayTellsOf(Pay!Last(path), timeline \o path)
    BY <1>1, <1>4, <1>5, <1>6 DEF PayTellsOf
<1>9. ASSUME NEW n \in DOMAIN path
      PROVE  /\ timeline \o SubSeq(path, 1, n - 1) \in Seq(PayNames)
             /\ PayEndsIn(path[n], timeline \o SubSeq(path, 1, n - 1))
             /\ path[n] \in PayStatuses
  <2> DEFINE part1 == SubSeq(path, 1, n - 1)
  <2>1. /\ part1 \in Seq(PayNames) /\ Len(part1) = n - 1
        /\ \A m \in 1..(n - 1) : part1[m] = path[m]
    BY <1>1
  <2>2. \A m \in 1..(n - 1) : part1[m] \notin Pay!Terminal
    BY <1>1, <1>2, <2>1
  <2> HIDE DEF part1
  <2>3. /\ timeline \o part1 \in Seq(PayNames) /\ Len(timeline \o part1) = Len(timeline) + n - 1
        /\ \A m \in 1..(Len(timeline) + n - 1) :
             (timeline \o part1)[m] = IF m <= Len(timeline) THEN timeline[m]
                                      ELSE part1[m - Len(timeline)]
    BY <1>1, <2>1
  <2>4. \A m \in DOMAIN (timeline \o part1) : (timeline \o part1)[m] \notin Pay!Terminal
    BY <1>1, <1>3, <2>1, <2>2, <2>3
  <2>5. path[n] \in PayStatuses
    BY <1>2 DEF PayStatuses
  <2> QED
    BY <2>3, <2>4, <2>5 DEF PayEndsIn, part1
<1> QED
    BY <1>4, <1>6, <1>7, <1>8, <1>9

\* Make writes only of the payment it is about.
LEMMA PayMakes ==
    ASSUME PayGood, NEW p, NEW path, NEW queue, NEW pages, PayPath(path),
           p \in Pay!Payments => payment[p].status \notin Pay!Terminal,
           Pay!Make(p, path, queue, pages), UNCHANGED setting
    PROVE  PayGood'
<1>1. /\ setting \in PaymentSettings
      /\ payment \in [Pay!Payments -> [status : PayStatuses, key : Keys \cup {NoKey}, amount : Nat]]
      /\ payEvents \in [Pay!Payments -> Seq(PayNames)]
    BY DEF PayGood, PayTyped
<1>2. PICK s, t :
        /\ payment' = [payment EXCEPT ![p].status = s]
        /\ payEvents' = [payEvents EXCEPT ![p] = t]
        /\ \/ s = Pay!Last(path) /\ t = payEvents[p] \o path
           \/ /\ Pay!Fault("dies")
              /\ \E n \in DOMAIN path : s = path[n] /\ t = payEvents[p] \o SubSeq(path, 1, n - 1)
    BY DEF Pay!Make
<1>3. CASE p \notin Pay!Payments
  <2>1. payment' = payment /\ payEvents' = payEvents
    BY <1>1, <1>2, <1>3
  <2> QED
    BY <2>1 DEF PayGood, PayTyped, Pay!Fault
<1>4. CASE p \in Pay!Payments
  <2>1. /\ t \in Seq(PayNames) /\ PayEndsIn(s, t) /\ s \in PayStatuses
        /\ ~ Pay!Fault("dies") => PayTellsOf(s, t)
    <3>1. payEvents[p] \in Seq(PayNames) /\ PayEndsIn(payment[p].status, payEvents[p])
        BY <1>1, <1>4 DEF PayGood
    <3> QED
        BY <1>2, <1>4, <3>1, PayWrites
  <2>2. /\ payment' \in [Pay!Payments -> [status : PayStatuses, key : Keys \cup {NoKey}, amount : Nat]]
        /\ payment'[p].status = s
        /\ \A q \in Pay!Payments \ {p} : payment'[q] = payment[q]
    BY <1>1, <1>2, <1>4, <2>1
  <2>3. /\ payEvents' \in [Pay!Payments -> Seq(PayNames)] /\ payEvents'[p] = t
        /\ \A q \in Pay!Payments \ {p} : payEvents'[q] = payEvents[q]
    BY <1>1, <1>2, <1>4, <2>1
  <2>4. PayTyped'
    BY <1>1, <2>2, <2>3 DEF PayTyped
  <2>5. ASSUME NEW q \in Pay!Payments
        PROVE  /\ PayEndsIn(payment'[q].status, payEvents'[q])
               /\ payment'[q] # Pay!NoRow /\ ~ Pay!Fault("dies")' =>
                    PayTellsOf(payment'[q].status, payEvents'[q])
    BY <2>1, <2>2, <2>3 DEF PayGood, Pay!Fault
  <2> QED
    BY <2>4, <2>5 DEF PayGood, PayEndsIn, PayTellsOf, Pay!NoRow, Pay!Fault
<1> QED
    BY <1>3, <1>4

LEMMA PayTexts ==
    ASSUME NEW S, NEW s \in S, NEW t \in S
    PROVE  /\ <<s>> \in Seq(S) /\ <<s>> # << >> /\ DOMAIN <<s>> = 1..1 /\ Len(<<s>>) = 1
           /\ <<s>>[1] = s
           /\ <<s, t>> \in Seq(S) /\ <<s, t>> # << >> /\ DOMAIN <<s, t>> = 1..2
           /\ Len(<<s, t>>) = 2 /\ <<s, t>>[1] = s /\ <<s, t>>[2] = t
<1>1. <<s>> \in Seq(S)
    OBVIOUS
<1>2. <<s, t>> \in Seq(S)
    OBVIOUS
<1>3. Len(<<s>>) = 1 /\ Len(<<s, t>>) = 2
    OBVIOUS
<1>4. DOMAIN <<s>> = 1..1 /\ DOMAIN <<s, t>> = 1..2
    BY <1>1, <1>2, <1>3
<1>5. <<s>>[1] = s /\ <<s, t>>[1] = s /\ <<s, t>>[2] = t
    OBVIOUS
<1> QED
    BY <1>1, <1>2, <1>3, <1>4, <1>5

LEMMA PayCreates ==
    ASSUME PayGood, NEW p \in Pay!Payments, NEW o \in setting.orders, Pay!Create(p, o[1], o[2])
    PROVE  PayGood'
<1>1. /\ setting \in PaymentSettings
      /\ payment \in [Pay!Payments -> [status : PayStatuses, key : Keys \cup {NoKey}, amount : Nat]]
      /\ payEvents \in [Pay!Payments -> Seq(PayNames)] /\ setting' = setting
    BY DEF PayGood, PayTyped, Pay!Create
<1>2. Pay!LegacyPaymentsAssumption
    BY ServicesAssumption
<1>3. setting.orders \subseteq (Keys \cup {NoKey}) \X Nat
    BY <1>1, <1>2 DEF Pay!LegacyPaymentsAssumption, Pay!Setting
<1>4. PICK key \in Keys \cup {NoKey}, amount \in Nat : o[1] = key /\ o[2] = amount
    BY <1>3
<1> DEFINE new == [status |-> "pending", key |-> key, amount |-> amount]
<1>5. new \in [status : PayStatuses, key : Keys \cup {NoKey}, amount : Nat] /\ new.status = "pending"
    BY DEF PayStatuses
<1>6. payment[p] = Pay!NoRow /\ payment' = [payment EXCEPT ![p] = new]
    BY <1>4 DEF Pay!Create
<1> HIDE DEF new
<1>7. /\ payment' \in [Pay!Payments -> [status : PayStatuses, key : Keys \cup {NoKey}, amount : Nat]]
      /\ payment'[p].status = "pending"
      /\ \A q \in Pay!Payments \ {p} : payment'[q] = payment[q]
    BY <1>1, <1>5, <1>6
<1>8. PICK t \in {<<"created">>, payEvents[p]} :
         /\ payEvents' = [payEvents EXCEPT ![p] = t]
         /\ ~ Pay!Fault("dies") => t = <<"created">>
  <2>1. CASE payEvents' = [payEvents EXCEPT ![p] = <<"created">>]
    BY <2>1
  <2>2. CASE Pay!Fault("dies") /\ payEvents' = payEvents
    <3>1. payEvents = [payEvents EXCEPT ![p] = payEvents[p]]
        BY <1>1
    <3> QED
        BY <2>2, <3>1
  <2> QED
    BY <2>1, <2>2 DEF Pay!Create
<1>9. /\ payEvents' \in [Pay!Payments -> Seq(PayNames)] /\ payEvents'[p] = t
      /\ \A q \in Pay!Payments \ {p} : payEvents'[q] = payEvents[q]
  <2>1. "created" \in PayNames /\ payEvents[p] \in Seq(PayNames)
    BY <1>1 DEF PayNames
  <2>4. <<"created">> \in Seq(PayNames)
    BY <2>1, PayTexts, Zenon
  <2>2. t \in Seq(PayNames)
    BY <1>8, <2>1, <2>4
  <2> QED
    BY <1>1, <1>8, <2>2
<1>10. PayEndsIn("pending", t) /\ (t = <<"created">> => PayTellsOf("pending", t))
  <2>1. CASE t = <<"created">>
    BY <2>1 DEF PayEndsIn, PayTellsOf, Pay!Last, Pay!Terminal
  <2>2. CASE t = payEvents[p]
    <3>1. PayEndsIn("none", t)
        BY <1>6, <2>2 DEF PayGood, Pay!NoRow
    <3> QED
        BY <2>1, <3>1 DEF PayEndsIn, Pay!Terminal
  <2> QED
    BY <1>8, <2>1, <2>2
<1>11. PayTyped'
    BY <1>1, <1>7, <1>9 DEF PayTyped
<1>12. ASSUME NEW q \in Pay!Payments
       PROVE  /\ PayEndsIn(payment'[q].status, payEvents'[q])
              /\ payment'[q] # Pay!NoRow /\ ~ Pay!Fault("dies")' =>
                   PayTellsOf(payment'[q].status, payEvents'[q])
    BY <1>1, <1>7, <1>8, <1>9, <1>10 DEF PayGood, Pay!Fault
<1> QED
    BY <1>11, <1>12 DEF PayGood, PayEndsIn, PayTellsOf, Pay!NoRow, Pay!Fault

\* What reads only, and what counts wrong PINs, writes neither rows nor timelines.
LEMMA PayStays ==
    ASSUME PayGood, UNCHANGED <<setting, payment, payEvents>> PROVE PayGood'
BY DEF PayGood, PayTyped, Pay!Fault

LEMMA PayTransitions ==
    ASSUME NEW from, NEW to, from \in PayStatuses, Pay!CanTransition(from, to)
    PROVE  from \notin Pay!Terminal
BY DEF Pay!CanTransition, Pay!TRANSITIONS, Pay!Terminal, PayStatuses

LEMMA PaySteps ==
    /\ \A s \in {"processing"} \cup Pay!Terminal : PayPath(<<s>>)
    /\ PayPath(<<"processing", "succeeded">>)
<1>1. ASSUME NEW s \in {"processing"} \cup Pay!Terminal PROVE PayPath(<<s>>)
  <2>1. s \in PayNames
    BY DEF PayNames
  <2>2. /\ <<s>> \in Seq(PayNames) /\ <<s>> # << >> /\ DOMAIN <<s>> = 1..1 /\ Len(<<s>>) = 1
        /\ <<s>>[1] = s
    BY <2>1, PayTexts, Zenon
  <2>3. \A n \in DOMAIN <<s>> : n = 1
    BY <2>2
  <2> QED
    BY <2>2, <2>3 DEF PayPath
<1>2. PayPath(<<"processing", "succeeded">>)
  <2> DEFINE path == <<"processing", "succeeded">>
  <2>4. "processing" \in PayNames /\ "succeeded" \in PayNames
    BY DEF PayNames, Pay!Terminal
  <2>1. /\ path \in Seq(PayNames) /\ path # << >> /\ DOMAIN path = 1..2 /\ Len(path) = 2
        /\ path[1] = "processing" /\ path[2] = "succeeded"
    BY <2>4, PayTexts
  <2>2. \A n \in DOMAIN path : n = 1 \/ n = 2
    BY <2>1
  <2>3. "processing" \notin Pay!Terminal /\ "succeeded" \in Pay!Terminal
    BY DEF Pay!Terminal
  <2> HIDE DEF path
  <2> QED
    BY <2>1, <2>2, <2>3 DEF PayPath, path
<1> QED
    BY <1>1, <1>2

\* The merchant's doings.
LEMMA PayAsks ==
    ASSUME PayGood, NEW p \in Pay!Payments, NEW path, PayPath(path), Pay!Ask(p, path)
    PROVE  PayGood'
<1>1. payment[p].status \in PayStatuses /\ Pay!CanTransition(payment[p].status, Head(path))
    BY DEF PayGood, PayTyped, Pay!Ask
<1>2. payment[p].status \notin Pay!Terminal
    BY <1>1, PayTransitions
<1>3. Pay!Make(p, path, timers, page) /\ UNCHANGED setting
    BY DEF Pay!Ask
<1> QED
    BY <1>2, <1>3, PayMakes

LEMMA PayInitiates ==
    ASSUME PayGood, NEW c \in Customers, Pay!Initiate(c) PROVE PayGood'
<1>1. /\ payment[page[c].pay].status \notin Pay!Terminal /\ UNCHANGED setting
      /\ \/ UNCHANGED <<payment, payEvents>>
         \/ \E pages : Pay!Make(page[c].pay, <<"processing">>, timers, pages)
    BY DEF Pay!Initiate
<1> QED
    BY <1>1, PayStays, PayMakes, PaySteps

LEMMA PayFires ==
    ASSUME PayGood, Pay!Fire PROVE PayGood'
<1> DEFINE p == Head(timers).pay
           outcome == Pay!OutcomeOf(Head(timers).right)
<1>1. /\ UNCHANGED setting
      /\ \/ UNCHANGED <<payment, payEvents>>
         \/ /\ Pay!CanTransition(payment[p].status, outcome)
            /\ Pay!Make(p, <<outcome>>, Tail(timers), page)
    BY DEF Pay!Fire
<1>2. outcome \in {"processing"} \cup Pay!Terminal
    BY DEF Pay!OutcomeOf, Pay!Terminal
<1> HIDE DEF p, outcome
<1>3. PayPath(<<outcome>>)
    BY <1>2, PaySteps
<1>4. ASSUME p \in Pay!Payments, Pay!CanTransition(payment[p].status, outcome)
      PROVE  payment[p].status \notin Pay!Terminal
    BY <1>4, PayTransitions DEF PayGood, PayTyped
<1> QED
    BY <1>1, <1>3, <1>4, PayStays, PayMakes

LEMMA PayKeeps == PayInv /\ [Next]_vars => PayInv'
<1> SUFFICES ASSUME PayInv, [Next]_vars, part' = "payments"
             PROVE  PayGood'
    BY DEF PayInv
<1>1. PayGood /\ (Pay!Next \/ UNCHANGED <<setting, paymentVars>>)
    BY PayRuns DEF PayInv
<1>2. ASSUME NEW p \in Pay!Payments, NEW o \in setting.orders, Pay!Create(p, o[1], o[2])
      PROVE  PayGood'
    BY <1>1, <1>2, PayCreates
<1>3. ASSUME NEW p \in Pay!Payments, Pay!Cancel(p) \/ Pay!Approve(p) \/ Pay!Fail(p) \/ Pay!Expire(p)
      PROVE  PayGood'
  <2>1. {"processing", "succeeded", "cancelled", "failed", "expired"} \subseteq
            {"processing"} \cup Pay!Terminal
    BY DEF Pay!Terminal
  <2>2. \E path : PayPath(path) /\ Pay!Ask(p, path)
    BY <1>3, <2>1, PaySteps DEF Pay!Cancel, Pay!Approve, Pay!Fail, Pay!Expire
  <2> QED
    BY <1>1, <2>2, PayAsks
<1>4. ASSUME NEW p \in Pay!Payments, (\E c \in Customers : Pay!Open(c, p)) \/ Pay!BlockEnds(p)
      PROVE  PayGood'
    BY <1>1, <1>4, PayStays DEF Pay!Open, Pay!BlockEnds, Pay!db
<1>5. ASSUME NEW c \in Customers,
             Pay!Initiate(c) \/ Pay!Poll(c) \/ \E right \in BOOLEAN : Pay!Confirm(c, right)
      PROVE  PayGood'
  <2>1. Pay!Initiate(c) \/ UNCHANGED <<setting, payment, payEvents>>
    BY <1>5 DEF Pay!Poll, Pay!Confirm, Pay!db
  <2> QED
    BY <1>1, <2>1, PayInitiates, PayStays
<1>6. CASE Pay!Die \/ Pay!Quiet
    BY <1>1, <1>6, PayStays DEF Pay!Die, Pay!Quiet, Pay!vars, Pay!db
<1>7. CASE UNCHANGED <<setting, paymentVars>>
    BY <1>1, <1>7, PayStays DEF paymentVars
<1> QED
    BY <1>1, <1>2, <1>3, <1>4, <1>5, <1>6, <1>7, PayFires DEF Pay!Next

\* A payment ends once, with any number of payments, pages, timers and merchants'
\* requests, and whatever statement the process is stopped after.
THEOREM PaymentsEndOnce == Spec => []TimelineTells
<1>1. Init => PayInv
    BY PayStarts
<1>2. PayInv /\ [Next]_vars => PayInv'
    BY PayKeeps
<1>3. PayInv => TimelineTells
  <2> SUFFICES ASSUME PayInv, part = "payments", NEW p \in Pay!Payments
               PROVE  /\ \A a, b \in DOMAIN payEvents[p] :
                           {payEvents[p][a], payEvents[p][b]} \subseteq Pay!Terminal => a = b
                      /\ payment[p] # Pay!NoRow /\ ~ Pay!Fault("dies") =>
                           Pay!Last(payEvents[p]) = IF payment[p].status = "pending" THEN "created"
                                                ELSE payment[p].status
    BY DEF TimelineTells, Pay!TimelineTells
  <2> QED
    BY DEF PayInv, PayGood, PayEndsIn, PayTellsOf
<1> QED
    BY <1>1, <1>2, <1>3, PTL DEF Spec

(***************************************************************************)
(* The dashboard's page of webhooks.                                       *)
(***************************************************************************)
PageWrites == {"create", "toggle", "delete", "replay", "test"}
PageOps == {"list", "attempts"} \cup PageWrites

\* A call that is under way, with whatever it asks for and whatever it got.
PageIsCall(c) ==
    /\ c = [op |-> c.op, arg |-> c.arg, nr |-> c.nr, own |-> c.own, served |-> c.served,
            got |-> c.got]
    /\ c.op \in PageOps /\ c.nr \in Nat /\ c.served \in BOOLEAN
    /\ c.nr > 0 <=> c.op = "list" /\ c.served

\* Calls whose answer brings a list, and those after which one is asked for.
PageListing(s) == hookCalls[s] # HookPage!Free /\ hookCalls[s].nr > 0
PageListed == {s \in HookSlots : PageListing(s)}
PageComing(s) ==
    /\ hookCalls[s] # HookPage!Free
    /\ \/ hookCalls[s].op = "list" /\ ~ hookCalls[s].served
       \/ hookCalls[s].op \in PageWrites /\ hookCalls[s].served /\ hookCalls[s].got # << >>

PageTyped ==
    /\ hookCalls = [s \in HookSlots |-> hookCalls[s]]
    /\ \A s \in HookSlots : hookCalls[s] # HookPage!Free => PageIsCall(hookCalls[s])
    /\ hookClicks \in Nat
PageUntouched ==
    hookClicks = 0 => hookList = HookPage!Loading /\ \A s \in HookSlots : hookCalls[s] = HookPage!Free
\* The lists on their way are numbered in the order they were read.
PageNumbered ==
    /\ \A s \in PageListed : hookCalls[s].nr <= Cardinality(PageListed)
    /\ \A s, t \in PageListed : hookCalls[s].nr = hookCalls[t].nr => s = t
\* The page will ask for the list again; or the last list on its way is the list as it
\* is; or none is on its way and it is shown.
PageLast(s) ==
    /\ \A t \in PageListed : hookCalls[t].nr <= hookCalls[s].nr
    /\ hookCalls[s].got = HookPage!ListNow
PageNews ==
    \/ \E s \in HookSlots : PageComing(s)
    \/ \E s \in PageListed : PageLast(s)
    \/ PageListed = {} /\ hookList \in {HookPage!ListNow, HookPage!Loading}

PageGood == PageTyped /\ PageUntouched /\ PageNumbered /\ PageNews
PageInv == part = "hook page" /\ setting.faults = {} => PageGood

LEMMA PageRuns ==
    ASSUME [Next]_vars, part' = "hook page"
    PROVE  part = "hook page" /\ (HookPage!Next \/ UNCHANGED <<setting, hookPageVars>>)
BY DEF Next, vars

LEMMA PageConstants == IsFiniteSet(HookSlots)
<1>1. HookPage!PageAssumption
    BY ServicesAssumption
<1>2. HookPage!IsFiniteSet(HookSlots) = IsFiniteSet(HookSlots)
    BY DEF HookPage!IsFiniteSet, IsFiniteSet
<1> QED
    BY <1>1, <1>2 DEF HookPage!PageAssumption

LEMMA PageStarts == Init => PageInv
<1> SUFFICES ASSUME Init, part = "hook page" PROVE PageGood
    BY DEF PageInv
<1>1. HookPage!Idle
    BY DEF Init
<1>2. \A s \in HookSlots : hookCalls[s] = HookPage!Free
    BY <1>1 DEF HookPage!Idle
<1>3. PageTyped /\ PageUntouched
    BY <1>1, <1>2 DEF HookPage!Idle, PageTyped, PageUntouched
<1>4. PageListed = {}
    BY <1>2 DEF PageListed, PageListing
<1> QED
    BY <1>1, <1>3, <1>4 DEF HookPage!Idle, PageGood, PageNumbered, PageNews

(***************************************************************************)
(* The shapes of calls.                                                    *)
(***************************************************************************)
LEMMA PageCalls ==
    ASSUME NEW op \in PageOps, NEW arg
    PROVE  /\ PageIsCall(HookPage!Call(op, arg)) /\ HookPage!Call(op, arg) # HookPage!Free
           /\ HookPage!Call(op, arg).op = op /\ HookPage!Call(op, arg).nr = 0
           /\ HookPage!Call(op, arg).served = FALSE
BY DEF HookPage!Call, PageIsCall, PageOps, PageWrites, HookPage!Free

\* The window that sent it is closed.
LEMMA PageDisowned ==
    ASSUME NEW c, PageIsCall(c)
    PROVE  LET d == [c EXCEPT !.own = FALSE]
           IN  /\ PageIsCall(d) /\ d # HookPage!Free
               /\ d.op = c.op /\ d.nr = c.nr /\ d.served = c.served /\ d.got = c.got
<1> DEFINE d == [c EXCEPT !.own = FALSE]
<1>1. d = [op |-> c.op, arg |-> c.arg, nr |-> c.nr, own |-> FALSE, served |-> c.served, got |-> c.got]
  <2>1. PICK o, a, m, w, v, h :
            c = [op |-> o, arg |-> a, nr |-> m, own |-> w, served |-> v, got |-> h]
    BY DEF PageIsCall
  <2>2. c.op = o /\ c.arg = a /\ c.nr = m /\ c.own = w /\ c.served = v /\ c.got = h
    BY <2>1
  <2>3. \A b : [[op |-> o, arg |-> a, nr |-> m, own |-> w, served |-> v, got |-> h] EXCEPT !.own = b]
            = [op |-> o, arg |-> a, nr |-> m, own |-> b, served |-> v, got |-> h]
    OBVIOUS
  <2> QED
    BY <2>1, <2>2, <2>3, Zenon
<1>2. d.op = c.op /\ d.nr = c.nr /\ d.served = c.served /\ d.got = c.got /\ d.own = FALSE /\ d.arg = c.arg
    BY <1>1
<1>3. c.op \in PageOps /\ c.nr \in Nat /\ c.served \in BOOLEAN /\ (c.nr > 0 <=> c.op = "list" /\ c.served)
    BY DEF PageIsCall
<1> HIDE DEF d
<1>4. PageIsCall(d)
    BY <1>1, <1>2, <1>3 DEF PageIsCall
<1>5. d # HookPage!Free
    BY <1>2, <1>3 DEF HookPage!Free, PageOps, PageWrites
<1> QED
    BY <1>2, <1>4, <1>5 DEF d

\* A list that was read before it has arrived.
PageOlder(c, n) == [c EXCEPT !.nr = n]
PageOld(d, c, n) ==
    /\ PageIsCall(d) /\ d # HookPage!Free
    /\ d.op = c.op /\ d.nr = n /\ d.served = c.served /\ d.got = c.got

LEMMA PageRenumbered ==
    ASSUME NEW c, PageIsCall(c), c.nr \in Nat \ {0}, NEW n \in Nat \ {0}
    PROVE  PageOld(PageOlder(c, n), c, n)
<1> DEFINE d == PageOlder(c, n)
<1>1. d = [op |-> c.op, arg |-> c.arg, nr |-> n, own |-> c.own, served |-> c.served, got |-> c.got]
    BY DEF PageIsCall, PageOlder
<1>2. d.op = c.op /\ d.nr = n /\ d.served = c.served /\ d.got = c.got /\ d.own = c.own /\ d.arg = c.arg
    BY <1>1
<1>3. c.op \in PageOps /\ c.served \in BOOLEAN /\ c.op = "list" /\ c.served
    BY DEF PageIsCall
<1> HIDE DEF d
<1>4. PageIsCall(d)
    BY <1>1, <1>2, <1>3 DEF PageIsCall
<1>5. d # HookPage!Free
    BY <1>2, <1>3 DEF HookPage!Free
<1> QED
    BY <1>2, <1>4, <1>5 DEF d, PageOld

\* The server has answered.
PageAnswered(c, g, n) == [c EXCEPT !.served = TRUE, !.got = g, !.nr = n]
PageAnswer(d, c, g, n) ==
    /\ PageIsCall(d) /\ d # HookPage!Free
    /\ d.op = c.op /\ d.nr = n /\ d.served = TRUE /\ d.got = g

LEMMA PageServed ==
    ASSUME NEW c, PageIsCall(c), NEW g, NEW n \in Nat, n > 0 <=> c.op = "list"
    PROVE  PageAnswer(PageAnswered(c, g, n), c, g, n)
<1> DEFINE d == PageAnswered(c, g, n)
<1>1. d = [op |-> c.op, arg |-> c.arg, nr |-> n, own |-> c.own, served |-> TRUE, got |-> g]
  <2>1. PICK o, a, m, w, v, h :
            c = [op |-> o, arg |-> a, nr |-> m, own |-> w, served |-> v, got |-> h]
    BY DEF PageIsCall
  <2>2. c.op = o /\ c.arg = a /\ c.nr = m /\ c.own = w /\ c.served = v /\ c.got = h
    BY <2>1
  <2>3. \A b : [[op |-> o, arg |-> a, nr |-> m, own |-> w, served |-> v, got |-> h] EXCEPT !.served = b]
            = [op |-> o, arg |-> a, nr |-> m, own |-> w, served |-> b, got |-> h]
    OBVIOUS
  <2>4. \A b : [[op |-> o, arg |-> a, nr |-> m, own |-> w, served |-> b, got |-> h] EXCEPT !.got = g]
            = [op |-> o, arg |-> a, nr |-> m, own |-> w, served |-> b, got |-> g]
    OBVIOUS
  <2>5. \A b : [[op |-> o, arg |-> a, nr |-> m, own |-> w, served |-> b, got |-> g] EXCEPT !.nr = n]
            = [op |-> o, arg |-> a, nr |-> n, own |-> w, served |-> b, got |-> g]
    OBVIOUS
  <2>6. [c EXCEPT !.served = TRUE]
            = [op |-> o, arg |-> a, nr |-> m, own |-> w, served |-> TRUE, got |-> h]
    BY <2>1, <2>3, Zenon
  <2>7. [c EXCEPT !.served = TRUE, !.got = g]
            = [op |-> o, arg |-> a, nr |-> m, own |-> w, served |-> TRUE, got |-> g]
    BY <2>4, <2>6, Zenon
  <2>8. d = [[op |-> o, arg |-> a, nr |-> m, own |-> w, served |-> TRUE, got |-> g] EXCEPT !.nr = n]
    BY <2>7, Zenon DEF PageAnswered
  <2> QED
    BY <2>2, <2>5, <2>8, Zenon
<1>2. d.op = c.op /\ d.nr = n /\ d.served = TRUE /\ d.got = g /\ d.own = c.own /\ d.arg = c.arg
    BY <1>1
<1>3. c.op \in PageOps
    BY DEF PageIsCall
<1> HIDE DEF d
<1>4. PageIsCall(d)
    BY <1>1, <1>2, <1>3 DEF PageIsCall
<1>5. d # HookPage!Free
    BY <1>2, <1>3 DEF HookPage!Free, PageOps, PageWrites
<1> QED
    BY <1>2, <1>4, <1>5 DEF d, PageAnswer

LEMMA PageShapes ==
    ASSUME PageTyped, NEW s \in HookSlots, hookCalls[s] # HookPage!Free
    PROVE  /\ PageIsCall(hookCalls[s]) /\ hookCalls[s].op \in PageOps /\ hookCalls[s].nr \in Nat
           /\ hookCalls[s].served \in BOOLEAN
           /\ hookCalls[s].nr > 0 <=> hookCalls[s].op = "list" /\ hookCalls[s].served
BY DEF PageTyped, PageIsCall

\* How many lists are on their way.
LEMMA PageCount ==
    /\ IsFiniteSet(PageListed) /\ Cardinality(PageListed) \in Nat
    /\ HookPage!LastNr = Cardinality(PageListed)
<1>1. PageListed \subseteq HookSlots
    BY DEF PageListed
<1>2. IsFiniteSet(PageListed)
    BY <1>1, PageConstants, FS_Subset
<1>3. HookPage!LastNr = Cardinality(PageListed)
    BY DEF HookPage!LastNr, HookPage!Cardinality, Cardinality, PageListed, PageListing
<1> QED
    BY <1>2, <1>3, FS_CardinalityType

(***************************************************************************)
(* Steps of the user.                                                      *)
(***************************************************************************)
PageSame(t) ==
    /\ hookCalls'[t] = HookPage!Free <=> hookCalls[t] = HookPage!Free
    /\ hookCalls[t] # HookPage!Free =>
         /\ PageIsCall(hookCalls'[t])
         /\ hookCalls'[t].op = hookCalls[t].op /\ hookCalls'[t].nr = hookCalls[t].nr
         /\ hookCalls'[t].served = hookCalls[t].served /\ hookCalls'[t].got = hookCalls[t].got
PageNew(t) ==
    /\ hookCalls[t] = HookPage!Free /\ hookCalls'[t] # HookPage!Free
    /\ PageIsCall(hookCalls'[t]) /\ hookCalls'[t].nr = 0 /\ ~ hookCalls'[t].served

LEMMA PageMild ==
    ASSUME PageGood, hookCalls' = [s \in HookSlots |-> hookCalls'[s]],
           \A t \in HookSlots : PageSame(t) \/ PageNew(t),
           hooks' = hooks, hookList' = hookList, hookClicks' \in Nat \ {0}
    PROVE  PageGood'
<1>1. PageTyped'
    BY DEF PageGood, PageTyped, PageSame, PageNew
<1>2. PageUntouched'
    BY DEF PageUntouched
<1>3. \A t \in HookSlots : /\ PageListing(t)' <=> PageListing(t)
                           /\ PageListing(t) => hookCalls'[t].nr = hookCalls[t].nr
                                                /\ hookCalls'[t].got = hookCalls[t].got
    BY DEF PageListing, PageSame, PageNew
<1>4. PageListed' = PageListed
    BY <1>3 DEF PageListed
<1>5. PageNumbered'
    BY <1>3, <1>4 DEF PageGood, PageNumbered, PageListed
<1>6. PageNews'
  <2>1. HookPage!ListNow' = HookPage!ListNow
    BY DEF HookPage!ListNow, HookPage!Reverse
  <2>2. \A s \in HookSlots : PageComing(s) => PageComing(s)'
    BY DEF PageComing, PageSame, PageNew
  <2>3. \A s \in PageListed : PageLast(s) => PageLast(s)'
    BY <1>3, <1>4, <2>1 DEF PageLast, PageListed
  <2> QED
    BY <1>4, <2>1, <2>2, <2>3 DEF PageGood, PageNews, HookPage!Loading
<1> QED
    BY <1>1, <1>2, <1>5, <1>6 DEF PageGood

\* A call is sent; or the calls of a window are answered to nobody.
LEMMA PageSends ==
    ASSUME PageTyped, NEW s \in HookSlots, NEW op \in PageOps, NEW arg, HookPage!Send(s, op, arg)
    PROVE  /\ hookCalls' = [t \in HookSlots |-> hookCalls'[t]]
           /\ \A t \in HookSlots : PageSame(t) \/ PageNew(t)
<1>1. /\ hookCalls[s] = HookPage!Free
      /\ hookCalls' = [hookCalls EXCEPT ![s] = HookPage!Call(op, arg)]
    BY DEF HookPage!Send
<1>2. hookCalls'[s] = HookPage!Call(op, arg) /\ \A t \in HookSlots \ {s} : hookCalls'[t] = hookCalls[t]
    BY <1>1 DEF PageTyped
<1>3. hookCalls' = [t \in HookSlots |-> hookCalls'[t]]
    BY <1>1 DEF PageTyped
<1>4. PageNew(s)
  <2>1. /\ PageIsCall(HookPage!Call(op, arg)) /\ HookPage!Call(op, arg) # HookPage!Free
        /\ HookPage!Call(op, arg).nr = 0 /\ HookPage!Call(op, arg).served = FALSE
    BY PageCalls, Zenon
  <2> QED
    BY <1>1, <1>2, <2>1 DEF PageNew
<1>5. \A t \in HookSlots \ {s} : PageSame(t)
    BY <1>2 DEF PageSame, PageTyped
<1> QED
    BY <1>3, <1>4, <1>5

LEMMA PageOrphans ==
    ASSUME PageTyped, NEW op, hookCalls' = HookPage!Orphaned(op) \/ hookCalls' = hookCalls
    PROVE  /\ hookCalls' = [t \in HookSlots |-> hookCalls'[t]]
           /\ \A t \in HookSlots : PageSame(t)
<1>1. CASE hookCalls' = hookCalls
    BY <1>1 DEF PageTyped, PageSame
<1>2. CASE hookCalls' = HookPage!Orphaned(op)
  <2>1. \A t \in HookSlots :
            hookCalls'[t] = IF hookCalls[t] # HookPage!Free /\ hookCalls[t].op = op
                            THEN [hookCalls[t] EXCEPT !.own = FALSE] ELSE hookCalls[t]
    BY <1>2 DEF HookPage!Orphaned
  <2>2. hookCalls' = [t \in HookSlots |-> hookCalls'[t]]
    BY <1>2 DEF HookPage!Orphaned
  <2>3. ASSUME NEW t \in HookSlots PROVE PageSame(t)
    <3>1. CASE hookCalls[t] # HookPage!Free /\ hookCalls[t].op = op
      <4>1. PageIsCall(hookCalls[t]) /\ hookCalls'[t] = [hookCalls[t] EXCEPT !.own = FALSE]
        BY <2>1, <3>1 DEF PageTyped
      <4> QED
        BY <3>1, <4>1, PageDisowned DEF PageSame
    <3>2. CASE ~ (hookCalls[t] # HookPage!Free /\ hookCalls[t].op = op)
      <4>1. hookCalls'[t] = hookCalls[t]
        BY <2>1, <3>2
      <4> QED
        BY <4>1 DEF PageSame, PageTyped
    <3> QED
        BY <3>1, <3>2
  <2> QED
    BY <2>2, <2>3
<1> QED
    BY <1>1, <1>2

LEMMA PageClicks ==
    ASSUME PageGood,
           \/ \E s \in HookSlots : \/ HookPage!Mount(s) \/ HookPage!Row(s)
                                   \/ HookPage!ShowAttempts(s) \/ HookPage!Submit(s)
           \/ HookPage!HideAttempts \/ HookPage!ShowForm \/ HookPage!HideForm \/ HookPage!Choose
    PROVE  PageGood'
<1>1. /\ \E deed : HookPage!Click(deed)
      /\ hookList' = hookList
      /\ \/ \E s \in HookSlots, op \in PageOps : \E arg : HookPage!Send(s, op, arg)
         \/ \E op : hookCalls' = HookPage!Orphaned(op) \/ hookCalls' = hookCalls
  <2>1. CASE \E s \in HookSlots : HookPage!Mount(s) \/ HookPage!ShowAttempts(s) \/ HookPage!Submit(s)
    BY <2>1 DEF HookPage!Mount, HookPage!ShowAttempts, HookPage!Submit, HookPage!view, PageOps, PageWrites
  <2>2. CASE \E s \in HookSlots : HookPage!Row(s)
    BY <2>2 DEF HookPage!Row, HookPage!view, PageOps, PageWrites
  <2>3. CASE HookPage!HideAttempts \/ HookPage!ShowForm \/ HookPage!HideForm \/ HookPage!Choose
    BY <2>3 DEF HookPage!HideAttempts, HookPage!ShowForm, HookPage!HideForm, HookPage!Choose
  <2> QED
    BY <2>1, <2>2, <2>3
<1>2. hooks' = hooks /\ hookClicks' \in Nat \ {0}
    BY <1>1 DEF HookPage!Click, HookPage!table, PageGood, PageTyped
<1>3. /\ hookCalls' = [t \in HookSlots |-> hookCalls'[t]]
      /\ \A t \in HookSlots : PageSame(t) \/ PageNew(t)
    BY <1>1, PageSends, PageOrphans DEF PageGood
<1> QED
    BY <1>1, <1>2, <1>3, PageMild

(***************************************************************************)
(* The server.                                                             *)
(***************************************************************************)
PageServing(s, c, g, n) ==
    /\ c = hookCalls[s] /\ c # HookPage!Free /\ ~ c.served
    /\ n = IF c.op = "list" THEN HookPage!LastNr + 1 ELSE 0
    /\ hookCalls' = [hookCalls EXCEPT ![s] = PageAnswered(c, g, n)]
    /\ c.op = "list" => g = HookPage!ListNow
    /\ c.op \in {"list", "attempts"} => hooks' = hooks
    /\ c.op \in PageWrites => hooks' = hooks \/ g # << >>

LEMMA PageServeIs ==
    ASSUME NEW s \in HookSlots, HookPage!Serve(s)
    PROVE  \E c, g, n : PageServing(s, c, g, n)
<1> DEFINE c == hookCalls[s]
             ok == HookPage!Succeeds(c.op, c.arg)
             got == CASE c.op = "list" -> HookPage!ListNow
                      [] c.op = "attempts" ->
                           IF HookPage!With(c.arg.id) # {} THEN <<hookRows[c.arg.id]>> ELSE << >>
                      [] OTHER -> IF ok THEN <<"ok">> ELSE << >>
             n == IF c.op = "list" THEN HookPage!LastNr + 1 ELSE 0
<1>1. /\ c # HookPage!Free /\ ~ c.served
      /\ hookCalls' = [hookCalls EXCEPT ![s] = PageAnswered(c, got, n)]
      /\ c.op \in {"list", "attempts"} \/ ~ ok => hooks' = hooks
    BY DEF HookPage!Serve, HookPage!table, PageAnswered
<1>2. <<"ok">> # << >>
    OBVIOUS
<1>3. c.op = "list" => got = HookPage!ListNow
    OBVIOUS
<1>4. c.op \in PageWrites /\ ok => got = <<"ok">>
    BY DEF PageWrites
<1>5. /\ c = hookCalls[s] /\ n = IF c.op = "list" THEN HookPage!LastNr + 1 ELSE 0
      /\ c.op \in {"list", "attempts"} => hooks' = hooks
      /\ c.op \in PageWrites => hooks' = hooks \/ got # << >>
    BY <1>1, <1>2, <1>4 DEF PageWrites
<1> HIDE DEF c, ok, got, n
<1>6. PageServing(s, c, got, n)
    BY <1>1, <1>3, <1>5 DEF PageServing
<1> QED
    BY <1>6, Zenon

LEMMA PageServes ==
    ASSUME PageGood, NEW s \in HookSlots, HookPage!Serve(s) PROVE PageGood'
<1>0. PICK c, got, n : PageServing(s, c, got, n)
    BY PageServeIs, Zenon
<1>1. /\ c = hookCalls[s] /\ c # HookPage!Free /\ ~ c.served
      /\ n = IF c.op = "list" THEN HookPage!LastNr + 1 ELSE 0
      /\ hookCalls' = [hookCalls EXCEPT ![s] = PageAnswered(c, got, n)]
      /\ c.op = "list" => got = HookPage!ListNow
      /\ c.op \in {"list", "attempts"} => hooks' = hooks
      /\ c.op \in PageWrites => hooks' = hooks \/ got # << >>
    BY <1>0 DEF PageServing
<1>2. PageTyped /\ PageIsCall(c) /\ c.op \in PageOps /\ c.nr = 0
    BY <1>1, PageShapes DEF PageGood
<1>3. n \in Nat /\ (n > 0 <=> c.op = "list") /\ (n > 0 => n = Cardinality(PageListed) + 1)
    BY <1>1, PageCount
<1>4. PICK d : /\ d = PageAnswered(c, got, n)
               /\ PageIsCall(d) /\ d # HookPage!Free
               /\ d.op = c.op /\ d.nr = n /\ d.served = TRUE /\ d.got = got
  <2>1. PageIsCall(c) /\ n \in Nat /\ (n > 0 <=> c.op = "list")
    BY <1>2, <1>3
  <2>2. PageAnswer(PageAnswered(c, got, n), c, got, n)
    BY <2>1, PageServed, Zenon
  <2> QED
    BY <2>2, Zenon DEF PageAnswer
<1>5. /\ hookCalls' = [t \in HookSlots |-> hookCalls'[t]] /\ hookCalls'[s] = d
      /\ \A t \in HookSlots \ {s} : hookCalls'[t] = hookCalls[t]
    BY <1>1, <1>2, <1>4 DEF PageTyped
<1>6. hookList' = hookList /\ hookClicks' = hookClicks
    BY DEF HookPage!Serve, HookPage!view
<1>7. PageTyped'
    BY <1>2, <1>4, <1>5, <1>6 DEF PageTyped
<1>8. PageUntouched'
    BY <1>1, <1>6 DEF PageGood, PageUntouched
<1>9. s \notin PageListed
    BY <1>1, <1>2 DEF PageListed, PageListing
<1>10. \A t \in PageListed : hookCalls'[t] = hookCalls[t] /\ hookCalls[t].nr \in Nat
    BY <1>2, <1>5, <1>9, PageShapes DEF PageListed, PageListing
<1>11. CASE c.op = "list"
  <2>1. PageListed' = PageListed \cup {s}
    <3>1. PageListing(s)'
        BY <1>3, <1>4, <1>5, <1>11 DEF PageListing
    <3>2. \A t \in HookSlots \ {s} : PageListing(t)' <=> PageListing(t)
        BY <1>5 DEF PageListing
    <3> QED
        BY <3>1, <3>2 DEF PageListed
  <2>2. Cardinality(PageListed') = Cardinality(PageListed) + 1 /\ Cardinality(PageListed) \in Nat
    BY <1>9, <2>1, PageCount, FS_AddElement
  <2>3. hookCalls'[s].nr = Cardinality(PageListed) + 1
    BY <1>3, <1>4, <1>5, <1>11
  <2>4. \A t \in PageListed : hookCalls[t].nr <= Cardinality(PageListed)
    BY DEF PageGood, PageNumbered
  <2>5. PageNumbered'
    <3>1. \A t \in PageListed' : hookCalls'[t].nr <= Cardinality(PageListed')
        BY <1>10, <2>1, <2>2, <2>3, <2>4
    <3>2. \A t, u \in PageListed' : hookCalls'[t].nr = hookCalls'[u].nr => t = u
        BY <1>10, <2>1, <2>2, <2>3, <2>4 DEF PageGood, PageNumbered
    <3> QED
        BY <3>1, <3>2 DEF PageNumbered
  <2>6. PageLast(s)'
    <3>1. hookCalls'[s].got = HookPage!ListNow'
        BY <1>1, <1>4, <1>5, <1>11 DEF HookPage!ListNow, HookPage!Reverse
    <3>2. \A t \in PageListed' : hookCalls'[t].nr <= hookCalls'[s].nr
        BY <1>10, <2>1, <2>2, <2>3, <2>4
    <3> QED
        BY <3>1, <3>2 DEF PageLast
  <2> QED
    BY <1>7, <1>8, <2>1, <2>5, <2>6 DEF PageGood, PageNews
<1>12. CASE c.op # "list"
  <2>1. PageListed' = PageListed
    <3>1. ~ PageListing(s)' /\ ~ PageListing(s)
        BY <1>2, <1>1, <1>3, <1>4, <1>5, <1>12 DEF PageListing
    <3>2. \A t \in HookSlots \ {s} : PageListing(t)' <=> PageListing(t)
        BY <1>5 DEF PageListing
    <3> QED
        BY <3>1, <3>2 DEF PageListed
  <2>2. PageNumbered'
    BY <1>10, <2>1 DEF PageGood, PageNumbered
  <2>3. CASE hooks' # hooks
    <3>1. c.op \in PageWrites /\ got # << >>
        BY <1>1, <1>2, <2>3 DEF PageOps
    <3>2. PageComing(s)'
        BY <1>4, <1>5, <3>1 DEF PageComing
    <3> QED
        BY <1>7, <1>8, <2>2, <3>2 DEF PageGood, PageNews
  <2>4. CASE hooks' = hooks
    <3>1. HookPage!ListNow' = HookPage!ListNow
        BY <2>4 DEF HookPage!ListNow, HookPage!Reverse
    <3>2. \A t \in HookSlots : PageComing(t) => t # s /\ PageComing(t)'
      <4>1. ~ PageComing(s)
        BY <1>1, <1>12 DEF PageComing
      <4> QED
        BY <1>5, <4>1 DEF PageComing
    <3>3. \A t \in PageListed : PageLast(t) => PageLast(t)'
        BY <1>10, <2>1, <3>1 DEF PageLast
    <3>4. PageNews'
        BY <1>6, <2>1, <3>1, <3>2, <3>3 DEF PageGood, PageNews, HookPage!Loading
    <3> QED
        BY <1>7, <1>8, <2>2, <3>4 DEF PageGood
  <2> QED
    BY <2>3, <2>4
<1> QED
    BY <1>11, <1>12

\* There is a table before the page is opened.
LEMMA PageBefore ==
    ASSUME PageGood, HookPage!Before PROVE PageGood'
<1>1. /\ hookClicks = 0 /\ UNCHANGED <<hookList, hookCalls, hookClicks>>
    BY DEF HookPage!Before, HookPage!view
<1>2. hookList = HookPage!Loading /\ \A s \in HookSlots : hookCalls[s] = HookPage!Free
    BY <1>1 DEF PageGood, PageUntouched
<1>3. PageListed = {} /\ PageListed' = {}
    BY <1>1, <1>2 DEF PageListed, PageListing
<1>4. PageTyped' /\ PageUntouched' /\ PageNumbered'
    BY <1>1, <1>2, <1>3 DEF PageGood, PageTyped, PageUntouched, PageNumbered
<1> QED
    BY <1>1, <1>2, <1>3, <1>4 DEF PageGood, PageNews, HookPage!Loading

(***************************************************************************)
(* The answers.                                                            *)
(***************************************************************************)
PageTaken(s, c) ==
    /\ c = hookCalls[s] /\ c # HookPage!Free /\ c.served
    /\ hooks' = hooks /\ hookClicks' = hookClicks
    /\ hookList' = IF c.op = "list" THEN c.got ELSE hookList
    /\ hookCalls' = [t \in HookSlots |-> hookCalls'[t]]
    /\ hookCalls'[s] = IF c.op \notin {"list", "attempts"} /\ c.got # << >>
                       THEN HookPage!Call("list", 0) ELSE HookPage!Free
\* What becomes of the other calls.
PageMoved(s, c, t) ==
    /\ c.op = "list" =>
         hookCalls'[t] = IF hookCalls[t] # HookPage!Free /\ hookCalls[t].nr > c.nr
                         THEN [hookCalls[t] EXCEPT !.nr = hookCalls[t].nr - 1] ELSE hookCalls[t]
    /\ c.op # "list" => \/ hookCalls'[t] = hookCalls[t]
                        \/ /\ hookCalls[t] # HookPage!Free
                           /\ hookCalls'[t] = [hookCalls[t] EXCEPT !.own = FALSE]

LEMMA PageReceiveIs ==
    ASSUME NEW s \in HookSlots, HookPage!Receive(s)
    PROVE  \E c : PageTaken(s, c) /\ \A t \in HookSlots \ {s} : PageMoved(s, c, t)
<1> DEFINE c == hookCalls[s]
<1>1. PageTaken(s, c)
    BY DEF PageTaken, HookPage!Receive, HookPage!table, HookPage!Reloads
<1>2. ASSUME NEW t \in HookSlots \ {s} PROVE PageMoved(s, c, t)
  <2>1. hookCalls'[t] = IF c.op = "list" /\ hookCalls[t] # HookPage!Free /\ hookCalls[t].nr > c.nr
                        THEN [hookCalls[t] EXCEPT !.nr = hookCalls[t].nr - 1]
                        ELSE IF c.op = "create" /\ c.got # << >> THEN HookPage!Orphaned("create")[t]
                        ELSE hookCalls[t]
    BY DEF HookPage!Receive
  <2>2. \/ HookPage!Orphaned("create")[t] = hookCalls[t]
        \/ /\ hookCalls[t] # HookPage!Free
           /\ HookPage!Orphaned("create")[t] = [hookCalls[t] EXCEPT !.own = FALSE]
    BY DEF HookPage!Orphaned
  <2> HIDE DEF c
  <2> QED
    BY <2>1, <2>2 DEF PageMoved
<1> HIDE DEF c
<1> QED
    BY <1>1, <1>2, Zenon

\* A list has come: it is the oldest of those on their way.
LEMMA PageShows ==
    ASSUME PageGood, NEW s \in HookSlots, NEW c, PageTaken(s, c), c.op = "list",
           \A t \in HookSlots \ {s} : PageMoved(s, c, t),
           \A t \in HookSlots \ {s} : PageListing(t) => hookCalls[t].nr > c.nr
    PROVE  PageGood'
<1>1. /\ c = hookCalls[s] /\ c # HookPage!Free /\ c.served
      /\ hooks' = hooks /\ hookClicks' = hookClicks /\ hookList' = c.got
      /\ hookCalls' = [t \in HookSlots |-> hookCalls'[t]] /\ hookCalls'[s] = HookPage!Free
    BY DEF PageTaken
<1>2. PageTyped /\ PageIsCall(c) /\ c.nr \in Nat /\ c.nr > 0
    BY <1>1, PageShapes DEF PageGood
<1>3. s \in PageListed
    BY <1>1, <1>2 DEF PageListed, PageListing
<1>4. ASSUME NEW t \in PageListed \ {s}
      PROVE  /\ hookCalls'[t] # HookPage!Free /\ PageIsCall(hookCalls'[t])
             /\ hookCalls[t].nr \in Nat /\ hookCalls'[t].nr = hookCalls[t].nr - 1
             /\ hookCalls'[t].nr \in Nat \ {0} /\ hookCalls'[t].got = hookCalls[t].got
  <2>1. /\ t \in HookSlots /\ hookCalls[t] # HookPage!Free /\ PageIsCall(hookCalls[t])
        /\ hookCalls[t].nr \in Nat /\ hookCalls[t].nr > c.nr
    BY <1>2, PageShapes DEF PageListed, PageListing
  <2>2. hookCalls'[t] = [hookCalls[t] EXCEPT !.nr = hookCalls[t].nr - 1]
    BY <2>1 DEF PageMoved
  <2>3. PICK n \in Nat \ {0} : n = hookCalls[t].nr - 1
    BY <1>2, <2>1
  <2>4. PICK d : d = hookCalls[t]
    OBVIOUS
  <2>5. hookCalls'[t] = PageOlder(d, n) /\ PageIsCall(d) /\ d.nr \in Nat \ {0}
    BY <1>2, <2>1, <2>2, <2>3, <2>4 DEF PageOlder
  <2>6. PageOld(hookCalls'[t], d, n)
    BY <2>3, <2>5, PageRenumbered, Zenon
  <2> QED
    BY <2>1, <2>3, <2>4, <2>6 DEF PageOld
<1>5. ASSUME NEW t \in HookSlots \ {s}, t \notin PageListed
      PROVE  hookCalls'[t] = hookCalls[t]
  <2>1. ~ (hookCalls[t] # HookPage!Free /\ hookCalls[t].nr > c.nr)
    <3>1. ~ PageListing(t)
        BY <1>5 DEF PageListed
    <3>2. hookCalls[t] # HookPage!Free => hookCalls[t].nr \in Nat
        BY <1>2, PageShapes
    <3> QED
        BY <1>2, <3>1, <3>2 DEF PageListing
  <2>2. PageMoved(s, c, t)
    OBVIOUS
  <2> QED
    BY <2>1, <2>2 DEF PageMoved
<1>6. PageTyped'
  <2>1. \A t \in HookSlots : hookCalls'[t] # HookPage!Free => PageIsCall(hookCalls'[t])
    BY <1>1, <1>2, <1>4, <1>5 DEF PageTyped
  <2> QED
    BY <1>1, <1>2, <2>1 DEF PageTyped
<1>7. PageUntouched'
    BY <1>1 DEF PageGood, PageUntouched
<1>8. PageListed' = PageListed \ {s}
  <2>1. ~ PageListing(s)'
    BY <1>1 DEF PageListing
  <2>2. \A t \in HookSlots \ {s} : PageListing(t)' <=> t \in PageListed
    BY <1>4, <1>5 DEF PageListing, PageListed
  <2> QED
    BY <2>1, <2>2 DEF PageListed
<1>9. Cardinality(PageListed') = Cardinality(PageListed) - 1 /\ Cardinality(PageListed) \in Nat
    BY <1>3, <1>8, PageCount, FS_RemoveElement
<1>10. PageNumbered'
  <2>1. \A t \in PageListed' : hookCalls'[t].nr <= Cardinality(PageListed')
    BY <1>4, <1>8, <1>9 DEF PageGood, PageNumbered
  <2>2. \A t, u \in PageListed' : hookCalls'[t].nr = hookCalls'[u].nr => t = u
    BY <1>4, <1>8 DEF PageGood, PageNumbered
  <2> QED
    BY <2>1, <2>2 DEF PageNumbered
<1>11. HookPage!ListNow' = HookPage!ListNow
    BY <1>1 DEF HookPage!ListNow, HookPage!Reverse
<1>12. PageNews'
  <2>1. ASSUME NEW t \in HookSlots, PageComing(t) PROVE PageComing(t)'
    <3>1. t # s /\ t \notin PageListed
        BY <1>1, <1>2, <2>1, PageShapes DEF PageComing, PageWrites, PageListed, PageListing
    <3> QED
        BY <1>5, <2>1, <3>1 DEF PageComing
  <2>2. ASSUME NEW u \in PageListed \ {s}, PageLast(u) PROVE PageLast(u)'
    <3>1. \A t \in PageListed' : hookCalls'[t].nr <= hookCalls'[u].nr
        BY <1>4, <1>8, <2>2 DEF PageLast
    <3> QED
        BY <1>4, <1>11, <2>2, <3>1 DEF PageLast
  <2>3. ASSUME PageLast(s) PROVE PageListed' = {} /\ hookList' = HookPage!ListNow'
    <3>1. \A t \in PageListed \ {s} : hookCalls[t].nr \in Nat /\ hookCalls[t].nr > c.nr
        BY <1>4 DEF PageListed
    <3>2. PageListed \ {s} = {}
        BY <1>1, <1>2, <2>3, <3>1 DEF PageLast
    <3> QED
        BY <1>1, <1>8, <1>11, <2>3, <3>2 DEF PageLast
  <2> QED
    BY <1>3, <1>8, <2>1, <2>2, <2>3 DEF PageGood, PageNews
<1> QED
    BY <1>6, <1>7, <1>10, <1>12 DEF PageGood

\* Another answer has come: if it says that something was done, the list is asked for.
LEMMA PageHears ==
    ASSUME PageGood, NEW s \in HookSlots, NEW c, PageTaken(s, c), c.op # "list",
           \A t \in HookSlots \ {s} : PageMoved(s, c, t)
    PROVE  PageGood'
<1>1. /\ c = hookCalls[s] /\ c # HookPage!Free /\ c.served
      /\ hooks' = hooks /\ hookClicks' = hookClicks /\ hookList' = hookList
      /\ hookCalls' = [t \in HookSlots |-> hookCalls'[t]]
      /\ hookCalls'[s] = IF c.op \notin {"list", "attempts"} /\ c.got # << >>
                         THEN HookPage!Call("list", 0) ELSE HookPage!Free
    BY DEF PageTaken
<1>2. PageTyped /\ PageIsCall(c) /\ c.nr = 0 /\ c.op \in PageOps
    BY <1>1, PageShapes DEF PageGood
<1>3. ASSUME NEW t \in HookSlots \ {s} PROVE PageSame(t)
  <2>1. CASE hookCalls'[t] = hookCalls[t]
    BY <1>2, <2>1 DEF PageSame, PageTyped
  <2>2. CASE hookCalls[t] # HookPage!Free /\ hookCalls'[t] = [hookCalls[t] EXCEPT !.own = FALSE]
    <3>1. PageIsCall(hookCalls[t])
        BY <1>2, <2>2 DEF PageTyped
    <3> QED
        BY <2>2, <3>1, PageDisowned DEF PageSame
  <2> QED
    BY <2>1, <2>2 DEF PageMoved
<1>4. /\ PageIsCall(HookPage!Call("list", 0)) /\ HookPage!Call("list", 0) # HookPage!Free
      /\ HookPage!Call("list", 0).op = "list" /\ HookPage!Call("list", 0).nr = 0
      /\ HookPage!Call("list", 0).served = FALSE
  <2>1. "list" \in PageOps
    BY DEF PageOps
  <2> QED
    BY <2>1, PageCalls, Zenon
<1>5. PageTyped'
  <2>1. \A t \in HookSlots : hookCalls'[t] # HookPage!Free => PageIsCall(hookCalls'[t])
    BY <1>1, <1>3, <1>4 DEF PageSame
  <2> QED
    BY <1>1, <1>2, <2>1 DEF PageTyped
<1>6. PageUntouched'
    BY <1>1 DEF PageGood, PageUntouched
<1>7. s \notin PageListed /\ ~ PageListing(s)'
    BY <1>1, <1>2, <1>4 DEF PageListed, PageListing
<1>8. \A t \in HookSlots \ {s} : PageListing(t)' <=> PageListing(t)
    BY <1>3 DEF PageSame, PageListing
<1>9. PageListed' = PageListed
    BY <1>7, <1>8 DEF PageListed
<1>10. \A t \in PageListed : hookCalls'[t].nr = hookCalls[t].nr /\ hookCalls'[t].got = hookCalls[t].got
    BY <1>3, <1>7 DEF PageSame, PageListed, PageListing
<1>11. PageNumbered'
    BY <1>9, <1>10 DEF PageGood, PageNumbered
<1>12. HookPage!ListNow' = HookPage!ListNow
    BY <1>1 DEF HookPage!ListNow, HookPage!Reverse
<1>13. PageNews'
  <2>1. CASE c.op \in PageWrites /\ c.got # << >>
    <3>1. hookCalls'[s] = HookPage!Call("list", 0)
        BY <1>1, <2>1 DEF PageWrites
    <3>2. PageComing(s)'
        BY <1>4, <3>1 DEF PageComing
    <3> QED
        BY <3>2 DEF PageNews
  <2>2. CASE ~ (c.op \in PageWrites /\ c.got # << >>)
    <3>1. ~ PageComing(s)
        BY <1>1, <2>2 DEF PageComing
    <3>2. \A t \in HookSlots : PageComing(t) => PageComing(t)'
        BY <1>3, <3>1 DEF PageComing, PageSame
    <3>3. \A t \in PageListed : PageLast(t) => PageLast(t)'
        BY <1>9, <1>10, <1>12 DEF PageLast
    <3> QED
        BY <1>1, <1>9, <1>12, <3>2, <3>3 DEF PageGood, PageNews, HookPage!Loading
  <2> QED
    BY <2>1, <2>2
<1> QED
    BY <1>5, <1>6, <1>11, <1>13 DEF PageGood

LEMMA PageReceives ==
    ASSUME PageGood, setting.faults = {}, NEW s \in HookSlots, HookPage!Receive(s) PROVE PageGood'
<1>1. PICK c : PageTaken(s, c) /\ \A t \in HookSlots \ {s} : PageMoved(s, c, t)
    BY PageReceiveIs, Zenon
<1>2. c = hookCalls[s]
    BY <1>1 DEF PageTaken
<1>3. CASE c.op = "list"
  <2>1. HookPage!InOrder(s)
    BY <1>2, <1>3 DEF HookPage!Receive, HookPage!Fault
  <2>2. \A t \in HookSlots \ {s} : PageListing(t) => hookCalls[t].nr > c.nr
    BY <1>2, <2>1 DEF HookPage!InOrder, PageListing
  <2> QED
    BY <1>1, <1>3, <2>2, PageShows
<1>4. CASE c.op # "list"
    BY <1>1, <1>4, PageHears
<1> QED
    BY <1>3, <1>4

\* Nothing of the page or of the table changes.
LEMMA PageStays ==
    ASSUME PageGood, UNCHANGED <<hooks, hookList, hookCalls, hookClicks>> PROVE PageGood'
<1>1. HookPage!ListNow' = HookPage!ListNow
    BY DEF HookPage!ListNow, HookPage!Reverse
<1>2. PageListed' = PageListed
    BY DEF PageListed, PageListing
<1>3. PageTyped' /\ PageUntouched' /\ PageNumbered'
    BY <1>2 DEF PageGood, PageTyped, PageUntouched, PageNumbered
<1>4. PageNews'
    BY <1>1, <1>2 DEF PageGood, PageNews, PageComing, PageLast, HookPage!Loading
<1> QED
    BY <1>3, <1>4 DEF PageGood

LEMMA PageKept == PageInv /\ [Next]_vars => PageInv'
<1> SUFFICES ASSUME PageInv, [Next]_vars, part' = "hook page", setting'.faults = {}
             PROVE  PageGood'
    BY DEF PageInv
<1>1. part = "hook page" /\ (HookPage!Next \/ UNCHANGED <<setting, hookPageVars>>)
    BY PageRuns
<1>2. setting' = setting
    BY <1>1 DEF HookPage!Next, HookPage!Mount, HookPage!Row, HookPage!ShowAttempts, HookPage!Submit,
        HookPage!Click, HookPage!Serve, HookPage!Receive, HookPage!Lose, HookPage!HideAttempts,
        HookPage!ShowForm, HookPage!HideForm, HookPage!Choose, HookPage!Before, HookPage!OtherTab,
        HookPage!Rest, HookPage!vars
<1>3. PageGood /\ setting.faults = {}
    BY <1>1, <1>2 DEF PageInv
<1>4. CASE UNCHANGED <<setting, hookPageVars>>
    BY <1>3, <1>4, PageStays DEF hookPageVars
<1>5. ASSUME NEW s \in HookSlots,
             HookPage!Mount(s) \/ HookPage!Row(s) \/ HookPage!ShowAttempts(s) \/ HookPage!Submit(s)
      PROVE  PageGood'
    BY <1>3, <1>5, PageClicks, Zenon
<1>6. ASSUME NEW s \in HookSlots, HookPage!Serve(s) \/ HookPage!Receive(s) \/ HookPage!Lose(s)
      PROVE  PageGood'
  <2>1. ~ HookPage!Lose(s)
    BY <1>3 DEF HookPage!Lose, HookPage!Fault
  <2> QED
    BY <1>3, <1>6, <2>1, PageServes, PageReceives
<1>7. CASE HookPage!HideAttempts \/ HookPage!ShowForm \/ HookPage!HideForm \/ HookPage!Choose
    BY <1>3, <1>7, PageClicks, Zenon
<1>8. CASE HookPage!Before
    BY <1>3, <1>8, PageBefore
<1>9. CASE HookPage!OtherTab \/ HookPage!Rest
  <2>1. ~ HookPage!OtherTab
    BY <1>3 DEF HookPage!OtherTab, HookPage!Fault
  <2>2. UNCHANGED <<hooks, hookList, hookCalls, hookClicks>>
    BY <1>9, <2>1 DEF HookPage!Rest, HookPage!vars, HookPage!table, HookPage!view
  <2> QED
    BY <1>3, <2>2, PageStays
<1> QED
    BY <1>1, <1>4, <1>5, <1>6, <1>7, <1>8, <1>9 DEF HookPage!Next

\* At rest the page shows the endpoints as they are, with any number of endpoints, of
\* calls under way and of clicks, whatever overlapped: as long as no call is lost, the
\* lists arrive in the order in which they were read and nobody else is at work, there is
\* always a list to come that will have been read after the last change.
THEOREM ListEndsCurrent == Spec => []ListIsCurrent
<1>1. Init => PageInv
    BY PageStarts
<1>2. PageInv /\ [Next]_vars => PageInv'
    BY PageKept
<1>3. PageInv => ListIsCurrent
  <2> SUFFICES ASSUME PageInv, part = "hook page", \A s \in HookSlots : hookCalls[s] = HookPage!Free,
                      hookList # HookPage!Loading, setting.faults = {}
               PROVE  hookList = HookPage!ListNow
    BY DEF ListIsCurrent, HookPage!ListIsCurrent, HookPage!AtRest
  <2>1. PageListed = {} /\ ~ \E s \in HookSlots : PageComing(s)
    BY DEF PageListed, PageListing, PageComing
  <2> QED
    BY <2>1 DEF PageInv, PageGood, PageNews
<1> QED
    BY <1>1, <1>2, <1>3, PTL DEF Spec
=============================================================================
