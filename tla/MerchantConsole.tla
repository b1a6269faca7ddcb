-------------------------- MODULE MerchantConsole --------------------------
(***************************************************************************)
(* The legacy dashboard's session and keys: what the browser keeps in      *)
(* localStorage (the JWT, and the only copy of the secret test key), the   *)
(* calls it has in flight, and the aggregator's routes that answer them.   *)
(* SQLite is synchronous: each route is one step of the server.            *)
(***************************************************************************)
EXTENDS Naturals, Sequences

CONSTANTS
    Merchants,   \* accounts, by email
    Calls,       \* requests the browser may have in flight
    Deeds,       \* what the user may do, see Deed
    Settings     \* the environments to consider, see Setting

FaultKinds ==
    { "overlap", \* the user acts again before the answer
      "lost",    \* an answer does not arrive, or the page is reloaded meanwhile
      "expires" }\* the seven days of a JWT elapse

\* A form or button: whose email, which password typed, the next password, which key.
Deed == [op : {"register", "login", "password", "profile", "rotate", "use"}, who : Merchants,
         typed : {1, 2}, next : {1, 2}, key : {"test", "live", "publishable", "webhook"}]

Setting == [faults : SUBSET FaultKinds, deeds : SUBSET Deeds, clicks : Nat]

ConsoleAssumption == Deeds \subseteq Deed /\ Settings \subseteq Setting

VARIABLES
    setting,   \* the environment of this behaviour; never changes
    account,   \* merchant -> row of merchants: the password, versions of the secret keys
    issued,    \* JWTs signed so far: whose
    stale,     \* how many of them have expired
    token,     \* localStorage cauripay_token: index of a JWT, 0 when absent
    skTest,    \* localStorage cauripay_sk_test, or NoTestKey
    page,      \* what the tab shows
    ready,     \* the page has the data it asked for when it was mounted
    call,      \* request -> what it carries and its answer
    clicks     \* deeds so far

server == <<account, issued, stale>>
storage == <<token, skTest>>
tab == <<page, ready>>
vars == <<setting, server, storage, tab, call, clicks>>

NoAccount == [password |-> 0, test |-> 0, live |-> 0]
NoTestKey == [of |-> "none", mode |-> "test", version |-> 0]
Free == [at |-> "free"]

Fault(kind) == kind \in setting.faults

Idle ==
    /\ account = [m \in Merchants |-> NoAccount]
    /\ issued = << >> /\ stale = 0
    /\ token = 0 /\ skTest = NoTestKey
    /\ page = "login" /\ ready = TRUE
    /\ call = [c \in Calls |-> Free]
    /\ clicks = 0

Init == setting \in Settings /\ Idle

(***************************************************************************)
(* The browser: pages, and forms that read localStorage when they send.    *)
(***************************************************************************)
\* Outside of the account two forms; inside, every other page counts as "home".
AuthPages == {"login", "register"}
NAV == {"home", "keys", "settings"}

\* The page a deed is done on.
Where(op) ==
    CASE op \in AuthPages -> op [] op = "use" -> "home"
      [] op = "rotate" -> "keys" [] OTHER -> "settings"

\* What a page asks for when it is mounted.
Loads(p) == CASE p = "keys" -> "keys" [] p = "settings" -> "settings"

\* A button is disabled while its form, still mounted, waits; those of keys are not.
Busy(op) ==
    op \notin {"rotate", "use"} /\
      \E c \in Calls : call[c] # Free /\ call[c].own /\ Where(call[c].deed.op) = Where(op)

\* own: the page that sends it is still mounted when the answer comes.
Request(deed, jwt) == [at |-> "sent", deed |-> deed, token |-> jwt, key |-> skTest, own |-> TRUE]

MaySend(c) == call[c] = Free /\ (Fault("overlap") \/ \A d \in Calls : call[d] = Free)

\* The calls of a page that is left.
Left == [c \in Calls |-> IF call[c] = Free THEN Free ELSE [call[c] EXCEPT !.own = FALSE]]

Submit(c, deed) ==
    /\ deed \in setting.deeds /\ clicks < setting.clicks
    /\ MaySend(c)
    /\ page = Where(deed.op) /\ ready /\ ~ Busy(deed.op)
    /\ deed.op = "use" => skTest # NoTestKey                      \* requireSkTest
    /\ call' = [call EXCEPT ![c] = Request(deed, token)]
    /\ clicks' = clicks + 1
    /\ UNCHANGED <<setting, server, storage, tab>>

\* A link of the sidebar, or the one from one form to the other.
Go(p) ==
    /\ p # page /\ p \notin {"keys", "settings"}
    /\ {p, page} \subseteq AuthPages \/ {p, page} \subseteq NAV
    /\ page' = p /\ ready' = TRUE
    /\ call' = Left
    /\ UNCHANGED <<setting, server, storage, clicks>>

\* ... to a page that asks for its data.
GoAndLoad(c, p) ==
    /\ p # page /\ page \in NAV /\ p \in {"keys", "settings"}
    /\ MaySend(c)
    /\ page' = p /\ ready' = FALSE
    /\ call' = [Left EXCEPT ![c] = Request([op |-> Loads(p)], token)]
    /\ UNCHANGED <<setting, server, storage, clicks>>

\* The button Deconnexion forgets the session, and not the key.
Logout ==
    /\ page \in NAV /\ clicks < setting.clicks
    /\ token' = 0
    /\ page' = "login" /\ ready' = TRUE
    /\ call' = Left
    /\ clicks' = clicks + 1
    /\ UNCHANGED <<setting, server, skTest>>

\* ProtectedApp mounts: without a token the login page, else GET /auth/me.
Open(c) ==
    /\ page \in AuthPages /\ clicks < setting.clicks
    /\ MaySend(c)
    /\ token # 0
    /\ page' = "loading" /\ ready' = FALSE
    /\ call' = [Left EXCEPT ![c] = Request([op |-> "me"], token)]
    /\ clicks' = clicks + 1
    /\ UNCHANGED <<setting, server, storage>>

(***************************************************************************)
(* The server's routes.                                                    *)
(***************************************************************************)
Arrives(c, op) == call[c].at = "sent" /\ call[c].deed.op = op
Answer(c, code, jwt, key) ==
    call' = [call EXCEPT ![c] =
        [at |-> "answered", deed |-> @.deed, code |-> code, token |-> jwt, key |-> key,
         own |-> @.own]]
Refuse(c, code) == Answer(c, code, 0, NoTestKey) /\ UNCHANGED server

signJwt(m) == issued' = Append(issued, m)
verifyJwt(jwt) == jwt \in stale + 1 .. Len(issued)

\* The refusal of requireMerchant; a call that passes has a token, of merchantOf(c).
Unauthorized(c) == ~ verifyJwt(call[c].token) /\ Refuse(c, "401")
merchantOf(c) == issued[call[c].token]

Register(c) ==
    LET m == call[c].deed.who
    IN  /\ Arrives(c, "register")
        /\ IF account[m] # NoAccount THEN Refuse(c, "409")
           ELSE /\ account' = [account EXCEPT ![m] =
                     [password |-> call[c].deed.typed, test |-> 1, live |-> 1]]
                /\ signJwt(m) /\ UNCHANGED stale
                /\ Answer(c, "ok", Len(issued) + 1, [of |-> m, mode |-> "test", version |-> 1])

Login(c) ==
    LET m == call[c].deed.who
    IN  /\ Arrives(c, "login")
        /\ IF account[m].password # call[c].deed.typed THEN Refuse(c, "401")
           ELSE /\ signJwt(m) /\ UNCHANGED <<account, stale>>
                /\ Answer(c, "ok", Len(issued) + 1, NoTestKey)

Me(c) ==
    /\ \E op \in {"me", "keys", "settings"} : Arrives(c, op)
    /\ \/ Unauthorized(c)
       \/ verifyJwt(call[c].token) /\ Answer(c, "ok", 0, NoTestKey) /\ UNCHANGED server

\* The name and the company, of which nothing here depends.
SetProfile(c) ==
    /\ Arrives(c, "profile")
    /\ \/ Unauthorized(c)
       \/ verifyJwt(call[c].token) /\ Answer(c, "ok", 0, NoTestKey) /\ UNCHANGED server

SetPassword(c) ==
    /\ Arrives(c, "password")
    /\ \/ Unauthorized(c)
       \/ /\ verifyJwt(call[c].token)
          /\ IF account[merchantOf(c)].password # call[c].deed.typed THEN Refuse(c, "400")
             ELSE /\ account' = [account EXCEPT ![merchantOf(c)].password = call[c].deed.next]
                  /\ Answer(c, "ok", 0, NoTestKey) /\ UNCHANGED <<issued, stale>>

Rotate(c) ==
    LET m == merchantOf(c)
        kind == call[c].deed.key
    IN  /\ Arrives(c, "rotate")
        /\ \/ Unauthorized(c)
           \/ /\ verifyJwt(call[c].token)
              /\ IF kind \in {"test", "live"}
                   THEN /\ account' = [account EXCEPT ![m][kind] = @ + 1]
                        /\ Answer(c, "ok", 0,
                             [of |-> m, mode |-> kind, version |-> account[m][kind] + 1])
                        /\ UNCHANGED <<issued, stale>>
                   ELSE Answer(c, "ok", 0, NoTestKey) /\ UNCHANGED server

\* A secret key is found by its hash: only the current one is, and no account has
\* the live mode enabled.
resolveApiKey(key) == key # NoTestKey /\ account[key.of][key.mode] = key.version
requireApiKey(key) ==
    CASE ~ resolveApiKey(key) -> "401" [] key.mode = "live" -> "403" [] OTHER -> "ok"

UseKey(c) ==
    /\ Arrives(c, "use")
    /\ Answer(c, requireApiKey(call[c].key), 0, NoTestKey)
    /\ UNCHANGED server

(***************************************************************************)
(* The answers, back in the browser.                                       *)
(***************************************************************************)
\* Mutant of IsTestSecret: rotate keeps a secret key of either mode.
IsSecret(c) == call[c].deed.key \in {"test", "live"}

\* Only the secret test key drives the simulator, only it is kept.
IsTestSecret(c) == call[c].deed.key = "test"

\* The answer that ProtectedApp waits for.
Guards(c) == call[c].deed.op = "me" /\ call[c].own

\* request: a 401 forgets token and key, whatever was refused; apiV1 forgets nothing.
Refused(c) ==
    /\ call[c].at = "answered" /\ call[c].code # "ok"
    /\ IF call[c].code = "401" /\ call[c].deed.op # "use"
         THEN token' = 0 /\ skTest' = NoTestKey ELSE UNCHANGED storage
    /\ IF Guards(c) THEN page' = "login" /\ ready' = TRUE ELSE UNCHANGED tab
    /\ call' = [call EXCEPT ![c] = Free]
    /\ UNCHANGED <<setting, server, clicks>>

\* The two forms that begin a session.
Enters == {"register", "login"}

\* They keep the token, and the key if there is one; go to /app,
\* which mounts ProtectedApp anew.
Welcome(c) ==
    /\ call[c].at = "answered" /\ call[c].code = "ok"
    /\ call[c].deed.op \in Enters
    /\ token' = call[c].token
    /\ skTest' = IF call[c].key # NoTestKey THEN call[c].key ELSE skTest
    /\ page' = "loading" /\ ready' = FALSE
    /\ call' = [Left EXCEPT ![c] = Request([op |-> "me"], token')]
    /\ UNCHANGED <<setting, server, clicks>>

\* rotate keeps the new key and lists the keys again.
Rotated(c) ==
    /\ call[c].at = "answered" /\ call[c].code = "ok" /\ call[c].deed.op = "rotate"
    /\ skTest' = IF IsTestSecret(c) THEN call[c].key ELSE skTest
    /\ call' = [call EXCEPT ![c] = [Request([op |-> "keys"], token) EXCEPT !.own = call[c].own]]
    /\ UNCHANGED <<setting, server, token, tab, clicks>>

Done(c) ==
    /\ call[c].at = "answered" /\ call[c].code = "ok"
    /\ call[c].deed.op \notin Enters \cup {"rotate"}
    /\ page' = IF Guards(c) THEN "home" ELSE page
    /\ ready' = (ready \/ Guards(c) \/ (call[c].own /\ call[c].deed.op \in {"keys", "settings"}))
    /\ call' = [call EXCEPT ![c] = Free]
    /\ UNCHANGED <<setting, server, storage, clicks>>

(***************************************************************************)
(* Time and faults.                                                        *)
(***************************************************************************)
\* The request or its answer is lost, or the page is reloaded under it.
Lost(c) ==
    /\ Fault("lost") /\ call[c] # Free
    /\ call' = [call EXCEPT ![c] = Free]
    /\ IF page = "loading" THEN page' = "login" /\ ready' = TRUE ELSE UNCHANGED tab
    /\ UNCHANGED <<setting, server, storage, clicks>>

Expires ==
    /\ Fault("expires") /\ stale < Len(issued)
    /\ stale' = Len(issued)
    /\ UNCHANGED <<setting, account, issued, storage, tab, call, clicks>>

Quiet ==
    /\ clicks = setting.clicks /\ \A c \in Calls : call[c] = Free
    /\ UNCHANGED vars

Next ==
    \/ \E c \in Calls :
         \/ \E deed \in Deeds : Submit(c, deed)
         \/ Open(c) \/ \E p \in NAV : GoAndLoad(c, p)
         \/ /\ \/ Register(c) \/ Login(c) \/ Me(c) \/ SetProfile(c) \/ SetPassword(c)
               \/ Rotate(c) \/ UseKey(c)
            /\ UNCHANGED <<setting, storage, tab, clicks>>
         \/ Refused(c) \/ Welcome(c) \/ Rotated(c) \/ Done(c) \/ Lost(c)
    \/ \E p \in AuthPages \cup NAV : Go(p)
    \/ Logout \/ Expires \/ Quiet

Spec == Init /\ [][Next]_vars

(***************************************************************************)
(* Properties.                                                             *)
(***************************************************************************)
\* The shape of the accounts, of localStorage and of the tab.
TypeOK ==
    /\ account \in [Merchants -> [password : 0..2, test : Nat, live : Nat]]
    /\ issued \in Seq(Merchants) /\ stale \in 0..Len(issued) /\ token \in 0..Len(issued)
    /\ skTest.of \in Merchants \cup {"none"}
    /\ page \in AuthPages \cup NAV \cup {"loading"} /\ ready \in BOOLEAN
    /\ \A c \in Calls : call[c].at \in {"free", "sent", "answered"}

\* The key in the browser is a test key the server takes, unless its successor is in
\* an answer on the way: through logins, refusals, expiry and rotations of every kind,
\* as long as the user waits for each answer and none is lost.
KeyWorks ==
    \/ {"overlap", "lost"} \cap setting.faults # {}
    \/ skTest = NoTestKey
    \/ requireApiKey(skTest) = "ok"
    \/ \E c \in Calls : call[c].at = "answered" /\ call[c].deed.op = "rotate"
=============================================================================
