-------------------------------- MODULE Auth --------------------------------
(***************************************************************************)
(* api-core's AuthService: registration, the one-time password that        *)
(* verifies a phone, login with its lockout after three failures, the      *)
(* refresh of tokens and the change of the MPIN.  Handlers interleave at   *)
(* every await; the counter and the lock are Redis keys with a time to     *)
(* live, the user is a row.                                                *)
(***************************************************************************)
EXTENDS Naturals, FiniteSets

CONSTANTS
    Phones,
    Handlers,      \* concurrent request handlers
    NoRequest,     \* request of an idle handler
    Requests,      \* what clients ask
    LockoutAfter,  \* LOCKOUT_AFTER
    Settings       \* the environments to consider, see Setting

FaultKinds ==
    { "overlap",      \* requests about one phone are served at the same time
      "dies",         \* a handler ends at an await: crash, Redis or Prisma error
      "slow",         \* a handler waits for Redis as long as a lock lasts, 30 minutes
      "code late" }   \* the 5 minutes of a one-time password elapse unused

\* `right' says whether the password or the code is the right one, and the old MPIN
\* right or left out.
Request == [op : {"register", "login", "verify", "refresh", "mpin"}, phone : Phones, right : BOOLEAN]

\* An environment: what may fail, and the bound on how often each request is made.
Setting == [faults : SUBSET FaultKinds, sends : [Requests -> Nat]]

AuthAssumption ==
    /\ IsFiniteSet(Handlers)
    /\ Requests \subseteq Request /\ NoRequest \notin Requests
    /\ LockoutAfter \in Nat \ {0}
    /\ Settings \subseteq Setting

VARIABLES
    setting,   \* the environment of this behaviour; never changes
    user,      \* phone -> its User row
    otp,       \* phones with a LOGIN code in force
    lock,      \* phones with a key auth:lock
    fails,     \* phone -> auth:fail
    timed,     \* phones whose auth:fail has an expiry
    tokens,    \* tokens in force, refresh tokens by phone
    pc, req,   \* handler -> where it is, and the request it serves
    sent,      \* request -> how often it was made
    guesses    \* history: wrong passwords tested since auth:fail last started over

redis == <<otp, lock, fails, timed>>
vars == <<setting, user, redis, tokens, pc, req, sent, guesses>>

\* mpin: how often it was set; it starts unset.
NoUser == [status |-> "NONE", verified |-> FALSE, mpin |-> 0]

Fault(kind) == kind \in setting.faults

Idle ==
    /\ user = [p \in Phones |-> NoUser]
    /\ otp = {} /\ lock = {} /\ timed = {} /\ tokens = {}
    /\ fails = [p \in Phones |-> 0]
    /\ pc = [h \in Handlers |-> "idle"]
    /\ req = [h \in Handlers |-> NoRequest]
    /\ sent = [r \in Requests |-> 0]
    /\ guesses = [p \in Phones |-> 0]

Init == setting \in Settings /\ Idle

Goto(h, label) == pc' = [pc EXCEPT ![h] = label] /\ UNCHANGED req
End(h) == pc' = [pc EXCEPT ![h] = "idle"] /\ req' = [req EXCEPT ![h] = NoRequest]

FirstLabel == [register |-> "find", login |-> "lock?", verify |-> "code?", refresh |-> "token?",
               mpin |-> "mpin?"]

Receive(h, r) ==
    /\ pc[h] = "idle"
    /\ sent[r] < setting.sends[r]
    /\ Fault("overlap") \/ \A g \in Handlers : pc[g] # "idle" => req[g].phone # r.phone
    /\ sent' = [sent EXCEPT ![r] = @ + 1]
    /\ pc' = [pc EXCEPT ![h] = FirstLabel[r.op]]
    /\ req' = [req EXCEPT ![h] = r]
    /\ UNCHANGED <<setting, user, redis, tokens, guesses>>

(***************************************************************************)
(* register: look the phone up, insert User, Wallet and KycRecord in one   *)
(* transaction whose phone is UNIQUE, send the code.                       *)
(***************************************************************************)
FindPhone(h) ==
    /\ pc[h] = "find"
    /\ IF user[req[h].phone] = NoUser THEN Goto(h, "insert") ELSE End(h)
    /\ UNCHANGED <<setting, user, redis, tokens, sent, guesses>>

InsertUser(h) ==
    LET p == req[h].phone
    IN  /\ pc[h] = "insert"
        /\ IF user[p] = NoUser
             THEN /\ user' = [user EXCEPT ![p] = [NoUser EXCEPT !.status = "ACTIVE"]]
                  /\ Goto(h, "send")
             ELSE End(h) /\ UNCHANGED user
        /\ UNCHANGED <<setting, redis, tokens, sent, guesses>>

SendOtp(h) ==
    /\ pc[h] = "send"
    /\ otp' = otp \cup {req[h].phone}
    /\ End(h)
    /\ UNCHANGED <<setting, user, lock, fails, timed, tokens, sent, guesses>>

(***************************************************************************)
(* verifyOtp: compare, delete, mark the phone verified.                    *)
(***************************************************************************)
CompareCode(h) ==
    /\ pc[h] = "code?"
    /\ IF req[h].phone \in otp /\ req[h].right THEN Goto(h, "code del") ELSE End(h)
    /\ UNCHANGED <<setting, user, redis, tokens, sent, guesses>>

DeleteCode(h) ==
    /\ pc[h] = "code del"
    /\ otp' = otp \ {req[h].phone}
    /\ Goto(h, "verified")
    /\ UNCHANGED <<setting, user, lock, fails, timed, tokens, sent, guesses>>

MarkVerified(h) ==
    /\ pc[h] = "verified"
    /\ user' = [user EXCEPT ![req[h].phone].verified = TRUE]
    /\ End(h)
    /\ UNCHANGED <<setting, redis, tokens, sent, guesses>>

(***************************************************************************)
(* login.                                                                  *)
(***************************************************************************)
CheckLock(h) ==
    /\ pc[h] = "lock?"
    /\ IF req[h].phone \in lock THEN End(h) ELSE Goto(h, "password?")
    /\ UNCHANGED <<setting, user, redis, tokens, sent, guesses>>

\* Read the row and test the password; the row as read decides what follows.
TestPassword(h) ==
    LET p == req[h].phone
    IN  /\ pc[h] = "password?"
        /\ IF user[p] = NoUser \/ ~req[h].right
             THEN Goto(h, "count") /\ guesses' = [guesses EXCEPT ![p] = @ + 1]
             ELSE /\ IF user[p].verified /\ user[p].status = "ACTIVE"
                       THEN Goto(h, "forgive") ELSE End(h)
                  /\ UNCHANGED guesses
        /\ UNCHANGED <<setting, user, redis, tokens, sent>>

AfterCountPastLimit(attempts) ==  \* mutant: one failure too many
    IF attempts = 1 THEN "expire" ELSE IF attempts > LockoutAfter THEN "lock" ELSE "idle"

\* What INCR answers decides about EXPIRE and about the lock.
AfterCount(attempts) ==
    IF attempts = 1 THEN "expire" ELSE IF attempts >= LockoutAfter THEN "lock" ELSE "idle"

CountFailure(h) ==
    LET p == req[h].phone
        next == AfterCount(fails[p] + 1)
    IN  /\ pc[h] = "count"
        /\ fails' = [fails EXCEPT ![p] = @ + 1]
        /\ IF next = "idle" THEN End(h) ELSE Goto(h, next)
        /\ UNCHANGED <<setting, user, otp, lock, timed, tokens, sent, guesses>>

ArmExpiry(h) ==
    LET p == req[h].phone
    IN  /\ pc[h] = "expire"
        /\ timed' = IF fails[p] > 0 THEN timed \cup {p} ELSE timed
        /\ IF LockoutAfter = 1 THEN Goto(h, "lock") ELSE End(h)
        /\ UNCHANGED <<setting, user, otp, lock, fails, tokens, sent, guesses>>

SetLock(h) ==
    /\ pc[h] = "lock"
    /\ lock' = lock \cup {req[h].phone}
    /\ Goto(h, "clear")
    /\ UNCHANGED <<setting, user, otp, fails, timed, tokens, sent, guesses>>

StartOver(p) == fails' = [fails EXCEPT ![p] = 0] /\ timed' = timed \ {p}

ClearFailures(h) ==
    /\ pc[h] = "clear"
    /\ StartOver(req[h].phone)
    /\ Goto(h, "status")
    /\ UNCHANGED <<setting, user, otp, lock, tokens, sent, guesses>>

\* The row says LOCKED from now on; the update of an unknown phone is caught.
LockStatus(h) ==
    LET p == req[h].phone
    IN  /\ pc[h] = "status"
        /\ user' = IF user[p] = NoUser THEN user ELSE [user EXCEPT ![p].status = "LOCKED"]
        /\ End(h)
        /\ UNCHANGED <<setting, redis, tokens, sent, guesses>>

Forgive(h) ==
    /\ pc[h] = "forgive"
    /\ StartOver(req[h].phone)
    /\ guesses' = [guesses EXCEPT ![req[h].phone] = 0]
    /\ Goto(h, "issue")
    /\ UNCHANGED <<setting, user, otp, lock, tokens, sent>>

\* The update of failedAttempts and lockedUntil, which nothing reads, then tokens.
IssueTokens(h) ==
    /\ pc[h] = "issue"
    /\ tokens' = tokens \cup {req[h].phone}
    /\ End(h)
    /\ UNCHANGED <<setting, user, redis, sent, guesses>>

(***************************************************************************)
(* refresh: a token in force of a user whose row is ACTIVE earns new ones; *)
(* the old one stays in force.                                             *)
(***************************************************************************)
MayRefresh(p) == user[p].status = "ACTIVE"

Refresh(h) ==
    LET p == req[h].phone
    IN  /\ pc[h] = "token?"
        /\ tokens' = IF req[h].right /\ MayRefresh(p) THEN tokens \cup {p} ELSE tokens
        /\ End(h)
        /\ UNCHANGED <<setting, user, redis, sent, guesses>>

(***************************************************************************)
(* changeMpin: behind the guard of the JWT.  A first MPIN needs no old     *)
(* one, and what was read decides, whoever changes it meanwhile.           *)
(***************************************************************************)
CompareMpin(h) ==
    LET p == req[h].phone
    IN  /\ pc[h] = "mpin?"
        /\ IF p \in tokens /\ (user[p].mpin = 0 \/ req[h].right) THEN Goto(h, "mpin") ELSE End(h)
        /\ UNCHANGED <<setting, user, redis, tokens, sent, guesses>>

\* The row, then an entry of the audit log.
SetMpin(h) ==
    /\ pc[h] = "mpin"
    /\ user' = [user EXCEPT ![req[h].phone].mpin = @ + 1]
    /\ End(h)
    /\ UNCHANGED <<setting, redis, tokens, sent, guesses>>

(***************************************************************************)
(* Time and faults.                                                        *)
(***************************************************************************)
CodeExpires(p) ==
    /\ p \in otp /\ Fault("code late")
    /\ otp' = otp \ {p}
    /\ UNCHANGED <<setting, user, lock, fails, timed, tokens, pc, req, sent, guesses>>

\* A handler that has set the lock deletes the counter at once, not 30 minutes later.
LockExpires(p) ==
    /\ p \in lock
    /\ Fault("slow") \/ \A h \in Handlers : pc[h] = "clear" => req[h].phone # p
    /\ lock' = lock \ {p}
    /\ guesses' = [guesses EXCEPT ![p] = 0]
    /\ UNCHANGED <<setting, user, otp, fails, timed, tokens, pc, req, sent>>

FailuresExpire(p) ==
    /\ p \in timed
    /\ StartOver(p)
    /\ guesses' = [guesses EXCEPT ![p] = 0]
    /\ UNCHANGED <<setting, user, otp, lock, tokens, pc, req, sent>>

TokenExpires(p) ==
    /\ p \in tokens
    /\ tokens' = tokens \ {p}
    /\ UNCHANGED <<setting, user, redis, pc, req, sent, guesses>>

Dies(h) ==
    /\ pc[h] # "idle" /\ Fault("dies")
    /\ End(h)
    /\ UNCHANGED <<setting, user, redis, tokens, sent, guesses>>

Quiet ==
    /\ \A h \in Handlers : pc[h] = "idle"
    /\ \A r \in Requests : sent[r] = setting.sends[r]
    /\ UNCHANGED vars

Step(h) ==
    \/ FindPhone(h) \/ InsertUser(h) \/ SendOtp(h)
    \/ CompareCode(h) \/ DeleteCode(h) \/ MarkVerified(h)
    \/ CheckLock(h) \/ TestPassword(h) \/ CountFailure(h) \/ ArmExpiry(h)
    \/ SetLock(h) \/ ClearFailures(h) \/ LockStatus(h)
    \/ Forgive(h) \/ IssueTokens(h) \/ Refresh(h)
    \/ CompareMpin(h) \/ SetMpin(h)

Next ==
    \/ \E h \in Handlers :
         \/ \E r \in Requests : Receive(h, r)
         \/ Step(h) \/ Dies(h)
    \/ \E p \in Phones :
         CodeExpires(p) \/ LockExpires(p) \/ FailuresExpire(p) \/ TokenExpires(p)
    \/ Quiet

Spec == Init /\ [][Next]_vars

(***************************************************************************)
(* Properties.                                                             *)
(***************************************************************************)
Labels ==
    { "idle", "find", "insert", "send", "code?", "code del", "verified", "lock?",
      "password?", "count", "expire", "lock", "clear", "status", "forgive", "issue",
      "token?", "mpin?", "mpin" }

\* The shape of rows, Redis keys and handlers.
TypeOK ==
    /\ user \in [Phones -> [status : {"NONE", "ACTIVE", "LOCKED"}, verified : BOOLEAN, mpin : Nat]]
    /\ otp \subseteq Phones /\ lock \subseteq Phones
    /\ timed \subseteq Phones /\ tokens \subseteq Phones
    /\ fails \in [Phones -> Nat]
    /\ pc \in [Handlers -> Labels]
    /\ req \in [Handlers -> Requests \cup {NoRequest}]

\* Three failures lock, whoever makes them: however the handlers of one phone
\* interleave around the lock, the counter and its reset, no more passwords are
\* tried between two fresh starts than the limit, plus one for every other handler
\* that was past the lock check already.  Not so when a handler dies between the test
\* and the counter, or deletes the counter when the lock it has set is gone already.
FewGuesses ==
    {"dies", "slow"} \cap setting.faults = {} =>
      \A p \in Phones : guesses[p] <= LockoutAfter - 1 + Cardinality(Handlers)

\* The lockout lasts 30 minutes, as login answers its client: once the key is gone
\* the account is open again.
LockoutEnds ==
    \A p \in Phones : user[p].status = "LOCKED" => p \in lock
=============================================================================
