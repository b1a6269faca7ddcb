----------------------------- MODULE WebSessions -----------------------------
(***************************************************************************)
(* The sessions of the two web portals, web-business and web-admin, in one *)
(* browser: sign-in at Keycloak, the session cookie made by the callback,  *)
(* the second factor of the business portal, and what each middleware lets *)
(* pass.  Requests carry the cookies of the moment they leave, and answers *)
(* set cookies when they arrive, in whatever order.                        *)
(***************************************************************************)
EXTENDS Naturals, FiniteSets

CONSTANTS
    Members,    \* who can sign in at Keycloak
    RolesOf,    \* member -> roles in his token
    Slots,      \* bound on the requests in flight
    SignIns,    \* bound on the sign-ins begun
    Settings    \* the environments to consider, see Setting

Portals == {"business", "admin"}

FaultKinds == { "overlap",  \* several requests are in flight
                "expires" } \* cookies reach their age

\* The portal, how often the user clicks, and the sections he visits.
Setting ==
    [faults : SUBSET FaultKinds, portal : Portals, clicks : Nat, sections : SUBSET STRING]

SECTION_ROLES ==
    [ users        |-> {"SUPER_ADMIN", "SUPPORT_L1", "SUPPORT_L2"},
      transactions |-> {"SUPER_ADMIN", "SUPPORT_L1", "SUPPORT_L2", "FINANCE_MANAGER"},
      kyc          |-> {"SUPER_ADMIN", "COMPLIANCE_OFFICER"},
      aml          |-> {"SUPER_ADMIN", "COMPLIANCE_OFFICER"},
      agents       |-> {"SUPER_ADMIN", "OPS_AGENT_MANAGER"},
      audit        |-> {"SUPER_ADMIN", "FINANCE_MANAGER"},
      reporting    |-> {"SUPER_ADMIN", "FINANCE_MANAGER"} ]

SessionsAssumption == Slots \subseteq Nat /\ SignIns \in Nat /\ Settings \subseteq Setting

VARIABLES
    setting,   \* the environment of this behaviour; never changes
    cookie,    \* the portal's session cookie, or NoSession
    oidc,      \* the cookie of the sign-in begun last: its state, 0 if none
    begun,     \* sign-ins begun so far; their states are 1, 2, ...
    keycloak,  \* states whose browser is at Keycloak's page
    request,   \* slot -> request in flight
    passed,    \* history: states of the sessions a right code was accepted for
    shown,     \* history: the session of the page shown last, and its section
    clicks     \* what the user did so far

vars == <<setting, cookie, oidc, begun, keycloak, request, passed, shown, clicks>>

Free == [op |-> "free"]
NoSession == [of |-> 0, who |-> "nobody", roles |-> {}, twoFactorVerified |-> FALSE]
Nothing == [section |-> "none", session |-> NoSession]

Idle ==
    /\ cookie = NoSession /\ oidc = 0 /\ begun = 0 /\ keycloak = {}
    /\ request = [s \in Slots |-> Free] /\ passed = {} /\ shown = Nothing /\ clicks = 0

Init == setting \in Settings /\ Idle

Business == setting.portal = "business"

(***************************************************************************)
(* The browser.                                                            *)
(***************************************************************************)
\* session and oidc: the cookies it carries; out: the cookie its answer sets.
Request(op, arg) ==
    [op |-> op, arg |-> arg, session |-> cookie, oidc |-> oidc, served |-> FALSE,
     out |-> [sets |-> FALSE]]

Send(s, op, arg) ==
    /\ request[s] = Free /\ \A t \in Slots : t < s => request[t] # Free
    /\ "overlap" \in setting.faults \/ \A t \in Slots : request[t] = Free
    /\ request' = [request EXCEPT ![s] = Request(op, arg)]

Click == clicks < setting.clicks /\ clicks' = clicks + 1

\* /api/auth/login: a link of the admin's page; the business page has none.
SignIn(s) ==
    /\ Click /\ begun < SignIns /\ begun' = begun + 1 /\ Send(s, "login", begun + 1)
    /\ UNCHANGED <<setting, cookie, oidc, keycloak, passed, shown>>

\* The form of the business portal's login page.
SubmitCode(s, code) ==
    /\ Click /\ Business /\ Send(s, "2fa", code)
    /\ UNCHANGED <<setting, cookie, oidc, begun, keycloak, passed, shown>>

Logout(s) ==
    /\ Click /\ shown # Nothing /\ Send(s, "logout", 0)
    /\ UNCHANGED <<setting, cookie, oidc, begun, keycloak, passed, shown>>

\* The links of the dashboard.
Sections ==
    IF Business THEN {"overview", "payments", "bulk", "reports", "settings"}
    ELSE {"overview"} \cup DOMAIN SECTION_ROLES

\* Keycloak knows its user, and sends the browser back with the state it came with.
Authenticate(s, n, who) ==
    /\ n \in keycloak /\ Send(s, "callback", [state |-> n, who |-> who])
    /\ keycloak' = keycloak \ {n}
    /\ UNCHANGED <<setting, cookie, oidc, begun, passed, shown, clicks>>

(***************************************************************************)
(* The routes.                                                             *)
(***************************************************************************)
Answer(s, out) == request' = [request EXCEPT ![s].served = TRUE, ![s].out = out]
SetsNothing == [sets |-> FALSE]
Sets(session) == [sets |-> TRUE, session |-> session]

ServeLogin(s) ==
    /\ request[s].op = "login"
    /\ Answer(s, [sets |-> TRUE, oidc |-> request[s].arg])
    /\ UNCHANGED <<setting, cookie, oidc, begun, keycloak, passed, shown, clicks>>

\* Mutant of NewSession: the session of before is spread into the new one.
NewSessionKeeps(old, n, who) ==
    [of |-> n, who |-> who, roles |-> {}, twoFactorVerified |-> old.twoFactorVerified]

NewSession(old, n, who) == [of |-> n, who |-> who, roles |-> {}, twoFactorVerified |-> FALSE]

\* The state must be that of the cookie; what else is wrong answers the login page.
BusinessCallback(s) ==
    LET r == request[s]
    IN  /\ r.op = "callback" /\ Business
        /\ Answer(s, IF r.oidc = r.arg.state
                     THEN Sets(NewSession(r.session, r.arg.state, r.arg.who)) ELSE SetsNothing)
        /\ UNCHANGED <<setting, cookie, oidc, begun, keycloak, passed, shown, clicks>>

\* ... and the nonce with it; the session has the roles of the token.
AdminCallback(s) ==
    LET r == request[s]
    IN  /\ r.op = "callback" /\ ~ Business
        /\ Answer(s, IF r.oidc = r.arg.state
                     THEN Sets([of |-> r.arg.state, who |-> r.arg.who,
                                roles |-> RolesOf[r.arg.who], twoFactorVerified |-> FALSE])
                     ELSE SetsNothing)
        /\ UNCHANGED <<setting, cookie, oidc, begun, keycloak, passed, shown, clicks>>

Codes == {"right", "wrong"}

\* Right for the effective secret: the one the request names, else the environment's.
\* Without any secret the route answers 500, which sets as little as a wrong code.
verify(code) == code = "right"

\* A right code marks the session the request carries; without one it makes a cookie
\* that no sign-in made, whose state is 0.
ServeCode(s) ==
    LET r == request[s]
    IN  /\ r.op = "2fa"
        /\ Answer(s, IF verify(r.arg) THEN Sets([r.session EXCEPT !.twoFactorVerified = TRUE])
                     ELSE SetsNothing)
        /\ passed' = IF verify(r.arg) THEN passed \cup {r.session.of} ELSE passed
        /\ UNCHANGED <<setting, cookie, oidc, begun, keycloak, shown, clicks>>

\* It deletes the cookie; where Next refuses to redirect to a path, it answers 500.
ServeLogout(s) ==
    /\ request[s].op = "logout"
    /\ \E out \in {Sets(NoSession), SetsNothing} : Answer(s, out)
    /\ UNCHANGED <<setting, cookie, oidc, begun, keycloak, passed, shown, clicks>>

(***************************************************************************)
(* The middlewares, before any page of the dashboard.                      *)
(***************************************************************************)
canAccessSection(section, roles) ==
    section \in DOMAIN SECTION_ROLES /\ SECTION_ROLES[section] \cap roles # {}

MayShow(section, session) ==
    IF Business THEN session.twoFactorVerified
    ELSE session # NoSession /\ (section = "overview" \/ canAccessSection(section, session.roles))

\* Shown, or redirected to the login page.
Visit(section) ==
    /\ Click /\ section \in setting.sections
    /\ shown' = IF MayShow(section, cookie) THEN [section |-> section, session |-> cookie]
                ELSE Nothing
    /\ UNCHANGED <<setting, cookie, oidc, begun, keycloak, request, passed>>

(***************************************************************************)
(* The answers, and the age of the cookie.                                 *)
(***************************************************************************)
Receive(s) ==
    LET r == request[s]
    IN  /\ r # Free /\ r.served
        /\ request' = [request EXCEPT ![s] = Free]
        /\ IF r.op = "login"
             THEN oidc' = r.out.oidc /\ keycloak' = keycloak \cup {r.out.oidc} /\ UNCHANGED cookie
             ELSE /\ cookie' = IF r.out.sets THEN r.out.session ELSE cookie
                  /\ UNCHANGED <<oidc, keycloak>>
        /\ UNCHANGED <<setting, begun, passed, shown, clicks>>

Expires ==
    /\ "expires" \in setting.faults /\ cookie # NoSession
    /\ cookie' = NoSession
    /\ UNCHANGED <<setting, oidc, begun, keycloak, request, passed, shown, clicks>>

Rest == (\A s \in Slots : request[s] = Free) /\ UNCHANGED vars

Serve(s) ==
    /\ request[s] # Free /\ ~ request[s].served
    /\ ServeLogin(s) \/ BusinessCallback(s) \/ AdminCallback(s) \/ ServeCode(s) \/ ServeLogout(s)

Next ==
    \/ \E s \in Slots :
         \/ SignIn(s) \/ Logout(s) \/ Serve(s) \/ Receive(s)
         \/ \E code \in Codes : SubmitCode(s, code)
         \/ \E n \in keycloak, who \in Members : Authenticate(s, n, who)
    \/ \E section \in Sections : Visit(section)
    \/ Expires \/ Rest

Spec == Init /\ [][Next]_vars

(***************************************************************************)
(* Properties.                                                             *)
(***************************************************************************)
\* The shape of the cookies.
TypeOK ==
    /\ cookie.of \in 0..SignIns /\ cookie.who \in Members \cup {"nobody"}
    /\ keycloak \subseteq 1..begun /\ passed \subseteq 0..begun
    /\ oidc \in 0..begun

\* The business portal shows no page to a session unless a right code was accepted with
\* that session's cookie: one accepted with an earlier sign-in of the same browser does
\* not count for the later one, whatever late answers bring back.  A code accepted with
\* no cookie counts for the cookie it makes (of = 0), so a page may be shown to a browser
\* without any sign-in; it never counts for a sign-in.  And no section of the back-office
\* is shown to a member without a role for it, whoever used the browser before him.
ShownIsAllowed ==
    shown # Nothing =>
      IF Business THEN shown.session.of \in passed
      ELSE shown.section = "overview"
             \/ \E r \in RolesOf[shown.session.who] : r \in SECTION_ROLES[shown.section]
=============================================================================
