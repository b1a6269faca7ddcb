---------------------------- MODULE PaymentPages ----------------------------
(***************************************************************************)
(* The dashboard's pages of payments in one browser: the overview, the     *)
(* list with its filter and its form, and the detail of a payment, which   *)
(* asks for it every three seconds while it is under way.  Calls overlap,  *)
(* get lost, and are answered in any order; payments move by themselves.   *)
(***************************************************************************)
EXTENDS Naturals, Sequences, FiniteSets, SequencesExt

CONSTANTS
    Rows,        \* bound on the payments created
    Keys,        \* idempotency keys
    NoKey,       \* the form's field left empty
    Slots,       \* bound on the calls in flight: a tick waits for one that is free
    MaxPolls,    \* 10: the poll after these is the last
    PageLimit,   \* payments of a list
    RecentLimit, \* payments of the overview
    Settings     \* the environments to consider, see Setting

\* no key: the browser has no sk_test, so that apiV1 throws before it calls.
FaultKinds == {"no key"}

\* How many calls are lost, what the user clicks and how often, how many payments
\* there are at first, and to which statuses customers bring them.
Setting == [faults : SUBSET FaultKinds, lost : Nat, clicks : Nat, deeds : SUBSET STRING,
            found : Nat, ends : SUBSET STRING]

PagesAssumption ==
    /\ MaxPolls \in Nat /\ PageLimit \in Nat /\ RecentLimit \in Nat
    /\ Settings \subseteq Setting /\ \A s \in Settings : s.found <= Rows

VARIABLES
    setting,  \* the environment of this behaviour; never changes
    rows,     \* payments, oldest first: status and key
    tab,      \* the page: "overview", "list", "detail", "elsewhere"
    filter,   \* of the list
    modal,    \* the form: "closed", "open", "busy"
    list,     \* of the list page: what it got, or Loading
    stats,    \* of the overview, likewise
    pay,      \* of the detail: the payment it got
    err,      \* the detail shows an error instead
    timer,    \* setInterval of the detail: whether it is on, and n
    call,     \* slot -> call in flight
    going,    \* the payment the browser is sent to in 250 ms, or 0
    lost,     \* calls lost so far
    clicks    \* what the user did so far

view == <<tab, filter, modal, list, stats, pay, err, timer, going>>
vars == <<setting, rows, view, call, lost, clicks>>

NoPay == [id |-> 0, status |-> "none"]
Loading == <<NoPay>>
NoStats == [count |-> 0, succeeded |-> 0, recent |-> Loading]
NoTimer == [on |-> FALSE, n |-> 0]
Free == [op |-> "free"]

ACTIVE == {"pending", "processing"}

TRANSITIONS == [s \in {"pending", "processing", "succeeded", "failed", "cancelled", "expired"} |->
    CASE s = "pending" -> {"processing", "cancelled", "succeeded", "failed", "expired"}
      [] s = "processing" -> {"succeeded", "failed", "expired"}
      [] OTHER -> {}]

Idle ==
    /\ rows = << >> /\ tab = "elsewhere" /\ filter = "" /\ modal = "closed"
    /\ list = Loading /\ stats = NoStats /\ pay = NoPay /\ err = FALSE /\ timer = NoTimer
    /\ call = [s \in Slots |-> Free] /\ going = 0 /\ lost = 0 /\ clicks = 0

Init == setting \in Settings /\ Idle

(***************************************************************************)
(* Calls.                                                                  *)
(***************************************************************************)
\* got: what the server answered; live: the component that asked is still mounted;
\* own: the interval, or the page of the form, that it belongs to is still there.
Call(op, arg) ==
    [op |-> op, arg |-> arg, served |-> FALSE, got |-> <<0>>, live |-> TRUE, own |-> TRUE]

\* apiV1 needs the secret test key, request does not.
HasKey == "no key" \notin setting.faults

\* What the end of a page does to its calls.
Left(c) == IF c = Free THEN c ELSE [c EXCEPT !.live = FALSE, !.own = FALSE]

\* The page is another: its state is new, and its effect sends the first call.
Mount(s, to, first, form) ==
    /\ tab' = to /\ filter' = "" /\ modal' = form
    /\ list' = IF to = "list" /\ ~ HasKey THEN << >> ELSE Loading
    /\ stats' = NoStats /\ pay' = NoPay /\ err' = FALSE /\ timer' = NoTimer
    /\ call' = [t \in Slots |-> IF t # s THEN Left(call[t])
                                ELSE IF first.op = "list" /\ ~ HasKey THEN Free ELSE first]

(***************************************************************************)
(* What the user does.                                                     *)
(***************************************************************************)
Click(deed) ==
    /\ clicks < setting.clicks /\ deed \in setting.deeds
    /\ clicks' = clicks + 1
    /\ UNCHANGED <<setting, rows, lost>>

GoOverview(s) ==
    /\ Click("overview") /\ tab # "overview" /\ call[s] = Free
    /\ Mount(s, "overview", Call("stats", ""), "closed") /\ UNCHANGED going

\* The navigation, the way back from a detail, and the overview's button.
GoList(s, form) ==
    /\ Click("list") /\ tab # "list" /\ call[s] = Free /\ (form = "closed" \/ tab = "overview")
    /\ Mount(s, "list", Call("list", ""), form) /\ UNCHANGED going

Shown == IF tab = "list" /\ list # Loading THEN list
         ELSE IF tab = "overview" /\ stats # NoStats THEN stats.recent ELSE << >>

Open(s) ==
    /\ Click("open") /\ call[s] = Free
    /\ \E x \in DOMAIN Shown : Mount(s, "detail", Call("load", Shown[x].id), "closed")
    /\ UNCHANGED going

Filter(s, status) ==
    /\ Click("filter") /\ tab = "list" /\ status # filter /\ call[s] = Free
    /\ filter' = status
    /\ list' = IF HasKey THEN Loading ELSE << >>
    /\ call' = IF HasKey THEN [call EXCEPT ![s] = Call("list", status)] ELSE call
    /\ UNCHANGED <<tab, modal, stats, pay, err, timer, going>>

\* The button of the page or of the empty list, and the form's own.
ShowForm == Click("form") /\ tab = "list" /\ modal = "closed" /\ modal' = "open"
            /\ UNCHANGED <<tab, filter, list, stats, pay, err, timer, going, call>>
CloseForm == Click("form") /\ modal # "closed" /\ modal' = "closed"
             /\ call' = [s \in Slots |-> IF call[s] # Free /\ call[s].op = "create"
                                         THEN [call[s] EXCEPT !.live = FALSE] ELSE call[s]]
             /\ UNCHANGED <<tab, filter, list, stats, pay, err, timer, going>>

\* An order that the server takes, or one that it refuses.
Submit(s, order) ==
    /\ Click("create") /\ modal = "open" /\ HasKey /\ call[s] = Free /\ Len(rows) < Rows
    /\ modal' = "busy" /\ call' = [call EXCEPT ![s] = Call("create", order)]
    /\ UNCHANGED <<tab, filter, list, stats, pay, err, timer, going>>

\* The buttons of the sandbox are there while the payment shown is under way.
Simulate(s, action) ==
    /\ Click("simulate") /\ tab = "detail" /\ ~ err /\ pay.status \in ACTIVE /\ HasKey
    /\ call[s] = Free
    /\ call' = [call EXCEPT ![s] = Call(action, pay.id)]
    /\ UNCHANGED view

(***************************************************************************)
(* The server.                                                             *)
(***************************************************************************)
\* Newest first.
Newer(status, found, x) ==
    IF status = "" \/ rows[x].status = status
    THEN <<[id |-> x, status |-> rows[x].status]>> \o found ELSE found

listPayments(status, limit) ==
    LET wanted == FoldLeftDomain(LAMBDA found, x : Newer(status, found, x), << >>, rows)
    IN  SubSeq(wanted, 1, IF Len(wanted) < limit THEN Len(wanted) ELSE limit)

StatsNow ==
    [count |-> Len(rows),
     succeeded |-> Cardinality({x \in DOMAIN rows : rows[x].status = "succeeded"}),
     recent |-> listPayments("", RecentLimit)]

\* A known key gives the payment it made.
createPayment(order) ==
    LET same == {x \in DOMAIN rows : order.key # NoKey /\ rows[x].key = order.key}
    IN  CASE ~ order.valid -> [rows |-> rows, id |-> 0]
          [] order.valid /\ same # {} -> [rows |-> rows, id |-> CHOOSE x \in same : TRUE]
          [] OTHER -> [rows |-> Append(rows, [status |-> "pending", key |-> order.key]),
                       id |-> Len(rows) + 1]

Target == [approve |-> "succeeded", fail |-> "failed", expire |-> "expired"]

\* approve goes by processing, which is always on the way to succeeded.
Simulated(x, action) ==
    IF Target[action] \in TRANSITIONS[rows[x].status]
    THEN [rows |-> [rows EXCEPT ![x].status = Target[action]], id |-> x]
    ELSE [rows |-> rows, id |-> 0]

\* One route, run to its end.
Serve(s) ==
    LET c == call[s]
        Answer(got, after) ==
            rows' = after /\ call' = [call EXCEPT ![s].got = got, ![s].served = TRUE]
    IN  /\ c # Free /\ ~ c.served
        /\ CASE c.op = "list" -> Answer(listPayments(c.arg, PageLimit), rows)
             [] c.op = "stats" -> Answer(StatsNow, rows)
             [] c.op \in {"load", "poll"} ->
                  Answer([id |-> c.arg, status |-> rows[c.arg].status], rows)
             [] c.op = "create" -> LET r == createPayment(c.arg) IN Answer(<<r.id>>, r.rows)
             [] c.op \in DOMAIN Target ->
                  LET r == Simulated(c.arg, c.op) IN Answer(<<r.id>>, r.rows)
        /\ UNCHANGED <<setting, view, lost, clicks>>

\* Payments there were before, made with a key, and the customers at their checkout pages.
Find ==
    /\ rows = << >> /\ setting.found > 0
    /\ rows' = [x \in 1..setting.found |-> [status |-> "pending", key |-> CHOOSE k \in Keys : TRUE]]
    /\ UNCHANGED <<setting, view, call, lost, clicks>>

Advance(x) ==
    /\ \E to \in TRANSITIONS[rows[x].status] \cap setting.ends :
         rows' = [rows EXCEPT ![x].status = to]
    /\ UNCHANGED <<setting, view, call, lost, clicks>>

(***************************************************************************)
(* The answers.                                                            *)
(***************************************************************************)
\* Mutant of LastPoll: one poll less.
LastPollEarly(n) == n >= MaxPolls

\* The interval is cleared when the answer of this poll has come.
LastPoll(n) == n > MaxPolls

\* setPay: another status ends the interval, and begins a new one if it is active.
SetPay(s, new, after) ==
    /\ pay' = new
    /\ timer' = IF new.status # pay.status
                THEN [on |-> new.status \in ACTIVE, n |-> 0] ELSE after
    /\ call' = [t \in Slots |->
           IF t = s THEN Free
           ELSE IF call[t] # Free /\ new.status # pay.status
             THEN [call[t] EXCEPT !.own = FALSE] ELSE call[t]]

\* A poll has its answer, or its error: the interval that sent it may be over.
AfterPoll(c) == IF c.own /\ LastPoll(timer.n) THEN NoTimer ELSE timer

Done(s) == call' = [call EXCEPT ![s] = Free]

\* onCreated: the list is loaded again, and the browser is on its way to the payment;
\* also when the user has left the page meanwhile, to which setParams brings him back.
Created(s, x) ==
    /\ going' = x
    /\ CASE call[s].own ->
              /\ modal' = "closed" /\ call' = [call EXCEPT ![s] = Call("list", filter)]
              /\ UNCHANGED <<tab, filter, list, stats, pay, err, timer>>
         [] ~ call[s].own /\ tab = "list" ->
              Done(s) /\ UNCHANGED <<tab, filter, modal, list, stats, pay, err, timer>>
         [] ~ call[s].own /\ tab # "list" -> Mount(s, "list", Call("list", ""), "closed")

Receive(s) ==
    LET c == call[s]
    IN  /\ c # Free /\ c.served
        /\ CASE ~ c.live /\ (c.op # "create" \/ c.got = <<0>>) -> Done(s) /\ UNCHANGED view
             [] c.live /\ c.op = "list" ->
                  list' = c.got /\ Done(s)
                    /\ UNCHANGED <<tab, filter, modal, stats, pay, err, timer, going>>
             [] c.live /\ c.op = "stats" ->
                  stats' = c.got /\ Done(s)
                    /\ UNCHANGED <<tab, filter, modal, list, pay, err, timer, going>>
             [] c.live /\ c.op = "load" ->
                  SetPay(s, c.got, timer) /\ err' = FALSE
                    /\ UNCHANGED <<tab, filter, modal, list, stats, going>>
             [] c.live /\ c.op = "poll" ->
                  SetPay(s, c.got, AfterPoll(c))
                    /\ UNCHANGED <<tab, filter, modal, list, stats, err, going>>
             [] c.op = "create" /\ c.got # <<0>> -> Created(s, c.got[1])
             [] c.live /\ c.op = "create" /\ c.got = <<0>> ->
                  modal' = "open" /\ Done(s)
                    /\ UNCHANGED <<tab, filter, list, stats, pay, err, timer, going>>
             [] c.live /\ c.op \in DOMAIN Target ->
                  /\ call' = [call EXCEPT ![s] =
                         IF c.got = <<0>> THEN Free ELSE Call("load", c.arg)]
                  /\ UNCHANGED view
        /\ UNCHANGED <<setting, rows, lost, clicks>>

\* The request or its answer is lost: fetch throws.
Lose(s) ==
    LET c == call[s]
    IN  /\ c # Free /\ lost < setting.lost
        /\ lost' = lost + 1 /\ Done(s)
        /\ list' = IF c.live /\ c.op = "list" THEN << >> ELSE list
        /\ err' = (err \/ (c.live /\ c.op = "load"))
        /\ timer' = IF c.live /\ c.op = "poll" THEN AfterPoll(c) ELSE timer
        /\ modal' = IF c.live /\ c.op = "create" THEN "open" ELSE modal
        /\ UNCHANGED <<setting, rows, tab, filter, stats, pay, going, clicks>>

(***************************************************************************)
(* Timers.                                                                 *)
(***************************************************************************)
Tick(s) ==
    /\ timer.on /\ call[s] = Free
    /\ timer' = [timer EXCEPT !.n = IF @ > MaxPolls THEN @ ELSE @ + 1]
    /\ call' = [call EXCEPT ![s] = Call("poll", pay.id)]
    /\ UNCHANGED <<setting, rows, tab, filter, modal, list, stats, pay, err, going, lost, clicks>>

\* window.location.href: the application starts anew, and knows no call of before.
Go(s) ==
    /\ going # 0 /\ call[s] = Free
    /\ Mount(s, "detail", Call("load", going), "closed")
    /\ \A t \in Slots \ {s} : call[t] = Free \/ call[t].op # "create"
    /\ going' = 0
    /\ UNCHANGED <<setting, rows, lost, clicks>>

\* The user does nothing, or nothing more.
Rest == (\A s \in Slots : call[s] = Free) /\ UNCHANGED vars

Orders == [valid : {TRUE}, key : Keys \cup {NoKey}] \cup [valid : {FALSE}, key : {NoKey}]

Next ==
    \/ \E s \in Slots :
         \/ GoOverview(s) \/ Open(s) \/ \E form \in {"closed", "open"} : GoList(s, form)
         \/ \E status \in {"", "pending", "succeeded"} : Filter(s, status)
         \/ \E order \in Orders : Submit(s, order)
         \/ \E action \in DOMAIN Target : Simulate(s, action)
         \/ Serve(s) \/ Receive(s) \/ Lose(s) \/ Tick(s) \/ Go(s)
    \/ ShowForm \/ CloseForm \/ Find \/ \E x \in DOMAIN rows : Advance(x)
    \/ Rest

\* The server answers what it is asked, the network brings the answer, the interval ticks.
Fairness ==
    /\ \A s \in Slots : WF_vars(Serve(s)) /\ WF_vars(Receive(s))
    /\ WF_vars(\E s \in Slots : Tick(s))

Spec == Init /\ [][Next]_vars /\ Fairness

(***************************************************************************)
(* Properties.                                                             *)
(***************************************************************************)
\* The shape of the pages.
TypeOK ==
    /\ tab \in {"elsewhere", "overview", "list", "detail"} /\ modal \in {"closed", "open", "busy"}
    /\ pay.status \in DOMAIN TRANSITIONS \cup {"none"}
    /\ timer.n \in 0..(MaxPolls + 1)
    /\ timer.on => tab = "detail" /\ pay.status \in ACTIVE
    /\ going \in 0..Len(rows)

Ended(x) == rows[x].status \notin ACTIVE
PollsLeft == timer.on /\ timer.n + setting.lost - lost <= MaxPolls

\* A payment that ends while its page has polls left, more than will be lost, is shown
\* ended on it, unless the user leaves or the page shows an error: also when an older
\* answer comes after a newer one, and whatever interval was cleared on the way.
DetailFollows ==
    (pay # NoPay /\ Ended(pay.id) /\ PollsLeft)
      ~> (pay = NoPay \/ err \/ (pay # NoPay /\ pay.status = rows[pay.id].status))
=============================================================================
