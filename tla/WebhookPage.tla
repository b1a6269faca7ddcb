----------------------------- MODULE WebhookPage -----------------------------
(***************************************************************************)
(* The dashboard's page of webhooks: its list, the form of a new endpoint, *)
(* the attempts of one endpoint, and the calls they send.  Every operation *)
(* that succeeds loads the list again; operations overlap, are answered in *)
(* any order, and another tab of the same merchant does the same.          *)
(***************************************************************************)
EXTENDS Naturals, Sequences, FiniteSets, SequencesExt

CONSTANTS
    Hooks,          \* 1..n: identifiers of endpoints, given in this order
    EventTypes,     \* what an endpoint may want, "*" excepted
    Slots,          \* bound on the calls in flight
    MaxHooks,       \* maxWebhooksPerMerchant
    AttemptLimit,   \* rows of one answer; the model counts no further
    Settings        \* the environments to consider, see Setting

FaultKinds == { "lost",       \* calls fail on the way
                "reordered",  \* a list read earlier arrives later
                "other tab" } \* somebody else works on the same endpoints

Setting == [faults : SUBSET FaultKinds, found : Nat, clicks : Nat, deeds : SUBSET STRING]

PageAssumption ==
    /\ Hooks \subseteq Nat /\ MaxHooks \in Nat /\ AttemptLimit \in Nat /\ "*" \notin EventTypes
    /\ IsFiniteSet(Slots)
    \* What there was before was made within the limit.
    /\ Settings \subseteq Setting /\ \A s \in Settings : s.found <= MaxHooks

VARIABLES
    setting,   \* the environment of this behaviour; never changes
    hooks,     \* the table webhooks, oldest first: id, events, active
    attempts,  \* hook -> rows of webhook_attempts
    used,      \* identifiers given so far
    list,      \* what the page shows, or Loading
    form,      \* the form: "closed", "open" or "busy", and the events chosen
    attemptsOf,\* the endpoint whose attempts are shown, and how many it got
    call,      \* slot -> call in flight
    lost,      \* a call was lost
    clicks     \* what the user, or the other tab, did so far

table == <<hooks, attempts, used>>
view == <<list, form, attemptsOf>>
vars == <<setting, table, view, call, lost, clicks>>

Free == [op |-> "free"]
Loading == <<[id |-> 0]>>
NoForm == [at |-> "closed", events |-> {"*"}]
NoAttempts == [of |-> 0, got |-> 0]

Fault(kind) == kind \in setting.faults

Idle ==
    /\ hooks = << >> /\ attempts = [h \in Hooks |-> 0] /\ used = 0
    /\ list = Loading /\ form = NoForm /\ attemptsOf = NoAttempts
    /\ call = [s \in Slots |-> Free] /\ lost = FALSE /\ clicks = 0

Init == setting \in Settings /\ Idle

(***************************************************************************)
(* What the user does.                                                     *)
(***************************************************************************)
\* nr: the order in which lists were read; own: the form, or the window of attempts,
\* that sent it is still there; got: the answer.
Call(op, arg) ==
    [op |-> op, arg |-> arg, nr |-> 0, own |-> TRUE, served |-> FALSE, got |-> << >>]

\* A window is closed: its calls are answered to nobody.
Orphaned(op) ==
    [s \in Slots |-> IF call[s] # Free /\ call[s].op = op
                     THEN [call[s] EXCEPT !.own = FALSE] ELSE call[s]]

Click(deed) ==
    /\ used > 0 \/ setting.found = 0
    /\ clicks < setting.clicks /\ deed \in setting.deeds
    /\ clicks' = clicks + 1
    /\ UNCHANGED <<setting, table, lost>>

Send(s, op, arg) == call[s] = Free /\ call' = [call EXCEPT ![s] = Call(op, arg)]

\* The page is opened: its effect loads the list.
Mount(s) ==
    /\ Click("mount") /\ clicks = 0 /\ Send(s, "list", 0) /\ UNCHANGED view

\* A row of the list: the switch asks for the opposite of what is shown.
Row(s) ==
    /\ list # Loading
    /\ \E x \in DOMAIN list :
         \/ Click("toggle") /\ Send(s, "toggle", [id |-> list[x].id, active |-> ~ list[x].active])
         \/ \E op \in {"delete", "replay", "test"} : Click(op) /\ Send(s, op, [id |-> list[x].id])
    /\ UNCHANGED view

ShowAttempts(s) ==
    /\ Click("attempts") /\ list # Loading /\ attemptsOf = NoAttempts
    /\ \E x \in DOMAIN list :
         /\ attemptsOf' = [of |-> list[x].id, got |-> 0]
         /\ Send(s, "attempts", [id |-> list[x].id])
    /\ UNCHANGED <<list, form>>

HideAttempts ==
    /\ Click("attempts") /\ attemptsOf # NoAttempts /\ attemptsOf' = NoAttempts
    /\ call' = Orphaned("attempts")
    /\ UNCHANGED <<list, form>>

ShowForm ==
    /\ Click("form") /\ list # Loading /\ form.at = "closed"
    /\ form' = [NoForm EXCEPT !.at = "open"]
    /\ UNCHANGED <<list, attemptsOf, call>>

HideForm ==
    /\ Click("form") /\ form.at # "closed" /\ form' = NoForm
    /\ call' = Orphaned("create")
    /\ UNCHANGED <<list, attemptsOf>>

\* toggleAll and toggle.
Choose ==
    /\ Click("form") /\ form.at = "open"
    /\ \/ form' = [form EXCEPT !.events = IF "*" \in @ THEN {} ELSE {"*"}]
       \/ \E e \in EventTypes :
            form' = [form EXCEPT !.events =
                        IF "*" \in @ THEN {e} ELSE IF e \in @ THEN @ \ {e} ELSE @ \cup {e}]
    /\ UNCHANGED <<list, attemptsOf, call>>

\* No event chosen means all of them.
Submit(s) ==
    /\ Click("create") /\ form.at = "open" /\ used + 1 \in Hooks
    /\ form' = [form EXCEPT !.at = "busy"]
    /\ Send(s, "create", IF form.events = {} THEN {"*"} ELSE form.events)
    /\ UNCHANGED <<list, attemptsOf>>

(***************************************************************************)
(* The server: one step each, with what the delivery of a replayed or of a *)
(* test event waits for left to LegacyWebhooks.                            *)
(***************************************************************************)
\* Newest first.
ListNow == Reverse(hooks)

With(id) == {x \in DOMAIN hooks : hooks[x].id = id}

\* The foreign key of its attempts keeps an endpoint that was ever sent anything.
Deletable(id) == With(id) # {} /\ attempts[id] = 0

Succeeds(op, arg) ==
    CASE op = "create" -> Len(hooks) < MaxHooks /\ used + 1 \in Hooks
      [] op \in {"toggle", "test"} -> With(arg.id) # {}
      [] op = "delete" -> Deletable(arg.id)
      [] op = "replay" -> With(arg.id) # {} /\ attempts[arg.id] > 0

\* The table after an operation that succeeds.
Done(op, arg) ==
    CASE op = "create" -> Append(hooks, [id |-> used + 1, events |-> arg, active |-> TRUE])
      [] op = "toggle" -> [x \in DOMAIN hooks |-> IF hooks[x].id = arg.id
                             THEN [hooks[x] EXCEPT !.active = arg.active] ELSE hooks[x]]
      [] op = "delete" -> RemoveAt(hooks, CHOOSE x \in With(arg.id) : TRUE)
      [] op \in {"replay", "test"} -> hooks

LastNr == Cardinality({s \in Slots : call[s] # Free /\ call[s].nr > 0})

Serve(s) ==
    LET c == call[s]
        ok == Succeeds(c.op, c.arg)
        got == CASE c.op = "list" -> ListNow
                 [] c.op = "attempts" ->
                      IF With(c.arg.id) # {} THEN <<attempts[c.arg.id]>> ELSE << >>
                 [] OTHER -> IF ok THEN <<"ok">> ELSE << >>
    IN  /\ c # Free /\ ~ c.served
        /\ call' = [call EXCEPT ![s] = [c EXCEPT !.served = TRUE, !.got = got,
                                            !.nr = IF c.op = "list" THEN LastNr + 1 ELSE 0]]
        /\ IF c.op \in {"list", "attempts"} \/ ~ ok THEN UNCHANGED table
           ELSE /\ hooks' = Done(c.op, c.arg)
                /\ attempts' = IF c.op \in {"replay", "test"}
                               THEN [attempts EXCEPT ![c.arg.id] =
                                        IF @ < AttemptLimit THEN @ + 1 ELSE @]
                               ELSE attempts
                /\ used' = IF c.op = "create" THEN used + 1 ELSE used
        /\ UNCHANGED <<setting, view, lost, clicks>>

\* What there was before; and what another tab does.
Before ==
    /\ used = 0 /\ clicks = 0 /\ setting.found > 0
    /\ hooks' = [x \in 1..setting.found |-> [id |-> x, events |-> {"*"}, active |-> TRUE]]
    /\ used' = setting.found
    /\ attempts' \in {a \in [Hooks -> 0..1] : \A h \in Hooks : h > setting.found => a[h] = 0}
    /\ UNCHANGED <<setting, view, call, lost, clicks>>

OtherTab ==
    /\ Fault("other tab") /\ clicks < setting.clicks /\ clicks' = clicks + 1
    /\ \E x \in DOMAIN hooks : Deletable(hooks[x].id) /\ hooks' = RemoveAt(hooks, x)
    /\ UNCHANGED <<setting, attempts, used, view, call, lost>>

(***************************************************************************)
(* The answers.                                                            *)
(***************************************************************************)
InOrder(s) ==
    \A t \in Slots \ {s} : call[t] # Free /\ call[t].nr > 0 => call[t].nr > call[s].nr

\* Mutant of Reloads: the switch shows what it asked for, without a look.
ReloadsButToggle(op) == op # "toggle"

\* load() at the end of an operation that succeeded; a creation closes whatever form
\* is open by then.
Reloads(op) == TRUE

Receive(s) ==
    LET c == call[s]
        After == IF c.op \notin {"list", "attempts"} /\ c.got # << >> /\ Reloads(c.op)
                 THEN Call("list", 0) ELSE Free
    IN  /\ c # Free /\ c.served
        /\ c.op = "list" /\ ~ Fault("reordered") => InOrder(s)
        /\ call' = [t \in Slots |->
               IF t = s THEN After
               ELSE IF c.op = "list" /\ call[t] # Free /\ call[t].nr > c.nr
                 THEN [call[t] EXCEPT !.nr = @ - 1]
               ELSE IF c.op = "create" /\ c.got # << >> THEN Orphaned("create")[t]
               ELSE call[t]]
        /\ list' = IF c.op = "list" THEN c.got ELSE list
        /\ attemptsOf' = IF c.op = "attempts" /\ c.own
                         THEN [attemptsOf EXCEPT !.got = IF c.got = << >> THEN 0 ELSE c.got[1]]
                         ELSE attemptsOf
        /\ form' = CASE c.op = "create" /\ c.got # << >> -> NoForm
                     [] c.op = "create" /\ c.got = << >> /\ c.own -> [form EXCEPT !.at = "open"]
                     [] OTHER -> form
        /\ UNCHANGED <<setting, table, lost, clicks>>

\* A list that does not come is an empty one.
Lose(s) ==
    LET c == call[s]
    IN  /\ Fault("lost") /\ ~ lost /\ c # Free /\ lost' = TRUE
        /\ call' = [t \in Slots |->
               IF t = s THEN Free
               ELSE IF call[t] # Free /\ c.nr > 0 /\ call[t].nr > c.nr
                 THEN [call[t] EXCEPT !.nr = @ - 1] ELSE call[t]]
        /\ list' = IF c.op = "list" THEN << >> ELSE list
        /\ form' = IF c.op = "create" /\ c.own THEN [form EXCEPT !.at = "open"] ELSE form
        /\ UNCHANGED <<setting, table, attemptsOf, clicks>>

AtRest == \A s \in Slots : call[s] = Free
Rest == AtRest /\ UNCHANGED vars

Next ==
    \/ \E s \in Slots :
         Mount(s) \/ Row(s) \/ ShowAttempts(s) \/ Submit(s) \/ Serve(s) \/ Receive(s) \/ Lose(s)
    \/ HideAttempts \/ ShowForm \/ HideForm \/ Choose \/ Before \/ OtherTab \/ Rest

Spec == Init /\ [][Next]_vars

(***************************************************************************)
(* Properties.                                                             *)
(***************************************************************************)
\* The shape of the page and the table.
TypeOK ==
    /\ \A x \in DOMAIN hooks : hooks[x].id \in 1..used
    /\ \A x, y \in DOMAIN hooks : hooks[x].id < hooks[y].id => x < y
    /\ form.at \in {"closed", "open", "busy"} /\ form.events \subseteq EventTypes \cup {"*"}
    /\ Len(hooks) <= MaxHooks

\* When every call has its answer the page shows the endpoints as they are, whatever
\* overlapped: operations on rows shown before others were done, double clicks on a
\* switch, operations refused because the endpoint is gone.  Not so when somebody else
\* works on them too, when lists arrive out of order, or when one is lost.
ListIsCurrent ==
    AtRest /\ list # Loading /\ setting.faults = {} => list = ListNow
=============================================================================
