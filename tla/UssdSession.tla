---------------------------- MODULE UssdSession ----------------------------
(***************************************************************************)
(* ussd-service: the operator's gateway posts each keypress of a dialogue; *)
(* UssdService reads the session from Redis, lets the menu tree decide,    *)
(* writes the session, acts through api-core and clears it.  One dialogue  *)
(* is modelled: dialogues share no key.                                    *)
(***************************************************************************)
EXTENDS Naturals, Sequences

CONSTANTS
    Keypads,     \* handlers of POST /ussd/session
    Inputs,      \* what a user may type; "" is the gateway's bare *100#
    Recipients,  \* the inputs PHONE_RE takes
    Amounts,     \* the inputs AMOUNT_RE takes
    Otps,        \* the inputs OTP_RE takes
    Settings     \* the environments to consider, see Setting

FaultKinds ==
    { "overlap",     \* the gateway repeats a keypress it has no answer to yet
      "dies",        \* a handler ends at an await
      "late choice", \* the first post of a dialogue may carry no language, as on *100#
      "day passes" } \* the 24 hours of the seen marker elapse

\* An environment: what may go wrong, what is typed, and how many keys.
Setting == [faults : SUBSET FaultKinds, inputs : SUBSET Inputs, presses : Nat]

UssdAssumption ==
    /\ {"1", "2", "3", "4"} \cup Recipients \cup Amounts \cup Otps \subseteq Inputs
    /\ Settings \subseteq Setting

VARIABLES
    setting,   \* the environment of this behaviour; never changes
    session,   \* the Redis key ussd:session, or NoSession
    marked,    \* the Redis key ussd:seen
    at,        \* handler -> where it is
    working,   \* handler -> the input, then the session it made, its action and its text
    pressed,   \* keys pressed so far
    composed,  \* history: transfers a confirmation screen was composed for
    shown,     \* history: those of them whose screen was also answered
    orders     \* transfers that reached api-core, each under a key of its own

handlers == <<at, working, pressed>>
vars == <<setting, session, marked, handlers, composed, shown, orders>>

Fields == {"recipient", "amount", "provider", "otp"}
NoData == [f \in Fields |-> "none"]
NoSession == [step |-> "none", lang |-> "none", data |-> NoData]
NewSession == [step |-> "root", lang |-> "none", data |-> NoData]
Nothing == [input |-> "none", session |-> NoSession, act |-> "none", text |-> {}]

Fault(kind) == kind \in setting.faults

Idle ==
    /\ session = NoSession /\ marked = FALSE
    /\ at = [h \in Keypads |-> "idle"]
    /\ working = [h \in Keypads |-> Nothing]
    /\ pressed = 0
    /\ composed = {} /\ shown = {} /\ orders = << >>

Init == setting \in Settings /\ Idle

(***************************************************************************)
(* The menu tree.                                                          *)
(***************************************************************************)
LangChoice(input) == CASE input = "1" -> "fr" [] input = "2" -> "ar" [] OTHER -> "none"

\* The steps that ask for something: what they take, where it goes, what is next.
Questions ==
    [ transfer_recipient |-> [takes |-> Recipients, field |-> "recipient", next |-> "transfer_amount"],
      transfer_amount |-> [takes |-> Amounts, field |-> "amount", next |-> "transfer_confirm"],
      bill_provider |-> [takes |-> {"1", "2", "3"}, field |-> "provider", next |-> "bill_amount"],
      bill_amount |-> [takes |-> Amounts, field |-> "amount", next |-> "bill_confirm"],
      withdraw_otp |-> [takes |-> Otps, field |-> "otp", next |-> "withdraw_confirm"] ]

\* The steps that ask for a confirmation, and what it confirms.
Confirmations ==
    [transfer_confirm |-> "transfer", bill_confirm |-> "bill", withdraw_confirm |-> "withdraw"]

MainMenu == [i \in {"2", "3", "4"} |->
    CASE i = "2" -> "transfer_recipient" [] i = "3" -> "bill_provider" [] OTHER -> "withdraw_otp"]

Steps == {"root", "main"} \cup DOMAIN Questions \cup DOMAIN Confirmations

\* The next step; an input that does not fit shows the same screen again.
StepAfter(step, input) ==
    CASE step = "root" /\ LangChoice(input) # "none" -> "main"
      [] step = "main" /\ input \in DOMAIN MainMenu -> MainMenu[input]
      [] step \in DOMAIN Questions /\ input \in Questions[step].takes -> Questions[step].next
      [] step \in DOMAIN Confirmations /\ input = "2" -> "main"
      [] OTHER -> step

\* The action that ends the dialogue, if any.
ActionOf(step, input) ==
    CASE step = "main" /\ input = "1" -> "balance"
      [] step \in DOMAIN Confirmations /\ input = "1" -> Confirmations[step]
      [] OTHER -> "none"

\* Mutant of DataAfter: what was typed before is not kept.
DataAfterForgets(s, input) ==
    IF s.step \in DOMAIN Questions /\ input \in Questions[s.step].takes
      THEN [NoData EXCEPT ![Questions[s.step].field] = input] ELSE s.data

DataAfter(s, input) ==
    IF s.step \in DOMAIN Questions /\ input \in Questions[s.step].takes
      THEN [s.data EXCEPT ![Questions[s.step].field] = input] ELSE s.data

\* The language is the persisted one, else the one just chosen, else French.
LangAfter(s, input) ==
    CASE s.lang # "none" -> s.lang
      [] LangChoice(input) # "none" -> LangChoice(input)
      [] OTHER -> "fr"

Rendered(s, input) ==
    [step |-> StepAfter(s.step, input), lang |-> LangAfter(s, input), data |-> DataAfter(s, input)]

TransferOf(s) == <<s.data["recipient"], s.data["amount"]>>

\* confirmText: the amount just typed, or the stored one when the screen is repeated.
ConfirmText(s, input) ==
    <<s.data["recipient"], IF s.step = "transfer_amount" THEN input ELSE s.data["amount"]>>

(***************************************************************************)
(* handle, call by call.                                                   *)
(***************************************************************************)
Goto(h, label) == at' = [at EXCEPT ![h] = label]
End(h) == Goto(h, "idle") /\ working' = [working EXCEPT ![h] = Nothing]

Press(h, input) ==
    /\ at[h] = "idle"
    /\ pressed < setting.presses
    /\ input \in setting.inputs
    /\ pressed = 0 /\ LangChoice(input) = "none" => Fault("late choice")
    /\ Fault("overlap") \/ \A g \in Keypads : at[g] = "idle"
    /\ pressed' = pressed + 1
    /\ Goto(h, "get")
    /\ working' = [working EXCEPT ![h].input = input]
    /\ UNCHANGED <<setting, session, marked, composed, shown, orders>>

\* The menu tree applied to session s: what will be written, said and done.
Render(h, s) ==
    LET input == working[h].input
        after == Rendered(s, input)
        act == ActionOf(s.step, input)
        text == IF after.step = "transfer_confirm" /\ act = "none" THEN {ConfirmText(s, input)}
                ELSE {}
    IN  /\ working' = [working EXCEPT ![h] =
                         [input |-> input, session |-> after, act |-> act, text |-> text]]
        /\ composed' = composed \cup text
        /\ Goto(h, "set")

GetSession(h) ==
    /\ at[h] = "get"
    /\ IF session = NoSession
         THEN Goto(h, "seen?") /\ UNCHANGED <<working, composed>>
         ELSE Render(h, session)
    /\ UNCHANGED <<setting, session, marked, pressed, shown, orders>>

HasSeen(h) ==
    /\ at[h] = "seen?"
    /\ IF marked THEN End(h) /\ UNCHANGED composed ELSE Render(h, NewSession)
    /\ UNCHANGED <<setting, session, marked, pressed, shown, orders>>

SetSession(h) ==
    /\ at[h] = "set"
    /\ session' = working[h].session
    /\ Goto(h, "mark")
    /\ UNCHANGED <<setting, marked, working, pressed, composed, shown, orders>>

\* The session is stored; without an action to run the text is the answer.
MarkSeen(h) ==
    /\ at[h] = "mark"
    /\ marked' = TRUE
    /\ IF working[h].act = "none"
         THEN End(h) /\ shown' = shown \cup working[h].text
         ELSE Goto(h, "act") /\ UNCHANGED <<working, shown>>
    /\ UNCHANGED <<setting, session, pressed, composed, orders>>

\* Answered, refused, unreachable or given up after the timeout: the order arrived
\* or it did not.  Every key holds the time: no two calls share one.
request(order) == orders' \in {orders, Append(orders, order)}

\* executeAction: the answer or its absence only changes the words of the reply.
\* Bill and withdrawal are stubs, the balance is a read.
Act(h) ==
    /\ at[h] = "act"
    /\ IF working[h].act = "transfer" THEN request(TransferOf(working[h].session))
       ELSE UNCHANGED orders
    /\ Goto(h, "clear")
    /\ UNCHANGED <<setting, session, marked, working, pressed, composed, shown>>

\* Mutant of ClearSession: the session survives its last action.
ClearNothing(h) ==
    /\ at[h] = "clear"
    /\ End(h)
    /\ UNCHANGED <<setting, session, marked, pressed, composed, shown, orders>>

ClearSession(h) ==
    /\ at[h] = "clear"
    /\ session' = NoSession
    /\ End(h)
    /\ UNCHANGED <<setting, marked, pressed, composed, shown, orders>>

(***************************************************************************)
(* Time and faults.                                                        *)
(***************************************************************************)
SessionExpires ==
    /\ session # NoSession
    /\ session' = NoSession
    /\ UNCHANGED <<setting, marked, handlers, composed, shown, orders>>

\* The marker lives longer than the session it was written with.
MarkerExpires ==
    /\ Fault("day passes") /\ marked /\ session = NoSession
    /\ marked' = FALSE
    /\ UNCHANGED <<setting, session, handlers, composed, shown, orders>>

Dies(h) ==
    /\ Fault("dies") /\ at[h] # "idle"
    /\ End(h)
    /\ UNCHANGED <<setting, session, marked, pressed, composed, shown, orders>>

Quiet ==
    /\ pressed = setting.presses /\ \A h \in Keypads : at[h] = "idle"
    /\ UNCHANGED vars

Next ==
    \/ \E h \in Keypads :
         \/ \E input \in Inputs : Press(h, input)
         \/ GetSession(h) \/ HasSeen(h) \/ SetSession(h) \/ MarkSeen(h)
         \/ Act(h) \/ ClearSession(h) \/ Dies(h)
    \/ SessionExpires \/ MarkerExpires
    \/ Quiet

Spec == Init /\ [][Next]_vars

(***************************************************************************)
(* Properties.                                                             *)
(***************************************************************************)
Transfers == (Recipients \cup {"none"}) \X (Amounts \cup {"none"})

\* The shape of the session, of what handlers hold and of what was sent.
TypeOK ==
    LET Sessions == {NoSession} \cup
          [step : Steps, lang : {"none", "fr", "ar"}, data : [Fields -> Inputs \cup {"none"}]]
    IN  /\ session \in Sessions /\ marked \in BOOLEAN
        /\ at \in [Keypads -> {"idle", "get", "seen?", "set", "mark", "act", "clear"}]
        /\ \A h \in Keypads : working[h].session \in Sessions
        /\ shown \subseteq composed /\ composed \subseteq Transfers
        /\ orders \in Seq(Transfers)

\* However keypresses of a dialogue overlap, are repeated or lost, what is sent is what
\* one confirmation screen was composed for: recipient and amount of a write are never
\* mixed with those of another, and an earlier transfer's are not reused.  Its screen has
\* also been answered when keypresses do not overlap and no handler dies before it answers.
SentAsShown ==
    \A k \in DOMAIN orders :
      /\ orders[k] \in composed \cap (Recipients \X Amounts)
      /\ {"overlap", "dies"} \cap setting.faults = {} => orders[k] \in shown

\* A dialogue shows a transfer before it sends it, and sends at most one, as long as the
\* gateway waits for each answer, no handler dies and its marker lives: after the action
\* the session is gone, and the marker keeps the same dialogue from starting again.
Promise == INSTANCE OneOrder
ImplementsOneOrder ==
    [][{"overlap", "dies", "day passes"} \cap setting.faults = {} => Promise!Next]_<<shown, orders>>
=============================================================================
