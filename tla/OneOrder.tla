------------------------------ MODULE OneOrder ------------------------------
(***************************************************************************)
(* What a USSD dialogue promises its user: a transfer leaves only after a  *)
(* confirmation screen for exactly that recipient and amount, and at most  *)
(* one leaves per dialogue.                                                *)
(***************************************************************************)
EXTENDS Sequences, Naturals

CONSTANT Transfers  \* <<recipient, amount>>

VARIABLES
    shown,  \* transfers a confirmation screen was shown for
    orders  \* transfers sent, in order

Init == shown = {} /\ orders = << >>

Show(t) == shown' = shown \cup {t} /\ UNCHANGED orders

Send(t) ==
    /\ t \in shown /\ orders = << >>
    /\ orders' = << t >>
    /\ UNCHANGED shown

Next == \E t \in Transfers : Show(t) \/ Send(t)
=============================================================================
