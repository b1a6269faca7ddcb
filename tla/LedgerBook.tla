----------------------------- MODULE LedgerBook -----------------------------
(***************************************************************************)
(* What the ledger service promises: the books of all wallets as if one    *)
(* clerk posted the commands, each posting in one go against the current   *)
(* balances.  There are no threads, no locks, no Redis and no snapshots,   *)
(* and nothing keeps the clerk from posting a command again: that is the   *)
(* business of the keys.  LedgerWrite implements this specification.       *)
(***************************************************************************)
EXTENDS LedgerCommands, SequencesExt

VARIABLES
    balance,    \* ledger_balances: wallet -> current balance
    book        \* ledger_entries: wallet -> its entries, oldest first

vars == <<balance, book>>

Init ==
    /\ balance = Opening
    /\ book = [w \in Wallets |-> << >>]

\* Post one leg on a pair of tables; `ok' turns FALSE for good when the leg
\* names an unknown wallet or a debit is not covered.
PostOn(tx, leg, page) ==
    IF page.ok /\ leg.wallet \in Wallets /\ Covered(leg, page.balance[leg.wallet])
      THEN LET e == EntryOf(tx, leg, page.balance[leg.wallet])
           IN  [ ok |-> TRUE,
                 balance |-> [page.balance EXCEPT ![leg.wallet] = e.after],
                 book |-> [page.book EXCEPT ![leg.wallet] = Append(@, e)] ]
      ELSE [page EXCEPT !.ok = FALSE]

PostAll(tx, legs) ==
    FoldLeft(LAMBDA page, leg : PostOn(tx, leg, page),
             [ok |-> TRUE, balance |-> balance, book |-> book], legs)

PostLegs(tx, legs) ==
    LET page == PostAll(tx, legs)
    IN  /\ page.ok
        /\ balance' = page.balance
        /\ book' = page.book

\* A transfer, a cash-in credit or a cash-out debit: all its legs, covered by
\* the sender's balance, fee included.
Post(c) ==
    /\ c.kind # "reverse"
    /\ c.kind = "transfer" => TotalDebit(c) <= balance[c.from]
    /\ PostLegs(c.tx, LegsOf(c))

Mirrors(order) ==
    [i \in 1..Len(order) |-> MirrorOf(order[i][1], book[order[i][1]][order[i][2]])]

\* A reversal mirrors every entry of a transaction that has some and has not
\* been reversed; the rows come back from the database in any order.
ReverseTx(c) ==
    /\ c.kind = "reverse"
    /\ ReversalsOf(book, c.tx) = {}
    /\ PlacesOf(book, c.tx) # {}
    /\ \E order \in SetToSeqs(PlacesOf(book, c.tx)) : PostLegs(c.tx, Mirrors(order))

\* What makes the ledger refuse a command.
Refused(c) ==
    IF c.kind = "reverse"
      THEN \/ ReversalsOf(book, c.tx) # {} \/ PlacesOf(book, c.tx) = {}
           \/ /\ ReversalsOf(book, c.tx) = {}
              /\ \E order \in SetToSeqs(PlacesOf(book, c.tx)) :
                   ~PostAll(c.tx, Mirrors(order)).ok
      ELSE \/ c.kind = "transfer" /\ TotalDebit(c) > balance[c.from]
           \/ ~PostAll(c.tx, LegsOf(c)).ok

\* Every posting writes entries.  Saying so first changes nothing and spares TLC
\* the orders of ReverseTx on the steps of an implementation that post nothing.
Next == book' # book /\ \E c \in Commands : Post(c) \/ ReverseTx(c)

Spec == Init /\ [][Next]_vars
=============================================================================
