--------------------------- MODULE MCTransactions ---------------------------
(***************************************************************************)
(* Small instances of Transactions: two customers, an agent, the platform, *)
(* and the requests the runs choose from.                                  *)
(***************************************************************************)
EXTENDS Transactions

CONSTANTS ana, ben, agent, platform, h1, h2

Ask(op, key, tx, from, to, amount, reason) ==
    [ op |-> op, key |-> key, tx |-> tx, from |-> from, to |-> to,
      amount |-> amount, reason |-> reason ]

\* Fields an operation does not have get a fixed value.
Send(key, from, to, amount) == Ask("transfer", key, "T1", from, to, amount, "none")
CashIn(key, to, amount) == Ask("cashIn", key, "T1", agent, to, amount, "none")
Confirm(tx, to) == Ask("confirm", "c1", tx, agent, to, 1, "none")
Payout(key, from, amount) == Ask("cashOut", key, "T1", from, agent, amount, "none")
Undo(tx, reason) == Ask("reverse", "c1", tx, ana, ana, 1, reason)

MCOpening == [w \in Wallets |-> IF w = ana THEN 9 ELSE 1]
MCKeys == {"tx", "rev"} \X Txs
MCLimits == [perTransaction |-> 2, daily |-> 3, monthly |-> 4, balance |-> 11]

\* Every ledger command a row of any transaction can give.
MCCommands ==
    LET amounts == 1..2
    IN  { [ kind |-> "transfer", key |-> <<"tx", i>>, tx |-> i, from |-> p[1], to |-> p[2],
            fees |-> platform, amount |-> a, fee |-> FeeFor(a) ]
          : i \in Txs, a \in amounts,
            p \in {q \in Wallets \X Wallets : q[1] # q[2]} }
        \cup
        { [ kind |-> "credit", key |-> <<"tx", i>>, tx |-> i, from |-> w, to |-> w,
            fees |-> w, amount |-> a, fee |-> 0 ] : i \in Txs, a \in amounts, w \in Wallets }
        \cup
        { ReversalOf(i) : i \in Txs }

\* A transfer and a cash-in under one client key, the cash-in's confirmation,
\* a reversal: all about one transaction.
Everything ==
    [ requests |-> { Send("c1", ana, ben, 2), CashIn("c1", ben, 1), Confirm("T1", ben),
                     Undo("T1", "fraud") },
      faults |-> {"overlap", "slow ledger", "ledger error"},
      sends |-> 2 ]

\* Transfers that together pass the daily, then the monthly limit, and one more
\* than the sender can pay; and a cash-out.
Spending ==
    [ requests |-> { Send("c1", ana, ben, 2), Send("c2", ana, ben, 2),
                     Send("c3", ana, ben, 1), Send("c4", ben, ana, 2),
                     Payout("c1", ana, 1) },
      faults |-> {"midnight", "unreachable", "ledger error"},
      sends |-> 1 ]

\* A transfer and two operators who undo it, for different reasons; and one who sends
\* both requests again.
Reversals ==
    [ requests |-> { Send("c1", ana, ben, 2), Undo("T1", "fraud"), Undo("T1", "error") },
      faults |-> {"overlap", "slow ledger", "unreachable", "ledger error"},
      sends |-> 1 ]

Repeats ==
    [ requests |-> { Send("c1", ana, ben, 2), Undo("T1", "fraud") },
      faults |-> {"overlap", "slow ledger", "unreachable", "ledger error"},
      sends |-> 2 ]

OneSend == { Send("c1", ana, ben, 2) }
TwoSends == OneSend \cup { Send("c2", ana, ben, 2) }

CashInUndone == { CashIn("c1", ben, 1), Confirm("T1", ben), Undo("T1", "fraud") }

\* A cash-in confirmed again, with the password of another, and a transfer that is
\* reversed, past a ledger whose memory lapses, by handlers that die.
CashInLapses ==
    [ requests |-> { CashIn("c1", ben, 1), CashIn("c2", ben, 1), Confirm("T1", ben) },
      faults |-> {"midnight", "handler dies", "commit fails", "answer expires"},
      sends |-> 2 ]
TransferLapses ==
    [ requests |-> OneSend \cup { Undo("T1", "fraud") },
      faults |-> {"handler dies", "commit fails", "unreachable"},
      sends |-> 2 ]

Traffic == { Everything, Spending, CashInLapses, TransferLapses }
Undoing ==
    { Reversals, Repeats,
      [requests |-> CashInUndone, faults |-> {"overlap", "slow ledger", "commit fails"}, sends |-> 1] }
LedgerSlow == { [requests |-> OneSend, faults |-> {"slow ledger"}, sends |-> 1] }
SendsOverlap == { [requests |-> TwoSends, faults |-> {"overlap"}, sends |-> 1] }
LateConfirm ==
    { [requests |-> CashInUndone, faults |-> {"overlap", "ledger error"}, sends |-> 2] }
MCRequests == UNION { s.requests : s \in Traffic \cup Undoing \cup LateConfirm } \cup TwoSends
=============================================================================
