--------------------------- MODULE MCLedgerWrite ----------------------------
(***************************************************************************)
(* Small instances of LedgerWrite: two customers' wallets, the platform's  *)
(* fee wallet, and the commands the runs choose from.                      *)
(***************************************************************************)
EXTENDS LedgerWrite, TLC

CONSTANTS ana, ben, fees, ghost, t1, t2, t3

Transfer(key, tx, from, to, amount, fee) ==
    [ kind |-> "transfer", key |-> key, tx |-> tx, from |-> from, to |-> to,
      fees |-> fees, amount |-> amount, fee |-> fee ]

\* Fields a command does not have get a fixed value.
Single(kind, key, tx, w, amount) ==
    [ kind |-> kind, key |-> key, tx |-> tx, from |-> w, to |-> w,
      fees |-> w, amount |-> amount, fee |-> 0 ]

Undo(key, tx) == Single("reverse", key, tx, ana, 1)

MCOpening == [w \in Wallets |-> IF w = ana THEN 3 ELSE 1]

\* A transfer with a fee and its reversal; each is sent again, at any time.
ReversalRace ==
    [ commands |-> { Transfer("k1", "T1", ana, ben, 1, 1), Undo("k2", "T1") },
      faults |-> {"overlap", "claim outlived", "commit failure", "crash", "result expiry"},
      sends |-> 2 ]

Retried ==
    { Transfer("k1", "T1", ana, ben, 2, 0), Undo("k2", "T1"),
      Transfer("k1", "T2", ana, ben, 1, 0) }

\* One transfer and its reversal, another command that was given the transfer's
\* key, a cash-in to a wallet that has no row; each retried, where commits happen.
Answers ==
    [ commands |-> Retried \cup { Single("credit", "k3", "T3", ghost, 1) },
      faults |-> {"db error", "broker down"},
      sends |-> 2 ]

\* The first three, with everything that can fail.
Retries ==
    [ commands |-> Retried,
      faults |-> {"db error", "commit failure", "crash", "broker down", "dlq down"},
      sends |-> 2 ]

\* Two transfers in opposite directions over the same rows.
OppositeTransfers ==
    [ commands |-> { Transfer("k1", "T1", ana, ben, 2, 1), Transfer("k2", "T2", ben, ana, 2, 1) },
      faults |-> Retries.faults,
      sends |-> 1 ]

\* The same rows, a cash-out that leaves funds for only some of the transfers, a
\* reversal.
CrossTraffic ==
    [ commands |->
        { Transfer("k1", "T1", ana, ben, 2, 0), Transfer("k2", "T2", ben, ana, 2, 0),
          Single("debit", "k3", "T3", ana, 2), Undo("k4", "T1") },
      faults |-> Retries.faults,
      sends |-> 1 ]

\* One transfer and one cash-in, each retried.
Twice == { Transfer("k1", "T1", ana, ben, 1, 0), Single("credit", "k2", "T2", ben, 1) }

Progress == { OppositeTransfers, Retries }
RetriesOverlap == { [commands |-> Twice, faults |-> {"overlap"}, sends |-> 2] }
Safety == { ReversalRace, Answers, CrossTraffic } \cup RetriesOverlap
CommitsFail == { [commands |-> Twice, faults |-> {"commit failure"}, sends |-> 2] }
AllOf(settings) == UNION { s.commands : s \in settings }
SafetyCommands == AllOf(Safety)
ProgressCommands == AllOf(Progress)
=============================================================================
