----------------------------- MODULE LedgerAudit -----------------------------
(***************************************************************************)
(* What looks at the ledger's books while transfers commit: the nightly    *)
(* checkpoint and the verification of ledger-service, and the daily report *)
(* of reconciliation-service.  The books are sums here, one step of theirs *)
(* being the commit of a transfer; LedgerWrite is about how it comes true. *)
(***************************************************************************)
EXTENDS Integers, FiniteSets, FiniteSetsExt, Functions

CONSTANTS
    Wallets,   \* wallets with a balance
    Amount,    \* what one transfer moves, in hundredths
    Settings   \* the environments to consider, see Setting

\* entries: the wallets entries exist of; off: what was added to stored balances by
\* other means; how many transfers commit; who reads; how many reports are asked for.
\* The one fault is that these overlap.
Setting == [faults : SUBSET {"overlap"}, entries : SUBSET Wallets, off : [Wallets -> Int], 
            transfers : Nat, readers : SUBSET {"verification", "checkpoint"}, reports : Nat]

AuditAssumption == Amount \in Nat \ {0} /\ IsFiniteSet(Wallets) /\ Settings \subseteq Setting

VARIABLES
    setting,    \* the environment of this behaviour; never changes
    computed,   \* wallet -> SUM(CREDIT) - SUM(DEBIT) of its entries
    entries,    \* wallet -> number of its entries
    stored,     \* wallet -> ledger_balances.balance
    commits,    \* transfers committed so far
    verify,     \* the verification under way: what it read, and has still to read
    snapshot,   \* the checkpoint under way, likewise
    checkpoint, \* wallet -> the checkpoint saved last
    asked,      \* reports asked for
    reading,    \* reports that have read their totals and are not written yet
    report      \* the day's report, or NoReport

books == <<computed, entries, stored, commits>>
ledger == <<verify, snapshot, checkpoint>>
daily == <<asked, reading, report>>
vars == <<setting, books, ledger, daily>>

NoVerify == [at |-> "idle"]
NoReport == [status |-> "none"]
NoCheckpoint == [balance |-> 0, entriesCount |-> 0]

Idle ==
    /\ computed = [w \in Wallets |-> 0] /\ entries = [w \in Wallets |-> 0]
    /\ stored = [w \in Wallets |-> 0] /\ commits = 0
    /\ verify = NoVerify /\ snapshot = [left |-> {}]
    /\ checkpoint = [w \in Wallets |-> NoCheckpoint]
    /\ asked = 0 /\ reading = {} /\ report = NoReport

Init == setting \in Settings /\ Idle

(***************************************************************************)
(* The books.                                                              *)
(***************************************************************************)
Transfer(from, to) ==
    /\ from # to /\ entries[from] > 0 /\ entries[to] > 0
    /\ commits < setting.transfers /\ stored[from] >= Amount
    /\ computed' = [computed EXCEPT ![from] = @ - Amount, ![to] = @ + Amount]
    /\ stored' = [stored EXCEPT ![from] = @ - Amount, ![to] = @ + Amount]
    /\ entries' = [entries EXCEPT ![from] = @ + 1, ![to] = @ + 1]
    /\ commits' = commits + 1
    /\ UNCHANGED <<setting, ledger, daily>>

\* The books as they are found: one deposit each, and what other means did to balances.
Opened == \E w \in setting.entries : entries[w] > 0
Open ==
    /\ ~ Opened
    /\ entries' = [w \in Wallets |-> IF w \in setting.entries THEN 1 ELSE 0]
    /\ computed' = [w \in Wallets |-> 2 * Amount * entries'[w]]
    /\ stored' = [w \in Wallets |-> computed'[w] + setting.off[w]]
    /\ UNCHANGED <<setting, commits, ledger, daily>>

(***************************************************************************)
(* verifyAll: one query sums the entries, then each balance is read.       *)
(***************************************************************************)
TOLERANCE == 1
Distance(a, b) == IF a > b THEN a - b ELSE b - a

computedBalances ==
    /\ Opened /\ "verification" \in setting.readers /\ verify.at \in {"idle", "done"}
    /\ verify' = [at |-> "reading", since |-> commits, discrepancies |-> {},
                  computed |-> computed, left |-> {w \in Wallets : entries[w] > 0}]
    /\ UNCHANGED <<setting, books, snapshot, checkpoint, daily>>

\* Mutant of Differs: a difference of the tolerance is reported.
DiffersAtAll(a, b) == a # b

Differs(a, b) == Distance(a, b) > TOLERANCE

CompareBalance ==
    /\ verify.at = "reading"
    /\ \E w \in verify.left :
         verify' = [verify EXCEPT
             !.left = @ \ {w},
             !.discrepancies = IF Differs(stored[w], verify.computed[w]) THEN @ \cup {w} ELSE @,
             !.at = IF verify.left = {w} THEN "done" ELSE @]
    /\ UNCHANGED <<setting, books, snapshot, checkpoint, daily>>

(***************************************************************************)
(* snapshotAll: findAll loads every balance; the findById of the same      *)
(* transaction answers what it loaded; the entries are counted at the time.*)
(***************************************************************************)
\* Mutant of BalanceOf: each balance is read again.
BalanceAgain(w) == stored[w]

BalanceOf(w) == snapshot.balance[w]

snapshotAll ==
    /\ Opened /\ "checkpoint" \in setting.readers /\ snapshot.left = {}
    /\ snapshot' = [balance |-> stored, left |-> Wallets, saved |-> checkpoint]
    /\ UNCHANGED <<setting, books, verify, checkpoint, daily>>

\* The rows are saved at the end, by the commit.
SaveCheckpoint ==
    /\ \E w \in snapshot.left :
         LET saved == [snapshot.saved EXCEPT
                 ![w] = [balance |-> BalanceOf(w), entriesCount |-> entries[w]]]
         IN  /\ snapshot' = [snapshot EXCEPT !.left = @ \ {w}, !.saved = saved]
             /\ checkpoint' = IF snapshot.left = {w} THEN saved ELSE checkpoint
    /\ UNCHANGED <<setting, books, verify, daily>>

(***************************************************************************)
(* reconciliation-service: generate awaits the totals of every wallet and  *)
(* writes the day's report; each GET of the daily report runs it again.    *)
(***************************************************************************)
walletTotals ==
    /\ Opened /\ asked < setting.reports
    /\ "overlap" \in setting.faults \/ reading = {}
    /\ asked' = asked + 1
    /\ reading' = reading \cup
           {[number |-> asked', since |-> commits,
             delta |-> [w \in Wallets |-> computed[w] - stored[w]]]}
    /\ UNCHANGED <<setting, books, ledger, report>>

Generate(r) ==
    /\ reading' = reading \ {r}
    /\ report' = [status |-> IF FoldFunction(+, 0, r.delta) = 0 THEN "BALANCED" ELSE "UNBALANCED",
                  number |-> r.number]
    /\ UNCHANGED <<setting, books, ledger, asked>>

Quiet ==
    /\ Opened /\ commits = setting.transfers
    /\ asked = setting.reports /\ reading = {}
    /\ UNCHANGED vars

Next ==
    \/ Open \/ Quiet
    \/ \E from, to \in Wallets : Transfer(from, to)
    \/ computedBalances \/ CompareBalance \/ snapshotAll \/ SaveCheckpoint
    \/ walletTotals
    \/ \E r \in reading : Generate(r)

Spec == Init /\ [][Next]_vars

(***************************************************************************)
(* Properties.                                                             *)
(***************************************************************************)
\* The shape of the three readers.
TypeOK ==
    /\ verify.at \in {"idle", "reading", "done"} /\ snapshot.left \subseteq Wallets
    /\ report.status \in {"none", "BALANCED", "UNBALANCED"}
    /\ \A w \in Wallets : checkpoint[w].entriesCount \in Nat

\* A verification during which nothing commits finds the wallets whose balance is off
\* by more than a hundredth, those without any entry excepted; the day's report is
\* right when one wallet at most is off (two that are off by opposite amounts cancel).
ReportsAreRight ==
    /\ verify.at = "done" /\ verify.since = commits =>
         verify.discrepancies =
             {w \in Wallets : entries[w] > 0 /\ Distance(setting.off[w], 0) > TOLERANCE}
    /\ LET offs == {w \in Wallets : setting.off[w] # 0}
       IN  report # NoReport /\ Cardinality(offs) <= 1 =>
               (report.status = "BALANCED" <=> offs = {})

\* The balances of one checkpoint are those of one moment, whatever commits while it is
\* taken: together they hold all the money, as the books did when they were opened.
CheckpointIsACut ==
    \/ \E w \in Wallets : checkpoint[w] = NoCheckpoint
    \/ FoldFunction(+, 0, [w \in Wallets |-> checkpoint[w].balance])
         = 2 * Amount * Cardinality(setting.entries) + FoldFunction(+, 0, setting.off)

\* What is read beside the transfers says of the books what they say themselves.
ReadingsAreTrue == ReportsAreRight /\ CheckpointIsACut
=============================================================================
