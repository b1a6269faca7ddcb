--------------------------- MODULE LedgerCommands ---------------------------
(***************************************************************************)
(* The vocabulary of the ledger service: the commands its write API takes  *)
(* and the double-entry legs each of them stands for.  Amounts are whole   *)
(* centimes: TransferCommand and its siblings refuse more than two         *)
(* decimals, so every setScale(2) of the entities is exact.                *)
(***************************************************************************)
EXTENDS Integers, Sequences, FiniteSets

CONSTANTS
    WalletIds,   \* wallet ids a command may name
    Wallets,     \* the ids that have a row in ledger_balances
    Opening,     \* the balance each row was created with
    Txs,         \* transaction ids
    Keys,        \* idempotency keys
    Commands     \* the commands clients send

Kinds == {"transfer", "credit", "debit", "reverse"}

\* One record shape for every command.  A credit uses `to', a debit uses
\* `from', a reversal only `tx', the transaction it undoes.
Command ==
    [ kind : Kinds, key : Keys, tx : Txs,
      from : WalletIds, to : WalletIds, fees : WalletIds,
      amount : Nat \ {0}, fee : Nat ]

ASSUME CommandsAssumption ==
    /\ Wallets \subseteq WalletIds /\ IsFiniteSet(Wallets)
    /\ Opening \in [Wallets -> Nat]
    /\ Commands \subseteq Command
    /\ \A c \in Commands : c.kind = "transfer" => c.from # c.to

(***************************************************************************)
(* Legs and entries.  A leg is an entry before its running balance is      *)
(* known.                                                                  *)
(***************************************************************************)
Directions == {"DEBIT", "CREDIT"}
EntryTypes == {"PRINCIPAL", "FEE", "REVERSAL"}

Leg == [wallet : WalletIds, dir : Directions, amount : Nat, type : EntryTypes]

Entry == [ tx : Txs, dir : Directions, amount : Nat, type : EntryTypes,
           before : Int, after : Int ]

LegOf(w, dir, amount, type) ==
    [wallet |-> w, dir |-> dir, amount |-> amount, type |-> type]

\* The legs of a transfer: principal out of the sender, into the recipient,
\* then, only when there is a fee, the fee out of the sender into the platform.
PrincipalLegs(c) ==
    << LegOf(c.from, "DEBIT", c.amount, "PRINCIPAL"),
       LegOf(c.to, "CREDIT", c.amount, "PRINCIPAL") >>

FeeLegsFeeLost(c) ==  \* mutant: the fee never reaches the platform
    << LegOf(c.from, "DEBIT", c.fee, "FEE") >>
FeeLegs(c) ==
    << LegOf(c.from, "DEBIT", c.fee, "FEE"), LegOf(c.fees, "CREDIT", c.fee, "FEE") >>

TransferLegs(c) ==
    IF c.fee > 0 THEN PrincipalLegs(c) \o FeeLegs(c) ELSE PrincipalLegs(c)

LegsOf(c) ==
    CASE c.kind = "transfer" -> TransferLegs(c)
      [] c.kind = "credit"   -> << LegOf(c.to, "CREDIT", c.amount, "PRINCIPAL") >>
      [] c.kind = "debit"    -> << LegOf(c.from, "DEBIT", c.amount, "PRINCIPAL") >>
      [] OTHER               -> << >>

TotalDebit(c) == c.amount + c.fee

Opposite(dir) == IF dir = "DEBIT" THEN "CREDIT" ELSE "DEBIT"

MirrorUntyped(w, e) ==  \* mutant: a type the enum does not have
    LegOf(w, Opposite(e.dir), e.amount, "MIRROR")
MirrorOf(w, e) == LegOf(w, Opposite(e.dir), e.amount, "REVERSAL")

\* LedgerBalance.debit refuses an amount above what is available.
CoveredByTotal(leg, before) == TRUE  \* mutant: only transferAtomic checks funds
Covered(leg, before) == leg.dir = "DEBIT" => leg.amount <= before

After(dir, amount, before) ==
    IF dir = "CREDIT" THEN before + amount ELSE before - amount

\* Mutant of EntryOf: balance_before is read after the entity was changed.
EntryOfLateBefore(tx, leg, before) ==
    [ tx |-> tx, dir |-> leg.dir, amount |-> leg.amount, type |-> leg.type,
      before |-> After(leg.dir, leg.amount, before),
      after |-> After(leg.dir, leg.amount, before) ]

EntryOf(tx, leg, before) ==
    [ tx |-> tx, dir |-> leg.dir, amount |-> leg.amount, type |-> leg.type,
      before |-> before, after |-> After(leg.dir, leg.amount, before) ]

(***************************************************************************)
(* Reading the entries table.  `book' maps a wallet to the sequence of its *)
(* entries; a place <<w, i>> names one entry of it.                        *)
(***************************************************************************)
PlacesOf(book, tx) ==
    UNION { {<<w, i>> : i \in {j \in 1..Len(book[w]) : book[w][j].tx = tx}}
            : w \in Wallets }

ReversalsOf(book, tx) ==
    {p \in PlacesOf(book, tx) : book[p[1]][p[2]].type = "REVERSAL"}

\* The chain the audit reads: entry after entry, balance_before is the
\* previous balance_after and balance_after = balance_before +/- amount.
Chained(s, start) ==
    \A i \in 1..Len(s) :
        /\ s[i].before = IF i = 1 THEN start ELSE s[i-1].after
        /\ s[i].after = After(s[i].dir, s[i].amount, s[i].before)

EndOf(s, start) == IF s = << >> THEN start ELSE s[Len(s)].after
=============================================================================
