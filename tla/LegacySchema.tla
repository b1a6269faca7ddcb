---------------------------- MODULE LegacySchema ----------------------------
(***************************************************************************)
(* The legacy aggregator opens its SQLite database: tables are created, or *)
(* those of version 0 (secret keys in clear) are moved to version 1.  No   *)
(* transaction is begun, so that each statement commits by itself and the  *)
(* process may end, or throw, between any two.                             *)
(***************************************************************************)
EXTENDS Naturals, FiniteSets

CONSTANTS
    Merchants,   \* identifiers
    Settings     \* the databases to consider, see Setting

\* What the database holds at first: merchants of version 0, which of them are
\* referred to (by payments or webhooks), and whether a start may be cut.
Setting == [faults : SUBSET {"dies"}, v0 : BOOLEAN, rows : SUBSET Merchants,
            owners : SUBSET Merchants]

SchemaAssumption ==
    /\ Settings \subseteq Setting
    /\ \A s \in Settings : s.owners \subseteq s.rows /\ (s.v0 \/ s.rows = {})

VARIABLES
    setting,   \* the environment of this behaviour; never changes
    schema,    \* of the table merchants: absent, v0 or v1
    rows,      \* table -> ids, for merchants and merchants_legacy_v0
    old,       \* whether merchants_legacy_v0 exists
    target,    \* the table the foreign keys to a merchant refer to
    owners,    \* merchants some payment or webhook refers to
    version,   \* PRAGMA user_version
    pc,        \* where the start is, "up" when it listens, "down" when it ended
    left       \* rows read from merchants and not yet inserted again

disk == <<schema, rows, old, target, owners, version>>
vars == <<setting, disk, pc, left>>

Tables == {"merchants", "merchants_legacy_v0"}

Idle ==
    /\ schema = "absent" /\ old = FALSE /\ target = "merchants" /\ version = 0
    /\ rows = [t \in Tables |-> {}] /\ owners = {}
    /\ pc = "unmade" /\ left = {}

Fault(kind) == kind \in setting.faults

Init == setting \in Settings /\ Idle

\* The database as the last version of the program left it.
Found ==
    /\ pc = "unmade"
    /\ schema' = IF setting.v0 THEN "v0" ELSE "absent"
    /\ rows' = [rows EXCEPT !["merchants"] = setting.rows]
    /\ owners' = setting.owners
    /\ pc' = "down"
    /\ UNCHANGED <<setting, old, target, version, left>>

(***************************************************************************)
(* The start, statement by statement.                                      *)
(***************************************************************************)
Goto(label) == pc' = label /\ UNCHANGED setting

\* CREATE TABLE IF NOT EXISTS; new foreign keys refer to merchants.
createTables ==
    /\ schema' = IF schema = "absent" THEN "v1" ELSE schema
    /\ UNCHANGED <<rows, old, target, owners, version>>

schemaVersion == version

\* The two columns of keys in clear are there.
hasLegacySkColumns == schema = "v0"

Start ==
    /\ pc = "down"
    /\ IF schemaVersion < 1 THEN Goto("migrate") /\ UNCHANGED disk
       ELSE createTables /\ Goto("up")
    /\ UNCHANGED left

Migrate ==
    /\ pc = "migrate"
    /\ IF hasLegacySkColumns
         THEN left' = rows["merchants"] /\ Goto("rename") /\ UNCHANGED disk
         ELSE createTables /\ Goto("version") /\ UNCHANGED left

\* SQLite takes the foreign keys along to the new name.
Rename ==
    /\ pc = "rename"
    /\ schema' = "absent" /\ old' = TRUE
    /\ rows' = [t \in Tables |-> IF t = "merchants" THEN {} ELSE rows["merchants"]]
    /\ target' = "merchants_legacy_v0"
    /\ Goto("create")
    /\ UNCHANGED <<owners, version, left>>

Create == pc = "create" /\ createTables /\ Goto("insert") /\ UNCHANGED left

\* Mutant of AllInserted: the loop stops one row early.
AlmostAllInserted == Cardinality(left) <= 1

\* The loop over the rows read has ended.
AllInserted == left = {}

Insert ==
    /\ pc = "insert" /\ ~ AllInserted
    /\ \E m \in left :
         /\ rows' = [rows EXCEPT !["merchants"] = @ \cup {m}]
         /\ left' = left \ {m}
    /\ UNCHANGED <<setting, schema, old, target, owners, version, pc>>

\* DROP deletes the rows first: refused as long as one of them is referred to.
Drop ==
    /\ pc = "insert" /\ AllInserted
    /\ IF owners # {} THEN Goto("down") /\ UNCHANGED disk
       ELSE /\ old' = FALSE /\ rows' = [rows EXCEPT !["merchants_legacy_v0"] = {}]
            /\ Goto("version")
            /\ UNCHANGED <<schema, target, owners, version>>
    /\ UNCHANGED left

SetVersion ==
    /\ pc = "version"
    /\ version' = 1 /\ Goto("up")
    /\ UNCHANGED <<schema, rows, old, target, owners, left>>

(***************************************************************************)
(* The running server, and its end.                                        *)
(***************************************************************************)
Register(m) ==
    /\ pc = "up" /\ m \notin rows["merchants"]
    /\ rows' = [rows EXCEPT !["merchants"] = @ \cup {m}]
    /\ UNCHANGED <<setting, schema, old, target, owners, version, pc, left>>

\* An INSERT that refers to a merchant: refused when the foreign key's table is gone,
\* or does not hold the merchant.
Refers(m) ==
    /\ pc = "up" /\ m \in rows["merchants"]
    /\ owners' = IF m \in rows[target] THEN owners \cup {m} ELSE owners
    /\ UNCHANGED <<setting, schema, rows, old, target, version, pc, left>>

Stop ==
    /\ pc = "up" \/ (Fault("dies") /\ pc \notin {"unmade", "down"})
    /\ Goto("down") /\ left' = {}
    /\ UNCHANGED disk

Next ==
    \/ Found \/ Start \/ Migrate \/ Rename \/ Create \/ Insert \/ Drop \/ SetVersion \/ Stop
    \/ \E m \in Merchants : Register(m) \/ Refers(m)

Spec == Init /\ [][Next]_vars

(***************************************************************************)
(* Properties.                                                             *)
(***************************************************************************)
\* The shape of the database and of the start.
TypeOK ==
    /\ schema \in {"absent", "v0", "v1"} /\ rows \in [Tables -> SUBSET Merchants]
    /\ old \in BOOLEAN /\ target \in Tables /\ version \in 0..1
    /\ owners \subseteq Merchants /\ left \subseteq Merchants

\* Whenever the server listens, its table has the columns it uses and every merchant
\* of before is in it; also after the DROP that payments make impossible and the
\* restart that follows.  A process that dies in the migration breaks this.
KeepsMerchants ==
    pc = "up" /\ ~ Fault("dies") => schema = "v1" /\ setting.rows \subseteq rows["merchants"]
=============================================================================
