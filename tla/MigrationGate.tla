--------------------------- MODULE MigrationGate ---------------------------
(***************************************************************************)
(* Moving an application from one database to another: the migration       *)
(* control row of each side, the gate in front of every writing call, and  *)
(* the operators' calls freeze, export, import, activate and roll back.    *)
(*                                                                         *)
(* Each side is a database with several processes at work on it.  The gate *)
(* has two parts: the control row, which every writing call of the binding *)
(* reads once when it begins, and a lock of the process that a call holds  *)
(* shared until it returns and that freeze, import, activate and roll back *)
(* take exclusively.  InsertEvent, with which a host writes an event in a  *)
(* transaction of its own, passes by both.                                 *)
(*                                                                         *)
(* A table is the set of the writes its rows show, and one row of it that  *)
(* a worker can lease.  A bundle carries all tables and the migration ID;  *)
(* its fingerprint stands for all of it, so that the bundle itself serves  *)
(* as the fingerprint.                                                     *)
(***************************************************************************)
EXTENDS Integers, FiniteSets

CONSTANTS
  Sources, Targets,  \* the processes of the two sides
  Calls,             \* writing calls and worker runs of a process
  Operators,         \* concurrent calls of SystemMigration
  ProcOf,            \* the process a call or an operator's call runs in
  NoOne,             \* no operator holds the lock; no lease
  LastTable,         \* tables are read in the order 1 .. LastTable
  Queues,            \* the rows of the first tables have a lease_owner
  MigrationIds,
  MayReuse,          \* bound: whether a migration that was given up may be
                     \* frozen under its ID again
  NoBundle,          \* an empty fingerprint
  Mistyped,          \* a fingerprint that belongs to no bundle
  MaxWrites,         \* bound: writes to both databases
  MaxBusy,           \* bound: operators' calls under way at once
  MaxSetbacks        \* bound: how often a process stops or an operator
                     \* gives a migration up

ASSUME ProcAssumption == /\ ProcOf \in [Calls \union Operators ->
                                          Sources \union Targets]
                         /\ Sources \cap Targets = {}
                         /\ Calls \cap Operators = {}
                         /\ NoOne \notin Calls \union Operators
ASSUME BoundAssumption == /\ LastTable \in Nat \ {0}
                          /\ Queues \in 1 .. LastTable
                          /\ MaxWrites \in Nat /\ MaxBusy \in Nat
                          /\ MaxSetbacks \in Nat /\ MayReuse \in BOOLEAN

VARIABLES
  control,    \* the row of _notification_migration_controls, by side
  rows,       \* the tables of each side
  readers,    \* by process: the calls that hold its migrationMu shared
  holder,     \* by process: the operator's call that holds it exclusively
  pc,         \* by call
  opPc,       \* by operator's call
  seen,       \* by operator's call: the control row it has read
  table,      \* by operator's call: the table it reads next
  read,       \* by operator's call: the tables read so far
  argument,   \* by operator's call: migration ID or bundle it was given
  exported,   \* the last bundle handed to an operator
  writes, setbacks,
  (* history *)
  frozenBy,   \* by side: the process that froze it or imported into it
  crossed,    \* the sides written to although exported or imported
  rolledBack  \* the migrations that were given up

gate == <<readers, holder, pc>>
local == <<opPc, seen, table, read, argument>>
history == <<frozenBy, crossed, rolledBack>>
vars == <<control, rows, gate, local, exported, writes, setbacks, history>>

Procs == Sources \union Targets
Sides == {"source", "target"}
Side(p) == IF p \in Sources THEN "source" ELSE "target"
SideOf(c) == Side(ProcOf[c])
Tables == 1 .. LastTable

-----------------------------------------------------------------------------
(* The control row.  Without a row the side counts as active.              *)

NoControl == [id |-> NoOne, role |-> NoOne, state |-> "active",
              fingerprint |-> NoBundle]
Control(id, role, state, f) == [id |-> id, role |-> role, state |-> state,
                                fingerprint |-> f]

\* What a side is, by MigrationStatus.
IsSource(k) == k.role = "source" /\ k.state = "frozen"
IsImported(k) == k.role = "target" /\ k.state = "imported"

\* The states in which the gate refuses.
Frozen(k) == k.state \in {"frozen", "imported"}

\* Faulty: the migration ID is not compared.
AnyMigration(k, id) == TRUE

SameMigration(k, id) == k.id = id

\* transitionMigration: WHERE id, role, state and a fingerprint not recorded
\* yet or the same.
Matches(k, id, role, state, f) ==
  /\ SameMigration(k, id) /\ k.role = role /\ k.state = state
  /\ k.fingerprint \in {NoBundle, f}

-----------------------------------------------------------------------------
(* Rows, exports and imports.                                              *)

Empty == [data |-> {}, lease |-> NoOne]
Bundle(id, tables) == [id |-> id, tables |-> tables]

\* Faulty: rows that are there already count as the bundle's.
AnyRows(b, tables) == TRUE

\* Both exports of an import, before and after, compare fingerprints.
SameRows(b, tables) == b.tables = tables

\* A write crosses a migration if an operator's call has exported the frozen
\* rows or is at it, or has imported rows or is at it.
Exporting(o) == /\ opPc[o] \in {"drain", "export", "recordExport"}
                /\ seen[o].id = control["source"].id
Importing(o) == opPc[o] \in {"inspect", "load", "reconcile",
                             "recordImport"}
Closed(side) ==
  IF side = "source"
  THEN /\ control["source"].state = "frozen"
       /\ \/ control["source"].fingerprint # NoBundle
          \/ \E o \in Operators : Exporting(o)
  ELSE \/ control["target"].state = "imported"
       \/ \E o \in Operators : Importing(o)
Crossing(side) == IF Closed(side) THEN crossed \union {side} ELSE crossed

\* A transaction that leaves a row of table t as given.
WriteRow(side, t, row) ==
  /\ writes < MaxWrites
  /\ writes' = writes + 1
  /\ rows' = [rows EXCEPT ![side][t] = row]
  /\ crossed' = Crossing(side)

-----------------------------------------------------------------------------
Init ==
  /\ control = [s \in Sides |-> NoControl]
  /\ rows = [s \in Sides |-> [t \in Tables |-> Empty]]
  /\ readers = [p \in Procs |-> {}]
  /\ holder = [p \in Procs |-> NoOne]
  /\ pc = [c \in Calls |-> "idle"]
  /\ opPc = [o \in Operators |-> "idle"]
  /\ seen = [o \in Operators |-> NoControl]
  /\ table = [o \in Operators |-> 1]
  /\ read = [o \in Operators |-> [t \in Tables |-> Empty]]
  /\ argument = [o \in Operators |-> NoBundle]
  /\ exported = NoBundle
  /\ writes = 0 /\ setbacks = 0
  /\ frozenBy = [s \in Sides |-> NoOne]
  /\ crossed = {} /\ rolledBack = {}

-----------------------------------------------------------------------------
(* Writing calls and worker runs.                                          *)

Become(c, state) == pc' = [pc EXCEPT ![c] = state]
Unlock(c) == readers' = [readers EXCEPT ![ProcOf[c]] = @ \ {c}]

\* Faulty: the lock is released once the control row has been read.
KeptOnlyForTheRead(c) == {}

\* The function that releases the lock is handed to the call.
KeptBy(c) == {c}

\* beginMigrationSensitiveWrite takes the lock shared and reads the control
\* row, once; a call that is refused releases the lock and leaves no trace.
BeginWrite(c) ==
  /\ pc[c] = "idle"
  /\ holder[ProcOf[c]] = NoOne
  /\ ~Frozen(control[SideOf(c)])
  /\ readers' = [readers EXCEPT ![ProcOf[c]] = @ \union KeptBy(c)]
  /\ Become(c, "work")
  /\ UNCHANGED <<control, rows, holder, local, exported, writes, setbacks,
                 history>>

\* A transaction of the call.
Write(c, t) ==
  /\ pc[c] = "work"
  /\ LET s == SideOf(c) IN
       WriteRow(s, t, [rows[s][t] EXCEPT !.data = @ \union {writes}])
  /\ UNCHANGED <<control, gate, local, exported, setbacks, frozenBy,
                 rolledBack>>

\* A worker claims a row: it is free, or its lease has run out.
ClaimRow(c, t) ==
  /\ pc[c] = "work" /\ t <= Queues
  /\ LET s == SideOf(c) IN
       /\ rows[s][t].data # {} /\ rows[s][t].lease # c
       /\ rows' = [rows EXCEPT ![s][t].lease = c]
       /\ crossed' = Crossing(s)
  /\ UNCHANGED <<control, gate, local, exported, writes, setbacks, frozenBy,
                 rolledBack>>

\* It settles the row, if it still has the lease.
SettleRow(c, t) ==
  /\ pc[c] = "work"
  /\ LET s == SideOf(c) IN
       /\ rows[s][t].lease = c
       /\ WriteRow(s, t, [data |-> rows[s][t].data \union {writes},
                          lease |-> NoOne])
  /\ UNCHANGED <<control, gate, local, exported, setbacks, frozenBy,
                 rolledBack>>

\* The call returns and releases the lock.
EndWrite(c) ==
  /\ pc[c] = "work"
  /\ Become(c, "idle")
  /\ Unlock(c)
  /\ UNCHANGED <<control, rows, holder, local, exported, writes, setbacks,
                 history>>

\* InsertEvent: the host of the source commits an event in a transaction of
\* its own; on the target there is no host, only the service.
InsertEvent ==
  /\ WriteRow("source", 1,
              [rows["source"][1] EXCEPT !.data = @ \union {writes}])
  /\ UNCHANGED <<control, gate, local, exported, setbacks, frozenBy,
                 rolledBack>>

-----------------------------------------------------------------------------
(* Calls of SystemMigration.                                               *)

\* Go to a place with a value for each local.
Go(o, place, k, n, tables, x) ==
  /\ opPc' = [opPc EXCEPT ![o] = place]
  /\ seen' = [seen EXCEPT ![o] = k]
  /\ table' = [table EXCEPT ![o] = n]
  /\ read' = [read EXCEPT ![o] = tables]
  /\ argument' = [argument EXCEPT ![o] = x]

NothingRead == [t \in Tables |-> Empty]
Stay(o, place) == Go(o, place, seen[o], 1, NothingRead, argument[o])
Return(o) == Go(o, "idle", NoControl, 1, NothingRead, NoBundle)

\* Bound: the calls under way at once are all on one side, so that there is
\* one bundle to import.
MayBegin(o) ==
  LET busy == {p \in Operators : opPc[p] # "idle"} IN
  /\ o \notin busy
  /\ \A p \in busy : SideOf(p) = SideOf(o)
  /\ Cardinality(busy) < MaxBusy

\* The lock is taken exclusively by a call that is not there yet, and
\* released by one that returns.
MayLock(o) == /\ MayBegin(o)
              /\ holder[ProcOf[o]] = NoOne
              /\ readers[ProcOf[o]] = {}
Lock(o) == holder' = [holder EXCEPT ![ProcOf[o]] = o]

\* Faulty: the lock is not released on return.
KeepLock(o) == UNCHANGED holder

Release(o) == holder' = [holder EXCEPT ![ProcOf[o]] = NoOne]

SetControl(s, k) == control' = [control EXCEPT ![s] = k]
By(o, s) == frozenBy' = [frozenBy EXCEPT ![s] = ProcOf[o]]

\* Freeze: lock, and read the control row.
Freeze(o, id) ==
  /\ SideOf(o) = "source" /\ (MayReuse \/ id \notin rolledBack)
  /\ MayLock(o) /\ Lock(o)
  /\ Go(o, "freeze", control["source"], 1, NothingRead, id)
  /\ UNCHANGED <<control, rows, readers, pc, exported, writes, setbacks,
                 history>>

\* Frozen already, not active, INSERT of the first row, or UPDATE WHERE
\* state = active, whose number of rows nobody looks at.
FreezeControl(o) ==
  /\ opPc[o] = "freeze"
  /\ LET k == seen[o]
         frozen == Control(argument[o], "source", "frozen", NoBundle)
     IN \/ /\ k.state = "active"
           /\ \/ k.id = NoOne /\ control["source"] = NoControl
              \/ k.id # NoOne /\ control["source"].state = "active"
           /\ SetControl("source", frozen) /\ By(o, "source")
           /\ crossed' = crossed \ {"source"}
        \/ /\ \/ k.state # "active"
              \/ k.id = NoOne /\ control["source"] # NoControl
              \/ k.id # NoOne /\ control["source"].state # "active"
           /\ UNCHANGED <<control, frozenBy, crossed>>
  /\ Return(o) /\ Release(o)
  /\ UNCHANGED <<rows, readers, pc, exported, writes, setbacks, rolledBack>>

\* Export: read the control row; no lock.
Export(o) ==
  /\ SideOf(o) = "source" /\ MayBegin(o)
  /\ IsSource(control["source"])
  /\ Go(o, "drain", control["source"], 1, NothingRead, NoBundle)
  /\ UNCHANGED <<control, rows, gate, exported, writes, setbacks, history>>

\* Faulty: leases do not matter.
NotLeased(s, t) == TRUE

Drained(s, t) == rows[s][t].lease = NoOne

\* activeMigrationLeases counts table after table; one lease is one too many.
CountLeases(o) ==
  /\ opPc[o] = "drain"
  /\ LET t == table[o] IN
       \/ /\ ~Drained("source", t) /\ Return(o)
       \/ /\ Drained("source", t)
          /\ IF t < Queues
             THEN Go(o, "drain", seen[o], t + 1, NothingRead, argument[o])
             ELSE Stay(o, "export")
  /\ UNCHANGED <<control, rows, gate, exported, writes, setbacks, history>>

\* ExportPortable: one SELECT per table.
ReadTable(o, from, to) ==
  /\ opPc[o] = from
  /\ LET t == table[o] IN
       Go(o, IF t < LastTable THEN from ELSE to, seen[o],
          IF t < LastTable THEN t + 1 ELSE 1,
          [read[o] EXCEPT ![t] = rows[SideOf(o)][t]], argument[o])
  /\ UNCHANGED <<control, rows, gate, exported, writes, setbacks, history>>

ExportTable(o) == ReadTable(o, "export", "recordExport")

\* RecordMigrationFingerprint; only then does the operator get the bundle.
RecordFingerprint(o) ==
  /\ opPc[o] = "recordExport"
  /\ LET k == control["source"]
         id == seen[o].id
         b == Bundle(id, read[o])
     IN \/ /\ Matches(k, id, "source", "frozen", b)
           /\ SetControl("source", [k EXCEPT !.fingerprint = b])
           /\ exported' = b
        \/ /\ ~Matches(k, id, "source", "frozen", b)
           /\ UNCHANGED <<control, exported>>
  /\ Return(o)
  /\ UNCHANGED <<rows, gate, writes, setbacks, history>>

\* Import: lock, read the control row, and go on unless it is all done.
Import(o, b) ==
  /\ SideOf(o) = "target" /\ b # NoBundle
  /\ MayLock(o)
  /\ ~(IsImported(control["target"]) /\ control["target"].fingerprint = b)
  /\ Lock(o)
  /\ Go(o, "inspect", NoControl, 1, NothingRead, b)
  /\ UNCHANGED <<control, rows, readers, pc, exported, writes, setbacks,
                 history>>

\* The target is exported to see whether it is empty.
InspectTarget(o) == ReadTable(o, "inspect", "load")

Merge(row, more) == [data |-> row.data \union more.data,
                     lease |-> IF row.lease = NoOne THEN more.lease
                               ELSE row.lease]

\* Empty: insert all rows in one transaction, which fails on a key that is
\* there by now.  Not empty: the rows are those of the bundle, or an error.
LoadBundle(o) ==
  /\ opPc[o] = "load"
  /\ LET b == argument[o]
         s == "target"
         empty == \A t \in Tables : read[o][t].data = {}
         clash == \E t \in Tables :
                    rows[s][t].data \cap b.tables[t].data # {}
     IN \/ /\ empty /\ ~clash
           /\ rows' = [rows EXCEPT ![s] = [t \in Tables |->
                                             Merge(@[t], b.tables[t])]]
           /\ Stay(o, "reconcile")
           /\ UNCHANGED holder
        \/ /\ ~empty /\ SameRows(b, read[o])
           /\ Stay(o, "recordImport")
           /\ UNCHANGED <<rows, holder>>
        \/ /\ (empty /\ clash) \/ (~empty /\ ~SameRows(b, read[o]))
           /\ Return(o) /\ Release(o)
           /\ UNCHANGED rows
  /\ UNCHANGED <<control, readers, pc, exported, writes, setbacks, history>>

\* The target is exported again, and compared when all tables are read.
ReconcileTable(o) ==
  \/ /\ table[o] < LastTable
     /\ ReadTable(o, "reconcile", "reconcile")
  \/ /\ opPc[o] = "reconcile" /\ table[o] = LastTable
     /\ LET now == [read[o] EXCEPT ![LastTable] = rows["target"][LastTable]]
        IN \/ /\ SameRows(argument[o], now)
              /\ Stay(o, "recordImport") /\ UNCHANGED holder
           \/ /\ ~SameRows(argument[o], now)
              /\ Return(o) /\ Release(o)
     /\ UNCHANGED <<control, rows, readers, pc, exported, writes, setbacks,
                    history>>

\* RecordImportedMigration: INSERT, which fails if there is a row.
RecordImport(o) ==
  /\ opPc[o] = "recordImport"
  /\ \/ /\ control["target"] = NoControl
        /\ SetControl("target", Control(argument[o].id, "target", "imported",
                                        argument[o]))
        /\ By(o, "target")
     \/ /\ control["target"] # NoControl
        /\ UNCHANGED <<control, frozenBy>>
  /\ Return(o) /\ Release(o)
  /\ UNCHANGED <<rows, readers, pc, exported, writes, setbacks, crossed,
                 rolledBack>>

\* Activate: lock, transition and release, for the migration and fingerprint
\* of the bundle; they match those of the import or nothing happens.
Activate(o) ==
  /\ SideOf(o) = "target" /\ MayLock(o)
  /\ LET k == control["target"] IN
       /\ Matches(k, k.id, "target", "imported", k.fingerprint)
       /\ SetControl("target", [k EXCEPT !.state = "cutover"])
  /\ UNCHANGED <<rows, gate, local, exported, writes, setbacks, history>>

\* Rollback: the same on the source.  While no fingerprint is recorded, any
\* fingerprint will do.
Rollback(o) ==
  /\ SideOf(o) = "source" /\ MayLock(o)
  /\ LET k == control["source"]
         f == IF k.fingerprint = NoBundle THEN Mistyped ELSE k.fingerprint
     IN
       /\ Matches(k, k.id, "source", "frozen", f)
       /\ SetControl("source", [k EXCEPT !.state = "active",
                                         !.fingerprint = f])
       /\ rolledBack' = rolledBack \union {k.id}
  /\ setbacks < MaxSetbacks /\ setbacks' = setbacks + 1
  /\ UNCHANGED <<rows, gate, local, exported, writes, frozenBy, crossed>>

\* A process stops: its calls, its lock and its operators' calls are gone;
\* what is in the database stays, leases included.
Crash(p) ==
  /\ setbacks < MaxSetbacks
  /\ setbacks' = setbacks + 1
  /\ pc' = [c \in Calls |-> IF ProcOf[c] = p THEN "idle" ELSE pc[c]]
  /\ readers' = [readers EXCEPT ![p] = {}]
  /\ holder' = [holder EXCEPT ![p] = NoOne]
  /\ LET gone == {o \in Operators : ProcOf[o] = p} IN
       /\ opPc' = [o \in Operators |-> IF o \in gone THEN "idle" ELSE opPc[o]]
       /\ seen' = [o \in Operators |-> IF o \in gone THEN NoControl
                                       ELSE seen[o]]
       /\ table' = [o \in Operators |-> IF o \in gone THEN 1 ELSE table[o]]
       /\ read' = [o \in Operators |-> IF o \in gone THEN NothingRead
                                       ELSE read[o]]
       /\ argument' = [o \in Operators |-> IF o \in gone THEN NoBundle
                                           ELSE argument[o]]
  /\ UNCHANGED <<control, rows, exported, writes, history>>

CallStep(c) ==
  \/ BeginWrite(c)
  \/ \E t \in Tables : Write(c, t) \/ ClaimRow(c, t) \/ SettleRow(c, t)
  \/ EndWrite(c)

OperatorStep(o) ==
  \/ \E id \in MigrationIds : Freeze(o, id)
  \/ FreezeControl(o)
  \/ Export(o)
  \/ CountLeases(o)
  \/ ExportTable(o)
  \/ RecordFingerprint(o)
  \/ Import(o, exported)
  \/ InspectTarget(o)
  \/ LoadBundle(o)
  \/ ReconcileTable(o)
  \/ RecordImport(o)
  \/ Activate(o)
  \/ Rollback(o)

Next == \/ \E c \in Calls : CallStep(c)
        \/ \E o \in Operators : OperatorStep(o)
        \/ InsertEvent
        \/ \E p \in Procs : Crash(p)

Spec == Init /\ [][Next]_vars

-----------------------------------------------------------------------------
(* Properties.                                                             *)

Rows == [Tables -> [data : SUBSET Nat, lease : Calls \union {NoOne}]]
Bundles == [id : MigrationIds, tables : Rows]
Fingerprints == Bundles \union {NoBundle, Mistyped}
Controls == {NoControl} \union
            [id : MigrationIds, role : {"source", "target"},
             state : {"active", "frozen", "imported", "cutover"},
             fingerprint : Fingerprints]

Locking == {"freeze", "inspect", "load", "reconcile", "recordImport"}

DataOK ==
  /\ control \in [Sides -> Controls]
  /\ rows \in [Sides -> Rows]
  /\ seen \in [Operators -> Controls]
  /\ table \in [Operators -> Tables]
  /\ read \in [Operators -> Rows]
  /\ exported \in Bundles \union {NoBundle}
  /\ writes \in Nat /\ setbacks \in Nat
  /\ frozenBy \in [Sides -> Procs \union {NoOne}]
  /\ crossed \subseteq Sides /\ rolledBack \subseteq MigrationIds

LocksOK ==
  /\ pc \in [Calls -> {"idle", "work"}]
  /\ opPc \in [Operators -> Locking \union {"idle", "drain", "export",
                                            "recordExport"}]
  /\ readers \in [Procs -> SUBSET Calls]
  /\ holder \in [Procs -> Operators \union {NoOne}]
  /\ \A p \in Procs, c \in Calls :
       c \in readers[p] <=> ProcOf[c] = p /\ pc[c] = "work"
  /\ \A p \in Procs, o \in Operators :
       holder[p] = o <=> ProcOf[o] = p /\ opPc[o] \in Locking

\* Type invariant: the control rows and tables of both sides and what the
\* calls have read; the lock of a process is held, on every path through the
\* calls, exactly by those that have taken it and have not returned.
TypeOK == DataOK /\ LocksOK

\* The process that froze the source, or imported into the target, has no
\* call past the gate until the side is open again, and no call of a process
\* is past the gate while the process migrates: lock and control row together
\* leave no gap, whatever else happens in the other processes.
GateHoldsInItsProcess ==
  \A c \in Calls : pc[c] = "work" =>
    /\ holder[ProcOf[c]] = NoOne
    /\ Frozen(control[SideOf(c)]) => frozenBy[SideOf(c)] # ProcOf[c]

\* What an operator was given is what the frozen source holds, without a
\* lease, although tables are counted and read one after the other, without a
\* lock, while other operators freeze and roll back: unless a call of another
\* process that was past the gate before the freeze, or a host's own
\* transaction, has written since.  (A migration frozen under its ID again
\* after it was given up cannot be told from the first attempt: an export that
\* began before the rollback may still record what it read.)
ExportIsCurrent ==
  LET k == control["source"] IN
  IsSource(k) /\ k.fingerprint # NoBundle /\ "source" \notin crossed
    /\ k.id \notin rolledBack =>
    /\ rows["source"] = k.fingerprint.tables
    /\ \A t \in Tables : rows["source"][t].lease = NoOne

\* An imported target holds exactly the bundle whose fingerprint it records,
\* however often imports were begun, repeated, or cut off half way.  (Into a
\* target that has imported a bundle without a single row another bundle can
\* still be loaded: whether the target is active is asked only afterwards.)
HasRows(b) == \E t \in Tables : b.tables[t].data # {}
ImportIsExact ==
  LET k == control["target"] IN
  IsImported(k) /\ "target" \notin crossed /\ HasRows(k.fingerprint) =>
    rows["target"] = k.fingerprint.tables

\* When the target takes over, nothing is left behind: a source that is still
\* frozen under the fingerprint that is activated has the rows of the target.
CutoverMovesEverything ==
  [][/\ IsImported(control["target"]) /\ control'["target"].state = "cutover"
     /\ IsSource(control["source"])
     /\ control["source"].fingerprint = control["target"].fingerprint
     /\ HasRows(control["target"].fingerprint) /\ crossed = {}
     /\ control["source"].id \notin rolledBack
     => rows'["target"] = rows'["source"]]_vars
=============================================================================
