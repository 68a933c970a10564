------------------------ MODULE MigrationGateProofs ------------------------
(***************************************************************************)
(* Theorems about MigrationGate, for any processes, calls, operators,      *)
(* tables and migrations.                                                  *)
(***************************************************************************)
EXTENDS MigrationGate, TLAPS

Arguments == MigrationIds \union Bundles \union {NoBundle}
Loading == {"inspect", "load", "reconcile", "recordImport"}
Places == Locking \union {"idle", "drain", "export", "recordExport"}

\* The argument of a call is what the place it is at needs.
ArgumentsOK ==
  /\ argument \in [Operators -> Arguments]
  /\ \A o \in Operators :
       /\ opPc[o] = "freeze" => argument[o] \in MigrationIds
       /\ opPc[o] \in Loading => argument[o] \in Bundles
       /\ opPc[o] \in {"drain", "export", "recordExport"} =>
            seen[o].id \in MigrationIds

IInv == DataOK /\ LocksOK /\ ArgumentsOK /\ GateHoldsInItsProcess

-----------------------------------------------------------------------------
(* Lemmas about the operators.                                             *)

LEMMA SideIsSide == \A c \in Calls \union Operators :
                      ProcOf[c] \in Procs /\ SideOf(c) \in Sides
BY ProcAssumption DEF SideOf, Side, Sides, Procs

LEMMA EmptyRows == Empty \in [data : SUBSET Nat, lease : Calls \union {NoOne}]
                   /\ NothingRead \in Rows
BY DEF Empty, NothingRead, Rows

LEMMA TablesAreNumbers == Tables \subseteq Nat /\ 1 \in Tables /\ LastTable \in Tables
                          /\ \A t \in Tables : t < LastTable => t + 1 \in Tables
BY BoundAssumption DEF Tables

\* A call of an operator that goes to a place with values of the right types.
LEMMA GoOK ==
  ASSUME DataOK, LocksOK, ArgumentsOK, NEW o \in Operators, NEW place \in Places,
         NEW k \in Controls, NEW n \in Tables, NEW tables \in Rows,
         NEW x \in Arguments, Go(o, place, k, n, tables, x),
         place = "freeze" => x \in MigrationIds,
         place \in Loading => x \in Bundles,
         place \in {"drain", "export", "recordExport"} => k.id \in MigrationIds
  PROVE  /\ seen' \in [Operators -> Controls]
         /\ table' \in [Operators -> Tables]
         /\ read' \in [Operators -> Rows]
         /\ opPc' \in [Operators -> Places]
         /\ ArgumentsOK'
BY DEF DataOK, LocksOK, ArgumentsOK, Go, Places

\* A write leaves rows of the right type.
LEMMA WriteRowOK ==
  ASSUME DataOK, NEW s \in Sides, NEW t \in Tables,
         NEW row \in [data : SUBSET Nat, lease : Calls \union {NoOne}],
         WriteRow(s, t, row)
  PROVE  /\ rows' \in [Sides -> Rows] /\ writes' \in Nat
         /\ crossed' \subseteq Sides
BY DEF DataOK, WriteRow, Crossing, Rows

LEMMA RowOK ==
  ASSUME DataOK, NEW s \in Sides, NEW t \in Tables
  PROVE  rows[s][t] \in [data : SUBSET Nat, lease : Calls \union {NoOne}]
BY DEF DataOK, Rows

LEMMA ReadTableOK ==
  ASSUME IInv, NEW o \in Operators, NEW from \in Places, NEW to \in Places,
         ReadTable(o, from, to), from # "freeze", to # "freeze", from # "idle",
         from \in Loading <=> to \in Loading
  PROVE  DataOK' /\ ArgumentsOK'
<1>1. SideOf(o) \in Sides
  BY SideIsSide
<1>2. table[o] \in Tables /\ seen[o] \in Controls /\ argument[o] \in Arguments
      /\ opPc[o] = from
  BY DEF IInv, DataOK, ArgumentsOK, ReadTable
<1>3. [read[o] EXCEPT ![table[o]] = rows[SideOf(o)][table[o]]] \in Rows
  <2>1. rows[SideOf(o)][table[o]] \in [data : SUBSET Nat, lease : Calls \union {NoOne}]
    BY <1>1, <1>2, RowOK DEF IInv
  <2>2. read[o] \in Rows
    BY DEF IInv, DataOK
  <2> QED
    BY <2>1, <2>2, <1>2 DEF Rows
<1>4. from \in Loading => argument[o] \in Bundles
  BY <1>2 DEF IInv, ArgumentsOK
<1>5. from \notin Loading => seen[o].id \in MigrationIds
  BY <1>2 DEF IInv, ArgumentsOK, Places, Locking, Loading
<1>6. (IF table[o] < LastTable THEN table[o] + 1 ELSE 1) \in Tables
  BY <1>2, TablesAreNumbers
<1>7. (IF table[o] < LastTable THEN from ELSE to) \in Places
  OBVIOUS
<1>8. PICK place \in Places, n \in Tables, tables \in Rows :
        /\ Go(o, place, seen[o], n, tables, argument[o])
        /\ place \in {from, to}
  BY <1>3, <1>6, <1>7 DEF ReadTable
<1>9. /\ seen' \in [Operators -> Controls]
      /\ table' \in [Operators -> Tables]
      /\ read' \in [Operators -> Rows]
      /\ ArgumentsOK'
  BY <1>2, <1>4, <1>5, <1>8, GoOK DEF IInv, Loading
<1> QED
  BY <1>9 DEF IInv, DataOK, ReadTable, gate, history

-----------------------------------------------------------------------------
(* Types of the data.                                                      *)

LEMMA DataInit == Init => DataOK /\ ArgumentsOK
<1> SUFFICES ASSUME Init PROVE DataOK /\ ArgumentsOK
  OBVIOUS
<1>1. rows \in [Sides -> Rows] /\ read \in [Operators -> Rows]
  BY EmptyRows DEF Init, Rows, NothingRead
<1>2. control \in [Sides -> Controls] /\ seen \in [Operators -> Controls]
  BY DEF Init, Controls
<1>3. table \in [Operators -> Tables]
  BY TablesAreNumbers DEF Init
<1>4. ArgumentsOK
  BY DEF Init, ArgumentsOK, Arguments, Loading
<1> QED
  BY <1>1, <1>2, <1>3, <1>4 DEF Init, DataOK

LEMMA ControlOK ==
  ASSUME NEW id \in MigrationIds, NEW role \in {"source", "target"},
         NEW state \in {"active", "frozen", "imported", "cutover"},
         NEW f \in Fingerprints
  PROVE  Control(id, role, state, f) \in Controls
BY DEF Control, Controls

\* A row that matches in another state than active is a real one.
LEMMA MatchedIsReal ==
  ASSUME NEW k \in Controls, k.state # "active"
  PROVE  k \in [id : MigrationIds, role : {"source", "target"},
                state : {"active", "frozen", "imported", "cutover"},
                fingerprint : Fingerprints]
BY DEF Controls, NoControl

WrittenOK == rows \in [Sides -> Rows] /\ writes \in Nat /\ crossed \subseteq Sides

LEMMA CallData ==
  ASSUME IInv, NEW c \in Calls, CallStep(c)
  PROVE  DataOK' /\ ArgumentsOK'
<1>1. SideOf(c) \in Sides
  BY SideIsSide
<1>2. UNCHANGED <<control, local, exported, setbacks, frozenBy, rolledBack>>
  BY DEF CallStep, BeginWrite, Write, ClaimRow, SettleRow, EndWrite, history
<1>3. WrittenOK'
  <2> USE DEF WrittenOK
  <2>1. CASE BeginWrite(c) \/ EndWrite(c)
    BY <2>1 DEF IInv, DataOK, BeginWrite, EndWrite, history
  <2>2. ASSUME NEW t \in Tables, Write(c, t) PROVE WrittenOK'
    <3>1. [rows[SideOf(c)][t] EXCEPT !.data = @ \union {writes}]
            \in [data : SUBSET Nat, lease : Calls \union {NoOne}]
      BY <1>1, RowOK DEF IInv, DataOK
    <3> QED
      BY <1>1, <2>2, <3>1, WriteRowOK DEF IInv, Write
  <2>3. ASSUME NEW t \in Tables, ClaimRow(c, t) PROVE WrittenOK'
    <3>1. rows[SideOf(c)][t] \in [data : SUBSET Nat, lease : Calls \union {NoOne}]
      BY <1>1, RowOK DEF IInv
    <3>2. rows' = [rows EXCEPT ![SideOf(c)][t].lease = c] /\ writes' = writes
          /\ crossed' = Crossing(SideOf(c))
      BY <2>3 DEF ClaimRow
    <3>3. rows' \in [Sides -> Rows]
      BY <1>1, <3>1, <3>2 DEF IInv, DataOK, Rows
    <3> QED
      BY <1>1, <3>2, <3>3 DEF IInv, DataOK, Crossing
  <2>4. ASSUME NEW t \in Tables, SettleRow(c, t) PROVE WrittenOK'
    <3>1. [data |-> rows[SideOf(c)][t].data \union {writes}, lease |-> NoOne]
            \in [data : SUBSET Nat, lease : Calls \union {NoOne}]
      BY <1>1, RowOK DEF IInv, DataOK
    <3> QED
      BY <1>1, <2>4, <3>1, WriteRowOK DEF IInv, SettleRow
  <2> QED
    BY <2>1, <2>2, <2>3, <2>4 DEF CallStep
<1> QED
  BY <1>2, <1>3 DEF IInv, DataOK, ArgumentsOK, local, WrittenOK

LEMMA HostData ==
  ASSUME IInv, InsertEvent
  PROVE  DataOK' /\ ArgumentsOK'
<1>1. "source" \in Sides /\ 1 \in Tables
  BY TablesAreNumbers DEF Sides
<1>2. [rows["source"][1] EXCEPT !.data = @ \union {writes}]
        \in [data : SUBSET Nat, lease : Calls \union {NoOne}]
  BY <1>1, RowOK DEF IInv, DataOK
<1>3. /\ rows' \in [Sides -> Rows] /\ writes' \in Nat /\ crossed' \subseteq Sides
  BY <1>1, <1>2, WriteRowOK DEF IInv, InsertEvent
<1> QED
  BY <1>3 DEF IInv, DataOK, ArgumentsOK, InsertEvent, local

LEMMA CrashData ==
  ASSUME IInv, NEW p \in Procs, Crash(p)
  PROVE  DataOK' /\ ArgumentsOK'
<1>1. NoControl \in Controls /\ NothingRead \in Rows /\ 1 \in Tables
      /\ NoBundle \in Arguments
  BY EmptyRows, TablesAreNumbers DEF Controls, Arguments
<1>2. /\ seen' \in [Operators -> Controls] /\ table' \in [Operators -> Tables]
      /\ read' \in [Operators -> Rows] /\ setbacks' \in Nat
  BY <1>1 DEF IInv, DataOK, Crash
<1>3. ArgumentsOK'
  BY <1>1 DEF IInv, DataOK, ArgumentsOK, Crash, Loading
<1> QED
  BY <1>2, <1>3 DEF IInv, DataOK, Crash, history

\* An operator's call that returns, or that stays with what it knows.
LEMMA ReturnOK ==
  ASSUME IInv, NEW o \in Operators, Return(o)
  PROVE  /\ seen' \in [Operators -> Controls] /\ table' \in [Operators -> Tables]
         /\ read' \in [Operators -> Rows] /\ ArgumentsOK'
<1>1. NoControl \in Controls /\ NothingRead \in Rows /\ 1 \in Tables
      /\ NoBundle \in Arguments /\ "idle" \in Places
  BY EmptyRows, TablesAreNumbers DEF Controls, Arguments, Places
<1> QED
  BY <1>1, GoOK DEF IInv, Return, Loading

LEMMA StayOK ==
  ASSUME IInv, NEW o \in Operators, NEW place \in Places \ {"freeze"}, Stay(o, place),
         opPc[o] \in Loading => place \in Loading,
         opPc[o] \in {"drain", "export"} => place \notin Loading,
         opPc[o] \in Loading \union {"drain", "export"}
  PROVE  /\ seen' \in [Operators -> Controls] /\ table' \in [Operators -> Tables]
         /\ read' \in [Operators -> Rows] /\ ArgumentsOK'
<1>1. seen[o] \in Controls /\ NothingRead \in Rows /\ 1 \in Tables
      /\ argument[o] \in Arguments
  BY EmptyRows, TablesAreNumbers DEF IInv, DataOK, ArgumentsOK
<1>2. opPc[o] \in Loading => argument[o] \in Bundles
  BY DEF IInv, ArgumentsOK
<1>3. opPc[o] \notin Loading => seen[o].id \in MigrationIds
  BY DEF IInv, ArgumentsOK
<1> QED
  BY <1>1, <1>2, <1>3, GoOK DEF IInv, Stay, Loading

\* A control row that is set by an operator.
SetOK == control \in [Sides -> Controls] /\ frozenBy \in [Sides -> Procs \union {NoOne}]

LEMMA FreezeData ==
  ASSUME IInv, NEW o \in Operators,
         (\E id \in MigrationIds : Freeze(o, id)) \/ FreezeControl(o)
  PROVE  DataOK' /\ ArgumentsOK'
<1>1. ASSUME NEW id \in MigrationIds, Freeze(o, id) PROVE DataOK' /\ ArgumentsOK'
  <2>1. control["source"] \in Controls /\ NothingRead \in Rows /\ 1 \in Tables
        /\ id \in Arguments /\ "freeze" \in Places
    BY EmptyRows, TablesAreNumbers
    DEF IInv, DataOK, Arguments, Places, Locking, Sides
  <2>2. Go(o, "freeze", control["source"], 1, NothingRead, id)
    BY <1>1 DEF Freeze
  <2>3. /\ seen' \in [Operators -> Controls] /\ table' \in [Operators -> Tables]
        /\ read' \in [Operators -> Rows] /\ ArgumentsOK'
    BY <2>1, <2>2, GoOK DEF IInv, Loading
  <2> QED
    BY <1>1, <2>3 DEF IInv, DataOK, Freeze, history
<1>2. ASSUME FreezeControl(o) PROVE DataOK' /\ ArgumentsOK'
  <2>1. Control(argument[o], "source", "frozen", NoBundle) \in Controls
    BY <1>2, ControlOK DEF IInv, ArgumentsOK, FreezeControl, Fingerprints
  <2>2. SetOK' /\ crossed' \subseteq Sides
    <3>1. CASE /\ SetControl("source", Control(argument[o], "source", "frozen", NoBundle))
               /\ By(o, "source") /\ crossed' = crossed \ {"source"}
      BY <2>1, <3>1, SideIsSide DEF IInv, DataOK, SetControl, By, SetOK
    <3>2. CASE UNCHANGED <<control, frozenBy, crossed>>
      BY <3>2 DEF IInv, DataOK, SetOK
    <3> QED
      BY <1>2, <3>1, <3>2 DEF FreezeControl
  <2>3. /\ seen' \in [Operators -> Controls] /\ table' \in [Operators -> Tables]
        /\ read' \in [Operators -> Rows] /\ ArgumentsOK'
    BY <1>2, ReturnOK DEF FreezeControl
  <2>4. UNCHANGED <<rows, exported, writes, setbacks, rolledBack>>
    BY <1>2 DEF FreezeControl
  <2> QED
    BY <2>2, <2>3, <2>4 DEF IInv, DataOK, SetOK
<1> QED
  BY <1>1, <1>2

LEMMA ExportData ==
  ASSUME IInv, NEW o \in Operators,
         Export(o) \/ CountLeases(o) \/ ExportTable(o) \/ RecordFingerprint(o)
  PROVE  DataOK' /\ ArgumentsOK'
<1>1. CASE Export(o)
  <2>1. control["source"] \in Controls /\ control["source"].state = "frozen"
    BY <1>1 DEF IInv, DataOK, Export, IsSource, Sides
  <2>2. control["source"].id \in MigrationIds
    BY <2>1, MatchedIsReal
  <2>3. NothingRead \in Rows /\ 1 \in Tables /\ NoBundle \in Arguments
        /\ "drain" \in Places
    BY EmptyRows, TablesAreNumbers DEF Arguments, Places
  <2>4. /\ seen' \in [Operators -> Controls] /\ table' \in [Operators -> Tables]
        /\ read' \in [Operators -> Rows] /\ ArgumentsOK'
    BY <1>1, <2>1, <2>2, <2>3, GoOK DEF IInv, Loading, Export
  <2> QED
    BY <1>1, <2>4 DEF IInv, DataOK, Export, history
<1>2. CASE CountLeases(o)
  <2>1. opPc[o] = "drain" /\ table[o] \in Tables /\ seen[o] \in Controls
        /\ seen[o].id \in MigrationIds /\ argument[o] \in Arguments
    BY <1>2 DEF IInv, DataOK, ArgumentsOK, CountLeases
  <2>2. table[o] < Queues => table[o] + 1 \in Tables
    BY <2>1, BoundAssumption DEF Tables
  <2>3. NothingRead \in Rows /\ "drain" \in Places /\ "export" \in Places \ {"freeze"}
    BY EmptyRows DEF Places
  <2>4. CASE Return(o)
    BY <1>2, <2>4, ReturnOK DEF IInv, DataOK, CountLeases, history
  <2>5. CASE Stay(o, "export")
    BY <1>2, <2>1, <2>3, <2>5, StayOK DEF IInv, DataOK, CountLeases, history, Loading
  <2>6. CASE table[o] < Queues /\ Go(o, "drain", seen[o], table[o] + 1, NothingRead,
                                    argument[o])
    <3>1. /\ seen' \in [Operators -> Controls] /\ table' \in [Operators -> Tables]
          /\ read' \in [Operators -> Rows] /\ ArgumentsOK'
      BY <2>1, <2>2, <2>3, <2>6, GoOK DEF IInv, Loading
    <3> QED
      BY <1>2, <3>1 DEF IInv, DataOK, CountLeases, history
  <2> QED
    BY <1>2, <2>4, <2>5, <2>6 DEF CountLeases
<1>3. CASE ExportTable(o)
  BY <1>3, ReadTableOK DEF ExportTable, Places, Locking, Loading
<1>4. CASE RecordFingerprint(o)
  <2>1. Bundle(seen[o].id, read[o]) \in Bundles
    BY <1>4 DEF IInv, DataOK, ArgumentsOK, RecordFingerprint, Bundle, Bundles
  <2>2. ASSUME Matches(control["source"], seen[o].id, "source", "frozen",
                       Bundle(seen[o].id, read[o]))
        PROVE  [control["source"] EXCEPT !.fingerprint =
                  Bundle(seen[o].id, read[o])] \in Controls
    <3>1. control["source"] \in Controls /\ control["source"].state = "frozen"
      BY <2>2 DEF IInv, DataOK, Matches, Sides
    <3> QED
      BY <2>1, <3>1, MatchedIsReal DEF Controls, Fingerprints
  <2>3. control' \in [Sides -> Controls] /\ exported' \in Bundles \union {NoBundle}
    BY <1>4, <2>1, <2>2 DEF IInv, DataOK, RecordFingerprint, SetControl, Sides
  <2>4. /\ seen' \in [Operators -> Controls] /\ table' \in [Operators -> Tables]
        /\ read' \in [Operators -> Rows] /\ ArgumentsOK'
    BY <1>4, ReturnOK DEF RecordFingerprint
  <2> QED
    BY <1>4, <2>3, <2>4 DEF IInv, DataOK, RecordFingerprint, history
<1> QED
  BY <1>1, <1>2, <1>3, <1>4

LEMMA ImportData ==
  ASSUME IInv, NEW o \in Operators,
         \/ Import(o, exported) \/ InspectTarget(o) \/ LoadBundle(o)
         \/ ReconcileTable(o) \/ RecordImport(o)
  PROVE  DataOK' /\ ArgumentsOK'
<1>1. CASE Import(o, exported)
  <2>1. exported \in Bundles /\ exported \in Arguments
    BY <1>1 DEF IInv, DataOK, Import, Arguments
  <2>2. NoControl \in Controls /\ NothingRead \in Rows /\ 1 \in Tables
        /\ "inspect" \in Places
    BY EmptyRows, TablesAreNumbers DEF Controls, Places, Locking
  <2>3. /\ seen' \in [Operators -> Controls] /\ table' \in [Operators -> Tables]
        /\ read' \in [Operators -> Rows] /\ ArgumentsOK'
    BY <1>1, <2>1, <2>2, GoOK DEF IInv, Loading, Import
  <2> QED
    BY <1>1, <2>3 DEF IInv, DataOK, Import, history
<1>2. CASE InspectTarget(o)
  BY <1>2, ReadTableOK DEF InspectTarget, Places, Locking, Loading
<1>3. CASE LoadBundle(o)
  <2>1. argument[o] \in Bundles /\ opPc[o] = "load"
    BY <1>3 DEF IInv, ArgumentsOK, LoadBundle, Loading
  <2>2. ASSUME NEW t \in Tables
        PROVE  Merge(rows["target"][t], argument[o].tables[t])
                 \in [data : SUBSET Nat, lease : Calls \union {NoOne}]
    <3>1. rows["target"][t] \in [data : SUBSET Nat, lease : Calls \union {NoOne}]
      BY RowOK DEF IInv, Sides
    <3>2. argument[o].tables[t] \in [data : SUBSET Nat, lease : Calls \union {NoOne}]
      BY <2>1 DEF Bundles, Rows
    <3> QED
      BY <3>1, <3>2 DEF Merge
  <2>3. rows' \in [Sides -> Rows]
    BY <1>3, <2>2 DEF IInv, DataOK, LoadBundle, Sides, Rows
  <2>4. "reconcile" \in Places \ {"freeze"} /\ "recordImport" \in Places \ {"freeze"}
    BY DEF Places, Locking
  <2>5. Return(o) \/ Stay(o, "reconcile") \/ Stay(o, "recordImport")
    BY <1>3 DEF LoadBundle
  <2>6. /\ seen' \in [Operators -> Controls] /\ table' \in [Operators -> Tables]
        /\ read' \in [Operators -> Rows] /\ ArgumentsOK'
    BY <2>1, <2>4, <2>5, ReturnOK, StayOK DEF Loading
  <2>7. UNCHANGED <<control, exported, writes, setbacks, frozenBy, crossed, rolledBack>>
    BY <1>3 DEF LoadBundle, history
  <2> QED
    BY <2>3, <2>6, <2>7 DEF IInv, DataOK
<1>4. CASE ReconcileTable(o)
  <2>1. CASE ReadTable(o, "reconcile", "reconcile")
    BY <2>1, ReadTableOK DEF Places, Locking, Loading
  <2>2. CASE /\ opPc[o] = "reconcile"
             /\ (Return(o) \/ Stay(o, "recordImport"))
             /\ UNCHANGED <<control, rows, exported, writes, setbacks, history>>
    <3>1. "recordImport" \in Places \ {"freeze"}
      BY DEF Places, Locking
    <3>2. /\ seen' \in [Operators -> Controls] /\ table' \in [Operators -> Tables]
          /\ read' \in [Operators -> Rows] /\ ArgumentsOK'
      BY <2>2, <3>1, ReturnOK, StayOK DEF Loading
    <3>3. UNCHANGED <<control, rows, exported, writes, setbacks, frozenBy, crossed,
                      rolledBack>>
      BY <2>2 DEF history
    <3> QED
      BY <3>2, <3>3 DEF IInv, DataOK
  <2> QED
    BY <1>4, <2>1, <2>2 DEF ReconcileTable
<1>5. CASE RecordImport(o)
  <2>1. argument[o] \in Bundles
    BY <1>5 DEF IInv, ArgumentsOK, RecordImport, Loading
  <2>2. Control(argument[o].id, "target", "imported", argument[o]) \in Controls
    BY <2>1, ControlOK DEF Bundles, Fingerprints
  <2>3. SetOK'
    BY <1>5, <2>2, SideIsSide
    DEF IInv, DataOK, RecordImport, SetControl, By, SetOK, Sides
  <2>4. /\ seen' \in [Operators -> Controls] /\ table' \in [Operators -> Tables]
        /\ read' \in [Operators -> Rows] /\ ArgumentsOK'
    BY <1>5, ReturnOK DEF RecordImport
  <2>5. UNCHANGED <<rows, exported, writes, setbacks, crossed, rolledBack>>
    BY <1>5 DEF RecordImport
  <2> QED
    BY <2>3, <2>4, <2>5 DEF IInv, DataOK, SetOK
<1> QED
  BY <1>1, <1>2, <1>3, <1>4, <1>5

LEMMA SwitchData ==
  ASSUME IInv, NEW o \in Operators, Activate(o) \/ Rollback(o)
  PROVE  DataOK' /\ ArgumentsOK'
<1>1. CASE Activate(o)
  <2>1. control["target"] \in Controls /\ control["target"].state = "imported"
    BY <1>1 DEF IInv, DataOK, Activate, Matches, Sides
  <2>2. [control["target"] EXCEPT !.state = "cutover"] \in Controls
    BY <2>1, MatchedIsReal DEF Controls
  <2> QED
    BY <1>1, <2>2 DEF IInv, DataOK, ArgumentsOK, Activate, SetControl, local, history
<1>2. CASE Rollback(o)
  <2> DEFINE k == control["source"]
             f == IF k.fingerprint = NoBundle THEN Mistyped ELSE k.fingerprint
  <2>1. k \in Controls /\ k.state = "frozen"
    BY <1>2 DEF IInv, DataOK, Rollback, Matches, Sides
  <2>2. k.id \in MigrationIds /\ f \in Fingerprints
    BY <2>1, MatchedIsReal DEF Fingerprints
  <2>3. [k EXCEPT !.state = "active", !.fingerprint = f] \in Controls
    BY <2>1, <2>2, MatchedIsReal DEF Controls
  <2>4. control' \in [Sides -> Controls]
    BY <1>2, <2>3 DEF IInv, DataOK, Rollback, SetControl
  <2>5. setbacks' \in Nat /\ rolledBack' \subseteq MigrationIds
    BY <1>2, <2>2 DEF IInv, DataOK, Rollback
  <2>6. UNCHANGED <<rows, local, exported, writes, frozenBy, crossed>>
    BY <1>2 DEF Rollback
  <2> QED
    BY <2>4, <2>5, <2>6 DEF IInv, DataOK, ArgumentsOK, local
<1> QED
  BY <1>1, <1>2

-----------------------------------------------------------------------------
(* Locks and the gate.                                                     *)

GateOK == LocksOK /\ GateHoldsInItsProcess

LEMMA GateInit == Init => GateOK
BY ProcAssumption DEF Init, GateOK, LocksOK, GateHoldsInItsProcess, Procs, Locking

\* A call that takes or releases the lock shared.
LEMMA CallGate ==
  ASSUME IInv, NEW c \in Calls, CallStep(c)
  PROVE  GateOK'
<1>1. UNCHANGED <<control, holder, opPc, frozenBy>>
  BY DEF CallStep, BeginWrite, Write, ClaimRow, SettleRow, EndWrite, local, gate, history
<1>2. ProcOf[c] \in Procs
  BY SideIsSide
<1>3. CASE UNCHANGED gate
  BY <1>1, <1>3 DEF IInv, GateOK, LocksOK, GateHoldsInItsProcess, gate
<1>4. CASE BeginWrite(c)
  <2>1. readers' = [readers EXCEPT ![ProcOf[c]] = @ \union {c}]
        /\ pc' = [pc EXCEPT ![c] = "work"]
        /\ holder[ProcOf[c]] = NoOne /\ ~Frozen(control[SideOf(c)])
    BY <1>4 DEF BeginWrite, KeptBy, Become
  <2>2. \A q \in Procs, d \in Calls :
        d \in readers'[q] <=> ProcOf[d] = q /\ pc'[d] = "work"
    BY <1>2, <2>1 DEF IInv, LocksOK
  <2>3. LocksOK'
    <3>1. readers' \in [Procs -> SUBSET Calls] /\ pc' \in [Calls -> {"idle", "work"}]
      BY <2>1 DEF IInv, LocksOK
    <3> QED
      BY <1>1, <2>2, <3>1 DEF IInv, LocksOK
  <2>4. ASSUME NEW d \in Calls, pc'[d] = "work"
        PROVE  /\ holder'[ProcOf[d]] = NoOne
               /\ Frozen(control'[SideOf(d)]) => frozenBy'[SideOf(d)] # ProcOf[d]
    BY <1>1, <2>1, <2>4 DEF IInv, LocksOK, GateHoldsInItsProcess, Frozen
  <2>5. GateHoldsInItsProcess'
    BY <2>4 DEF GateHoldsInItsProcess
  <2> QED
    BY <2>3, <2>5 DEF GateOK
<1>5. CASE EndWrite(c)
  <2>1. readers' = [readers EXCEPT ![ProcOf[c]] = @ \ {c}]
        /\ pc' = [pc EXCEPT ![c] = "idle"]
    BY <1>5 DEF EndWrite, Unlock, Become
  <2>2. \A q \in Procs, d \in Calls :
        d \in readers'[q] <=> ProcOf[d] = q /\ pc'[d] = "work"
    BY <1>2, <2>1 DEF IInv, LocksOK
  <2>3. LocksOK'
    <3>1. readers' \in [Procs -> SUBSET Calls] /\ pc' \in [Calls -> {"idle", "work"}]
      BY <2>1 DEF IInv, LocksOK
    <3> QED
      BY <1>1, <2>2, <3>1 DEF IInv, LocksOK
  <2>4. ASSUME NEW d \in Calls, pc'[d] = "work"
        PROVE  /\ holder'[ProcOf[d]] = NoOne
               /\ Frozen(control'[SideOf(d)]) => frozenBy'[SideOf(d)] # ProcOf[d]
    BY <1>1, <2>1, <2>4 DEF IInv, LocksOK, GateHoldsInItsProcess, Frozen
  <2>5. GateHoldsInItsProcess'
    BY <2>4 DEF GateHoldsInItsProcess
  <2> QED
    BY <2>3, <2>5 DEF GateOK
<1> QED
  BY <1>3, <1>4, <1>5 DEF CallStep, Write, ClaimRow, SettleRow

LEMMA CrashGate ==
  ASSUME IInv, NEW p \in Procs, Crash(p)
  PROVE  GateOK'
<1>1. UNCHANGED <<control, frozenBy>>
  BY DEF Crash, history
<1>2. pc' = [c \in Calls |-> IF ProcOf[c] = p THEN "idle" ELSE pc[c]]
      /\ readers' = [readers EXCEPT ![p] = {}]
      /\ holder' = [holder EXCEPT ![p] = NoOne]
      /\ opPc' = [o \in Operators |-> IF ProcOf[o] = p THEN "idle" ELSE opPc[o]]
  BY DEF Crash
<1>3. \A q \in Procs, d \in Calls :
        d \in readers'[q] <=> ProcOf[d] = q /\ pc'[d] = "work"
  BY <1>2 DEF IInv, LocksOK
<1>4. \A q \in Procs, o \in Operators :
        holder'[q] = o <=> ProcOf[o] = q /\ opPc'[o] \in Locking
  BY <1>2, ProcAssumption DEF IInv, LocksOK, Locking
<1>5. LocksOK'
  BY <1>2, <1>3, <1>4 DEF IInv, LocksOK
<1>6. ASSUME NEW c \in Calls, pc'[c] = "work"
      PROVE  /\ holder'[ProcOf[c]] = NoOne
             /\ Frozen(control'[SideOf(c)]) => frozenBy'[SideOf(c)] # ProcOf[c]
  BY <1>1, <1>2, <1>6, SideIsSide
  DEF IInv, LocksOK, GateHoldsInItsProcess, Frozen
<1>7. GateHoldsInItsProcess'
  BY <1>6 DEF GateHoldsInItsProcess
<1> QED
  BY <1>5, <1>7 DEF GateOK

\* The ways in which an operator's call treats the lock of its process: it
\* takes it, keeps what it has, or gives it back.
Takes(o) == MayLock(o) /\ Lock(o) /\ opPc'[o] \in Locking
Keeps(o) == UNCHANGED holder /\ (opPc[o] \in Locking <=> opPc'[o] \in Locking)
Gives(o) == Release(o) /\ opPc[o] \in Locking /\ opPc'[o] \notin Locking

LEMMA OperatorLocks ==
  ASSUME IInv, NEW o \in Operators, Takes(o) \/ Keeps(o) \/ Gives(o),
         opPc' \in [Operators -> Places],
         \A q \in Operators \ {o} : opPc'[q] = opPc[q],
         UNCHANGED <<readers, pc>>
  PROVE  /\ LocksOK'
         /\ \A c \in Calls : pc'[c] = "work" => holder'[ProcOf[c]] = NoOne
<1>1. ProcOf[o] \in Procs /\ NoOne \notin Operators
  BY SideIsSide, ProcAssumption
<1>2. \A c \in Calls : pc[c] = "work" =>
        holder[ProcOf[c]] = NoOne /\ c \in readers[ProcOf[c]] /\ ProcOf[c] \in Procs
  BY SideIsSide DEF IInv, LocksOK, GateHoldsInItsProcess
<1>3. CASE Takes(o)
  BY <1>1, <1>2, <1>3 DEF IInv, LocksOK, Takes, MayLock, Lock, Places
<1>4. CASE Keeps(o)
  BY <1>2, <1>4 DEF IInv, LocksOK, Keeps, Places
<1>5. CASE Gives(o)
  <2>1. holder' = [holder EXCEPT ![ProcOf[o]] = NoOne] /\ holder[ProcOf[o]] = o
    BY <1>1, <1>5 DEF IInv, LocksOK, Gives, Release
  <2>2. \A p \in Procs, q \in Operators :
          holder'[p] = q <=> ProcOf[q] = p /\ opPc'[q] \in Locking
    BY <1>1, <1>5, <2>1 DEF IInv, LocksOK, Gives
  <2> QED
    BY <1>1, <1>2, <2>1, <2>2 DEF IInv, LocksOK, Places
<1> QED
  BY <1>3, <1>4, <1>5

\* Where a call goes.
LEMMA Goes ==
  ASSUME IInv, NEW o \in Operators, NEW place \in Places,
         opPc' = [opPc EXCEPT ![o] = place]
  PROVE  /\ opPc' \in [Operators -> Places] /\ opPc'[o] = place
         /\ \A q \in Operators \ {o} : opPc'[q] = opPc[q]
BY DEF IInv, LocksOK, Places

LEMMA ReadTableLocks ==
  ASSUME IInv, NEW o \in Operators, NEW from \in Places, NEW to \in Places,
         ReadTable(o, from, to), from \in Locking <=> to \in Locking
  PROVE  /\ opPc' \in [Operators -> Places] /\ Keeps(o)
         /\ \A q \in Operators \ {o} : opPc'[q] = opPc[q]
         /\ UNCHANGED <<readers, pc, control, frozenBy>>
<1>1. PICK place \in {from, to} : opPc' = [opPc EXCEPT ![o] = place]
  BY DEF ReadTable, Go
<1>2. opPc[o] = from /\ UNCHANGED <<readers, holder, pc, control, frozenBy>>
  BY DEF ReadTable, gate, history
<1> QED
  BY <1>1, <1>2, Goes DEF Keeps

\* What an operator does to the gate: it leaves the control row as it is, or
\* opens the side, or closes it while no call of its process is at work.
ControlStep(o) ==
  \A s \in Sides :
    \/ Frozen(control'[s]) = Frozen(control[s]) /\ frozenBy'[s] = frozenBy[s]
    \/ ~Frozen(control'[s])
    \/ opPc[o] \in Locking /\ frozenBy'[s] = ProcOf[o]

LEMMA OperatorGate ==
  ASSUME IInv, NEW o \in Operators, Takes(o) \/ Keeps(o) \/ Gives(o),
         opPc' \in [Operators -> Places],
         \A q \in Operators \ {o} : opPc'[q] = opPc[q],
         UNCHANGED <<readers, pc>>, ControlStep(o)
  PROVE  GateOK'
<1>1. LocksOK' /\ \A c \in Calls : pc'[c] = "work" => holder'[ProcOf[c]] = NoOne
  BY OperatorLocks
<1>2. ASSUME NEW c \in Calls, pc'[c] = "work", Frozen(control'[SideOf(c)])
      PROVE  frozenBy'[SideOf(c)] # ProcOf[c]
  <2>1. SideOf(c) \in Sides /\ ProcOf[c] \in Procs /\ ProcOf[o] \in Procs
        /\ NoOne \notin Operators
    BY SideIsSide, ProcAssumption
  <2>2. pc[c] = "work"
    BY <1>2
  <2>3. holder[ProcOf[c]] = NoOne
        /\ (Frozen(control[SideOf(c)]) => frozenBy[SideOf(c)] # ProcOf[c])
    BY <2>2 DEF IInv, GateHoldsInItsProcess
  <2>4. CASE opPc[o] \in Locking
    <3>1. holder[ProcOf[o]] = o
      BY <2>1, <2>4 DEF IInv, LocksOK
    <3>2. ProcOf[o] # ProcOf[c]
      BY <2>1, <2>3, <3>1
    <3> QED
      BY <1>2, <2>1, <2>3, <3>2 DEF ControlStep
  <2>5. CASE opPc[o] \notin Locking
    BY <1>2, <2>1, <2>3, <2>5 DEF ControlStep
  <2> QED
    BY <2>4, <2>5
<1>3. GateHoldsInItsProcess'
  BY <1>1, <1>2 DEF GateHoldsInItsProcess
<1> QED
  BY <1>1, <1>3 DEF GateOK

\* Every step of an operator is of that kind.
LockStep(o) ==
  /\ Takes(o) \/ Keeps(o) \/ Gives(o)
  /\ opPc' \in [Operators -> Places]
  /\ \A q \in Operators \ {o} : opPc'[q] = opPc[q]
  /\ UNCHANGED <<readers, pc>>

LEMMA Moves ==
  ASSUME IInv, NEW o \in Operators, NEW place \in Places,
         opPc' = [opPc EXCEPT ![o] = place], UNCHANGED <<readers, pc>>,
         \/ UNCHANGED holder /\ (opPc[o] \in Locking <=> place \in Locking)
         \/ Release(o) /\ opPc[o] \in Locking /\ place \notin Locking
         \/ MayLock(o) /\ Lock(o) /\ place \in Locking
  PROVE  LockStep(o)
<1>1. opPc' \in [Operators -> Places] /\ opPc'[o] = place
      /\ \A q \in Operators \ {o} : opPc'[q] = opPc[q]
  BY Goes
<1> QED
  BY <1>1 DEF LockStep, Takes, Keeps, Gives

LEMMA FreezeLocks ==
  ASSUME IInv, NEW o \in Operators,
         (\E id \in MigrationIds : Freeze(o, id)) \/ FreezeControl(o)
  PROVE  LockStep(o) /\ ControlStep(o)
<1>1. "freeze" \in Places \cap Locking /\ "idle" \in Places \ Locking
  BY DEF Places, Locking
<1>2. ASSUME NEW id \in MigrationIds, Freeze(o, id) PROVE LockStep(o) /\ ControlStep(o)
  BY <1>1, <1>2, Moves DEF Freeze, Go, ControlStep, history
<1>3. ASSUME FreezeControl(o) PROVE LockStep(o) /\ ControlStep(o)
  <2>1. /\ opPc[o] = "freeze" /\ Return(o) /\ Release(o) /\ UNCHANGED <<readers, pc>>
        /\ \/ UNCHANGED <<control, frozenBy>>
           \/ /\ SetControl("source", Control(argument[o], "source", "frozen", NoBundle))
              /\ By(o, "source")
    BY <1>3 DEF FreezeControl
  <2>2. LockStep(o)
    BY <1>1, <2>1, Moves DEF Return, Go
  <2>3. ControlStep(o)
    BY <1>1, <2>1 DEF IInv, DataOK, ControlStep, SetControl, By
  <2> QED
    BY <2>2, <2>3
<1> QED
  BY <1>2, <1>3

LEMMA ExportLocks ==
  ASSUME IInv, NEW o \in Operators,
         Export(o) \/ CountLeases(o) \/ ExportTable(o) \/ RecordFingerprint(o)
  PROVE  LockStep(o) /\ ControlStep(o)
<1>1. {"drain", "export", "recordExport", "idle"} \subseteq Places \ Locking
  BY DEF Places, Locking
<1>2. CASE Export(o)
  <2>1. opPc[o] = "idle"
    <3>1. opPc[o] \in Places
      BY DEF IInv, LocksOK, Places
    <3> QED
      BY <1>2 DEF Export, MayBegin
  <2> QED
    BY <1>1, <1>2, <2>1, Moves DEF Export, Go, gate, ControlStep, history
<1>3. CASE CountLeases(o)
  <2>1. PICK place \in {"drain", "export", "idle"} : opPc' = [opPc EXCEPT ![o] = place]
    BY <1>3 DEF CountLeases, Return, Stay, Go
  <2>2. opPc[o] = "drain" /\ UNCHANGED <<holder, readers, pc, control, frozenBy>>
    BY <1>3 DEF CountLeases, gate, history
  <2> QED
    BY <1>1, <2>1, <2>2, Moves DEF ControlStep
<1>4. CASE ExportTable(o)
  BY <1>1, <1>4, ReadTableLocks DEF ExportTable, LockStep, ControlStep
<1>5. CASE RecordFingerprint(o)
  <2>1. opPc[o] = "recordExport" /\ opPc' = [opPc EXCEPT ![o] = "idle"]
        /\ UNCHANGED <<holder, readers, pc, frozenBy>>
    BY <1>5 DEF RecordFingerprint, Return, Go, gate, history
  <2>2. LockStep(o)
    BY <1>1, <2>1, Moves
  <2>3. \/ UNCHANGED control
        \/ /\ SetControl("source", [control["source"] EXCEPT !.fingerprint =
                                      Bundle(seen[o].id, read[o])])
           /\ Matches(control["source"], seen[o].id, "source", "frozen",
                      Bundle(seen[o].id, read[o]))
    BY <1>5 DEF RecordFingerprint
  <2>4. control["source"].state = "frozen" =>
          [control["source"] EXCEPT !.fingerprint = Bundle(seen[o].id, read[o])].state
            = control["source"].state
    <3>1. control["source"] \in Controls
      BY DEF IInv, DataOK, Sides
    <3> QED
      BY <3>1, MatchedIsReal
  <2>5. \A s \in Sides : Frozen(control'[s]) = Frozen(control[s])
    BY <2>3, <2>4 DEF IInv, DataOK, SetControl, Matches, Frozen
  <2> QED
    BY <2>1, <2>2, <2>5 DEF ControlStep
<1> QED
  BY <1>2, <1>3, <1>4, <1>5

LEMMA ImportLocks ==
  ASSUME IInv, NEW o \in Operators,
         \/ Import(o, exported) \/ InspectTarget(o) \/ LoadBundle(o)
         \/ ReconcileTable(o) \/ RecordImport(o)
  PROVE  LockStep(o) /\ ControlStep(o)
<1>1. /\ {"inspect", "load", "reconcile", "recordImport"} \subseteq Places \cap Locking
      /\ "idle" \in Places \ Locking
  BY DEF Places, Locking
<1>2. CASE Import(o, exported)
  BY <1>1, <1>2, Moves DEF Import, Go, ControlStep, history
<1>3. CASE InspectTarget(o)
  BY <1>1, <1>3, ReadTableLocks DEF InspectTarget, LockStep, ControlStep
<1>4. CASE LoadBundle(o)
  <2>1. opPc[o] = "load" /\ UNCHANGED <<readers, pc, control, frozenBy>>
    BY <1>4 DEF LoadBundle, history
  <2>2. \/ Stay(o, "reconcile") /\ UNCHANGED holder
        \/ Stay(o, "recordImport") /\ UNCHANGED holder
        \/ Return(o) /\ Release(o)
    BY <1>4 DEF LoadBundle
  <2> QED
    BY <1>1, <2>1, <2>2, Moves DEF Stay, Return, Go, ControlStep
<1>5. CASE ReconcileTable(o)
  <2>1. CASE ReadTable(o, "reconcile", "reconcile")
    BY <1>1, <2>1, ReadTableLocks DEF LockStep, ControlStep
  <2>2. CASE /\ opPc[o] = "reconcile" /\ UNCHANGED <<readers, pc, control, frozenBy>>
             /\ \/ Stay(o, "recordImport") /\ UNCHANGED holder
                \/ Return(o) /\ Release(o)
    BY <1>1, <2>2, Moves DEF Stay, Return, Go, ControlStep
  <2> QED
    BY <1>5, <2>1, <2>2 DEF ReconcileTable, history
<1>6. CASE RecordImport(o)
  <2>1. /\ opPc[o] = "recordImport" /\ Return(o) /\ Release(o) /\ UNCHANGED <<readers, pc>>
        /\ \/ UNCHANGED <<control, frozenBy>>
           \/ /\ SetControl("target", Control(argument[o].id, "target", "imported",
                                               argument[o]))
              /\ By(o, "target")
    BY <1>6 DEF RecordImport
  <2>2. LockStep(o)
    BY <1>1, <2>1, Moves DEF Return, Go
  <2>3. ControlStep(o)
    BY <1>1, <2>1 DEF IInv, DataOK, ControlStep, SetControl, By
  <2> QED
    BY <2>2, <2>3
<1> QED
  BY <1>2, <1>3, <1>4, <1>5, <1>6

LEMMA SwitchLocks ==
  ASSUME IInv, NEW o \in Operators, Activate(o) \/ Rollback(o)
  PROVE  LockStep(o) /\ ControlStep(o)
<1>1. UNCHANGED <<opPc, holder, readers, pc, frozenBy>>
  BY DEF Activate, Rollback, gate, local, history
<1>2. LockStep(o)
  BY <1>1 DEF IInv, LocksOK, LockStep, Keeps, Places
<1>3. \E s \in Sides : \E k :
         SetControl(s, k) /\ k.state \in {"cutover", "active"}
  <2>1. CASE Activate(o)
    <3>1. control["target"] \in Controls /\ control["target"].state = "imported"
      BY <2>1 DEF IInv, DataOK, Activate, Matches, Sides
    <3>2. [control["target"] EXCEPT !.state = "cutover"].state = "cutover"
      BY <3>1, MatchedIsReal
    <3> QED
      BY <2>1, <3>2 DEF Activate, Sides
  <2>2. CASE Rollback(o)
    <3>1. control["source"] \in Controls /\ control["source"].state = "frozen"
      BY <2>2 DEF IInv, DataOK, Rollback, Matches, Sides
    <3>2. \A f : [control["source"] EXCEPT !.state = "active",
                                           !.fingerprint = f].state = "active"
      BY <3>1, MatchedIsReal
    <3> QED
      BY <2>2, <3>2 DEF Rollback, Sides
  <2> QED
    BY <2>1, <2>2
<1>4. ControlStep(o)
  BY <1>1, <1>3 DEF IInv, DataOK, ControlStep, SetControl, Frozen
<1> QED
  BY <1>2, <1>4

-----------------------------------------------------------------------------
(* The bundles.                                                            *)

Exports == {"drain", "export", "recordExport"}

\* The source is frozen for a migration that has not been given up, and
\* nothing has been written past the gate.
Fresh == /\ control["source"].state = "frozen"
         /\ control["source"].id \notin rolledBack
         /\ "source" \notin crossed
Unleased == \A t \in Tables : rows["source"][t].lease = NoOne

\* What an export has seen so far: the tables it has counted have no lease, the
\* tables it has read are as it has read them.
Seen(o) ==
  /\ opPc[o] = "drain" =>
       \A t \in Tables : t < table[o] => rows["source"][t].lease = NoOne
  /\ opPc[o] # "drain" => Unleased
  /\ opPc[o] = "export" =>
       \A t \in Tables : t < table[o] => read[o][t] = rows["source"][t]
  /\ opPc[o] = "recordExport" => read[o] = rows["source"]

\* An export belongs to the migration the source is frozen for, or to one that
\* was given up.
ExportsOK ==
  /\ \A o \in Operators : opPc[o] \in Exports =>
       /\ \/ seen[o].id \in rolledBack
          \/ /\ control["source"].state = "frozen"
             /\ seen[o].id = control["source"].id
       /\ Fresh /\ seen[o].id = control["source"].id => Seen(o)
  /\ Fresh /\ control["source"].fingerprint # NoBundle =>
       Unleased /\ rows["source"] = control["source"].fingerprint.tables
  /\ \A t \in Tables : t > Queues => rows["source"][t].lease = NoOne

\* The operators' calls are on one side, and import what was handed out last.
SidesOK ==
  /\ \A o \in Operators :
       /\ opPc[o] \in Loading =>
            /\ SideOf(o) = "target"
            /\ argument[o] = exported /\ exported # NoBundle
       /\ opPc[o] \in Exports \union {"freeze"} => SideOf(o) = "source"
  /\ \A o, p \in Operators : opPc[o] # "idle" /\ opPc[p] # "idle" =>
       SideOf(o) = SideOf(p)

\* Only a row that is there has a lease.
Plain(tables) == \A t \in Tables : tables[t].data = {} => tables[t].lease = NoOne
RowsOK ==
  /\ \A s \in Sides : Plain(rows[s])
  /\ \A o \in Operators : Plain(read[o])
  /\ exported # NoBundle => Plain(exported.tables)

\* A table that an import has read is still the same, or was empty and has been
\* filled by another import of the same bundle since.
Kept(o, t) ==
  \/ read[o][t] = rows["target"][t]
  \/ /\ read[o][t].data = {}
     /\ HasRows(argument[o]) /\ rows["target"] = argument[o].tables

\* What an import has seen so far; once it has decided what to do, the bundle is
\* there.
ImporterOK(o) ==
  /\ opPc[o] = "inspect" => \A t \in Tables : t < table[o] => Kept(o, t)
  /\ opPc[o] = "load" => \A t \in Tables : Kept(o, t)
  /\ opPc[o] \in {"reconcile", "recordImport"} =>
       rows["target"] = argument[o].tables

\* Until something is written past the gate, imports agree with the target, and
\* an imported target holds the bundle that its control row names.
ImportsOK ==
  /\ IsImported(control["target"]) =>
       /\ control["target"].fingerprint \in Bundles
       /\ control["target"].fingerprint # NoBundle
  /\ "target" \notin crossed =>
       /\ \A o \in Operators : ImporterOK(o)
       /\ IsImported(control["target"])
          /\ HasRows(control["target"].fingerprint) =>
            rows["target"] = control["target"].fingerprint.tables

BundlesOK == ExportsOK /\ SidesOK /\ RowsOK /\ ImportsOK

LEMMA BundlesInit == Init => BundlesOK
<1> SUFFICES ASSUME Init PROVE BundlesOK
  OBVIOUS
<1>1. control["source"].state = "active" /\ control["target"].state = "active"
  BY DEF Init, Sides, NoControl
<1>2. \A s \in Sides, t \in Tables : rows[s][t] = Empty
  BY DEF Init
<1>3. \A o \in Operators, t \in Tables : read[o][t] = Empty
  BY DEF Init
<1>4. ExportsOK
  BY <1>1, <1>2 DEF Init, ExportsOK, Exports, Fresh, Sides, Empty
<1>5. SidesOK
  BY DEF Init, SidesOK, Loading, Exports
<1>6. RowsOK
  BY <1>2, <1>3 DEF Init, RowsOK, Plain, Empty
<1>7. ImportsOK
  BY <1>1 DEF Init, ImportsOK, ImporterOK, IsImported
<1> QED
  BY <1>4, <1>5, <1>6, <1>7 DEF BundlesOK

\* A step of an operator leaves what the other operators know.
Unmoved(q) == /\ opPc'[q] = opPc[q] /\ seen'[q] = seen[q]
              /\ table'[q] = table[q] /\ read'[q] = read[q]
              /\ argument'[q] = argument[q]
OthersStay(o) == \A q \in Operators \ {o} : Unmoved(q)

LEMMA GoStays ==
  ASSUME IInv, NEW o \in Operators, NEW place, NEW k, NEW n, NEW tables, NEW x,
         Go(o, place, k, n, tables, x)
  PROVE  /\ OthersStay(o)
         /\ opPc'[o] = place /\ seen'[o] = k /\ table'[o] = n
         /\ read'[o] = tables /\ argument'[o] = x
BY DEF IInv, DataOK, LocksOK, ArgumentsOK, Go, OthersStay, Unmoved

\* The operators' calls stay on one side.
LEMMA SidesBegin ==
  ASSUME SidesOK, NEW o \in Operators, MayBegin(o), OthersStay(o),
         \/ SideOf(o) = "source" /\ opPc'[o] \in Exports \union {"freeze"}
         \/ /\ SideOf(o) = "target" /\ opPc'[o] \in Loading
            /\ argument'[o] = exported /\ exported # NoBundle,
         exported' = exported
  PROVE  SidesOK'
BY DEF SidesOK, MayBegin, OthersStay, Unmoved, Exports, Loading

LEMMA SidesMove ==
  ASSUME SidesOK, NEW o \in Operators, opPc[o] # "idle", OthersStay(o),
         \/ opPc'[o] = "idle"
         \/ opPc[o] \in Exports /\ opPc'[o] \in Exports
         \/ /\ opPc[o] \in Loading /\ opPc'[o] \in Loading
            /\ argument'[o] = argument[o],
         exported' = exported \/ opPc[o] \in Exports
  PROVE  SidesOK'
<1>1. opPc[o] \in Exports => \A q \in Operators : opPc[q] \notin Loading
  BY DEF SidesOK, Exports, Loading
<1> QED
  BY <1>1 DEF SidesOK, OthersStay, Unmoved, Exports, Loading

\* Where the calls of an operator go, and what they keep.
Moved(o, place, k, n, tables, x) ==
  /\ OthersStay(o)
  /\ opPc'[o] = place /\ seen'[o] = k /\ table'[o] = n
  /\ read'[o] = tables /\ argument'[o] = x
Left(o) == Moved(o, "idle", NoControl, 1, NothingRead, NoBundle)
Stayed(o, place) == Moved(o, place, seen[o], 1, NothingRead, argument[o])

LEMMA GoMoved ==
  ASSUME IInv, NEW o \in Operators
  PROVE  /\ \A place, k, n, tables, x :
              Go(o, place, k, n, tables, x) => Moved(o, place, k, n, tables, x)
         /\ Return(o) => Left(o)
         /\ \A place : Stay(o, place) => Stayed(o, place)
BY GoStays DEF Moved, Left, Stayed, Return, Stay

\* A call that reads a table.
TableRead(o, from, to) ==
  /\ opPc[o] = from /\ table[o] \in Tables
  /\ Moved(o, IF table[o] < LastTable THEN from ELSE to, seen[o],
           IF table[o] < LastTable THEN table[o] + 1 ELSE 1,
           [read[o] EXCEPT ![table[o]] = rows[SideOf(o)][table[o]]],
           argument[o])
  /\ UNCHANGED <<control, rows, exported, writes, crossed, rolledBack>>

LEMMA ReadMoved ==
  ASSUME IInv, NEW o \in Operators, NEW from, NEW to, ReadTable(o, from, to)
  PROVE  TableRead(o, from, to)
<1>1. table[o] \in Tables
  BY DEF IInv, DataOK
<1> QED
  BY <1>1, GoMoved DEF ReadTable, TableRead, history

LEMMA SidesStep ==
  ASSUME IInv, SidesOK, NEW o \in Operators, OperatorStep(o)
  PROVE  SidesOK'
<1> USE GoMoved DEF Exports, Loading
<1>1. ASSUME NEW id \in MigrationIds, Freeze(o, id) PROVE SidesOK'
  BY <1>1, SidesBegin DEF Freeze, MayLock, Moved
<1>2. CASE Export(o)
  BY <1>2, SidesBegin DEF Export, Moved
<1>3. CASE Import(o, exported)
  BY <1>3, SidesBegin DEF Import, MayLock, Moved
<1>4. CASE FreezeControl(o)
  BY <1>4, SidesMove DEF FreezeControl, Left, Moved
<1>5. CASE CountLeases(o)
  BY <1>5, SidesMove DEF CountLeases, Left, Stayed, Moved
<1>6. CASE RecordFingerprint(o)
  BY <1>6, SidesMove DEF RecordFingerprint, Left, Moved
<1>7. CASE ExportTable(o)
  <2>1. TableRead(o, "export", "recordExport")
    BY <1>7, ReadMoved DEF ExportTable
  <2> QED
    BY <2>1, SidesMove DEF TableRead, Moved
<1>8. CASE InspectTarget(o)
  <2>1. TableRead(o, "inspect", "load")
    BY <1>8, ReadMoved DEF InspectTarget
  <2> QED
    BY <2>1, SidesMove DEF TableRead, Moved
<1>9. CASE LoadBundle(o)
  <2>1. /\ opPc[o] = "load" /\ UNCHANGED exported
        /\ Stayed(o, "reconcile") \/ Stayed(o, "recordImport") \/ Left(o)
    BY <1>9 DEF LoadBundle
  <2> QED
    BY <2>1, SidesMove DEF Left, Stayed, Moved
<1>10. CASE ReconcileTable(o)
  <2>1. CASE ReadTable(o, "reconcile", "reconcile")
    <3>1. TableRead(o, "reconcile", "reconcile")
      BY <2>1, ReadMoved
    <3> QED
      BY <3>1, SidesMove DEF TableRead, Moved
  <2>2. CASE /\ opPc[o] = "reconcile" /\ UNCHANGED exported
             /\ Stay(o, "recordImport") \/ Return(o)
    <3>1. Stayed(o, "recordImport") \/ Left(o)
      BY <2>2
    <3> QED
      BY <2>2, <3>1, SidesMove DEF Left, Stayed, Moved
  <2> QED
    BY <1>10, <2>1, <2>2 DEF ReconcileTable
<1>11. CASE RecordImport(o)
  BY <1>11, SidesMove DEF RecordImport, Left, Moved
<1>12. CASE Activate(o) \/ Rollback(o)
  BY <1>12 DEF Activate, Rollback, local, SidesOK
<1> QED
  BY <1>1, <1>2, <1>3, <1>4, <1>5, <1>6, <1>7, <1>8, <1>9, <1>10, <1>11, <1>12
  DEF OperatorStep

\* Only a row that is there has a lease: writing, claiming, reading and loading
\* keep it so.
LEMMA PlainNothing == Plain(NothingRead)
BY DEF Plain, NothingRead, Empty

LEMMA PlainWrite ==
  ASSUME DataOK, RowsOK, NEW s \in Sides, NEW t \in Tables, NEW row,
         rows' = [rows EXCEPT ![s][t] = row], row.data # {} \/ row.lease = NoOne,
         UNCHANGED <<read, exported>>
  PROVE  RowsOK'
BY DEF DataOK, Rows, RowsOK, Plain

LEMMA PlainMoved ==
  ASSUME DataOK, RowsOK, NEW o \in Operators, NEW place, NEW k, NEW n, NEW tables,
         NEW x, Moved(o, place, k, n, tables, x), Plain(tables),
         UNCHANGED <<rows, exported>>
  PROVE  RowsOK'
BY DEF RowsOK, Moved, OthersStay, Unmoved

LEMMA CallRows ==
  ASSUME IInv, RowsOK, NEW c \in Calls, CallStep(c)
  PROVE  RowsOK'
<1>1. SideOf(c) \in Sides
  BY SideIsSide
<1>2. UNCHANGED <<read, exported>>
  BY DEF CallStep, BeginWrite, Write, ClaimRow, SettleRow, EndWrite, local
<1>3. CASE BeginWrite(c) \/ EndWrite(c)
  BY <1>2, <1>3 DEF BeginWrite, EndWrite, RowsOK
<1>4. ASSUME NEW t \in Tables, Write(c, t) PROVE RowsOK'
  <2> DEFINE row == [rows[SideOf(c)][t] EXCEPT !.data = @ \union {writes}]
  <2>1. row.data # {}
    BY <1>1, RowOK DEF IInv
  <2>2. rows' = [rows EXCEPT ![SideOf(c)][t] = row]
    BY <1>4 DEF Write, WriteRow
  <2> HIDE DEF row
  <2> QED
    BY <1>1, <1>2, <2>1, <2>2, PlainWrite DEF IInv
<1>5. ASSUME NEW t \in Tables, ClaimRow(c, t) PROVE RowsOK'
  <2>1. PICK row : row = [rows[SideOf(c)][t] EXCEPT !.lease = c]
    OBVIOUS
  <2>2. row.data # {}
    BY <1>1, <1>5, <2>1, RowOK DEF IInv, ClaimRow
  <2>3. rows' = [rows EXCEPT ![SideOf(c)][t] = row]
    BY <1>5, <2>1 DEF ClaimRow
  <2> QED
    BY <1>1, <1>2, <2>2, <2>3, PlainWrite DEF IInv
<1>6. ASSUME NEW t \in Tables, SettleRow(c, t) PROVE RowsOK'
  <2>1. PICK row : row = [data |-> rows[SideOf(c)][t].data \union {writes},
                          lease |-> NoOne]
    OBVIOUS
  <2>2. rows' = [rows EXCEPT ![SideOf(c)][t] = row] /\ row.lease = NoOne
    BY <1>6, <2>1 DEF SettleRow, WriteRow
  <2> QED
    BY <1>1, <1>2, <2>2, PlainWrite DEF IInv
<1> QED
  BY <1>3, <1>4, <1>5, <1>6 DEF CallStep

LEMMA HostRows ==
  ASSUME IInv, RowsOK, InsertEvent
  PROVE  RowsOK'
<1>1. "source" \in Sides /\ 1 \in Tables
  BY TablesAreNumbers DEF Sides
<1>2. PICK row : row = [rows["source"][1] EXCEPT !.data = @ \union {writes}]
  OBVIOUS
<1>3. row.data # {}
  BY <1>1, <1>2, RowOK DEF IInv
<1>4. rows' = [rows EXCEPT !["source"][1] = row] /\ UNCHANGED <<read, exported>>
  BY <1>2 DEF InsertEvent, WriteRow, local
<1> QED
  BY <1>1, <1>3, <1>4, PlainWrite DEF IInv

LEMMA ReadRows ==
  ASSUME IInv, RowsOK, NEW o \in Operators, NEW from, NEW to,
         TableRead(o, from, to)
  PROVE  RowsOK'
<1>1. SideOf(o) \in Sides
  BY SideIsSide
<1>2. Plain([read[o] EXCEPT ![table[o]] = rows[SideOf(o)][table[o]]])
  BY <1>1 DEF IInv, DataOK, Rows, RowsOK, Plain, TableRead
<1> QED
  BY <1>2, PlainMoved DEF IInv, TableRead

\* What loading a bundle into empty tables leaves.
LEMMA MergeEmpty ==
  ASSUME NEW row \in [data : SUBSET Nat, lease : Calls \union {NoOne}],
         NEW more \in [data : SUBSET Nat, lease : Calls \union {NoOne}],
         row.data = {}, row.lease = NoOne
  PROVE  Merge(row, more) = more
BY DEF Merge

LEMMA MergePlain ==
  ASSUME NEW row \in [data : SUBSET Nat, lease : Calls \union {NoOne}],
         NEW more \in [data : SUBSET Nat, lease : Calls \union {NoOne}],
         row.data = {} => row.lease = NoOne,
         more.data = {} => more.lease = NoOne
  PROVE  Merge(row, more).data = {} => Merge(row, more).lease = NoOne
BY DEF Merge

Loaded(b) == rows' = [rows EXCEPT !["target"] =
                        [t \in Tables |-> Merge(@[t], b.tables[t])]]

LEMMA LoadedRows ==
  ASSUME IInv, NEW b \in Bundles, Loaded(b)
  PROVE  /\ rows'["source"] = rows["source"]
         /\ DOMAIN rows'["target"] = Tables
         /\ \A t \in Tables :
              rows'["target"][t] = Merge(rows["target"][t], b.tables[t])
BY DEF IInv, DataOK, Sides, Loaded

LEMMA OperatorRows ==
  ASSUME IInv, SidesOK, RowsOK, NEW o \in Operators, OperatorStep(o)
  PROVE  RowsOK'
<1> USE GoMoved, PlainNothing
<1>1. ASSUME \/ \E id \in MigrationIds : Freeze(o, id)
             \/ Export(o) \/ Import(o, exported)
      PROVE  RowsOK'
  <2>1. PICK place, k, x : Moved(o, place, k, 1, NothingRead, x)
    BY <1>1 DEF Freeze, Export, Import
  <2>2. UNCHANGED <<rows, exported>>
    BY <1>1 DEF Freeze, Export, Import
  <2> QED
    BY <2>1, <2>2, PlainMoved DEF IInv
<1>2. ASSUME FreezeControl(o) \/ CountLeases(o) \/ RecordImport(o) PROVE RowsOK'
  <2>1. \E place, k, n, tables, x :
          Moved(o, place, k, n, tables, x) /\ tables = NothingRead
    BY <1>2 DEF FreezeControl, CountLeases, RecordImport, Left, Stayed
  <2>2. UNCHANGED <<rows, exported>>
    BY <1>2 DEF FreezeControl, CountLeases, RecordImport
  <2> QED
    BY <2>1, <2>2, PlainMoved DEF IInv
<1>3. CASE RecordFingerprint(o)
  <2>1. Left(o) /\ UNCHANGED rows /\ Plain(read[o])
    BY <1>3 DEF RecordFingerprint, RowsOK
  <2>2. exported' = exported \/ exported' = Bundle(seen[o].id, read[o])
    BY <1>3 DEF RecordFingerprint
  <2>3. exported' # NoBundle => Plain(exported'.tables)
    BY <2>1, <2>2 DEF RowsOK, Bundle
  <2> QED
    BY <2>1, <2>3 DEF RowsOK, Left, Moved, OthersStay, Unmoved
<1>4. ASSUME \E from, to : ReadTable(o, from, to) PROVE RowsOK'
  BY <1>4, ReadMoved, ReadRows
<1>5. CASE LoadBundle(o)
  <2>1. UNCHANGED exported /\ argument[o] = exported /\ argument[o] \in Bundles
        /\ exported # NoBundle
    BY <1>5 DEF LoadBundle, IInv, ArgumentsOK, SidesOK, Loading
  <2>2. PICK place, k, x : Moved(o, place, k, 1, NothingRead, x)
    BY <1>5 DEF LoadBundle, Left, Stayed
  <2>3. CASE UNCHANGED rows
    BY <2>1, <2>2, <2>3, PlainMoved DEF IInv
  <2>4. CASE Loaded(argument[o])
    <3>1. ASSUME NEW t \in Tables
          PROVE  rows'["target"][t].data = {} => rows'["target"][t].lease = NoOne
      <4>1. /\ rows["target"][t] \in [data : SUBSET Nat, lease : Calls \union {NoOne}]
            /\ argument[o].tables[t] \in
                 [data : SUBSET Nat, lease : Calls \union {NoOne}]
        BY <2>1 DEF IInv, DataOK, Rows, Bundles, Sides
      <4>2. /\ rows["target"][t].data = {} => rows["target"][t].lease = NoOne
            /\ argument[o].tables[t].data = {} =>
                 argument[o].tables[t].lease = NoOne
        BY <2>1 DEF RowsOK, Plain, Sides
      <4> QED
        BY <2>1, <2>4, <4>1, <4>2, LoadedRows, MergePlain
    <3>2. \A s \in Sides : Plain(rows'[s])
      BY <2>1, <2>4, <3>1, LoadedRows DEF RowsOK, Plain, Sides
    <3> QED
      BY <2>1, <2>2, <3>2 DEF RowsOK, Moved, OthersStay, Unmoved
  <2> QED
    BY <1>5, <2>3, <2>4 DEF LoadBundle, Loaded
<1>6. CASE ReconcileTable(o)
  <2>1. CASE ReadTable(o, "reconcile", "reconcile")
    BY <1>4, <2>1
  <2>2. CASE UNCHANGED <<rows, exported>> /\ (Stay(o, "recordImport") \/ Return(o))
    <3>1. PICK place, k, x : Moved(o, place, k, 1, NothingRead, x)
      BY <2>2 DEF Left, Stayed
    <3> QED
      BY <2>2, <3>1, PlainMoved DEF IInv
  <2> QED
    BY <1>6, <2>1, <2>2 DEF ReconcileTable
<1>7. CASE Activate(o) \/ Rollback(o)
  BY <1>7 DEF Activate, Rollback, local, RowsOK
<1> QED
  BY <1>1, <1>2, <1>3, <1>4, <1>5, <1>6, <1>7
  DEF OperatorStep, ExportTable, InspectTarget

\* A step that leaves the source alone keeps what exports have seen.
LEMMA ExportsKept ==
  ASSUME ExportsOK, control'["source"] = control["source"],
         rows'["source"] = rows["source"], rolledBack' = rolledBack,
         "source" \in crossed => "source" \in crossed',
         \A q \in Operators : opPc'[q] \in Exports => Unmoved(q)
  PROVE  ExportsOK'
BY DEF ExportsOK, Exports, Fresh, Seen, Unleased, Unmoved

\* A step of one operator that leaves the source alone.
LEMMA ExportsMoved ==
  ASSUME ExportsOK, NEW o \in Operators, OthersStay(o), opPc'[o] \notin Exports,
         control'["source"] = control["source"],
         rows'["source"] = rows["source"], rolledBack' = rolledBack,
         crossed' = crossed
  PROVE  ExportsOK'
BY ExportsKept DEF OthersStay

\* A write to the frozen source that somebody exports is remembered.
LEMMA ExportsWritten ==
  ASSUME ExportsOK, UNCHANGED <<control, opPc, seen, table, read, rolledBack>>,
         crossed' = Crossing("source"),
         \A t \in Tables : t > Queues => rows'["source"][t].lease = NoOne
  PROVE  ExportsOK'
<1>1. CASE Closed("source")
  BY <1>1 DEF ExportsOK, Exports, Fresh, Crossing
<1>2. CASE ~Closed("source")
  <2>1. ~Fresh \/ /\ control["source"].fingerprint = NoBundle
                  /\ \A o \in Operators : opPc[o] \in Exports =>
                       seen[o].id # control["source"].id
    BY <1>2 DEF Closed, Exporting, Fresh, Exports
  <2>2. crossed' = crossed
    BY <1>2 DEF Crossing
  <2> QED
    BY <2>1, <2>2 DEF ExportsOK, Exports, Fresh
<1> QED
  BY <1>1, <1>2

LEMMA CallExports ==
  ASSUME IInv, ExportsOK, NEW c \in Calls, CallStep(c)
  PROVE  ExportsOK'
<1>1. SideOf(c) \in Sides /\ "source" \in Sides
  BY SideIsSide DEF Sides
<1>2. UNCHANGED <<control, local, rolledBack>>
  BY DEF CallStep, BeginWrite, Write, ClaimRow, SettleRow, EndWrite, history
<1>3. CASE UNCHANGED <<rows, crossed>>
  BY <1>2, <1>3, ExportsKept DEF local, Unmoved
<1>4. ASSUME NEW t \in Tables, NEW row,
             rows' = [rows EXCEPT ![SideOf(c)][t] = row],
             crossed' = Crossing(SideOf(c)),
             t <= Queues \/ row.lease = NoOne \/ row.lease = rows[SideOf(c)][t].lease
      PROVE  ExportsOK'
  <2>1. CASE SideOf(c) = "source"
    <3>1. \A u \in Tables : u > Queues => rows'["source"][u].lease = NoOne
      <4> SUFFICES ASSUME NEW u \in Tables, u > Queues
                   PROVE  rows'["source"][u].lease = NoOne
        OBVIOUS
      <4>1. rows["source"][u].lease = NoOne
        BY DEF ExportsOK
      <4>2. rows'["source"][u] = IF u = t THEN row ELSE rows["source"][u]
        BY <1>1, <1>4, <2>1 DEF IInv, DataOK, Rows
      <4>3. u = t => row.lease = NoOne
        BY <1>4, <2>1, <4>1, BoundAssumption DEF Tables
      <4> QED
        BY <4>1, <4>2, <4>3
    <3> QED
      BY <1>2, <1>4, <2>1, <3>1, ExportsWritten DEF local
  <2>2. CASE SideOf(c) = "target"
    <3>1. rows'["source"] = rows["source"]
      BY <1>1, <1>4, <2>2 DEF IInv, DataOK
    <3>2. "source" \in crossed => "source" \in crossed'
      BY <1>4 DEF Crossing
    <3> QED
      BY <1>2, <3>1, <3>2, ExportsKept DEF local, Unmoved
  <2> QED
    BY <1>1, <2>1, <2>2 DEF Sides
<1>5. ASSUME NEW t \in Tables, Write(c, t) PROVE ExportsOK'
  <2>1. PICK row : row = [rows[SideOf(c)][t] EXCEPT !.data = @ \union {writes}]
    OBVIOUS
  <2>2. row.lease = rows[SideOf(c)][t].lease
    BY <1>1, <2>1, RowOK DEF IInv
  <2> QED
    BY <1>4, <1>5, <2>1, <2>2 DEF Write, WriteRow
<1>6. ASSUME NEW t \in Tables, ClaimRow(c, t) PROVE ExportsOK'
  <2>1. PICK row : row = [rows[SideOf(c)][t] EXCEPT !.lease = c]
    OBVIOUS
  <2>2. rows' = [rows EXCEPT ![SideOf(c)][t] = row]
    BY <1>6, <2>1 DEF ClaimRow
  <2> QED
    BY <1>4, <1>6, <2>2 DEF ClaimRow
<1>7. ASSUME NEW t \in Tables, SettleRow(c, t) PROVE ExportsOK'
  <2>1. PICK row : row = [data |-> rows[SideOf(c)][t].data \union {writes},
                          lease |-> NoOne]
    OBVIOUS
  <2> QED
    BY <1>4, <1>7, <2>1 DEF SettleRow, WriteRow
<1> QED
  BY <1>3, <1>5, <1>6, <1>7 DEF CallStep, BeginWrite, EndWrite, history

LEMMA HostExports ==
  ASSUME IInv, ExportsOK, InsertEvent
  PROVE  ExportsOK'
<1>1. "source" \in Sides /\ 1 \in Tables
  BY TablesAreNumbers DEF Sides
<1>2. PICK row : row = [rows["source"][1] EXCEPT !.data = @ \union {writes}]
  OBVIOUS
<1>3. row.lease = rows["source"][1].lease
  BY <1>1, <1>2, RowOK DEF IInv
<1>4. rows' = [rows EXCEPT !["source"][1] = row]
  BY <1>2 DEF InsertEvent, WriteRow
<1>5. \A u \in Tables : u > Queues => rows'["source"][u].lease = NoOne
  BY <1>1, <1>3, <1>4 DEF ExportsOK, IInv, DataOK, Rows
<1> QED
  BY <1>5, ExportsWritten DEF InsertEvent, WriteRow, local

\* Freezing for another migration, and giving one up, leave the exports that
\* are under way with migrations that were given up.
LEMMA FreezeExports ==
  ASSUME IInv, ExportsOK, NEW o \in Operators, FreezeControl(o)
  PROVE  ExportsOK'
<1>1. Left(o) /\ UNCHANGED <<rows, rolledBack>>
  BY GoMoved DEF FreezeControl
<1>2. CASE UNCHANGED <<control, crossed>>
  BY <1>1, <1>2, ExportsMoved DEF Left, Moved, Exports
<1>3. CASE /\ control["source"].state = "active"
           /\ SetControl("source",
                         Control(argument[o], "source", "frozen", NoBundle))
  <2>1. control'["source"] = Control(argument[o], "source", "frozen", NoBundle)
    BY <1>3 DEF IInv, DataOK, SetControl, Sides
  <2>2. control'["source"].fingerprint = NoBundle
    BY <2>1 DEF Control
  <2>3. \A q \in Operators : opPc'[q] \in Exports =>
          Unmoved(q) /\ opPc[q] \in Exports
    BY <1>1 DEF Left, Moved, OthersStay, Unmoved, Exports
  <2>4. \A q \in Operators : opPc'[q] \in Exports =>
          seen'[q].id \in rolledBack'
    BY <1>1, <1>3, <2>3 DEF ExportsOK, Unmoved
  <2> QED
    BY <1>1, <2>2, <2>4 DEF ExportsOK, Fresh
<1> QED
  BY <1>2, <1>3 DEF FreezeControl, NoControl

LEMMA RollbackExports ==
  ASSUME IInv, ExportsOK, NEW o \in Operators, Rollback(o)
  PROVE  ExportsOK'
<1>1. /\ control["source"] \in Controls /\ control["source"].state = "frozen"
      /\ rolledBack' = rolledBack \union {control["source"].id}
      /\ UNCHANGED <<rows, opPc, seen, table, read>>
  BY DEF IInv, DataOK, Rollback, Matches, Sides, local
<1>2. PICK f : control' = [control EXCEPT !["source"] =
                 [control["source"] EXCEPT !.state = "active", !.fingerprint = f]]
  BY DEF Rollback, SetControl
<1>3. control'["source"].state = "active"
  BY <1>1, <1>2, MatchedIsReal DEF IInv, DataOK, Sides
<1> QED
  BY <1>1, <1>3 DEF ExportsOK, Fresh

\* What one export learns by a step that leaves the source alone.
LEMMA ExportsSee ==
  ASSUME ExportsOK, NEW o \in Operators, OthersStay(o),
         UNCHANGED <<control, rows, crossed, rolledBack>>,
         \/ seen'[o].id \in rolledBack
         \/ /\ control["source"].state = "frozen"
            /\ seen'[o].id = control["source"].id,
         Fresh /\ seen'[o].id = control["source"].id => Seen(o)'
  PROVE  ExportsOK'
<1>1. Fresh' = Fresh
  BY DEF Fresh
<1>2. \A q \in Operators \ {o} : Seen(q) => Seen(q)'
  BY DEF Seen, OthersStay, Unmoved, Unleased
<1>3. \A q \in Operators : opPc'[q] \in Exports =>
        /\ \/ seen'[q].id \in rolledBack'
           \/ /\ control'["source"].state = "frozen"
              /\ seen'[q].id = control'["source"].id
        /\ Fresh' /\ seen'[q].id = control'["source"].id => Seen(q)'
  BY <1>1, <1>2 DEF ExportsOK, OthersStay, Unmoved
<1> QED
  BY <1>1, <1>3 DEF ExportsOK, Unleased

LEMMA BeginExport ==
  ASSUME IInv, ExportsOK, NEW o \in Operators, Export(o)
  PROVE  ExportsOK'
<1>1. /\ Moved(o, "drain", control["source"], 1, NothingRead, NoBundle)
      /\ UNCHANGED <<control, rows, crossed, rolledBack>>
      /\ control["source"].state = "frozen"
  BY GoMoved DEF Export, IsSource, history
<1>2. Seen(o)'
  BY <1>1, TablesAreNumbers DEF Seen, Moved, Tables
<1> QED
  BY <1>1, <1>2, ExportsSee DEF Moved

LEMMA CountExports ==
  ASSUME IInv, ExportsOK, NEW o \in Operators, CountLeases(o)
  PROVE  ExportsOK'
<1>1. /\ opPc[o] = "drain" /\ table[o] \in Tables
      /\ UNCHANGED <<control, rows, crossed, rolledBack>>
  BY DEF CountLeases, IInv, DataOK, history
<1>2. \/ seen[o].id \in rolledBack
      \/ /\ control["source"].state = "frozen"
         /\ seen[o].id = control["source"].id
  BY <1>1 DEF ExportsOK, Exports
<1>3. Fresh /\ seen[o].id = control["source"].id =>
        \A t \in Tables : t < table[o] => rows["source"][t].lease = NoOne
  BY <1>1 DEF ExportsOK, Exports, Seen
<1>4. CASE Return(o)
  BY <1>1, <1>4, GoMoved, ExportsMoved DEF Left, Moved, Exports
<1>5. CASE /\ Drained("source", table[o]) /\ table[o] < Queues
           /\ Go(o, "drain", seen[o], table[o] + 1, NothingRead, argument[o])
  <2>1. Moved(o, "drain", seen[o], table[o] + 1, NothingRead, argument[o])
    BY <1>5, GoMoved
  <2>2. Fresh /\ seen[o].id = control["source"].id => Seen(o)'
    BY <1>1, <1>3, <1>5, <2>1 DEF Seen, Moved, Drained, Tables
  <2> QED
    BY <1>1, <1>2, <2>1, <2>2, ExportsSee DEF Moved
<1>6. CASE /\ Drained("source", table[o]) /\ ~(table[o] < Queues)
           /\ Stay(o, "export")
  <2>1. Stayed(o, "export")
    BY <1>6, GoMoved
  <2>2. ASSUME Fresh, seen[o].id = control["source"].id PROVE Seen(o)'
    <3>1. \A t \in Tables : t < table[o] \/ t = table[o] \/ t > Queues
      BY <1>1, <1>6, BoundAssumption DEF Tables
    <3>2. Unleased
      BY <1>1, <1>3, <1>6, <2>2, <3>1 DEF Unleased, ExportsOK, Drained
    <3>3. Unleased'
      BY <1>1, <3>2 DEF Unleased
    <3> QED
      BY <2>1, <3>3, TablesAreNumbers DEF Seen, Stayed, Moved, Tables
  <2> QED
    BY <1>1, <1>2, <2>1, <2>2, ExportsSee DEF Stayed, Moved
<1> QED
  BY <1>4, <1>5, <1>6 DEF CountLeases

LEMMA ReadExports ==
  ASSUME IInv, ExportsOK, SidesOK, NEW o \in Operators,
         TableRead(o, "export", "recordExport")
  PROVE  ExportsOK'
<1>1. /\ opPc[o] = "export" /\ table[o] \in Tables /\ SideOf(o) = "source"
      /\ UNCHANGED <<control, rows, crossed, rolledBack>>
      /\ DOMAIN read[o] = Tables /\ DOMAIN rows["source"] = Tables
      /\ read[o] = [t \in Tables |-> read[o][t]]
      /\ rows["source"] = [t \in Tables |-> rows["source"][t]]
  BY DEF TableRead, SidesOK, Exports, IInv, DataOK, Rows, Sides
<1>2. \/ seen[o].id \in rolledBack
      \/ /\ control["source"].state = "frozen"
         /\ seen[o].id = control["source"].id
  BY <1>1 DEF ExportsOK, Exports
<1>3. seen'[o] = seen[o] /\ OthersStay(o)
  BY DEF TableRead, Moved
<1>4. ASSUME Fresh, seen[o].id = control["source"].id PROVE Seen(o)'
  <2>1. Unleased /\ \A t \in Tables : t < table[o] => read[o][t] = rows["source"][t]
    BY <1>1, <1>4 DEF ExportsOK, Exports, Seen
  <2>2. read'[o] = [read[o] EXCEPT ![table[o]] = rows["source"][table[o]]]
    BY <1>1 DEF TableRead, Moved
  <2>3. \A t \in Tables : t < table[o] + 1 => read'[o][t] = rows["source"][t]
    BY <1>1, <2>1, <2>2 DEF Tables
  <2>4. Unleased'
    BY <1>1, <2>1 DEF Unleased
  <2>5. CASE table[o] < LastTable
    <3>1. opPc'[o] = "export" /\ table'[o] = table[o] + 1
      BY <2>5 DEF TableRead, Moved
    <3> QED
      BY <1>1, <2>3, <2>4, <3>1 DEF Seen
  <2>6. CASE ~(table[o] < LastTable)
    <3>1. opPc'[o] = "recordExport"
      BY <2>6 DEF TableRead, Moved
    <3>2. \A t \in Tables : t < table[o] + 1
      BY <1>1, <2>6, BoundAssumption DEF Tables
    <3>3. read'[o] = [t \in Tables |-> read'[o][t]]
      BY <1>1, <2>2
    <3>4. read'[o] = rows["source"]
      BY <1>1, <2>3, <3>2, <3>3
    <3> QED
      BY <1>1, <2>4, <3>1, <3>4 DEF Seen
  <2> QED
    BY <2>5, <2>6
<1> QED
  BY <1>1, <1>2, <1>3, <1>4, ExportsSee

\* The fingerprint that is recorded is that of the rows.
LEMMA RecordExports ==
  ASSUME IInv, ExportsOK, NEW o \in Operators, RecordFingerprint(o)
  PROVE  ExportsOK'
<1>1. /\ opPc[o] = "recordExport" /\ Left(o)
      /\ UNCHANGED <<rows, crossed, rolledBack>>
  BY GoMoved DEF RecordFingerprint, history
<1>2. CASE UNCHANGED control
  BY <1>1, <1>2, ExportsMoved DEF Left, Moved, Exports
<1>3. ASSUME NEW b, b = Bundle(seen[o].id, read[o]),
             Matches(control["source"], seen[o].id, "source", "frozen", b),
             SetControl("source", [control["source"] EXCEPT !.fingerprint = b])
      PROVE  ExportsOK'
  <2>1. /\ control["source"] \in Controls /\ control["source"].state = "frozen"
        /\ seen[o].id = control["source"].id
    BY <1>3 DEF IInv, DataOK, Matches, SameMigration, Sides
  <2>2. control'["source"] = [control["source"] EXCEPT !.fingerprint = b]
    BY <1>3 DEF IInv, DataOK, SetControl, Sides
  <2>3. /\ control'["source"].state = "frozen"
        /\ control'["source"].id = control["source"].id
        /\ control'["source"].fingerprint = b
    BY <2>1, <2>2, MatchedIsReal
  <2>4. Fresh' = Fresh
    BY <1>1, <2>1, <2>3 DEF Fresh
  <2>5. Fresh => Unleased /\ rows["source"] = b.tables
    BY <1>1, <1>3, <2>1 DEF ExportsOK, Exports, Seen, Bundle
  <2>6. \A q \in Operators : opPc'[q] \in Exports =>
          /\ Unmoved(q) /\ (Seen(q) => Seen(q)')
    BY <1>1 DEF Left, Moved, OthersStay, Exports, Unmoved, Seen, Unleased
  <2>7. \A q \in Operators : opPc'[q] \in Exports =>
          /\ \/ seen'[q].id \in rolledBack'
             \/ /\ control'["source"].state = "frozen"
                /\ seen'[q].id = control'["source"].id
          /\ Fresh' /\ seen'[q].id = control'["source"].id => Seen(q)'
    BY <1>1, <2>1, <2>3, <2>4, <2>6 DEF ExportsOK, Unmoved
  <2> QED
    BY <1>1, <2>3, <2>4, <2>5, <2>7 DEF ExportsOK, Unleased
<1> QED
  BY <1>2, <1>3 DEF RecordFingerprint

LEMMA OperatorExports ==
  ASSUME IInv, SidesOK, ExportsOK, NEW o \in Operators, OperatorStep(o)
  PROVE  ExportsOK'
<1> USE GoMoved DEF Exports
<1>1. ASSUME NEW id \in MigrationIds, Freeze(o, id) PROVE ExportsOK'
  BY <1>1, ExportsMoved DEF Freeze, Moved, history
<1>2. CASE FreezeControl(o)
  BY <1>2, FreezeExports
<1>3. CASE Export(o)
  BY <1>3, BeginExport
<1>4. CASE CountLeases(o)
  BY <1>4, CountExports
<1>5. CASE ExportTable(o)
  BY <1>5, ReadMoved, ReadExports DEF ExportTable
<1>6. CASE RecordFingerprint(o)
  BY <1>6, RecordExports
<1>7. CASE Import(o, exported)
  BY <1>7, ExportsMoved DEF Import, Moved, history
<1>8. CASE InspectTarget(o)
  <2>1. TableRead(o, "inspect", "load")
    BY <1>8, ReadMoved DEF InspectTarget
  <2> QED
    BY <2>1, ExportsMoved DEF TableRead, Moved
<1>9. CASE LoadBundle(o)
  <2>1. \/ Stayed(o, "reconcile") \/ Stayed(o, "recordImport") \/ Left(o)
    BY <1>9 DEF LoadBundle
  <2>2. UNCHANGED <<control, crossed, rolledBack>>
    BY <1>9 DEF LoadBundle, history
  <2>3. rows'["source"] = rows["source"]
    BY <1>9 DEF LoadBundle, IInv, DataOK, Sides
  <2> QED
    BY <2>1, <2>2, <2>3, ExportsMoved DEF Left, Stayed, Moved
<1>10. CASE ReconcileTable(o)
  <2>1. CASE ReadTable(o, "reconcile", "reconcile")
    <3>1. TableRead(o, "reconcile", "reconcile")
      BY <2>1, ReadMoved
    <3> QED
      BY <3>1, ExportsMoved DEF TableRead, Moved
  <2>2. CASE /\ UNCHANGED <<control, rows, crossed, rolledBack>>
             /\ Stay(o, "recordImport") \/ Return(o)
    <3>1. Stayed(o, "recordImport") \/ Left(o)
      BY <2>2
    <3> QED
      BY <2>2, <3>1, ExportsMoved DEF Left, Stayed, Moved
  <2> QED
    BY <1>10, <2>1, <2>2 DEF ReconcileTable, history
<1>11. CASE RecordImport(o)
  <2>1. Left(o) /\ UNCHANGED <<rows, crossed, rolledBack>>
    BY <1>11 DEF RecordImport
  <2>2. control'["source"] = control["source"]
    BY <1>11 DEF RecordImport, SetControl, IInv, DataOK, Sides
  <2> QED
    BY <2>1, <2>2, ExportsMoved DEF Left, Moved
<1>12. CASE Activate(o)
  <2>1. UNCHANGED <<rows, opPc, seen, table, read, argument, crossed, rolledBack>>
    BY <1>12 DEF Activate, local, history
  <2>2. control'["source"] = control["source"]
    BY <1>12 DEF Activate, SetControl, IInv, DataOK, Sides
  <2> QED
    BY <2>1, <2>2, ExportsKept DEF Unmoved
<1>13. CASE Rollback(o)
  BY <1>13, RollbackExports
<1> QED
  BY <1>1, <1>2, <1>3, <1>4, <1>5, <1>6, <1>7, <1>8, <1>9, <1>10, <1>11, <1>12,
     <1>13
  DEF OperatorStep

LEMMA CrashBundles ==
  ASSUME IInv, BundlesOK, NEW p \in Procs, Crash(p)
  PROVE  BundlesOK'
<1>1. UNCHANGED <<control, rows, exported, crossed, rolledBack>>
  BY DEF Crash, history
<1>2. \A o \in Operators :
        \/ Unmoved(o)
        \/ opPc'[o] = "idle" /\ read'[o] = NothingRead
  BY DEF Crash, Unmoved
<1>3. ExportsOK'
  BY <1>1, <1>2, ExportsKept DEF BundlesOK, Exports
<1>4. SidesOK'
  BY <1>1, <1>2 DEF BundlesOK, SidesOK, Unmoved, Loading, Exports
<1>5. RowsOK'
  BY <1>1, <1>2, PlainNothing DEF BundlesOK, RowsOK, Unmoved
<1>6. ImportsOK'
  BY <1>1, <1>2 DEF BundlesOK, ImportsOK, ImporterOK, Kept, Unmoved
<1> QED
  BY <1>3, <1>4, <1>5, <1>6 DEF BundlesOK

\* A step that leaves the target alone keeps what imports have seen.
LEMMA ImportsMoved ==
  ASSUME ImportsOK, NEW o \in Operators, OthersStay(o), opPc'[o] \notin Loading,
         control'["target"] = control["target"],
         rows'["target"] = rows["target"],
         "target" \in crossed => "target" \in crossed'
  PROVE  ImportsOK'
<1>1. \A q \in Operators : opPc'[q] \in Loading => Unmoved(q)
  BY DEF OthersStay
<1> QED
  BY <1>1 DEF ImportsOK, ImporterOK, Loading, Kept, Unmoved

\* A write to a target that somebody imports into is remembered.
LEMMA ImportsWritten ==
  ASSUME ImportsOK, UNCHANGED <<control, local>>,
         \/ crossed' = Crossing("target")
         \/ rows'["target"] = rows["target"] /\ crossed' = Crossing("source")
         \/ UNCHANGED <<rows, crossed>>
  PROVE  ImportsOK'
<1>1. CASE rows'["target"] = rows["target"]
  BY <1>1 DEF ImportsOK, ImporterOK, Kept, local, Crossing
<1>2. CASE crossed' = Crossing("target") /\ Closed("target")
  BY <1>2 DEF ImportsOK, ImporterOK, local, Crossing
<1>3. CASE crossed' = Crossing("target") /\ ~Closed("target")
  BY <1>3 DEF ImportsOK, ImporterOK, local, Closed, Importing, IsImported
<1> QED
  BY <1>1, <1>2, <1>3

LEMMA CallImports ==
  ASSUME IInv, ImportsOK, NEW c \in Calls, CallStep(c)
  PROVE  ImportsOK'
<1>1. SideOf(c) \in Sides /\ "target" \in Sides
  BY SideIsSide DEF Sides
<1>2. UNCHANGED <<control, local>>
  BY DEF CallStep, BeginWrite, Write, ClaimRow, SettleRow, EndWrite
<1>3. \/ UNCHANGED <<rows, crossed>>
      \/ /\ crossed' = Crossing(SideOf(c))
         /\ SideOf(c) = "source" => rows'["target"] = rows["target"]
  <2>1. CASE BeginWrite(c) \/ EndWrite(c)
    BY <2>1 DEF BeginWrite, EndWrite, history
  <2>2. ASSUME NEW t \in Tables, NEW row,
               rows' = [rows EXCEPT ![SideOf(c)][t] = row]
        PROVE  SideOf(c) = "source" => rows'["target"] = rows["target"]
    BY <1>1, <2>2 DEF IInv, DataOK
  <2>3. ASSUME NEW t \in Tables, Write(c, t) \/ SettleRow(c, t)
        PROVE  /\ crossed' = Crossing(SideOf(c))
               /\ SideOf(c) = "source" => rows'["target"] = rows["target"]
    BY <2>2, <2>3 DEF Write, SettleRow, WriteRow
  <2>4. ASSUME NEW t \in Tables, ClaimRow(c, t)
        PROVE  /\ crossed' = Crossing(SideOf(c))
               /\ SideOf(c) = "source" => rows'["target"] = rows["target"]
    BY <1>1, <2>4 DEF ClaimRow, IInv, DataOK
  <2> QED
    BY <2>1, <2>3, <2>4 DEF CallStep
<1> QED
  BY <1>1, <1>2, <1>3, ImportsWritten DEF Sides

LEMMA HostImports ==
  ASSUME IInv, ImportsOK, InsertEvent
  PROVE  ImportsOK'
<1>1. rows'["target"] = rows["target"]
  BY DEF InsertEvent, WriteRow, IInv, DataOK, Sides
<1> QED
  BY <1>1, ImportsWritten DEF InsertEvent, WriteRow

\* What one import learns by a step that leaves the target alone.
LEMMA ImportsSee ==
  ASSUME ImportsOK, NEW o \in Operators, OthersStay(o),
         UNCHANGED <<control, rows, crossed>>,
         "target" \notin crossed => ImporterOK(o)'
  PROVE  ImportsOK'
<1>1. \A q \in Operators \ {o} : ImporterOK(q) => ImporterOK(q)'
  BY DEF OthersStay, Unmoved, ImporterOK, Kept
<1>2. "target" \notin crossed => \A q \in Operators : ImporterOK(q)'
  BY <1>1 DEF ImportsOK
<1> QED
  BY <1>2 DEF ImportsOK

LEMMA InspectImports ==
  ASSUME IInv, SidesOK, ImportsOK, NEW o \in Operators,
         TableRead(o, "inspect", "load")
  PROVE  ImportsOK'
<1>1. /\ opPc[o] = "inspect" /\ table[o] \in Tables /\ SideOf(o) = "target"
      /\ UNCHANGED <<control, rows, crossed>> /\ OthersStay(o)
      /\ argument'[o] = argument[o]
      /\ read'[o] = [read[o] EXCEPT ![table[o]] = rows["target"][table[o]]]
      /\ DOMAIN read[o] = Tables
  BY DEF TableRead, Moved, SidesOK, Loading, IInv, DataOK, Rows
<1>2. ASSUME "target" \notin crossed PROVE ImporterOK(o)'
  <2>1. \A t \in Tables : t < table[o] => Kept(o, t)
    BY <1>1, <1>2 DEF ImportsOK, ImporterOK
  <2>2. ASSUME NEW t \in Tables, t < table[o] + 1 PROVE Kept(o, t)'
    <3>1. CASE t = table[o]
      BY <1>1, <3>1 DEF Kept
    <3>2. CASE t # table[o]
      <4>1. t < table[o]
        BY <1>1, <2>2, <3>2 DEF Tables
      <4>2. read'[o][t] = read[o][t]
        BY <1>1, <3>2
      <4> QED
        BY <1>1, <2>1, <4>1, <4>2 DEF Kept
    <3> QED
      BY <3>1, <3>2
  <2>3. CASE table[o] < LastTable
    <3>1. opPc'[o] = "inspect" /\ table'[o] = table[o] + 1
      BY <2>3 DEF TableRead, Moved
    <3> QED
      BY <2>2, <3>1 DEF ImporterOK
  <2>4. CASE ~(table[o] < LastTable)
    <3>1. opPc'[o] = "load"
      BY <2>4 DEF TableRead, Moved
    <3>2. \A t \in Tables : t < table[o] + 1
      BY <1>1, <2>4, BoundAssumption DEF Tables
    <3> QED
      BY <2>2, <3>1, <3>2 DEF ImporterOK
  <2> QED
    BY <2>3, <2>4
<1> QED
  BY <1>1, <1>2, ImportsSee

\* A bundle is loaded into tables that are empty, and then they are its tables;
\* other imports of it that found them empty find it loaded.
LEMMA LoadIntoEmpty ==
  ASSUME IInv, SidesOK, RowsOK, ImportsOK, NEW o \in Operators,
         opPc[o] = "load", "target" \notin crossed,
         \A t \in Tables : read[o][t].data = {},
         \A t \in Tables :
           rows["target"][t].data \cap argument[o].tables[t].data = {},
         Loaded(argument[o])
  PROVE  /\ argument[o] \in Bundles
         /\ rows["target"] = read[o]
         /\ rows'["target"] = argument[o].tables
         /\ ~HasRows(argument[o]) => rows'["target"] = rows["target"]
<1>1. /\ argument[o] \in Bundles /\ argument[o] = exported
      /\ exported # NoBundle
  BY DEF IInv, ArgumentsOK, SidesOK, Loading
<1>2. /\ rows["target"] \in Rows /\ read[o] \in Rows
      /\ argument[o].tables \in Rows
  BY <1>1 DEF IInv, DataOK, Bundles, Sides
<1>3. ASSUME HasRows(argument[o]) PROVE rows["target"] # argument[o].tables
  <2>1. PICK t \in Tables : argument[o].tables[t].data # {}
    BY <1>3 DEF HasRows
  <2> QED
    BY <2>1
<1>4. \A t \in Tables : read[o][t] = rows["target"][t]
  BY <1>3 DEF ImportsOK, ImporterOK, Kept
<1>5. rows["target"] = read[o]
  BY <1>2, <1>4 DEF Rows
<1>6. \A t \in Tables : rows["target"][t].data = {} /\ rows["target"][t].lease = NoOne
  BY <1>4 DEF RowsOK, Plain, Sides
<1>7. \A t \in Tables : rows'["target"][t] = argument[o].tables[t]
  <2> SUFFICES ASSUME NEW t \in Tables
               PROVE  rows'["target"][t] = argument[o].tables[t]
    OBVIOUS
  <2>1. /\ rows["target"][t] \in [data : SUBSET Nat, lease : Calls \union {NoOne}]
        /\ argument[o].tables[t] \in
             [data : SUBSET Nat, lease : Calls \union {NoOne}]
    BY <1>2 DEF Rows
  <2>2. rows'["target"][t] = Merge(rows["target"][t], argument[o].tables[t])
    BY <1>1, LoadedRows
  <2> QED
    BY <1>6, <2>1, <2>2, MergeEmpty
<1>8. rows'["target"] = [t \in Tables |-> rows'["target"][t]]
  BY <1>1 DEF IInv, DataOK, Sides, Loaded
<1>9. rows'["target"] = argument[o].tables
  BY <1>2, <1>7, <1>8 DEF Rows
<1>10. ASSUME ~HasRows(argument[o]) PROVE rows'["target"] = rows["target"]
  <2>1. ASSUME NEW t \in Tables
        PROVE  argument[o].tables[t] = rows["target"][t]
    <3>1. /\ rows["target"][t] \in [data : SUBSET Nat, lease : Calls \union {NoOne}]
          /\ argument[o].tables[t] \in
               [data : SUBSET Nat, lease : Calls \union {NoOne}]
      BY <1>2 DEF Rows
    <3>2. argument[o].tables[t].data = {} /\ argument[o].tables[t].lease = NoOne
      BY <1>1, <1>10 DEF HasRows, RowsOK, Plain
    <3>3. \A r, q \in [data : SUBSET Nat, lease : Calls \union {NoOne}] :
            r.data = q.data /\ r.lease = q.lease => r = q
      OBVIOUS
    <3>4. /\ argument[o].tables[t].data = rows["target"][t].data
          /\ argument[o].tables[t].lease = rows["target"][t].lease
      BY <1>6, <3>2
    <3> QED
      BY <3>1, <3>3, <3>4
  <2>2. argument[o].tables = rows["target"]
    BY <1>2, <2>1 DEF Rows
  <2> QED
    BY <1>9, <2>2
<1> QED
  BY <1>1, <1>5, <1>9, <1>10

LEMMA LoadImports ==
  ASSUME IInv, SidesOK, RowsOK, ImportsOK, NEW o \in Operators, LoadBundle(o)
  PROVE  ImportsOK'
<1>1. /\ opPc[o] = "load" /\ UNCHANGED <<control, crossed>>
      /\ argument[o] \in Bundles /\ argument[o] = exported
  BY DEF LoadBundle, history, IInv, ArgumentsOK, SidesOK, Loading
<1>2. ASSUME \A t \in Tables : read[o][t].data = {},
             \A t \in Tables :
               rows["target"][t].data \cap argument[o].tables[t].data = {},
             Loaded(argument[o]), Stay(o, "reconcile")
      PROVE  ImportsOK'
  <2>1. CASE "target" \in crossed
    BY <1>1, <2>1 DEF ImportsOK
  <2>2. CASE "target" \notin crossed
    <3>1. /\ rows["target"] = read[o]
          /\ rows'["target"] = argument[o].tables
          /\ ~HasRows(argument[o]) => rows'["target"] = rows["target"]
      BY <1>1, <1>2, <2>2, LoadIntoEmpty
    <3>2. Stayed(o, "reconcile")
      BY <1>2, GoMoved
    <3>3. ~ \E b \in Bundles : HasRows(b) /\ rows["target"] = b.tables
      BY <1>2, <3>1 DEF HasRows
    <3>4. ImporterOK(o)'
      BY <3>1, <3>2 DEF ImporterOK, Stayed, Moved
    <3>5. ASSUME NEW q \in Operators \ {o} PROVE ImporterOK(q)'
      <4>1. Unmoved(q)
        BY <3>2 DEF Stayed, Moved, OthersStay
      <4>2. opPc[q] \in Loading => argument[q] = argument[o]
        BY <1>1 DEF SidesOK
      <4>3. ASSUME NEW t \in Tables, opPc[q] \in Loading, Kept(q, t)
            PROVE  Kept(q, t)'
        <5>1. read[q][t] = rows["target"][t] /\ read[q][t].data = {}
          BY <1>1, <1>2, <3>1, <3>3, <4>2, <4>3 DEF Kept
        <5>2. CASE HasRows(argument[o])
          BY <3>1, <4>1, <4>2, <4>3, <5>1, <5>2 DEF Kept, Unmoved, HasRows
        <5>3. CASE ~HasRows(argument[o])
          BY <3>1, <4>1, <5>1, <5>3 DEF Kept, Unmoved
        <5> QED
          BY <5>2, <5>3
      <4>4. ImporterOK(q)
        BY <2>2 DEF ImportsOK
      <4> QED
        BY <3>1, <4>1, <4>2, <4>3, <4>4 DEF ImporterOK, Unmoved, Loading
    <3>6. ~(IsImported(control["target"]) /\ HasRows(control["target"].fingerprint))
      BY <2>2, <3>3 DEF ImportsOK
    <3> QED
      BY <1>1, <3>4, <3>5, <3>6 DEF ImportsOK
  <2> QED
    BY <2>1, <2>2
<1>3. ASSUME SameRows(argument[o], read[o]), Stay(o, "recordImport"), UNCHANGED rows
      PROVE  ImportsOK'
  <2>1. Stayed(o, "recordImport")
    BY <1>3, GoMoved
  <2>2. ASSUME "target" \notin crossed PROVE rows["target"] = argument[o].tables
    <3>1. \A t \in Tables : Kept(o, t)
      BY <1>1, <2>2 DEF ImportsOK, ImporterOK
    <3>2. rows["target"] \in Rows /\ read[o] \in Rows
      BY DEF IInv, DataOK, Sides
    <3>3. CASE \A t \in Tables : read[o][t] = rows["target"][t]
      <4>1. read[o] = rows["target"]
        BY <3>2, <3>3 DEF Rows
      <4> QED
        BY <1>3, <4>1 DEF SameRows
    <3> QED
      BY <3>1, <3>3 DEF Kept
  <2> QED
    BY <1>1, <1>3, <2>1, <2>2, ImportsSee DEF ImporterOK, Stayed, Moved
<1>4. ASSUME Return(o), UNCHANGED rows PROVE ImportsOK'
  BY <1>1, <1>4, GoMoved, ImportsMoved DEF Left, Moved, Loading
<1> QED
  BY <1>2, <1>3, <1>4 DEF LoadBundle, Loaded

LEMMA ReconcileImports ==
  ASSUME IInv, SidesOK, ImportsOK, NEW o \in Operators, ReconcileTable(o)
  PROVE  ImportsOK'
<1>1. ASSUME NEW place \in {"reconcile", "recordImport"}, opPc[o] = "reconcile",
             OthersStay(o), opPc'[o] = place, argument'[o] = argument[o],
             UNCHANGED <<control, rows, crossed>>
      PROVE  ImportsOK'
  BY <1>1, ImportsSee DEF ImporterOK, ImportsOK
<1>2. CASE ReadTable(o, "reconcile", "reconcile")
  <2>1. TableRead(o, "reconcile", "reconcile")
    BY <1>2, ReadMoved
  <2> QED
    BY <1>1, <2>1 DEF TableRead, Moved
<1>3. CASE /\ opPc[o] = "reconcile" /\ UNCHANGED <<control, rows, crossed>>
           /\ Stay(o, "recordImport") \/ Return(o)
  <2>1. Stayed(o, "recordImport") \/ Left(o)
    BY <1>3, GoMoved
  <2>2. CASE Stayed(o, "recordImport")
    BY <1>1, <1>3, <2>2 DEF Stayed, Moved
  <2>3. CASE Left(o)
    BY <1>3, <2>3, ImportsMoved DEF Left, Moved, Loading
  <2> QED
    BY <2>1, <2>2, <2>3
<1> QED
  BY <1>2, <1>3 DEF ReconcileTable, history

\* The import that is recorded is that of the rows.
LEMMA RecordImports ==
  ASSUME IInv, SidesOK, ImportsOK, NEW o \in Operators, RecordImport(o)
  PROVE  ImportsOK'
<1>1. /\ opPc[o] = "recordImport" /\ Left(o) /\ UNCHANGED <<rows, crossed>>
      /\ argument[o] \in Bundles /\ argument[o] # NoBundle
  BY GoMoved DEF RecordImport, IInv, ArgumentsOK, SidesOK, Loading
<1>2. CASE UNCHANGED control
  BY <1>1, <1>2, ImportsMoved DEF Left, Moved, Loading
<1>3. CASE SetControl("target", Control(argument[o].id, "target", "imported",
                                        argument[o]))
  <2>1. control'["target"].fingerprint = argument[o]
    BY <1>3 DEF IInv, DataOK, SetControl, Control, Sides
  <2>2. "target" \notin crossed => rows["target"] = argument[o].tables
    BY <1>1 DEF ImportsOK, ImporterOK
  <2>3. ASSUME NEW q \in Operators, "target" \notin crossed PROVE ImporterOK(q)'
    <3>1. ImporterOK(q)
      BY <2>3 DEF ImportsOK
    <3>2. opPc'[q] = "idle" \/ Unmoved(q)
      BY <1>1 DEF Left, Moved, OthersStay
    <3> QED
      BY <1>1, <3>1, <3>2 DEF ImporterOK, Kept, Unmoved
  <2> QED
    BY <1>1, <2>1, <2>2, <2>3 DEF ImportsOK
<1> QED
  BY <1>2, <1>3 DEF RecordImport

LEMMA OperatorImports ==
  ASSUME IInv, SidesOK, RowsOK, ImportsOK, NEW o \in Operators, OperatorStep(o)
  PROVE  ImportsOK'
<1> USE GoMoved DEF Loading
<1>1. ASSUME NEW id \in MigrationIds, Freeze(o, id) PROVE ImportsOK'
  BY <1>1, ImportsMoved DEF Freeze, Moved, history
<1>2. CASE FreezeControl(o)
  <2>1. Left(o) /\ UNCHANGED rows
    BY <1>2 DEF FreezeControl
  <2>2. control'["target"] = control["target"]
    BY <1>2 DEF FreezeControl, SetControl, IInv, DataOK, Sides
  <2>3. "target" \in crossed => "target" \in crossed'
    BY <1>2 DEF FreezeControl
  <2> QED
    BY <2>1, <2>2, <2>3, ImportsMoved DEF Left, Moved
<1>3. CASE Export(o)
  BY <1>3, ImportsMoved DEF Export, Moved, history
<1>4. CASE CountLeases(o)
  <2>1. \E place, k, n, tables, x :
          /\ Moved(o, place, k, n, tables, x)
          /\ place \in {"idle", "drain", "export"}
    BY <1>4 DEF CountLeases, Left, Stayed
  <2>2. UNCHANGED <<control, rows, crossed>>
    BY <1>4 DEF CountLeases, history
  <2> QED
    BY <2>1, <2>2, ImportsMoved DEF Moved
<1>5. CASE ExportTable(o)
  <2>1. TableRead(o, "export", "recordExport")
    BY <1>5, ReadMoved DEF ExportTable
  <2> QED
    BY <2>1, ImportsMoved DEF TableRead, Moved
<1>6. CASE RecordFingerprint(o)
  <2>1. Left(o) /\ UNCHANGED <<rows, crossed>>
    BY <1>6 DEF RecordFingerprint, history
  <2>2. control'["target"] = control["target"]
    BY <1>6 DEF RecordFingerprint, SetControl, IInv, DataOK, Sides
  <2> QED
    BY <2>1, <2>2, ImportsMoved DEF Left, Moved
<1>7. CASE Import(o, exported)
  <2>1. /\ Moved(o, "inspect", NoControl, 1, NothingRead, exported)
        /\ UNCHANGED <<control, rows, crossed>>
    BY <1>7 DEF Import, history
  <2>2. ImporterOK(o)'
    BY <2>1, BoundAssumption DEF ImporterOK, Moved, Tables
  <2> QED
    BY <2>1, <2>2, ImportsSee DEF Moved
<1>8. CASE InspectTarget(o)
  BY <1>8, ReadMoved, InspectImports DEF InspectTarget
<1>9. CASE LoadBundle(o)
  BY <1>9, LoadImports
<1>10. CASE ReconcileTable(o)
  BY <1>10, ReconcileImports
<1>11. CASE RecordImport(o)
  BY <1>11, RecordImports
<1>12. CASE Activate(o)
  <2>1. control["target"] \in Controls /\ control["target"].state = "imported"
    BY <1>12 DEF IInv, DataOK, Activate, Matches, Sides
  <2>2. control'["target"] = [control["target"] EXCEPT !.state = "cutover"]
    BY <1>12 DEF Activate, SetControl, IInv, DataOK, Sides
  <2>3. ~IsImported(control'["target"])
    BY <2>1, <2>2, MatchedIsReal DEF IsImported
  <2>4. UNCHANGED <<rows, crossed, opPc, table, read, argument>>
    BY <1>12 DEF Activate, local, history
  <2> QED
    BY <2>3, <2>4 DEF ImportsOK, ImporterOK, Kept
<1>13. CASE Rollback(o)
  <2>1. control'["target"] = control["target"]
    BY <1>13 DEF Rollback, SetControl, IInv, DataOK, Sides
  <2>2. UNCHANGED <<rows, crossed, opPc, table, read, argument>>
    BY <1>13 DEF Rollback, local
  <2> QED
    BY <2>1, <2>2 DEF ImportsOK, ImporterOK, Kept
<1> QED
  BY <1>1, <1>2, <1>3, <1>4, <1>5, <1>6, <1>7, <1>8, <1>9, <1>10, <1>11, <1>12,
     <1>13
  DEF OperatorStep

-----------------------------------------------------------------------------
(* The theorems.                                                           *)

\* The inductive invariant: types, arguments, locks and the gate.
THEOREM Invariance == Spec => []IInv
<1>1. Init => IInv
  BY DataInit, GateInit DEF IInv, GateOK
<1>2. IInv /\ [Next]_vars => IInv'
  <2> SUFFICES ASSUME IInv, [Next]_vars PROVE IInv'
    OBVIOUS
  <2>1. ASSUME NEW c \in Calls, CallStep(c) PROVE IInv'
    BY <2>1, CallData, CallGate DEF IInv, GateOK
  <2>2. ASSUME NEW o \in Operators, OperatorStep(o) PROVE IInv'
    <3>1. DataOK' /\ ArgumentsOK'
      BY <2>2, FreezeData, ExportData, ImportData, SwitchData DEF OperatorStep
    <3>2. LockStep(o) /\ ControlStep(o)
      BY <2>2, FreezeLocks, ExportLocks, ImportLocks, SwitchLocks DEF OperatorStep
    <3>3. GateOK'
      BY <3>2, OperatorGate DEF LockStep
    <3> QED
      BY <3>1, <3>3 DEF IInv, GateOK
  <2>3. CASE InsertEvent
    <3>1. GateOK'
      BY <2>3 DEF IInv, GateOK, LocksOK, GateHoldsInItsProcess, InsertEvent, gate, local
    <3> QED
      BY <2>3, <3>1, HostData DEF IInv, GateOK
  <2>4. ASSUME NEW p \in Procs, Crash(p) PROVE IInv'
    BY <2>4, CrashData, CrashGate DEF IInv, GateOK
  <2>5. CASE UNCHANGED vars
    BY <2>5 DEF IInv, vars, gate, local, history, DataOK, LocksOK, ArgumentsOK,
                GateHoldsInItsProcess
  <2> QED
    BY <2>1, <2>2, <2>3, <2>4, <2>5 DEF Next
<1> QED
  BY <1>1, <1>2, PTL DEF Spec

\* The rows, control rows and locks have their types at all times: no path
\* through the calls of SystemMigration or through a writing call loses a lock
\* or keeps one.
THEOREM TypeCorrect == Spec => []TypeOK
<1>1. IInv => TypeOK
  BY DEF IInv, TypeOK
<1> QED
  BY <1>1, Invariance, PTL

\* beginMigrationSensitiveWrite and the exclusive lock leave no gap in the
\* process that migrates, for any number of processes, calls and operators.
THEOREM GateHolds == Spec => []GateHoldsInItsProcess
<1>1. IInv => GateHoldsInItsProcess
  BY DEF IInv
<1> QED
  BY <1>1, Invariance, PTL

LEMMA BundlesStep == IInv /\ BundlesOK /\ [Next]_vars => BundlesOK'
<1> SUFFICES ASSUME IInv, BundlesOK, [Next]_vars PROVE BundlesOK'
  OBVIOUS
<1>1. ASSUME NEW c \in Calls, CallStep(c) PROVE BundlesOK'
  <2>1. SidesOK'
    BY <1>1 DEF CallStep, BeginWrite, Write, ClaimRow, SettleRow, EndWrite, local,
                BundlesOK, SidesOK
  <2> QED
    BY <1>1, <2>1, CallRows, CallExports, CallImports DEF BundlesOK
<1>2. ASSUME NEW o \in Operators, OperatorStep(o) PROVE BundlesOK'
  BY <1>2, SidesStep, OperatorRows, OperatorExports, OperatorImports DEF BundlesOK
<1>3. CASE InsertEvent
  <2>1. SidesOK'
    BY <1>3 DEF InsertEvent, local, BundlesOK, SidesOK
  <2> QED
    BY <1>3, <2>1, HostRows, HostExports, HostImports DEF BundlesOK
<1>4. ASSUME NEW p \in Procs, Crash(p) PROVE BundlesOK'
  BY <1>4, CrashBundles
<1>5. CASE UNCHANGED vars
  <2>1. UNCHANGED <<control, rows, opPc, seen, table, read, argument, exported,
                    crossed, rolledBack>>
    BY <1>5 DEF vars, local, history
  <2>2. ExportsOK' /\ SidesOK'
    BY <2>1 DEF BundlesOK, ExportsOK, SidesOK, Fresh, Seen, Unleased
  <2>3. RowsOK' /\ ImportsOK'
    BY <2>1 DEF BundlesOK, RowsOK, ImportsOK, ImporterOK, Kept
  <2> QED
    BY <2>2, <2>3 DEF BundlesOK
<1> QED
  BY <1>1, <1>2, <1>3, <1>4, <1>5 DEF Next

\* What exports and imports under way have seen of the tables they read one by
\* one agrees with the tables, for the whole of every run.
THEOREM BundlesInvariance == Spec => []BundlesOK
<1>1. Init => BundlesOK
  BY BundlesInit
<1>2. IInv /\ BundlesOK /\ [Next]_vars => BundlesOK'
  BY BundlesStep
<1> QED
  BY <1>1, <1>2, Invariance, PTL DEF Spec

\* Export counts leases and reads tables without a lock and without a
\* transaction, and RecordMigrationFingerprint still never records anything but
\* what the frozen source holds.
THEOREM ExportsAreCurrent == Spec => []ExportIsCurrent
<1>1. BundlesOK => ExportIsCurrent
  BY DEF BundlesOK, ExportsOK, Fresh, Unleased, ExportIsCurrent, IsSource
<1> QED
  BY <1>1, BundlesInvariance, PTL

\* ImportPortable commits the rows before RecordImportedMigration records them;
\* however imports overlap, stop and are repeated, the target that is recorded
\* as imported holds the bundle.
THEOREM ImportsAreExact == Spec => []ImportIsExact
<1>1. BundlesOK => ImportIsExact
  BY DEF BundlesOK, ImportsOK, ImportIsExact
<1> QED
  BY <1>1, BundlesInvariance, PTL

\* No step changes both rows and control rows.
LEMMA RowsOrControl == [Next]_vars => control' = control \/ rows' = rows
<1> SUFFICES ASSUME [Next]_vars PROVE control' = control \/ rows' = rows
  OBVIOUS
<1>1. ASSUME NEW c \in Calls, CallStep(c) PROVE control' = control
  BY <1>1 DEF CallStep, BeginWrite, Write, ClaimRow, SettleRow, EndWrite
<1>2. ASSUME NEW o \in Operators, OperatorStep(o)
      PROVE  control' = control \/ rows' = rows
  BY <1>2 DEF OperatorStep, Freeze, FreezeControl, Export, CountLeases,
              ExportTable, RecordFingerprint, Import, InspectTarget, ReadTable,
              LoadBundle, ReconcileTable, RecordImport, Activate, Rollback
<1>3. CASE InsertEvent \/ \E p \in Procs : Crash(p)
  BY <1>3 DEF InsertEvent, Crash
<1> QED
  BY <1>1, <1>2, <1>3 DEF Next, vars

\* ActivateMigration compares the fingerprint only; it never leaves a row of the
\* frozen source behind, for any number of processes, operators and migrations.
THEOREM CutoverIsComplete == Spec => CutoverMovesEverything
<1>1. ASSUME BundlesOK, [Next]_vars,
             IsImported(control["target"]), control'["target"].state = "cutover",
             IsSource(control["source"]),
             control["source"].fingerprint = control["target"].fingerprint,
             HasRows(control["target"].fingerprint), crossed = {},
             control["source"].id \notin rolledBack
      PROVE  rows'["target"] = rows'["source"]
  <2>1. rows["target"] = control["target"].fingerprint.tables
    BY <1>1 DEF BundlesOK, ImportsOK
  <2>2. control["target"].fingerprint # NoBundle
    BY <1>1 DEF BundlesOK, ImportsOK
  <2>3. rows["source"] = control["target"].fingerprint.tables
    BY <1>1, <2>2 DEF BundlesOK, ExportsOK, Fresh, IsSource
  <2>4. rows' = rows
    BY <1>1, RowsOrControl DEF IsImported
  <2> QED
    BY <2>1, <2>3, <2>4
<1>2. BundlesOK /\ [Next]_vars =>
        [/\ IsImported(control["target"]) /\ control'["target"].state = "cutover"
         /\ IsSource(control["source"])
         /\ control["source"].fingerprint = control["target"].fingerprint
         /\ HasRows(control["target"].fingerprint) /\ crossed = {}
         /\ control["source"].id \notin rolledBack
         => rows'["target"] = rows'["source"]]_vars
  BY <1>1
<1> QED
  BY <1>2, BundlesInvariance, PTL DEF Spec, CutoverMovesEverything
=============================================================================
