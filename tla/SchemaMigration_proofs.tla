------------------------ MODULE SchemaMigration_proofs ------------------------
(***************************************************************************)
(* Theorems about the start of the server, for any rows, devices, stores   *)
(* and number of starts that were cut short.                               *)
(***************************************************************************)
EXTENDS SchemaMigration, TLAPS

Rebuilding == {"make", "fill", "drop", "rename"}

\* Which tables of the old version are left, by how far the start came.
ShapeInv ==
  /\ stage \in {"make", "fill", "drop"} => shape[table] = "old"
  /\ stage = "rename" => shape[table] = "none"
  /\ \A t \in Rebuilt : shape[t] = "none" =>
       \/ stage \in {"down", "create"}
       \/ stage = "rename" /\ t = table
  /\ \A t \in Rebuilt : shape[t] = "none" => rows[t] = {}
  /\ stage \in {"presence", "backfill", "names", "commit", "up"}
       => shape["scan_results"] = "new"
  /\ stage \in Rebuilding \cup {"check"} /\ table = "staff_invites"
       => shape["scan_results"] = "new"
  /\ stage \in {"commit", "up"} => shape["staff_invites"] = "new"

\* What a "_v2" holds while it is used, and why one is left over.
CopyInv ==
  /\ stage \in {"drop", "rename"} => stored[table] \subseteq copy[table]
  /\ stage = "drop" => copy[table] = rows[table]
  /\ \A t \in Rebuilt :
       copy[t] # {} /\ ~(stage \in {"drop", "rename"} /\ t = table) =>
         /\ shape[t] = "old" => "filled" \in cutAt[t]
         /\ shape[t] # "old" => "dropped" \in cutAt[t]

\* What an end in a window left behind stays: rows that are in the table and
\* in the "_v2", or rows that are in the "_v2" alone.
ScarInv ==
  \A t \in Rebuilt :
    /\ "filled" \in cutAt[t] =>
         /\ shape[t] = "old"
         /\ rows[t] \cap copy[t] # {}
         /\ ~(stage = "drop" /\ t = table)
    /\ "dropped" \in cutAt[t] =>
         /\ shape[t] # "old"
         /\ copy[t] # {} /\ copy[t] \subseteq stored[t] /\ copy[t] \cap rows[t] = {}
         /\ ~(stage = "rename" /\ t = table)

\* When the columns are committed and filled.
ColumnInv ==
  /\ stage \in Rebuilding \cup {"down", "create", "up", "refused"} => saved = filled
  /\ column /\ stage # "backfill" => filled.seen = Device \/ cutColumn
  /\ stage = "backfill" => column
  /\ stage \in Rebuilding \cup {"check"} /\ table = "staff_invites"
       => filled.named = Store
  /\ stage \in {"names", "commit", "up"} => column
  /\ stage \in Rebuilding \cup {"check"} /\ table = "staff_invites" => column
  /\ stage \in {"commit", "up"} => filled.named = Store

\* Nothing is in a table or a "_v2" that was not committed.
OriginInv == \A t \in Rebuilt : rows[t] \cup copy[t] \subseteq stored[t]

IInv ==
  /\ TypeOK /\ RowsSurvive /\ OriginInv
  /\ ShapeInv /\ CopyInv /\ ScarInv /\ ColumnInv /\ RefusalExplained
-----------------------------------------------------------------------------
USE MigrationAssumption DEF Rebuilt

(***************************************************************************)
(* Every step preserves the types.                                         *)
(***************************************************************************)
LEMMA TypeStep == TypeOK /\ [Next]_vars => TypeOK'
<1> SUFFICES ASSUME TypeOK, [Next]_vars PROVE TypeOK'
  OBVIOUS
<1> USE DEF TypeOK, Stage, Shape, Window
<1>1. CASE Start
  BY <1>1 DEF Start, tables, columns, history
<1>2. ASSUME NEW t \in Rebuilt, CreateTable(t) PROVE TypeOK'
  BY <1>2 DEF CreateTable, columns, history
<1>3. CASE TablesExist
  BY <1>3 DEF TablesExist, columns, history
<1>4. CASE Check
  BY <1>4 DEF Check, AfterRebuild, tables, history
<1>5. CASE Make
  BY <1>5 DEF Make, columns, history
<1>6. CASE Fill
  BY <1>6 DEF Fill, history
<1>7. CASE Drop
  BY <1>7 DEF Drop, columns, history
<1>8. CASE Rename
  BY <1>8 DEF Rename, AfterRebuild, columns, history
<1>9. CASE AddColumn
  BY <1>9 DEF AddColumn, tables, history
<1>10. CASE Backfill
  BY <1>10 DEF Backfill, tables, history
<1>11. CASE FillNames
  BY <1>11 DEF FillNames, history
<1>12. CASE Commit
  BY <1>12 DEF Commit, tables, history
<1>13. ASSUME NEW t \in Rebuilt, NEW r \in Row, Insert(t, r) PROVE TypeOK'
  BY <1>13 DEF Insert, columns
<1>14. ASSUME NEW d \in Device, Heartbeat(d) PROVE TypeOK'
  BY <1>14 DEF Heartbeat, tables, history
<1>15. CASE Kill
  BY <1>15 DEF Kill, WindowOf, tables
<1>16. CASE UNCHANGED vars
  BY <1>16 DEF vars, tables, columns, history
<1>17. QED
  BY <1>1, <1>2, <1>3, <1>4, <1>5, <1>6, <1>7, <1>8, <1>9, <1>10, <1>11, <1>12,
     <1>13, <1>14, <1>15, <1>16 DEF Next, StartStep

(***************************************************************************)
(* The steps of a start and of the server leave the invariant alone or     *)
(* carry it on.                                                            *)
(***************************************************************************)
LEMMA InvStep == IInv /\ [Next]_vars => IInv'
<1> SUFFICES ASSUME IInv, [Next]_vars PROVE IInv'
  OBVIOUS
<1>t. TypeOK'
  BY TypeStep DEF IInv
<1> DEFINE Rest == /\ RowsSurvive /\ OriginInv /\ ShapeInv /\ CopyInv /\ ScarInv
                   /\ ColumnInv /\ RefusalExplained
<1> SUFFICES Rest'
  BY <1>t DEF IInv
<1> USE DEF IInv, TypeOK, Stage, Shape, Window, Rebuilding,
            RowsSurvive, OriginInv, ShapeInv, CopyInv, ScarInv, ColumnInv, RefusalExplained
<1>1. CASE Start
  BY <1>1 DEF Start, tables, columns, history
<1>2. ASSUME NEW t \in Rebuilt, CreateTable(t) PROVE Rest'
  BY <1>2 DEF CreateTable, columns, history
<1>3. CASE TablesExist
  BY <1>3 DEF TablesExist, columns, history
<1>4. CASE Check
  BY <1>4 DEF Check, AfterRebuild, tables, history
<1>5. CASE Make
  BY <1>5 DEF Make, columns, history
<1>6. CASE Fill
  BY <1>6 DEF Fill, history
<1>7. CASE Drop
  BY <1>7 DEF Drop, columns, history
<1>8. CASE Rename
  BY <1>8 DEF Rename, AfterRebuild, columns, history
<1>9. CASE AddColumn
  BY <1>9 DEF AddColumn, tables, history
<1>10. CASE Backfill
  BY <1>10 DEF Backfill, tables, history
<1>11. CASE FillNames
  BY <1>11 DEF FillNames, history
<1>12. CASE Commit
  BY <1>12 DEF Commit, tables, history
<1>13. ASSUME NEW t \in Rebuilt, NEW r \in Row, Insert(t, r) PROVE Rest'
  BY <1>13 DEF Insert, columns
<1>14. ASSUME NEW d \in Device, Heartbeat(d) PROVE Rest'
  BY <1>14 DEF Heartbeat, tables, history
<1>15. CASE Kill
  <2> USE <1>15 DEF Kill, tables
  <2>0. /\ cutAt'[table] = cutAt[table] \cup WindowOf(stage)
        /\ \A t \in Rebuilt : t # table => cutAt'[t] = cutAt[t]
    OBVIOUS
  <2>1. RowsSurvive' /\ OriginInv' /\ ShapeInv' /\ RefusalExplained'
    OBVIOUS
  <2>2. CopyInv'
    <3>1. \A t \in Rebuilt : cutAt[t] \subseteq cutAt'[t]
      BY <2>0
    <3>2. CASE stage = "drop" /\ copy[table] # {}
      <4>1. "filled" \in cutAt'[table]
        BY <2>0, <3>2 DEF WindowOf
      <4>2. QED
        BY <3>1, <3>2, <4>1
    <3>3. CASE stage = "rename" /\ copy[table] # {}
      <4>1. "dropped" \in cutAt'[table]
        BY <2>0, <3>3 DEF WindowOf
      <4>2. QED
        BY <3>1, <3>3, <4>1
    <3>4. CASE stage \notin {"drop", "rename"} \/ copy[table] = {}
      BY <3>1, <3>4
    <3>5. QED
      BY <3>2, <3>3, <3>4
  <2>5. ScarInv'
    <3>1. ASSUME NEW t \in Rebuilt, "filled" \in cutAt'[t]
          PROVE  shape[t] = "old" /\ rows[t] \cap copy[t] # {}
      <4>1. CASE "filled" \in cutAt[t]
        BY <4>1
      <4>2. CASE "filled" \notin cutAt[t]
        <5>1. t = table /\ stage = "drop" /\ rows[table] # {}
          BY <2>0, <3>1, <4>2 DEF WindowOf
        <5>2. rows[table] \subseteq copy[table]
          BY <5>1
        <5>3. QED
          BY <5>1, <5>2
      <4>3. QED
        BY <4>1, <4>2
    <3>2. ASSUME NEW t \in Rebuilt, "dropped" \in cutAt'[t]
          PROVE  /\ shape[t] # "old"
                 /\ copy[t] # {} /\ copy[t] \subseteq stored[t] /\ copy[t] \cap rows[t] = {}
      <4>1. CASE "dropped" \in cutAt[t]
        BY <4>1
      <4>2. CASE "dropped" \notin cutAt[t]
        <5>1. t = table /\ stage = "rename" /\ copy[table] # {}
          BY <2>0, <3>2, <4>2 DEF WindowOf
        <5>2. QED
          BY <5>1
      <4>3. QED
        BY <4>1, <4>2
    <3>3. QED
      BY <3>1, <3>2
  <2>3. ColumnInv'
    <3>1. cutColumn \/ stage = "backfill" \/ saved.seen # filled.seen => cutColumn'
      OBVIOUS
    <3>2. column => filled'.seen = Device \/ cutColumn'
      BY <3>1
    <3>3. QED
      BY <3>2
  <2>4. QED
    BY <2>1, <2>2, <2>3, <2>5
<1>16. CASE UNCHANGED vars
  BY <1>16 DEF vars, tables, columns, history
<1>17. QED
  BY <1>1, <1>2, <1>3, <1>4, <1>5, <1>6, <1>7, <1>8, <1>9, <1>10, <1>11, <1>12,
     <1>13, <1>14, <1>15, <1>16 DEF Next, StartStep

LEMMA InvHolds == Spec => []IInv
<1>1. ASSUME Init PROVE IInv
  <2> USE <1>1 DEF Init, Stage, Shape, Window, Rebuilding
  <2>1. filled \in [seen : SUBSET Device, named : SUBSET Store]
    <3>1. filled \in [seen : IF column THEN {Device} ELSE {{}}, named : SUBSET Store]
      OBVIOUS
    <3>2. CASE column
      <4>1. filled \in [seen : {Device}, named : SUBSET Store]
        BY <3>1, <3>2
      <4>2. QED
        BY <4>1
    <3>3. CASE ~column
      <4>1. filled \in [seen : {{}}, named : SUBSET Store]
        BY <3>1, <3>3
      <4>2. QED
        BY <4>1
    <3>4. QED
      BY <3>2, <3>3
  <2>2. column => filled.seen = Device
    OBVIOUS
  <2>3. TypeOK
    <3>1. saved \in [seen : SUBSET Device, named : SUBSET Store] /\ kills \in 0 .. MaxKills
      BY <2>1
    <3>2. cutAt \in [Rebuilt -> SUBSET Window] /\ copy \in [Rebuilt -> SUBSET Row]
      OBVIOUS
    <3>3. shape \in [Rebuilt -> Shape] /\ rows \in [Rebuilt -> SUBSET Row]
      BY Zenon
    <3>4. stored \in [Rebuilt -> SUBSET Row] /\ column \in BOOLEAN /\ cutColumn \in BOOLEAN
      BY <3>3, Zenon
    <3>5. stage \in Stage /\ table \in Rebuilt /\ made \subseteq Rebuilt
      OBVIOUS
    <3>6. QED
      BY <2>1, <3>1, <3>2, <3>3, <3>4, <3>5 DEF TypeOK
  <2>4. /\ RowsSurvive /\ OriginInv /\ ShapeInv /\ CopyInv /\ ScarInv
        /\ ColumnInv /\ RefusalExplained
    BY <2>2 DEF RowsSurvive, OriginInv, ShapeInv, CopyInv, ScarInv, ColumnInv,
                RefusalExplained
  <2>5. QED
    BY <2>3, <2>4 DEF IInv
<1>2. QED
  BY <1>1, InvStep, PTL DEF Spec
-----------------------------------------------------------------------------
(***************************************************************************)
(* Type correctness of the start.                                          *)
(***************************************************************************)
THEOREM TypeCorrect == Spec => []TypeOK
<1>1. IInv => TypeOK
  BY DEF IInv
<1>2. QED
  BY <1>1, InvHolds, PTL

(***************************************************************************)
(* No row is destroyed by a migration, wherever starts are cut short.      *)
(***************************************************************************)
THEOREM NoRowIsDestroyed == Spec => []RowsSurvive
<1>1. IInv => RowsSurvive
  BY DEF IInv
<1>2. QED
  BY <1>1, InvHolds, PTL

(***************************************************************************)
(* Only the three windows do harm, and what an end in two of them did is   *)
(* never undone, in any number of interrupted starts.                      *)
(***************************************************************************)
THEOREM HarmIsExplained == Spec => []OnlyWindowsHarm
<1>1. ASSUME IInv PROVE ServesAll
  <2> SUFFICES ASSUME stage = "up", NEW t \in Rebuilt
      PROVE  /\ shape[t] = "new"
             /\ stored[t] \subseteq rows[t] <=> "dropped" \notin cutAt[t]
             /\ "filled" \notin cutAt[t]
    BY DEF ServesAll
  <2>1. shape[t] = "new"
    BY <1>1 DEF IInv, ShapeInv
  <2>2. "filled" \notin cutAt[t]
    BY <1>1, <2>1 DEF IInv, ScarInv
  <2>3. CASE copy[t] = {}
    <3>1. stored[t] \subseteq rows[t]
      BY <1>1, <2>3 DEF IInv, RowsSurvive
    <3>2. "dropped" \notin cutAt[t]
      BY <1>1, <2>3 DEF IInv, ScarInv
    <3>3. QED
      BY <2>1, <2>2, <3>1, <3>2
  <2>4. CASE copy[t] # {}
    <3>1. "dropped" \in cutAt[t]
      BY <1>1, <2>1, <2>4 DEF IInv, CopyInv
    <3>2. copy[t] \subseteq stored[t] /\ copy[t] \cap rows[t] = {}
      BY <1>1, <3>1 DEF IInv, ScarInv
    <3>3. ~(stored[t] \subseteq rows[t])
      BY <2>4, <3>2
    <3>4. QED
      BY <2>1, <2>2, <3>1, <3>3
  <2>5. QED
    BY <2>3, <2>4
<1>2. IInv => KnowsLastSeen
  BY DEF IInv, ColumnInv, KnowsLastSeen
<1>3. IInv => OnlyWindowsHarm
  BY <1>1, <1>2 DEF IInv, OnlyWindowsHarm
<1>4. QED
  BY <1>3, InvHolds, PTL
=============================================================================
