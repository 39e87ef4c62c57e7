--------------------------- MODULE SchemaMigration ---------------------------
(***************************************************************************)
(* init_db: what a start of the server does to the database before it      *)
(* serves, and what the next start finds when one was cut short.           *)
(*                                                                         *)
(* executescript first commits and then runs each statement in a           *)
(* transaction of its own, so the rebuild of a table (make the new table,  *)
(* fill it, drop the old one, rename) is four commits.  ALTER TABLE         *)
(* commits at once too, while nothing was updated before it; the UPDATEs    *)
(* that fill added columns are one transaction, which ends with init_db or *)
(* with the next executescript.                                            *)
(*                                                                         *)
(* Of the added columns the model keeps one that is filled by the start    *)
(* that adds it (devices.last_seen_at) and one that every start fills      *)
(* (stores.display_name); the others are like the second.                  *)
(***************************************************************************)
EXTENDS Naturals

CONSTANTS
  Row,      \* rows of the rebuilt tables, by primary key
  Device,   \* devices, of which an old database has last_seen_ts
  Store,    \* stores, of which an old database has no display_name
  MaxKills  \* bound: starts and servers that are cut short

ASSUME MigrationAssumption == MaxKills \in Nat

Rebuilt == {"scan_results", "staff_invites"}
Stage == {"down", "create", "check", "make", "fill", "drop", "rename",
          "presence", "backfill", "names", "commit", "up", "refused"}
Shape == {"none", "old", "new"}

\* The windows in which the end of the process does harm.
Window == {"filled", "dropped"}

VARIABLES
  stage,     \* what init_db does next, or "up", "down", "refused"
  table,     \* the table that is rebuilt, if one is
  shape,     \* [Rebuilt -> Shape]: the columns of the table
  rows,      \* [Rebuilt -> SUBSET Row]: the rows in the table
  made,      \* SUBSET Rebuilt: the tables whose "_v2" exists
  copy,      \* [Rebuilt -> SUBSET Row]: the rows in the "_v2"
  column,    \* devices has the column last_seen_at
  filled,    \* [seen : SUBSET Device, named : SUBSET Store]: the columns' values
  saved,     \* the same as committed
  kills,     \* processes that ended so far
  stored,    \* history: rows of each table that were ever committed
  cutAt,     \* history: [Rebuilt -> SUBSET Window] ends of the process there
  cutColumn  \* history: one ended after the column was added, before a commit

tables == <<table, shape, rows, made, copy>>
columns == <<column, filled, saved>>
history == <<kills, stored, cutAt, cutColumn>>
vars == <<stage, tables, columns, history>>

(***************************************************************************)
(* A database is new, current, or of a version before image_id, before     *)
(* nullable invites or before last_seen_at.                                *)
(***************************************************************************)
Init ==
  /\ stage = "down"
  /\ table = "scan_results"
  /\ shape \in [Rebuilt -> Shape]
  /\ rows \in [Rebuilt -> SUBSET Row]
  /\ \A t \in Rebuilt : shape[t] = "none" => rows[t] = {}
  /\ made = {}
  /\ copy = [t \in Rebuilt |-> {}]
  /\ column \in BOOLEAN
  /\ filled \in [seen : IF column THEN {Device} ELSE {{}}, named : SUBSET Store]
  /\ saved = filled
  /\ kills = 0
  /\ stored = rows
  /\ cutAt = [t \in Rebuilt |-> {}]
  /\ cutColumn = FALSE
-----------------------------------------------------------------------------
Start ==
  /\ stage \in {"down", "refused"}
  /\ stage' = "create"
  /\ UNCHANGED <<tables, columns, history>>

\* Faulty variant: what an interrupted rebuild left behind is cleared away.
CreateTableAndTidy(t) ==
  /\ stage = "create"
  /\ shape[t] = "none"
  /\ shape' = [shape EXCEPT ![t] = "new"]
  /\ made' = made \ {t}
  /\ copy' = [copy EXCEPT ![t] = {}]
  /\ UNCHANGED <<stage, table, rows, columns, history>>

\* CREATE TABLE IF NOT EXISTS, each on its own.
CreateTable(t) ==
  /\ stage = "create"
  /\ shape[t] = "none"
  /\ shape' = [shape EXCEPT ![t] = "new"]
  /\ UNCHANGED <<stage, table, rows, made, copy, columns, history>>

TablesExist ==
  /\ stage = "create"
  /\ \A t \in Rebuilt : shape[t] # "none"
  /\ stage' = "check"
  /\ table' = "scan_results"
  /\ UNCHANGED <<shape, rows, made, copy, columns, history>>

AfterRebuild(t) == IF t = "scan_results" THEN "presence" ELSE "commit"

\* Is the table of the old version?  The script that rebuilds it commits.
Check ==
  /\ stage = "check"
  /\ \/ /\ shape[table] = "old"
        /\ stage' = "make"
        /\ saved' = filled
     \/ /\ shape[table] # "old"
        /\ stage' = AfterRebuild(table)
        /\ UNCHANGED saved
  /\ UNCHANGED <<tables, column, filled, history>>

\* Faulty variant: a rebuild that was begun is taken to be filled.
MakeOrResume ==
  /\ stage = "make"
  /\ made' = made \cup {table}
  /\ stage' = IF table \in made THEN "drop" ELSE "fill"
  /\ UNCHANGED <<table, shape, rows, copy, columns, history>>

\* CREATE TABLE IF NOT EXISTS: one left by an interrupted rebuild stays.
Make ==
  /\ stage = "make"
  /\ made' = made \cup {table}
  /\ stage' = "fill"
  /\ UNCHANGED <<table, shape, rows, copy, columns, history>>

\* Faulty variant: the rows are copied one by one.
FillRowByRow ==
  /\ stage = "fill"
  /\ \/ /\ rows[table] \cap copy[table] = {}
        /\ \E r \in rows[table] : copy' = [copy EXCEPT ![table] = @ \cup {r}]
        /\ stage' = IF rows[table] = copy'[table] THEN "drop" ELSE "fill"
     \/ /\ rows[table] = {}
        /\ stage' = "drop"
        /\ UNCHANGED copy
     \/ /\ rows[table] \cap copy[table] # {}
        /\ stage' = "refused"
        /\ UNCHANGED copy
  /\ filled' = IF stage' = "refused" THEN saved ELSE filled
  /\ UNCHANGED <<table, shape, rows, made, column, saved, history>>

(***************************************************************************)
(* INSERT ... SELECT.  A row whose key is already in the new table makes   *)
(* init_db raise: the server does not start.                               *)
(***************************************************************************)
Fill ==
  /\ stage = "fill"
  /\ \/ /\ rows[table] \cap copy[table] = {}
        /\ copy' = [copy EXCEPT ![table] = @ \cup rows[table]]
        /\ stage' = "drop"
        /\ UNCHANGED filled
     \/ /\ rows[table] \cap copy[table] # {}
        /\ stage' = "refused"
        /\ filled' = saved
        /\ UNCHANGED copy
  /\ UNCHANGED <<table, shape, rows, made, column, saved, history>>

Drop ==
  /\ stage = "drop"
  /\ shape' = [shape EXCEPT ![table] = "none"]
  /\ rows' = [rows EXCEPT ![table] = {}]
  /\ stage' = "rename"
  /\ UNCHANGED <<table, made, copy, columns, history>>

Rename ==
  /\ stage = "rename"
  /\ shape' = [shape EXCEPT ![table] = "new"]
  /\ rows' = [rows EXCEPT ![table] = copy[table]]
  /\ made' = made \ {table}
  /\ copy' = [copy EXCEPT ![table] = {}]
  /\ stage' = AfterRebuild(table)
  /\ UNCHANGED <<table, columns, history>>
-----------------------------------------------------------------------------
\* last_seen_at is added, at once, or was there before.
AddColumn ==
  /\ stage = "presence"
  /\ column' = TRUE
  /\ stage' = IF column THEN "names" ELSE "backfill"
  /\ UNCHANGED <<tables, filled, saved, history>>

\* Only the start that added last_seen_at takes it from last_seen_ts.
Backfill ==
  /\ stage = "backfill"
  /\ filled' = [filled EXCEPT !.seen = Device]
  /\ stage' = "names"
  /\ UNCHANGED <<tables, column, saved, history>>

\* Every start gives a name to each store without one.
FillNames ==
  /\ stage = "names"
  /\ filled' = [filled EXCEPT !.named = Store]
  /\ stage' = "check"
  /\ table' = "staff_invites"
  /\ UNCHANGED <<shape, rows, made, copy, column, saved, history>>

Commit ==
  /\ stage = "commit"
  /\ saved' = filled
  /\ stage' = "up"
  /\ UNCHANGED <<tables, column, filled, history>>
-----------------------------------------------------------------------------
\* The server at work: a new row, a sign of life of a device.
Insert(t, r) ==
  /\ stage = "up"
  /\ r \notin stored[t]
  /\ rows' = [rows EXCEPT ![t] = @ \cup {r}]
  /\ stored' = [stored EXCEPT ![t] = @ \cup {r}]
  /\ UNCHANGED <<stage, table, shape, made, copy, columns, kills, cutAt, cutColumn>>

Heartbeat(d) ==
  /\ stage = "up"
  /\ filled' = [filled EXCEPT !.seen = @ \cup {d}]
  /\ saved' = filled'
  /\ UNCHANGED <<stage, tables, column, history>>

(***************************************************************************)
(* The process ends, or a statement raises (a full disk, a locked file):   *)
(* what was not committed is rolled back.                                  *)
(***************************************************************************)
\* The window the process ends in, if there are rows for it to harm.
WindowOf(s) ==
  {w \in Window : \/ w = "filled" /\ s = "drop" /\ rows[table] # {}
                  \/ w = "dropped" /\ s = "rename" /\ copy[table] # {}}

Kill ==
  /\ stage \notin {"down", "refused"}
  /\ kills < MaxKills
  /\ kills' = kills + 1
  /\ stage' = "down"
  /\ filled' = saved
  /\ cutAt' = [cutAt EXCEPT ![table] = @ \cup WindowOf(stage)]
  /\ cutColumn' = (cutColumn \/ stage = "backfill" \/ saved.seen # filled.seen)
  /\ UNCHANGED <<tables, column, saved, stored>>

StartStep ==
  \/ Start \/ TablesExist \/ Check \/ Make \/ Fill \/ Drop \/ Rename
  \/ AddColumn \/ Backfill \/ FillNames \/ Commit
  \/ \E t \in Rebuilt : CreateTable(t)

Next ==
  \/ StartStep
  \/ \E t \in Rebuilt, r \in Row : Insert(t, r)
  \/ \E d \in Device : Heartbeat(d)
  \/ Kill

Spec == Init /\ [][Next]_vars

\* The process is started again, and a start goes on.
FairSpec == Spec /\ WF_vars(StartStep)
-----------------------------------------------------------------------------
TypeOK ==
  /\ stage \in Stage
  /\ table \in Rebuilt
  /\ shape \in [Rebuilt -> Shape]
  /\ rows \in [Rebuilt -> SUBSET Row]
  /\ made \subseteq Rebuilt
  /\ copy \in [Rebuilt -> SUBSET Row]
  /\ column \in BOOLEAN
  /\ filled \in [seen : SUBSET Device, named : SUBSET Store]
  /\ saved \in [seen : SUBSET Device, named : SUBSET Store]
  /\ kills \in 0 .. MaxKills
  /\ stored \in [Rebuilt -> SUBSET Row]
  /\ cutAt \in [Rebuilt -> SUBSET Window]
  /\ cutColumn \in BOOLEAN

(***************************************************************************)
(* No row is ever destroyed: wherever starts are cut short, it is in the   *)
(* table or in what an interrupted rebuild left of it.                     *)
(***************************************************************************)
RowsSurvive == \A t \in Rebuilt : stored[t] \subseteq rows[t] \cup copy[t]

(***************************************************************************)
(* Nothing but the end of a process in one of three windows does harm, and *)
(* what two of them do is never undone.  A server that is up serves every  *)
(* row of a table, unless a start ended between the table's DROP and its   *)
(* RENAME: then it misses rows for ever.  A start is refused only after    *)
(* one that ended between the INSERT and the DROP, and after such a one    *)
(* the server never comes up again.  A device's last sign of life is       *)
(* unknown only after a start that ended between ALTER TABLE and the       *)
(* commit; the next sign of life heals that.                               *)
(***************************************************************************)
ServesAll ==
  stage = "up" => \A t \in Rebuilt :
    /\ shape[t] = "new"
    /\ stored[t] \subseteq rows[t] <=> "dropped" \notin cutAt[t]
    /\ "filled" \notin cutAt[t]

RefusalExplained == stage = "refused" => "filled" \in cutAt[table]

KnowsLastSeen ==
  stage = "up" => /\ filled.seen = Device \/ cutColumn
                  /\ filled.named = Store

OnlyWindowsHarm == ServesAll /\ RefusalExplained /\ KnowsLastSeen

(***************************************************************************)
(* README.md:161 has migrations run automatically on startup: the server   *)
(* comes up in the end, unless a process ended between an INSERT and its   *)
(* DROP.                                                                   *)
(***************************************************************************)
ComesUp == <>[](stage = "up") \/ \E t \in Rebuilt : <>("filled" \in cutAt[t])
=============================================================================
