------------------------------ MODULE BlobStore ------------------------------
(***************************************************************************)
(* Blobs: files in a directory and the rows that list them.                *)
(*                                                                         *)
(* An upload writes the file and then inserts the row.  A thread of the    *)
(* server (blob_cleanup) selects the rows that are past their retention,   *)
(* removes their files one after the other and then all their rows at      *)
(* once.  A request that serves a blob looks up the row, looks for the     *)
(* file, and opens the file when the response is sent.  None of them       *)
(* excludes another: a file and its row change in separate steps.          *)
(***************************************************************************)
EXTENDS Naturals, FiniteSets

CONSTANTS
  MaxBlobs,         \* bound: blobs
  Reader,           \* requests that serve a blob
  MaxPlaceholders,  \* how many variables the SQLite library allows a statement
  MaxFaults         \* bound: ends of the process, failing writes of disk and database

ASSUME BlobAssumption ==
  /\ MaxBlobs \in Nat
  /\ MaxPlaceholders \in Nat
  /\ MaxFaults \in Nat

\* Blobs are numbered in the order in which their ids are drawn (uuid4).
Blob == 1 .. MaxBlobs
NoBlob == 0

VARIABLES
  files,     \* SUBSET Blob: BLOB_STORAGE_DIR
  rows,      \* SUBSET Blob: the table blobs
  drawn,     \* how many ids were drawn
  writing,   \* SUBSET Blob: uploads between the file and the row
  expired,   \* SUBSET Blob: past BLOB_RETENTION_SECONDS
  doomed,    \* SUBSET Blob: the rows the cleanup has selected
  toUnlink,  \* SUBSET Blob: those whose files it has not tried to remove yet
  holds,     \* [Reader -> Blob or NoBlob]: the file a request has found
  faults,    \* faults so far
  left       \* history, SUBSET Blob: files that a fault left without a row

cleanup == <<doomed, toUnlink>>
blobVars == <<files, rows, drawn, writing, expired, cleanup, holds, faults, left>>

BlobInit ==
  /\ files = {} /\ rows = {} /\ drawn = 0 /\ writing = {} /\ expired = {}
  /\ doomed = {} /\ toUnlink = {}
  /\ holds = [q \in Reader |-> NoBlob]
  /\ faults = 0
  /\ left = {}

Draw(b) == b = drawn + 1 /\ drawn' = b

Fault == faults < MaxFaults /\ faults' = faults + 1
-----------------------------------------------------------------------------
\* An upload of a device: first the file ...
WriteFile(b) ==
  /\ Draw(b)
  /\ files' = files \cup {b}
  /\ writing' = writing \cup {b}
  /\ UNCHANGED <<rows, expired, cleanup, holds, faults, left>>

\* ... which may fail half way: nobody removes what was written.
WriteFails(b) ==
  /\ Draw(b)
  /\ Fault
  /\ files' = files \cup {b}
  /\ left' = left \cup {b}
  /\ UNCHANGED <<rows, writing, expired, cleanup, holds>>

InsertRow(b) ==
  /\ b \in writing
  /\ writing' = writing \ {b}
  /\ rows' = rows \cup {b}
  /\ UNCHANGED <<files, drawn, expired, cleanup, holds, faults, left>>

\* Faulty variant: the file of a row that was refused stays.
InsertFailsOnly(b) ==
  /\ b \in writing
  /\ Fault
  /\ writing' = writing \ {b}
  /\ UNCHANGED <<files, rows, drawn, expired, cleanup, holds, left>>

\* The row is refused (a locked database): the upload takes its file back.
InsertFails(b) ==
  /\ b \in writing
  /\ Fault
  /\ writing' = writing \ {b}
  /\ files' = files \ {b}
  /\ UNCHANGED <<rows, drawn, expired, cleanup, holds, left>>

Expire(b) ==
  /\ b \in rows \ expired
  /\ expired' = expired \cup {b}
  /\ UNCHANGED <<files, rows, drawn, writing, cleanup, holds, faults, left>>
-----------------------------------------------------------------------------
\* Faulty variant: the age of the rows is compared the wrong way.
SelectYoung ==
  /\ doomed = {}
  /\ rows # {}
  /\ doomed' = rows
  /\ toUnlink' = rows
  /\ UNCHANGED <<files, rows, drawn, writing, expired, holds, faults, left>>

SelectExpired ==
  /\ doomed = {}
  /\ rows \cap expired # {}
  /\ doomed' = rows \cap expired
  /\ toUnlink' = rows \cap expired
  /\ UNCHANGED <<files, rows, drawn, writing, expired, holds, faults, left>>

Unlink(b) ==
  /\ b \in toUnlink
  /\ toUnlink' = toUnlink \ {b}
  /\ files' = files \ {b}
  /\ UNCHANGED <<rows, drawn, writing, expired, doomed, holds, faults, left>>

\* Faulty variant: a file that cannot be removed ends the iteration.
UnlinkAborts(b) ==
  /\ b \in toUnlink
  /\ toUnlink' = {}
  /\ doomed' = {}
  /\ UNCHANGED <<files, rows, drawn, writing, expired, holds, faults, left>>

\* The file cannot be removed, now or ever: its row goes all the same.
UnlinkFails(b) ==
  /\ b \in toUnlink
  /\ toUnlink' = toUnlink \ {b}
  /\ left' = left \cup {b}
  /\ UNCHANGED <<files, rows, drawn, writing, expired, doomed, holds, faults>>

TooMany(S) == Cardinality(S) > MaxPlaceholders

DeleteRows ==
  /\ doomed # {} /\ toUnlink = {}
  /\ ~TooMany(doomed)
  /\ rows' = rows \ doomed
  /\ doomed' = {}
  /\ UNCHANGED <<files, drawn, writing, expired, toUnlink, holds, faults, left>>

(***************************************************************************)
(* The statement raises, because of a fault or because it names more blobs *)
(* than SQLite allows: the loop goes on and selects the same rows again.   *)
(***************************************************************************)
DeleteFails ==
  /\ doomed # {} /\ toUnlink = {}
  /\ \/ TooMany(doomed) /\ UNCHANGED faults
     \/ Fault
  /\ doomed' = {}
  /\ UNCHANGED <<files, rows, drawn, writing, expired, toUnlink, holds, left>>
-----------------------------------------------------------------------------
\* A request finds the row and the file, ...
Find(q, b) ==
  /\ holds[q] = NoBlob
  /\ b \in rows \cap files
  /\ holds' = [holds EXCEPT ![q] = b]
  /\ UNCHANGED <<files, rows, drawn, writing, expired, cleanup, faults, left>>

\* ... and opens it; if it is gone by then the response is an error.
Respond(q) ==
  /\ holds[q] # NoBlob
  /\ holds' = [holds EXCEPT ![q] = NoBlob]
  /\ UNCHANGED <<files, rows, drawn, writing, expired, cleanup, faults, left>>

\* The end of the process, and its next start.
Crash ==
  /\ Fault
  /\ writing' = {}
  /\ left' = left \cup writing
  /\ doomed' = {} /\ toUnlink' = {}
  /\ holds' = [q \in Reader |-> NoBlob]
  /\ UNCHANGED <<files, rows, drawn, expired>>
-----------------------------------------------------------------------------
BlobTypeOK ==
  /\ drawn \in 0 .. MaxBlobs
  /\ files \subseteq 1 .. drawn /\ rows \subseteq 1 .. drawn
  /\ writing \subseteq 1 .. drawn /\ expired \subseteq 1 .. drawn
  /\ doomed \subseteq 1 .. drawn /\ toUnlink \subseteq doomed
  /\ holds \in [Reader -> 0 .. drawn]
  /\ faults \in 0 .. MaxFaults
  /\ left \subseteq 1 .. drawn

(***************************************************************************)
(* Nothing is lost before its time, whatever uploads, requests, cleanups   *)
(* and crashes come in between: a row that is not past its retention can   *)
(* be served, and a request that found a file loses it to expiry alone.    *)
(***************************************************************************)
OnlyExpiredIsLost ==
  /\ rows \ files \subseteq expired
  /\ \A q \in Reader : holds[q] # NoBlob => holds[q] \in files \cup expired

(***************************************************************************)
(* A file without a row takes space for ever, because the cleanup goes by  *)
(* rows.  There is none but of an upload under way and those a fault left. *)
(***************************************************************************)
OrphansAreExplained == files \ rows \subseteq writing \cup left

(***************************************************************************)
(* README.md:19 has blobs past their retention deleted: every one is, even *)
(* if its file cannot be removed, unless there are more of them at once    *)
(* than one statement can name.                                            *)
(***************************************************************************)
ExpiredGo ==
  \A b \in Blob : b \in expired ~> b \notin rows \/ TooMany(rows \cap expired)
=============================================================================
