----------------------------- MODULE ResultImages -----------------------------
(***************************************************************************)
(* Annotated images of results, for users who tap a notification.          *)
(*                                                                         *)
(* A tap is served from the cache, or the device is asked for the image,   *)
(* uploads it as a blob and answers with its id; the server marks it,      *)
(* stores it as a blob of its own and enters it in the cache.  Taps run on *)
(* the event loop and suspend only while they wait for the device, so each *)
(* of Hit, Miss and Render is one step for other taps; but the cleanup of  *)
(* blobs is a thread, and several taps may wait for one image.             *)
(*                                                                         *)
(* That a user may tap (a member who was told) is taken as passed.         *)
(***************************************************************************)
EXTENDS BlobStore

CONSTANTS
  Result,  \* scan results
  NoResult

ASSUME ResultAssumption == NoResult \notin Result

VARIABLES
  cache,  \* [Result -> Blob or NoBlob]: annotated_image_cache
  fresh,  \* SUBSET Result: entries before their cached_until
  asking  \* [Reader -> Result or NoResult]: taps that wait for the device

imageVars == <<cache, fresh, asking>>
vars == <<blobVars, imageVars>>

Init ==
  /\ BlobInit
  /\ cache = [r \in Result |-> NoBlob]
  /\ fresh = {}
  /\ asking = [q \in Reader |-> NoResult]

Idle(q) == holds[q] = NoBlob /\ asking[q] = NoResult
-----------------------------------------------------------------------------
Hits(r) == cache[r] # NoBlob /\ r \in fresh /\ cache[r] \in rows \cap files

Hit(q, r) ==
  /\ Idle(q)
  /\ Hits(r)
  /\ Find(q, cache[r])
  /\ UNCHANGED imageVars

\* An entry that is past its time or whose file is gone is deleted, before
\* anybody knows whether the device will answer.
Miss(q, r) ==
  /\ Idle(q)
  /\ ~Hits(r)
  /\ cache' = [cache EXCEPT ![r] = NoBlob]
  /\ fresh' = fresh \ {r}
  /\ asking' = [asking EXCEPT ![q] = r]
  /\ UNCHANGED blobVars

(***************************************************************************)
(* No image: the device is away, times out, refuses or names a blob that   *)
(* is not there or no image, or the database is locked.                    *)
(***************************************************************************)
Unavailable(q) ==
  /\ asking[q] # NoResult
  /\ asking' = [asking EXCEPT ![q] = NoResult]
  /\ UNCHANGED <<blobVars, cache, fresh>>

(***************************************************************************)
(* The device has answered with a blob, and whatever it shows is marked as *)
(* the result.  The file is written within the transaction that inserts    *)
(* the row and the entry of the cache, over that of a tap that was faster. *)
(***************************************************************************)
Render(q, raw, b) ==
  /\ asking[q] # NoResult
  /\ raw \in rows \cap files
  /\ Draw(b)
  /\ files' = files \cup {b}
  /\ rows' = rows \cup {b}
  /\ cache' = [cache EXCEPT ![asking[q]] = b]
  /\ fresh' = fresh \cup {asking[q]}
  /\ asking' = [asking EXCEPT ![q] = NoResult]
  /\ holds' = [holds EXCEPT ![q] = b]
  /\ UNCHANGED <<writing, expired, cleanup, faults, left>>

\* The transaction fails after the file was written: the file stays.
RenderRollsBack(q, raw, b) ==
  /\ asking[q] # NoResult
  /\ raw \in rows \cap files
  /\ Fault
  /\ Draw(b)
  /\ files' = files \cup {b}
  /\ left' = left \cup {b}
  /\ asking' = [asking EXCEPT ![q] = NoResult]
  /\ UNCHANGED <<rows, writing, expired, cleanup, holds, cache, fresh>>

\* ANNOTATED_IMAGE_CACHE_TTL_SECONDS have passed.
EntryExpires(r) ==
  /\ r \in fresh
  /\ fresh' = fresh \ {r}
  /\ UNCHANGED <<blobVars, cache, asking>>
-----------------------------------------------------------------------------
\* Faulty variant: a connection that does not turn foreign keys on.
DeleteWithoutCascade == DeleteRows /\ UNCHANGED imageVars

\* ON DELETE CASCADE takes the entries of the cache with their blobs.
Delete ==
  /\ DeleteRows
  /\ cache' = [r \in Result |-> IF cache[r] \in doomed THEN NoBlob ELSE cache[r]]
  /\ fresh' = {r \in fresh : cache[r] \notin doomed}
  /\ UNCHANGED asking

CrashAll ==
  /\ Crash
  /\ asking' = [q \in Reader |-> NoResult]
  /\ UNCHANGED <<cache, fresh>>

\* Other requests for blobs: the photo of a command, a download of an admin.
FindOther(q, b) == Idle(q) /\ Find(q, b)

\* The steps that leave the cache and the taps alone.
StoreStep ==
  \/ \E b \in Blob : \/ WriteFile(b) \/ WriteFails(b) \/ InsertRow(b)
                     \/ InsertFails(b) \/ Expire(b) \/ Unlink(b) \/ UnlinkFails(b)
  \/ SelectExpired \/ DeleteFails
  \/ \E q \in Reader : Respond(q) \/ \E b \in Blob : FindOther(q, b)

TapStep ==
  \E q \in Reader :
    \/ Unavailable(q)
    \/ \E r \in Result : Hit(q, r) \/ Miss(q, r)
    \/ \E raw, b \in Blob : Render(q, raw, b) \/ RenderRollsBack(q, raw, b)

Next ==
  \/ StoreStep /\ UNCHANGED imageVars
  \/ TapStep
  \/ Delete \/ CrashAll
  \/ \E r \in Result : EntryExpires(r)

Spec == Init /\ [][Next]_vars

\* The loop of the cleanup goes on, also after an iteration that failed.
CleanupProgress ==
  \/ (SelectExpired \/ DeleteFails) /\ UNCHANGED imageVars
  \/ \E b \in Blob : (Unlink(b) \/ UnlinkFails(b)) /\ UNCHANGED imageVars
  \/ Delete

FairSpec == Spec /\ WF_vars(CleanupProgress)
-----------------------------------------------------------------------------
TypeOK ==
  /\ BlobTypeOK
  /\ cache \in [Result -> 0 .. drawn]
  /\ fresh \subseteq Result
  /\ asking \in [Reader -> Result \cup {NoResult}]

(***************************************************************************)
(* The cache names no blob that is gone, however taps, cleanups and        *)
(* crashes interleave, and the file of what it names is missing only of a  *)
(* blob that has expired: nothing else makes a tap ask the device again    *)
(* before the entry's time.                                                *)
(***************************************************************************)
CacheIsServable ==
  \A r \in Result : cache[r] # NoBlob =>
    cache[r] \in rows /\ cache[r] \in files \cup expired

(***************************************************************************)
(* Nothing is disposed of before it is due, and what is gone stays gone: a *)
(* row goes only when it is past its retention; a file only with such a    *)
(* row, or with the upload whose row was refused; and what is found under  *)
(* an id is what was stored under it first, for whoever reads it when.     *)
(***************************************************************************)
DisposalIsDue ==
  [][/\ rows \ rows' \subseteq expired
     /\ files \ files' \subseteq expired \cup (writing \ rows)
     /\ rows' \cap 1 .. drawn \subseteq rows \cup writing
     /\ files' \cap 1 .. drawn \subseteq files]_vars
=============================================================================
