------------------------- MODULE ResultImages_proofs -------------------------
(***************************************************************************)
(* Theorems about blobs and annotated images, for any number of blobs,     *)
(* requests, results and faults and any limit of the SQLite library.       *)
(***************************************************************************)
EXTENDS ResultImages, TLAPS

\* Where a blob is while it is written, listed, selected and found.
PlaceInv ==
  /\ writing \subseteq files \ rows
  /\ doomed \subseteq rows \cap expired
  /\ files \cap (doomed \ toUnlink) \subseteq left
  /\ \A q \in Reader : holds[q] \notin writing

IInv == TypeOK /\ PlaceInv /\ OnlyExpiredIsLost /\ OrphansAreExplained /\ CacheIsServable
-----------------------------------------------------------------------------
USE BlobAssumption, ResultAssumption DEF NoBlob

(***************************************************************************)
(* Every step preserves the types.                                         *)
(***************************************************************************)
LEMMA TypeStep == TypeOK /\ [Next]_vars => TypeOK'
<1> SUFFICES ASSUME TypeOK, [Next]_vars PROVE TypeOK'
  OBVIOUS
<1> USE DEF TypeOK, BlobTypeOK, Blob, Draw, Fault, cleanup
<1>1. ASSUME StoreStep, UNCHANGED imageVars PROVE TypeOK'
  <2> USE <1>1 DEF imageVars
  <2>1. ASSUME NEW b \in Blob,
               WriteFile(b) \/ WriteFails(b) \/ InsertRow(b) \/ InsertFails(b)
        PROVE  TypeOK'
    <3>1. b \in 1 .. drawn \/ (b = drawn + 1 /\ drawn' = b)
      BY <2>1 DEF WriteFile, WriteFails, InsertRow, InsertFails
    <3>2. CASE WriteFile(b)
      BY <3>2 DEF WriteFile
    <3>3. CASE WriteFails(b)
      BY <3>3 DEF WriteFails
    <3>4. CASE InsertRow(b)
      BY <3>1, <3>4 DEF InsertRow
    <3>5. CASE InsertFails(b)
      BY <3>1, <3>5 DEF InsertFails
    <3>6. QED
      BY <2>1, <3>2, <3>3, <3>4, <3>5
  <2>2. ASSUME NEW b \in Blob, Expire(b) \/ Unlink(b) \/ UnlinkFails(b) PROVE TypeOK'
    BY <2>2 DEF Expire, Unlink, UnlinkFails
  <2>3. CASE SelectExpired \/ DeleteFails
    <3>1. CASE SelectExpired
      BY <3>1 DEF SelectExpired
    <3>2. CASE DeleteFails
      BY <3>2 DEF DeleteFails
    <3>3. QED
      BY <2>3, <3>1, <3>2
  <2>4. ASSUME NEW q \in Reader, Respond(q) PROVE TypeOK'
    BY <2>4 DEF Respond
  <2>5. ASSUME NEW q \in Reader, NEW b \in Blob, FindOther(q, b) PROVE TypeOK'
    BY <2>5 DEF FindOther, Find
  <2>6. QED
    BY <1>1, <2>1, <2>2, <2>3, <2>4, <2>5 DEF StoreStep
<1>2. ASSUME NEW q \in Reader, Unavailable(q) PROVE TypeOK'
  BY <1>2 DEF Unavailable, blobVars
<1>3. ASSUME NEW q \in Reader, NEW r \in Result, Hit(q, r) \/ Miss(q, r) PROVE TypeOK'
  <2>1. CASE Hit(q, r)
    <3>1. cache[r] \in 0 .. drawn
      OBVIOUS
    <3>2. QED
      BY <2>1, <3>1 DEF Hit, Find, imageVars
  <2>2. CASE Miss(q, r)
    BY <2>2 DEF Miss, blobVars
  <2>3. QED
    BY <1>3, <2>1, <2>2
<1>4. ASSUME NEW q \in Reader, NEW raw \in Blob, NEW b \in Blob, Render(q, raw, b)
      PROVE  TypeOK'
  BY <1>4 DEF Render
<1>5. ASSUME NEW q \in Reader, NEW raw \in Blob, NEW b \in Blob, RenderRollsBack(q, raw, b)
      PROVE  TypeOK'
  BY <1>5 DEF RenderRollsBack
<1>6. CASE Delete
  BY <1>6 DEF Delete, DeleteRows
<1>7. CASE CrashAll
  BY <1>7 DEF CrashAll, Crash
<1>8. ASSUME NEW r \in Result, EntryExpires(r) PROVE TypeOK'
  BY <1>8 DEF EntryExpires, blobVars
<1>9. CASE UNCHANGED vars
  BY <1>9 DEF vars, blobVars, imageVars
<1>10. QED
  BY <1>1, <1>2, <1>3, <1>4, <1>5, <1>6, <1>7, <1>8, <1>9 DEF Next, TapStep

(***************************************************************************)
(* Every step preserves the invariant.  A file goes with an upload that is *)
(* taken back, which nobody has found, or with a selected row, which is    *)
(* expired; a row goes with its entry in the cache.                        *)
(***************************************************************************)
LEMMA InvStep == IInv /\ [Next]_vars => IInv'
<1> SUFFICES ASSUME IInv, [Next]_vars PROVE IInv'
  OBVIOUS
<1>t. TypeOK'
  BY TypeStep DEF IInv
<1> DEFINE Rest == PlaceInv /\ OnlyExpiredIsLost /\ OrphansAreExplained /\ CacheIsServable
<1> SUFFICES Rest'
  BY <1>t DEF IInv
<1> USE DEF IInv, TypeOK, BlobTypeOK, PlaceInv, OnlyExpiredIsLost, OrphansAreExplained,
            CacheIsServable, Blob, Draw, Fault, cleanup
<1>1. ASSUME StoreStep, UNCHANGED imageVars PROVE Rest'
  <2> USE <1>1 DEF imageVars
  <2>1. ASSUME NEW b \in Blob, WriteFile(b) PROVE Rest'
    BY <2>1 DEF WriteFile
  <2>2. ASSUME NEW b \in Blob, WriteFails(b) PROVE Rest'
    BY <2>2 DEF WriteFails
  <2>3. ASSUME NEW b \in Blob, InsertRow(b) PROVE Rest'
    BY <2>3 DEF InsertRow
  <2>4. ASSUME NEW b \in Blob, InsertFails(b) PROVE Rest'
    BY <2>4 DEF InsertFails
  <2>5. ASSUME NEW b \in Blob, Expire(b) \/ Unlink(b) \/ UnlinkFails(b) PROVE Rest'
    BY <2>5 DEF Expire, Unlink, UnlinkFails
  <2>6. CASE SelectExpired \/ DeleteFails
    BY <2>6 DEF SelectExpired, DeleteFails
  <2>7. ASSUME NEW q \in Reader, Respond(q) PROVE Rest'
    BY <2>7 DEF Respond
  <2>8. ASSUME NEW q \in Reader, NEW b \in Blob, FindOther(q, b) PROVE Rest'
    BY <2>8 DEF FindOther, Find
  <2>9. QED
    BY <1>1, <2>1, <2>2, <2>3, <2>4, <2>5, <2>6, <2>7, <2>8 DEF StoreStep
<1>2. ASSUME NEW q \in Reader, Unavailable(q) PROVE Rest'
  BY <1>2 DEF Unavailable, blobVars
<1>3. ASSUME NEW q \in Reader, NEW r \in Result, Hit(q, r) \/ Miss(q, r) PROVE Rest'
  BY <1>3 DEF Hit, Hits, Find, Miss, imageVars, blobVars
<1>4. ASSUME NEW q \in Reader, NEW raw \in Blob, NEW b \in Blob, Render(q, raw, b)
      PROVE  Rest'
  <2>1. asking[q] \in Result /\ b \notin files \cup rows \cup writing
    BY <1>4 DEF Render
  <2>2. QED
    BY <1>4, <2>1 DEF Render
<1>5. ASSUME NEW q \in Reader, NEW raw \in Blob, NEW b \in Blob, RenderRollsBack(q, raw, b)
      PROVE  Rest'
  BY <1>5 DEF RenderRollsBack
<1>6. CASE Delete
  BY <1>6 DEF Delete, DeleteRows
<1>7. CASE CrashAll
  BY <1>7 DEF CrashAll, Crash
<1>8. ASSUME NEW r \in Result, EntryExpires(r) PROVE Rest'
  BY <1>8 DEF EntryExpires, blobVars
<1>9. CASE UNCHANGED vars
  BY <1>9 DEF vars, blobVars, imageVars
<1>10. QED
  BY <1>1, <1>2, <1>3, <1>4, <1>5, <1>6, <1>7, <1>8, <1>9 DEF Next, TapStep

LEMMA InvHolds == Spec => []IInv
<1>1. Init => IInv
  BY DEF Init, BlobInit, IInv, TypeOK, BlobTypeOK, PlaceInv, OnlyExpiredIsLost,
         OrphansAreExplained, CacheIsServable
<1>2. QED
  BY <1>1, InvStep, PTL DEF Spec
-----------------------------------------------------------------------------
(***************************************************************************)
(* Type correctness of blobs and images.                                   *)
(***************************************************************************)
THEOREM TypeCorrect == Spec => []TypeOK
<1>1. IInv => TypeOK
  BY DEF IInv
<1>2. QED
  BY <1>1, InvHolds, PTL

(***************************************************************************)
(* What is not expired can be served, and stays for whoever found it.      *)
(***************************************************************************)
THEOREM OnlyExpiryLoses == Spec => []OnlyExpiredIsLost
<1>1. IInv => OnlyExpiredIsLost
  BY DEF IInv
<1>2. QED
  BY <1>1, InvHolds, PTL

(***************************************************************************)
(* No file is left without a row but by a fault.                           *)
(***************************************************************************)
THEOREM OrphansComeFromFaults == Spec => []OrphansAreExplained
<1>1. IInv => OrphansAreExplained
  BY DEF IInv
<1>2. QED
  BY <1>1, InvHolds, PTL

(***************************************************************************)
(* What the cache names is listed, and missing only if it expired.         *)
(***************************************************************************)
THEOREM CacheServes == Spec => []CacheIsServable
<1>1. IInv => CacheIsServable
  BY DEF IInv
<1>2. QED
  BY <1>1, InvHolds, PTL

\* What each step does to rows and files.
LEMMA DisposalStep ==
  ASSUME IInv, [Next]_vars
  PROVE  /\ rows \ rows' \subseteq expired
         /\ files \ files' \subseteq expired \cup (writing \ rows)
         /\ rows' \cap 1 .. drawn \subseteq rows \cup writing
         /\ files' \cap 1 .. drawn \subseteq files
<1> DEFINE Due == /\ rows \ rows' \subseteq expired
                  /\ files \ files' \subseteq expired \cup (writing \ rows)
                  /\ rows' \cap 1 .. drawn \subseteq rows \cup writing
                  /\ files' \cap 1 .. drawn \subseteq files
<1> USE DEF Blob, Draw, cleanup
<1>1. drawn \in Nat /\ doomed \subseteq expired /\ toUnlink \subseteq doomed
      /\ writing \subseteq files \ rows
  BY DEF IInv, TypeOK, BlobTypeOK, PlaceInv
<1>2. CASE UNCHANGED <<files, rows>>
  BY <1>2
<1>3. ASSUME NEW b \in Blob, WriteFile(b) \/ WriteFails(b) PROVE Due
  BY <1>1, <1>3 DEF WriteFile, WriteFails
<1>4. ASSUME NEW b \in Blob, InsertRow(b) \/ InsertFails(b) PROVE Due
  BY <1>1, <1>4 DEF InsertRow, InsertFails
<1>5. ASSUME NEW b \in Blob, Unlink(b) PROVE Due
  BY <1>1, <1>5 DEF Unlink
<1>6. ASSUME NEW q \in Reader, NEW raw \in Blob, NEW b \in Blob,
             Render(q, raw, b) \/ RenderRollsBack(q, raw, b)
      PROVE  Due
  BY <1>1, <1>6 DEF Render, RenderRollsBack
<1>7. CASE Delete
  BY <1>1, <1>7 DEF Delete, DeleteRows
<1>8. QED
  BY <1>2, <1>3, <1>4, <1>5, <1>6, <1>7
     DEF Next, StoreStep, TapStep, Expire, UnlinkFails, SelectExpired, DeleteFails,
         Respond, FindOther, Find, Unavailable, Hit, Miss, CrashAll, Crash,
         EntryExpires, blobVars, vars

(***************************************************************************)
(* Rows and files go when they are due, and do not come back.              *)
(***************************************************************************)
THEOREM DisposalsAreDue == Spec => DisposalIsDue
<1>1. IInv /\ [Next]_vars =>
        /\ rows \ rows' \subseteq expired
        /\ files \ files' \subseteq expired \cup (writing \ rows)
        /\ rows' \cap 1 .. drawn \subseteq rows \cup writing
        /\ files' \cap 1 .. drawn \subseteq files
  BY DisposalStep
<1>2. QED
  BY <1>1, InvHolds, PTL DEF Spec, DisposalIsDue
=============================================================================
