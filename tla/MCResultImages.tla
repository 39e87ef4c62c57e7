---------------------------- MODULE MCResultImages ----------------------------
(***************************************************************************)
(* A small instance of blobs and annotated images for TLC.                 *)
(***************************************************************************)
EXTENDS ResultImages
=============================================================================
