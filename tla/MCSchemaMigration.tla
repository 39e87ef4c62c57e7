-------------------------- MODULE MCSchemaMigration --------------------------
(***************************************************************************)
(* A small instance of the start of the server for TLC.                    *)
(***************************************************************************)
EXTENDS SchemaMigration
=============================================================================
