----------------------------- MODULE MCFileUpload -----------------------------
(* FileUpload for TLC. *)
EXTENDS FileUpload

CONSTANTS f1, f2, large
=============================================================================
