----------------------------- MODULE MCUploader -----------------------------
(* Small instances of the uploader, with its folders, for TLC. *)
EXTENDS FilePather
=============================================================================
