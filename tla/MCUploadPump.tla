----------------------------- MODULE MCUploadPump -----------------------------
(* The exterior and one interior, two slices for a resumable phase.            *)
EXTENDS UploadPump
===============================================================================
