----------------------------- MODULE MCLogFiles -----------------------------
(* Three lines in files of two, one archive kept, and a restart, a crash or a failure. *)
EXTENDS LogFiles
=============================================================================
