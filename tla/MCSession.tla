--------------------------- MODULE MCSession ---------------------------
(* Small instances of the sessions: the files of MCFileManager. *)
EXTENDS Session, MCFileManager
========================================================================
