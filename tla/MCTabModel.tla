------------------------------ MODULE MCTabModel ------------------------------
(***************************************************************************)
(* One installed driver beside the root, one to add, two archives.         *)
(***************************************************************************)
EXTENDS TabModel

MCOld == {"old"}
MCJar == {"j1", "j2"}
================================================================================
