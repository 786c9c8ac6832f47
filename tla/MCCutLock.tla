----------------------------- MODULE MCCutLock ------------------------------
(* CutLock for TLC: the .cfg files give the invocations. *)
EXTENDS CutLock
=============================================================================
