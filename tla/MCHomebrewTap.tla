--------------------------- MODULE MCHomebrewTap ----------------------------
(* HomebrewTap for TLC: the .cfg files give the versions and the bounds. *)
EXTENDS HomebrewTap
=============================================================================
