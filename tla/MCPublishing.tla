---------------------------- MODULE MCPublishing -----------------------------
(* The two places the engine publishes to by itself and shares with others,  *)
(* side by side: the Homebrew tap and the crates registry.  A behaviour is   *)
(* about one of them; the other rests.                                       *)
EXTENDS HomebrewTap, MCCargoPublish, TLC

VARIABLE about

publishingVars == <<vars, cargoVars, about>>

PublishingInit ==
  /\ about \in {"tap", "crates"}
  /\ Init /\ CargoInit
  /\ about # "tap" => formula = Absent

PublishingNext ==
  /\ about' = about
  /\ \/ about = "tap" /\ Next /\ UNCHANGED cargoVars
     \/ about = "crates" /\ CargoNext /\ UNCHANGED vars

\* Cuts are alike, and so are the contents they may package.
PublishingSymmetry == Permutations(CargoCuts) \cup Permutations(Sources)

PublishingSpec == PublishingInit /\ [][PublishingNext]_publishingVars
=============================================================================
