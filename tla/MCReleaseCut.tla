---------------------------- MODULE MCReleaseCut ----------------------------
(* Plans for model-checking ReleaseCut. *)
EXTENDS ReleaseCut

\* Two crates, the second depending on the first, and a tap formula.
TwoCratesTap     == <<"engine", "engine", "posttag">>
TwoCratesTapDeps == <<{}, {1}, {}>>

\* A crate, its cargo-dist binaries, and a tap formula over those binaries.
CrateDistTap     == <<"engine", "delegated", "posttag">>
NoDeps           == <<{}, {}, {}>>
=============================================================================
