-------------------------- MODULE MCDelegatedVerify --------------------------
(* A crate of the engine's, binaries and a formula by cargo-dist, a crate    *)
(* published by CI.                                                         *)
EXTENDS DelegatedVerify

Destined(adapter, registry) == [adapter |-> adapter, registry |-> registry]
MixedTargets ==
  <<Destined("engine", "crates.io"), Destined("cargo-dist", "gh-releases"),
    Destined("cargo-publish-ci", "crates.io")>>

File(parses, onTag, direct, helpers) ==
  [parses |-> parses, onTag |-> onTag, direct |-> direct, helpers |-> helpers]
OneOwner  == <<File(TRUE, FALSE, TRUE, {}), File(TRUE, TRUE, FALSE, {"verified"})>>
TwoOwners == <<File(TRUE, TRUE, TRUE, {}), File(TRUE, TRUE, TRUE, {"verified"})>>
SomeTrees == {OneOwner, TwoOwners}
=============================================================================
