----------------------------- MODULE MCContract -----------------------------
(* Frontmatters that vary what publishes, the dials, and the shape of the    *)
(* rest.                                                                     *)
EXTENDS Contract, TLC
CONSTANT Absent

DropAbsent(m) == [k \in {k \in DOMAIN m : m[k] # Absent} |-> m[k]]

RustTarget(package, adapter) ==
  [ecosystem |-> "rust", package |-> package, registry |-> "crates.io", adapter |-> adapter]
TapTarget(adapter) == [ecosystem |-> "rust", registry |-> "homebrew", adapter |-> adapter]

TargetLists ==
  {Absent, Null, Malformed, <<>>,
   <<RustTarget("a", "cargo-publish")>>,
   <<[ecosystem |-> "rust", registry |-> "crates.io"]>>,
   <<RustTarget("a", "cargo-publish-ci"), RustTarget("a", "cargo-publish")>>,
   <<RustTarget("a", "cargo-publish-ci"), TapTarget("homebrew-tap")>>,
   <<RustTarget("a", "cargo-publish"), TapTarget("cargo-dist")>>,
   <<TapTarget("homebrew-core"), Malformed>>,
   <<TapTarget("manual"), [ecosystem |-> "node", registry |-> "npm", adapter |-> "cargo-publish-ci"]>>,
   <<[ecosystem |-> Malformed, package |-> "b", registry |-> Malformed, adapter |-> Malformed]>>}

Dist(installers, tap) == [adapter |-> "cargo-dist", installers |-> installers, homebrew_tap |-> tap]
DistributionKeys ==
  {[single |-> Absent, many |-> Absent],
   [single |-> Dist(<<"shell">>, Null), many |-> Absent],
   [single |-> Dist(<<"homebrew", "shell">>, "us/tap"), many |-> Null],
   [single |-> Dist(<<"homebrew">>, Malformed), many |-> Absent],
   [single |-> Malformed, many |-> Absent],
   [single |-> Null, many |-> <<Dist(<<>>, "us/tap") @@ [package |-> "a", platforms |-> <<"linux">>, future |-> "v"],
                                Dist(<<"msi">>, Null) @@ [package |-> "b", gh_releases |-> FALSE]>>],
   [single |-> [platforms |-> <<>>, package |-> Malformed], many |-> <<Dist(<<>>, Null), Dist(<<>>, Null)>>]}

Surfaces ==
  {DropAbsent([maturity |-> mt, ecosystems |-> e, targets |-> ts, distribution |-> d.single,
               distributions |-> d.many]) :
     mt \in {"spike", "production"}, e \in {Absent, <<"rust">>}, ts \in TargetLists,
     d \in DistributionKeys}

Dials ==
  {DropAbsent([maturity |-> mt, targets |-> ts, ecosystems |-> <<"node", "rust">>, health_badges |-> b,
               provenance_level |-> pl, release |-> r, dependency_bot |-> bot, license |-> l]) :
     mt \in {Absent, "spike", "mvp", "production", Malformed}, ts \in {Absent, <<>>},
     b \in {Absent, <<"registry", "license">>, <<"ci">>, <<"coverage">>, <<"scorecard", Malformed>>},
     pl \in {Absent, "slsa-l3"}, bot \in {Absent, "none"}, l \in {Absent, "Apache-2.0", Malformed},
     r \in {Absent, Malformed, [model |-> "auto"], [layout |-> "monorepo", bump_hook |-> "make"],
            [bump_hook |-> Malformed]}}

Shapes ==
  {DropAbsent([maturity |-> "mvp", schema_version |-> sv, status |-> st, versioning |-> v,
               changelog |-> cl, extra_fields |-> x, future |-> f, conventional_commits |-> cc]) :
     sv \in {Absent, 0, 1, 3}, st \in {Absent, "approved"}, cc \in {Absent, TRUE},
     v \in {Absent, "semver", "calver", "calver:YYYY.MM", Malformed},
     cl \in {Absent, Malformed, [mode |-> "fragment"], [fragment_dir |-> Escaping]},
     x \in {Absent, Null, Malformed, [past |-> "w"], [future |-> "w"]},
     f \in {Absent, "v", Malformed}}
  \cup {[maturity |-> "mvp"] @@ (NonStringKey :> "v")}

AllDocuments == Surfaces \cup Dials \cup Shapes \cup {Malformed}

Policy(package, policy) == [package |-> package, policy |-> policy]
SomeRepositories ==
  {[dist |-> Null, evidence |-> {}],
   [dist |-> [tap |-> "us/tap", publishJob |-> TRUE], evidence |-> {Policy("a", "allowed")}],
   [dist |-> [tap |-> "them/tap", publishJob |-> TRUE], evidence |-> {Policy("a", "unknown")}],
   [dist |-> [tap |-> Null, publishJob |-> FALSE], evidence |-> {Policy("a", "forbidden"), Policy("b", "allowed")}],
   [dist |-> Null, evidence |-> {Policy("a", "forbidden")}]}
=============================================================================
