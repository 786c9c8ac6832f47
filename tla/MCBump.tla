------------------------------ MODULE MCBump ------------------------------
(* Workspaces whose crates pin each other, with notes in every state.        *)
EXTENDS Bump, MCFacts

App(deps) == [dir |-> Under("app"), package |-> Crate("app", Inherited, Default), deps |-> deps]
Lib(version) == [dir |-> Under("lib"), package |-> Crate("lib", version, Default), deps |-> <<>>]
\* A copy of app that the workspace leaves out, in two ways.
Copy == [dir |-> <<"old">>, package |-> Crate("app", V0, Default), deps |-> <<>>]
Nested == [Copy EXCEPT !.dir = Under("old")]
Xtask(deps) == [dir |-> Under("xtask"), package |-> Crate("xtask", V0, Publishes("false", {})), deps |-> deps]
Pin(table, form) == Dependency(table, "lib", Null, "path", form, Exactly(V0))

BumpDeps ==
  {<<Pin("normal", "inline"), Pin("dev", "subtable")>>,
   <<Pin("normal", "inline"), Dependency("build", "alias", "lib", "path", "dotted", Null)>>,
   <<Dependency("normal", "lib", Null, "path", "inline", [caret |-> V0]),
     Dependency("dev", "lib", Null, "registry", "inline", Exactly(V0))>>}

ReleasedTrees ==
  {[Settled EXCEPT
      !.root = [package |-> own, deps |-> <<>>,
                workspace |-> [members |-> members, exclude |-> {Under("old")}, dependencies |-> deps,
                               package |-> handed]],
      !.crates = <<App(pins), Lib(version), Nested, Xtask(others), Copy>>] :
     own \in {Null, Crate("tool", V0, Default)},
     members \in {<<Entry("dir", Under("app")), Entry("dir", Under("lib")), Entry("dir", Under("xtask"))>>,
                  <<Entry("glob", <<"crates">>)>>},
     handed \in {Null, [version |-> V0, publish |-> Default]},
     deps \in RootDeps, pins \in BumpDeps, version \in {Inherited, V0},
     others \in {<<>>, <<Pin("normal", "inline")>>}}
  \cup {[Settled EXCEPT
           !.root = [package |-> Null, deps |-> <<>>,
                     workspace |-> WorkspaceOf(<<Entry("glob", <<>>)>>, {}, [version |-> V0, publish |-> Default], <<>>)],
           !.crates = <<[Lib(Inherited) EXCEPT !.dir = <<"lib">>],
                        [Xtask(<<Pin("normal", "inline")>>) EXCEPT !.dir = <<"xtask">>]>>]}
  \cup {[Settled EXCEPT !.root = [package |-> Crate("solo", V0, Default), deps |-> <<>>, workspace |-> Null]]}

Engine(package) ==
  [ecosystem |-> "rust", package |-> package, registry |-> "crates.io", adapter |-> "cargo-publish"]
Noted(mode, notes, hook) ==
  Built([maturity |-> "mvp", ecosystems |-> <<"rust">>, release |-> [bump_hook |-> hook],
         changelog |-> [mode |-> mode, source |-> notes],
         targets |-> IF hook = Null THEN <<Engine("lib")>> ELSE <<Engine(Null)>>])
SomeBumpContracts ==
  {Noted("curated", "manual", Null), Noted("fragment", "issuectl-trailers", Null),
   Noted("automated", "manual", "make")}

Next0 == <<0, 1, 1>>
Fragment(kind) == [name |-> kind, kind |-> kind]
Log(markers, header, nested, pending, released) ==
  [markers |-> markers, header |-> header, nested |-> nested, pending |-> pending, released |-> released]
Notebook(directory, fragments, changelog) ==
  [directory |-> directory, fragments |-> {Fragment(f) : f \in fragments}, changelog |-> changelog]
Then == V0 :> {"then"}
SomeNotebooks ==
  {Notebook("inside", {"note", "blank"}, Log("one", TRUE, FALSE, {"mine"}, Then)),
   Notebook("absent", {}, Log("none", TRUE, TRUE, {}, Then)),
   Notebook("outside", {"note"}, Log("none", TRUE, FALSE, {"mine"}, Then)),
   Notebook("inside", {}, Log("one", TRUE, FALSE, {}, (Next0 :> {"now"}) @@ Then)),
   Notebook("inside", {"note"}, Log("broken", TRUE, FALSE, {"mine"}, Then)),
   Notebook("inside", {"blank"}, Null)}
=============================================================================
