------------------------------ MODULE MCFacts ------------------------------
(* Workspaces in the layouts and forms Cargo knows, projects at every age,   *)
(* and workflows that call each other.                                       *)
EXTENDS Facts, TLC

Publishes(form, registries) == [form |-> form, registries |-> registries]
Default == Publishes("absent", {})
Crate(name, version, publish) ==
  [name |-> name, version |-> version, publish |-> publish, description |-> Null]
Dependency(table, key, rename, origin, form, req) ==
  [table |-> table, key |-> key, rename |-> rename, source |-> origin, form |-> form, req |-> req]

V0 == <<0, 1, 0>>
V1 == <<1, 0, 0>>
Exactly(v) == [exact |-> v]

Plain == [root |-> Null, crates |-> <<>>, others |-> [f \in {} |-> Null], workflows |-> [f \in {} |-> Null],
          dist |-> {}, tags |-> {}, committers |-> 0, recent |-> 0, ci |-> FALSE, bots |-> {}, readme |-> Null]

\* One that has all the history it will have.
Settled ==
  [Plain EXCEPT !.tags = {[prefix |-> "v", version |-> V0, pre |-> FALSE], [prefix |-> "v", version |-> V1, pre |-> TRUE]},
                !.committers = MaxCommitters, !.ci = TRUE, !.bots = {"dependabot.yml"}]

Under(dir) == <<"crates", dir>>
WorkspaceOf(members, exclude, package, dependencies) ==
  [members |-> members, exclude |-> exclude, package |-> package, dependencies |-> dependencies]
Entry(form, path) == [form |-> form, path |-> path]
Everywhere == <<Entry("dir", Under("lib")), Entry("other", <<"..">>), Entry("glob", <<"crates">>)>>

\* How app may depend on lib, which another crate of the tree may be called too.
AppDeps ==
  {<<>>,
   <<Dependency("normal", "lib", Null, "path", "inline", Exactly(V0))>>,
   <<Dependency("normal", "lib", Null, "registry", "inline", Exactly(V0))>>,
   <<Dependency("build", "alias", "lib", "path", "subtable", Null),
     Dependency("dev", "lib", Null, "path", "inline", Exactly(V0))>>,
   <<Dependency("normal", "alias", "lib", "path", "dotted", Exactly(V1))>>,
   <<Dependency("normal", "alias", Null, "workspace", "dotted", Null)>>,
   <<Dependency("normal", "lib", Null, "workspace", "inline", Null),
     Dependency("dev", "xtask", Null, "path", "multiline", Exactly(V0))>>,
   <<Dependency("normal", "lib", Null, "path", "multiline", Exactly(V0))>>}

RootDeps ==
  {<<>>,
   <<Dependency("normal", "lib", Null, "path", "inline", Exactly(V0)),
     Dependency("normal", "alias", "lib", "path", "inline", Null)>>}

Roots ==
  {[package |-> own, deps |-> <<>>, workspace |-> WorkspaceOf(Everywhere, excluded, handed, deps)] :
     own \in {Null, Crate("tool", Inherited, Default), Crate(Null, Null, Default)},
     excluded \in {{}, {Under("app")}},
     handed \in {Null, [version |-> V0, publish |-> Default], [version |-> V1, publish |-> Publishes("false", {})]},
     deps \in RootDeps}

Layouts ==
  {[Settled EXCEPT !.root = root,
                 !.crates = <<[dir |-> Under("app"), package |-> Crate("app", Inherited, Default), deps |-> deps],
                              [dir |-> Under("lib"), package |-> Crate("lib", V0, publish), deps |-> <<>>],
                              [dir |-> Under("xtask"), package |-> Crate("xtask", V0, Publishes("false", {})),
                               deps |-> <<Dependency("normal", "app", Null, "path", "inline", Exactly(V0))>>],
                              [dir |-> Under("zip"), package |-> Null, deps |-> <<>>]>>] :
     root \in Roots, deps \in AppDeps,
     publish \in {Default, Publishes("list", {"crates-io", "ours"}), Publishes("list", {"ours"}),
                  Publishes("dotted", {}), Publishes("inline", {}), Publishes("table", {}), Publishes("true", {})}}

\* lib is a registry crate to app, by inheritance, and a member.
Shadowing ==
  {[t EXCEPT !.root.workspace.dependencies =
      <<Dependency("normal", "lib", Null, "registry", "plain", [caret |-> V0])>>] :
     t \in {t \in Layouts : t.root.package = Null /\ t.root.workspace.exclude = {}
                            /\ t.root.workspace.package = Null}}

Manifest(package, version) == [package |-> package, version |-> version, description |-> "a tool"]
Projects ==
  {[Plain EXCEPT !.readme = readme, !.others = others, !.root = root, !.committers = committers] :
     readme \in {Null, [spike |-> TRUE, prose |-> "An early prototype."]},
     others \in {[f \in {} |-> Null],
                 ("package.json" :> Manifest("site", V1)) @@ ("go.mod" :> Manifest("mod", V1))
                 @@ ("setup.py" :> Manifest("py", V1))},
     committers \in {0, 1},
     root \in {[package |-> Null, deps |-> <<>>, workspace |-> Null],
               [package |-> Crate("solo", V0, Default), deps |-> <<>>, workspace |-> Null]}}

Command(verb, options, registry, wrapped) ==
  [verb |-> verb, options |-> options, registry |-> registry, wrapped |-> wrapped]
Workflow(tags, callable, commands, calls) ==
  [tags |-> tags, callable |-> callable, commands |-> commands, calls |-> calls]
Rehearsal == Command("publish", {"--dry-run"}, Null, FALSE)
Publication == Command("publish", {"--locked"}, "crates-io", FALSE)
Elsewhere == Command("publish", {}, "ours", FALSE)
Echoed == Command("publish", {}, Null, TRUE)

Pipelines ==
  {[Settled EXCEPT !.dist = dist,
      !.workflows = ("release.yml" :> Workflow(tags, FALSE, {Rehearsal}, first))
                    @@ ("build.yml" :> Workflow(Null, callable, {Elsewhere, Echoed}, second))
                    @@ ("publish.yml" :> Workflow(Null, TRUE, last, {"build.yml"}))] :
     dist \in {{}, {"dist-workspace.toml"}}, tags \in {Null, <<>>, <<"v*", Blank>>, <<"v*">>},
     first \in SUBSET {"build.yml", "publish.yml", "gone.yml"}, callable \in BOOLEAN,
     second \in SUBSET {"build.yml", "publish.yml"}, last \in {{Publication}, {Elsewhere}}}

AllTrees == Layouts \cup Shadowing \cup Pipelines \cup Projects
=============================================================================
