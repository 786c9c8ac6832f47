------------------------------- MODULE Facts -------------------------------
(***************************************************************************)
(* What shipshape-core facts/mod.rs detects in a repository: ecosystems    *)
(* and packages, the Cargo workspace a release is planned from, the crates'*)
(* `publish' policies, the workflows that publish on a tag, and a maturity *)
(* inferred from the repository's history.                                 *)
(*                                                                         *)
(* The detector reads TOML line by line; a manifest is modelled by what    *)
(* those scans tell apart, above all the form a declaration is written in, *)
(* because two readers of one manifest see different forms.  A path is the *)
(* sequence of its components and the crates of a tree are listed in the   *)
(* order a directory listing is sorted in.  An inline table for `publish'  *)
(* is taken for the last key of its block.                                 *)
(***************************************************************************)
EXTENDS Contract

CONSTANTS
  Trees,         \* the repositories as they are first seen
  Inherited,     \* the value of a key written `key.workspace = true'
  MaxTags,       \* bound on tags
  MaxCommitters  \* bound on committers

ASSUME FactsAssumption == MaxTags \in Nat /\ MaxCommitters \in Nat

VARIABLES
  tree,   \* the repository
  report  \* what gather_report said of it last, Null before

factsVars == <<tree, report>>

-----------------------------------------------------------------------------
(* Manifests                                                                *)

\* A Cargo manifest has a package, Null when it has no [package] table, and
\* declares dependencies; the root's has also its [workspace], Null for none,
\* with [workspace.package] and [workspace.dependencies] in it.
Maybe(S) == {Null} \cup S
VersionType == Nat \X Nat \X Nat
PathType == Seq(STRING)
PublishType ==
  [form : {"absent", "true", "false", "list", "dotted", "inline", "table"}, registries : SUBSET STRING]
PackageType ==
  [name : Maybe(STRING), version : Maybe({Inherited} \cup VersionType), publish : PublishType,
   description : Maybe(STRING)]
DependenciesType ==
  Seq([table : {"normal", "build", "dev"}, key : STRING, rename : Maybe(STRING),
       source : {"path", "workspace", "registry"},
       form : {"plain", "inline", "subtable", "dotted", "multiline"},
       req : Maybe([exact : VersionType] \cup [caret : VersionType])])
InheritableType == [version : Maybe(VersionType), publish : PublishType]
WorkspaceType ==
  [members : Seq([form : {"dir", "glob", "other"}, path : PathType]), exclude : SUBSET PathType,
   package : Maybe(InheritableType), dependencies : DependenciesType]
RootType == [package : Maybe(PackageType), deps : DependenciesType, workspace : Maybe(WorkspaceType)]
CrateType == [dir : PathType, package : Maybe(PackageType), deps : DependenciesType]

\* None is not something.
ASSUME NothingIsNull ==
  /\ Null \notin VersionType /\ Null \notin PackageType /\ Null \notin InheritableType
  /\ Null \notin WorkspaceType /\ Null \notin RootType
  /\ Inherited \notin {Null} \cup VersionType

Local(d) == d.source # "registry"
CrateOf(d) == Or(d.rename, d.key)

\* block_publish_policy.
BlockPolicy(publish) ==
  CASE publish.form \in {"absent", "true"} -> "allowed"
    [] publish.form = "list" /\ "crates-io" \in publish.registries -> "allowed"
    [] publish.form = "false" \/ (publish.form = "list" /\ "crates-io" \notin publish.registries) -> "forbidden"
    [] publish.form \in {"dotted", "inline", "table"} -> "unknown"

\* manifest_publish_policy: both ways to write publish.workspace = true inherit.
ManifestPolicy(manifest, inherited) ==
  CASE manifest.package = Null -> "forbidden"
    [] manifest.package # Null /\ manifest.package.publish.form \in {"dotted", "inline"} -> inherited
    [] OTHER -> BlockPolicy(manifest.package.publish)

WorkspacePackage(t) == IF t.root.workspace = Null THEN Null ELSE t.root.workspace.package

\* The policy [workspace.package] hands down.
HandedDown(t) == IF WorkspacePackage(t) = Null THEN "unknown" ELSE BlockPolicy(WorkspacePackage(t).publish)

\* member_publishable_to_crates_io reads the block alone.
Publishable(manifest) ==
  manifest.package # Null /\ BlockPolicy(manifest.package.publish) # "forbidden"

\* resolve_member_name_version.
MemberName(manifest) == IF manifest.package = Null THEN Null ELSE manifest.package.name
MemberVersion(t, manifest) ==
  CASE manifest.package = Null -> Null
    [] manifest.package # Null /\ manifest.package.version = Inherited ->
         IF WorkspacePackage(t) = Null THEN Null ELSE WorkspacePackage(t).version
    [] OTHER -> manifest.package.version

-----------------------------------------------------------------------------
(* Members                                                                  *)

Dirs(t) == {t.crates[i].dir : i \in DOMAIN t.crates}
CrateAt(t, dir) == t.crates[CHOOSE i \in DOMAIN t.crates : t.crates[i].dir = dir]

\* glob_parent and read_dir: the directories one level below that hold a crate.
IsBelow(dir, prefix) == dir # <<>> /\ Front(dir) = prefix
Below(t, prefix) ==
  Keep([i \in DOMAIN t.crates |-> t.crates[i].dir], {dir \in Dirs(t) : IsBelow(dir, prefix)})

\* An entry is a directory, a trailing glob, or something that is passed over
\* (absolute, with `..', another glob).
Named(t, entry) ==
  CASE entry.form = "dir" -> <<entry.path>>
    [] entry.form = "glob" -> Below(t, entry.path)
    [] entry.form = "other" -> <<>>

\* push_member_dir, for one list of directories after another: what is no
\* directory of a crate, excluded or there already is not added.
Listed(lists, allowed) ==
  LET dirs[n \in 0 .. Len(lists)] ==
        IF n = 0 THEN <<>> ELSE dirs[n - 1] \o Keep(lists[n], allowed \ ToSet(dirs[n - 1]))
  IN dirs[Len(lists)]

\* workspace_member_dirs.
MemberDirs(t) ==
  IF t.root = Null \/ t.root.workspace = Null THEN <<>>
  ELSE Listed([i \in DOMAIN t.root.workspace.members |-> Named(t, t.root.workspace.members[i])],
              Dirs(t) \ t.root.workspace.exclude)

MemberManifests(t) ==
  LET dirs == MemberDirs(t) IN [i \in DOMAIN dirs |-> CrateAt(t, dirs[i])]

-----------------------------------------------------------------------------
(* Ecosystems and packages                                                  *)

ManifestOrder == <<"package.json", "pyproject.toml", "setup.py", "go.mod">>
EcosystemOf ==
  [f \in ToSet(ManifestOrder) |->
     CASE f = "package.json" -> "node" [] f = "go.mod" -> "go" [] OTHER -> "python"]

PackageRow(ecosystem, dir, package, version, description) ==
  [ecosystem |-> ecosystem, manifest |-> dir, root |-> dir = <<>>, package |-> package,
   version |-> version, description |-> description]

\* push_workspace_members.
MemberRows(t) ==
  LET manifests == MemberManifests(t)
  IN [i \in DOMAIN manifests |->
        PackageRow("rust", manifests[i].dir, MemberName(manifests[i]), MemberVersion(t, manifests[i]),
                   IF manifests[i].package = Null THEN Null ELSE manifests[i].package.description)]

\* The root's own package stands for the workspace when it has a name; the
\* root's version is never inherited here.
RustRows(t) ==
  LET own == t.root.package
      named == own # Null /\ own.name # Null
      version == IF own = Null \/ own.version = Inherited THEN Null ELSE own.version
  IN IF ~named /\ MemberDirs(t) # <<>> THEN MemberRows(t)
     ELSE <<PackageRow("rust", <<>>, IF own = Null THEN Null ELSE own.name, version,
                       IF own = Null THEN Null ELSE own.description)>>

\* Other manifests count when they name a package; setup.py never does and
\* go.mod always counts.
OtherRow(f, read) ==
  PackageRow(EcosystemOf[f], <<>>, read.package, IF f = "go.mod" THEN Null ELSE read.version,
             IF f = "go.mod" THEN Null ELSE read.description)
OtherRows(t) ==
  LET counting == Keep(ManifestOrder,
                       {f \in DOMAIN t.others :
                          f = "go.mod" \/ (f # "setup.py" /\ t.others[f].package # Null)})
  IN [i \in DOMAIN counting |-> OtherRow(counting[i], t.others[counting[i]])]

\* detect_manifests.
PackagesIn(t) == (IF t.root = Null THEN <<>> ELSE RustRows(t)) \o OtherRows(t)

EcosystemsIn(t) ==
  LET found == (IF t.root = Null THEN {} ELSE {"rust"}) \cup {EcosystemOf[f] : f \in DOMAIN t.others}
  IN IF found = {} THEN {"binary"} ELSE found

\* cargo_publish_evidence.
PublishEvidence(t) ==
  IF t.root = Null THEN <<>>
  ELSE LET own == IF t.root.package = Null THEN <<>> ELSE <<[dir |-> <<>>, package |-> t.root.package]>>
           manifests == own \o MemberManifests(t)
       IN [i \in DOMAIN manifests |->
             [manifest |-> manifests[i].dir, package |-> MemberName(manifests[i]),
              policy |-> ManifestPolicy(manifests[i], HandedDown(t))]]

-----------------------------------------------------------------------------
(* The workspace a release is planned from                                  *)

\* member_dependency_edges, line by line: what a dotted key's other lines or the
\* further lines of an inline table say goes unseen, dev dependencies gate nothing.
EdgeOf(d) ==
  CASE d.table = "dev" \/ ~Local(d) \/ d.form = "multiline" -> {}
    [] d.table # "dev" /\ Local(d) /\ d.form = "dotted" -> {d.key}
    [] d.table # "dev" /\ Local(d) /\ d.form \in {"inline", "subtable"} -> {CrateOf(d)}

\* Seeded fault: pins are looked for where the edges are.
PinsOfEdges(deps) ==
  {[package |-> d.key, req |-> d.req] :
     d \in {d \in ToSet(deps) : \E e \in ToSet(deps) : d.key \in EdgeOf(e)}}

\* bump.rs cargo_pin_declarations parses: every form and every table.
PinDeclarations(deps) ==
  {[package |-> CrateOf(d), req |-> d.req] : d \in {d \in ToSet(deps) : Local(d)}}

\* cargo_workspace_pin_declarations: whatever in [workspace.dependencies] is a table.
WorkspacePinDeclarations(deps) ==
  {[package |-> CrateOf(d), req |-> d.req] : d \in {d \in ToSet(deps) : d.form # "plain"}}

WorkspaceRoot == "the root manifest"

\* One owner's declarations of each crate of names but itself.
PinGroups(owner, declarations, names) ==
  {[owner |-> owner, dep |-> dep, reqs |-> {p.req : p \in {p \in declarations : p.package = dep}}] :
     dep \in ({p.package : p \in declarations} \cap names) \ {owner}}

\* The members that have a name, and of them those that crates.io may get.
NamedMembers(t) == {m \in ToSet(MemberManifests(t)) : MemberName(m) # Null}
PublishableNames(t) == {MemberName(m) : m \in {m \in NamedMembers(t) : Publishable(m)}}

\* publishable_workspace_members.
GraphMember(t, m) ==
  [package |-> MemberName(m), version |-> MemberVersion(t, m),
   deps |-> (PublishableNames(t) \cap UNION {EdgeOf(d) : d \in ToSet(m.deps)}) \ {MemberName(m)}]

\* workspace_pin_owners, the root's own table among them.
PinsIn(t) ==
  PinGroups(WorkspaceRoot, WorkspacePinDeclarations(t.root.workspace.dependencies), PublishableNames(t))
  \cup UNION {PinGroups(MemberName(m), PinDeclarations(m.deps), PublishableNames(t)) : m \in NamedMembers(t)}

\* detect_rust_workspace: also of a root that is a package itself, which is then
\* no member.
WorkspaceIn(t) ==
  LET publishable == Keep(MemberManifests(t), {m \in NamedMembers(t) : Publishable(m)})
  IN IF publishable = <<>> THEN Null
     ELSE [members |-> [i \in DOMAIN publishable |-> GraphMember(t, publishable[i])],
           pins |-> PinsIn(t)]

-----------------------------------------------------------------------------
(* Workflows                                                                *)

\* workflow_pushes_tags: a non-empty list of patterns, none of them blank.
Blank == ""
PushesTags(w) == w.tags # Null /\ w.tags # <<>> /\ Blank \notin ToSet(w.tags)

\* command_segment_runs_cargo_publish: environment assignments may come before,
\* no option may make it a rehearsal or name another registry.
PublishesToCratesIo(command) ==
  /\ command.verb = "publish" /\ ~command.wrapped
  /\ command.options \cap {"--dry-run", "--help", "-h", "--index"} = {}
  /\ command.registry \in {Null, "crates-io"}

RunsCargoPublish(w) == \E command \in w.commands : PublishesToCratesIo(command)

\* The local workflows that a workflow calls and that accept calls.
Calls(ws, name) == {called \in ws[name].calls \cap DOMAIN ws : ws[called].callable}

\* workflow_reaches_cargo_publish, depth first along the calls: visiting is the
\* path there, and who is on it is not visited again.
ReachesCargoPublish(ws, name) ==
  LET reaching[visiting \in SUBSET DOMAIN ws] ==
        {n \in DOMAIN ws \ visiting :
           RunsCargoPublish(ws[n]) \/ Calls(ws, n) \cap reaching[visiting \cup {n}] # {}}
  IN name \in reaching[{}]

\* detect_distribution_surface.
SurfaceOf(t) ==
  LET tagged == {name \in DOMAIN t.workflows : PushesTags(t.workflows[name])}
  IN [has_cargo_dist |-> t.dist # {},
      tag_triggered |-> tagged,
      tag_triggered_cargo_publish |-> {name \in tagged : ReachesCargoPublish(t.workflows, name)}]

-----------------------------------------------------------------------------
(* Maturity                                                                 *)

\* A tag as semver_parse reads it: Null for one that is no version.
Versions(t) == {tag \in t.tags : tag.version # Null}
AtLeast(version, major, minor) ==
  version[1] > major \/ (version[1] = major /\ version[2] >= minor)

\* version_ge_1_0 of a manifest.
ManifestIsStable(row) == row.version # Null /\ AtLeast(row.version, 1, 0)

HasStableRelease(t) ==
  \/ \E tag \in Versions(t) : AtLeast(tag.version, 1, 0) /\ ~tag.pre
  \/ \E i \in DOMAIN PackagesIn(t) : ManifestIsStable(PackagesIn(t)[i])

\* Final releases from 0.1.0 on, one of each crate that is tagged by itself.
ShippedReleases(t) ==
  Cardinality({tag \in Versions(t) : AtLeast(tag.version, 0, 1) /\ ~tag.pre})

HasCI(t) == t.ci \/ DOMAIN t.workflows # {}
DependencyBot(t) ==
  CASE "dependabot.yml" \in t.bots -> "dependabot"
    [] "dependabot.yml" \notin t.bots /\ t.bots # {} -> "renovate"
    [] OTHER -> Null

Maturity(t) ==
  LET cadence == DependencyBot(t) # Null /\ ShippedReleases(t) >= 2
      production == t.recent >= 2 /\ HasCI(t) /\ (HasStableRelease(t) \/ cadence)
      selfLabelled == t.readme # Null /\ t.readme.spike
      spike == ~HasCI(t) /\ Versions(t) = {} /\ (t.committers <= 1 \/ selfLabelled)
  IN IF production THEN "production" ELSE IF spike THEN "spike" ELSE "mvp"

\* detect_description: the first manifest that has one, else the README's first line.
Description(t) ==
  LET rows == PackagesIn(t)
      described == SelectSeq(rows, LAMBDA p : p.description # Null)
  IN IF described # <<>> THEN described[1].description
     ELSE IF t.readme = Null THEN Null ELSE t.readme.prose

\* gather, gather_report.
Gathered(t) ==
  [ecosystems |-> EcosystemsIn(t), packages |-> PackagesIn(t), workspace |-> WorkspaceIn(t),
   cargo_publish |-> PublishEvidence(t), surface |-> SurfaceOf(t),
   tags |-> t.tags, dependency_bot |-> DependencyBot(t), has_ci |-> HasCI(t),
   description |-> Description(t), maturity |-> Maturity(t)]

-----------------------------------------------------------------------------
(* What is assumed of a repository                                          *)

WorkflowType ==
  [tags : Maybe(Seq(STRING)), callable : BOOLEAN, calls : SUBSET STRING,
   commands : SUBSET [verb : STRING, options : SUBSET STRING, registry : Maybe(STRING), wrapped : BOOLEAN]]

\* A tag: what precedes the version, "v" or a crate's name and "v", the version, and
\* whether it is a prerelease.
TagTypeOK(tag) ==
  /\ DOMAIN tag = {"prefix", "version", "pre"}
  /\ tag.version \in Maybe(VersionType) /\ tag.pre \in BOOLEAN

ProjectTypeOK(t) ==
  /\ DOMAIN t = {"root", "crates", "others", "workflows", "dist", "tags", "committers", "recent",
                 "ci", "bots", "readme"}
  /\ t.root \in Maybe(RootType) /\ t.crates \in Seq(CrateType)
  /\ DOMAIN t.others \subseteq ToSet(ManifestOrder)
  /\ IsFiniteSet(DOMAIN t.workflows) /\ \A w \in DOMAIN t.workflows : t.workflows[w] \in WorkflowType
  /\ IsFiniteSet(t.tags) /\ \A tag \in t.tags : TagTypeOK(tag)
  /\ t.committers \in Nat /\ t.recent \in Nat /\ t.ci \in BOOLEAN

\* Cargo refuses two members of one name, a name with blanks, renaming an inherited
\* dependency and inheriting in [workspace.dependencies]; a plain version is no
\* path.
CargoAccepts(t) ==
  /\ \A dir, other \in ToSet(MemberDirs(t)) :
       /\ MemberName(CrateAt(t, dir)) # WorkspaceRoot
       /\ MemberName(CrateAt(t, dir)) # Null /\ dir # other =>
            MemberName(CrateAt(t, dir)) # MemberName(CrateAt(t, other))
  /\ \A i \in DOMAIN t.crates : \A d \in ToSet(t.crates[i].deps) :
       (d.source = "workspace" => d.rename = Null) /\ (d.form = "plain" => d.source = "registry")
  /\ t.root # Null /\ t.root.workspace # Null =>
       \A d \in ToSet(t.root.workspace.dependencies) : d.source # "workspace"

\* A directory holds one crate.
IsProject(t) ==
  /\ ProjectTypeOK(t)
  /\ \A i, j \in DOMAIN t.crates : t.crates[i].dir = t.crates[j].dir => i = j
  /\ CargoAccepts(t)

ASSUME TreesAssumption == \A t \in Trees : IsProject(t)

-----------------------------------------------------------------------------
(* The project grows, and its facts are gathered now and then               *)

FactsInit == tree = Null /\ report = Null

OpenTree ==
  /\ tree = Null /\ report = Null
  /\ tree' \in Trees
  /\ UNCHANGED report

Gather ==
  /\ tree # Null
  /\ report' = Gathered(tree)
  /\ UNCHANGED tree

NewTags ==
  [prefix : {"v", "core-v"}, version : {<<0, 0, 1>>, <<0, 2, 0>>, <<1, 0, 0>>, <<2, 0, 0>>}, pre : BOOLEAN]
  \cup {[prefix |-> "nightly", version |-> Null, pre |-> FALSE]}

\* A tag, of any version: the order in which they are made is not theirs.
AddTag ==
  /\ tree # Null /\ Cardinality(tree.tags) < MaxTags
  /\ \E tag \in NewTags : tree' = [tree EXCEPT !.tags = @ \cup {tag}]
  /\ UNCHANGED report

AddCommitter ==
  /\ tree # Null /\ tree.committers < MaxCommitters
  /\ tree' = [tree EXCEPT !.committers = @ + 1, !.recent = @ + 1]
  /\ UNCHANGED report

AddCI ==
  /\ tree # Null /\ ~tree.ci
  /\ tree' = [tree EXCEPT !.ci = TRUE]
  /\ UNCHANGED report

AddBot ==
  /\ tree # Null /\ tree.bots = {}
  /\ \E bot \in {"dependabot.yml", "renovate.json"} : tree' = [tree EXCEPT !.bots = {bot}]
  /\ UNCHANGED report

FactsNext == OpenTree \/ Gather \/ AddTag \/ AddCommitter \/ AddCI \/ AddBot
FactsSpec == ContractInit /\ FactsInit /\ [][FactsNext /\ UNCHANGED contractVars]_<<factsVars, contractVars>>

-----------------------------------------------------------------------------
(* Properties                                                               *)

\* Everything reported is of its type: a package row per ecosystem that has one,
\* rows of crates that exist.
FactsTypeOK ==
  report # Null =>
    /\ report.ecosystems \subseteq Ecosystems /\ report.ecosystems # {}
    /\ {report.packages[i].ecosystem : i \in DOMAIN report.packages} \subseteq report.ecosystems
    /\ {report.cargo_publish[i].manifest : i \in DOMAIN report.cargo_publish} \subseteq Dirs(tree) \cup {<<>>}
    /\ {report.cargo_publish[i].policy : i \in DOMAIN report.cargo_publish}
         \subseteq {"allowed", "forbidden", "unknown"}
    /\ report.maturity \in Maturities

Reported == report # Null
PlannedMembers == IF report.workspace = Null THEN <<>> ELSE report.workspace.members
PlannedNames == {PlannedMembers[i].package : i \in DOMAIN PlannedMembers}

\* The normalizer's evidence knows every crate a release may be planned for,
\* whatever the layout, and the two readers of `publish' agree on it unless the
\* manifest inherits the key.
EvidenceKnowsTheGraph ==
  Reported =>
    \A name \in PlannedNames :
      \E i \in DOMAIN report.cargo_publish :
        /\ report.cargo_publish[i].package = name
        /\ \/ report.cargo_publish[i].policy # "forbidden"
           \/ CrateAt(tree, report.cargo_publish[i].manifest).package.publish.form \in {"dotted", "inline"}

\* Cargo's own reading of a declaration: the member it resolves to, if any.  An
\* inherited dependency is what [workspace.dependencies] says under its key.
Inheritance(d) ==
  LET roots == tree.root.workspace.dependencies
      i == CHOOSE i \in DOMAIN roots : roots[i].key = d.key
  IN IF \E j \in DOMAIN roots : roots[j].key = d.key THEN roots[i] ELSE d
Resolved(d) == IF d.source = "workspace" THEN Inheritance(d) ELSE d
ResolvesTo(d, name) == Local(Resolved(d)) /\ CrateOf(Resolved(d)) = name

\* What the scanner says it may miss: a rename that is inherited, an inline
\* table of several lines, and the rename of a dependency in dotted keys.
BlindSpot(d) ==
  \/ d.form = "multiline"
  \/ d.form = "dotted" /\ d.rename # Null
  \/ d.source = "workspace" /\ Resolved(d).rename # Null

OrderingDeps(name) ==
  LET manifest == CrateAt(tree, CHOOSE dir \in ToSet(MemberDirs(tree)) : MemberName(CrateAt(tree, dir)) = name)
  IN {d \in ToSet(manifest.deps) : d.table # "dev"}

\* A registry crate by inheritance, which the scanner takes for a member.
InheritsARegistryCrate(d) == d.source = "workspace" /\ ~Local(Resolved(d))

\* The publish order rests on the graph's edges.  Every dependency that gates
\* one crate's publication on another's is an edge, but for the blind spots, and
\* an edge is such a dependency: a registry crate that shares a member's name
\* orders nothing unless it is inherited.
EdgesAreTheDependencies ==
  Reported =>
    \A i \in DOMAIN PlannedMembers :
      LET name == PlannedMembers[i].package
          deps == OrderingDeps(name)
      IN /\ \A d \in deps, other \in PlannedNames \ {name} :
              ResolvesTo(d, other) /\ ~BlindSpot(d) => other \in PlannedMembers[i].deps
         /\ \A other \in PlannedMembers[i].deps :
              \E d \in deps :
                \/ ResolvesTo(d, other)
                \/ Local(d) /\ BlindSpot(d)
                \/ InheritsARegistryCrate(d) /\ CrateOf(d) = other

\* No declaration escapes the bump: whoever in the workspace requires a
\* published member in so many words, in whatever table and form and under
\* whatever name, is found with that requirement.  The package of a root that
\* is one is no member, so its own declarations are not looked at.
NoPinIsMissed ==
  (Reported /\ report.workspace # Null) =>
    \A dir \in ToSet(MemberDirs(tree)) :
      LET manifest == CrateAt(tree, dir)
      IN MemberName(manifest) # Null =>
           \A d \in ToSet(manifest.deps) :
             (d.req # Null /\ Local(d) /\ CrateOf(d) \in PlannedNames \ {MemberName(manifest)}) =>
               \E g \in report.workspace.pins :
                 g.owner = MemberName(manifest) /\ g.dep = CrateOf(d) /\ d.req \in g.reqs

\* Whoever publishes is in S, and whoever calls one that is.
HasItsCallers(ws, S) ==
  \A n \in DOMAIN ws : RunsCargoPublish(ws[n]) \/ Calls(ws, n) \cap S # {} => n \in S

\* A workflow counts as a publisher exactly when, from the tag on, some chain of
\* calls that GitHub would honour ends in a publication, circles or not.
PublishersAreReached ==
  Reported =>
    report.surface.tag_triggered_cargo_publish =
      {n \in report.surface.tag_triggered :
         \A S \in SUBSET DOMAIN tree.workflows : HasItsCallers(tree.workflows, S) => n \in S}

MaturityRank == [spike |-> 0, mvp |-> 1, production |-> 2]

\* A project never falls back in maturity by adding something: whatever of its
\* tags, of its committers or its CI is taken away, it was not more mature.
MaturityNeverFalls ==
  Reported =>
    \A tags \in SUBSET tree.tags, n \in 0 .. tree.recent, ci \in {FALSE, tree.ci} :
      LET before == [tree EXCEPT !.tags = tags, !.recent = n, !.ci = ci]
      IN MaturityRank[Maturity(before)] <= MaturityRank[Maturity(tree)]

\* What gather reports of a tree is what cargo and GitHub would do with it: the
\* edges, the pins, the publishing workflows, and a maturity that never falls.
FactsInv ==
  /\ FactsTypeOK
  /\ EvidenceKnowsTheGraph
  /\ EdgesAreTheDependencies
  /\ NoPinIsMissed
  /\ PublishersAreReached
  /\ MaturityNeverFalls
=============================================================================
