---------------------------- MODULE ReleasePlan ----------------------------
(***************************************************************************)
(* `release plan' derives a plan from the contract, the detected facts and *)
(* HEAD, and stores it under its content address; `release cut' derives it *)
(* again from what the repository then is and refuses unless the address   *)
(* is the approved one (shipshape-core release/plan.rs, target_id.rs,      *)
(* coordinator validate_plan; shipshape-cli release.rs).  Between the two  *)
(* people edit the contract, the manifests and the tags.                   *)
(*                                                                         *)
(* The digest is collision-free, so a plan_id is modelled by its           *)
(* pre-image.  Only the fields of the contract and of the facts that a     *)
(* plan depends on are kept.                                               *)
(***************************************************************************)
EXTENDS Contract

CONSTANTS
  Sources,    \* what a repository may hold: document, repository, facts
  BumpFlags,  \* values of --bump, Null among them
  MaxEdits,   \* bound on edits of the repository
  MaxPlans    \* bound on stored plans

ASSUME PlanAssumption == MaxEdits \in Nat /\ MaxPlans \in Nat /\ Null \in BumpFlags

VARIABLES
  source,    \* what the repository holds and how that reads, its head and edits
  approved,  \* the stored plans
  executed   \* the plan a cut created its run for, Null before

planVars == <<source, approved, executed>>

-----------------------------------------------------------------------------
(* Resolved targets                                                         *)

\* resolve_package: the only named package of the ecosystem.
ResolvePackage(facts, ecosystem) ==
  LET named == SelectSeq(facts.packages, LAMBDA p : p.ecosystem = ecosystem /\ p.package # Null)
  IN IF Len(named) = 1 THEN named[1].package ELSE Null

BaseTargets(c, facts) ==
  [i \in DOMAIN c.targets |->
     [c.targets[i] EXCEPT
        !.package = Or(c.targets[i].package, ResolvePackage(facts, c.targets[i].ecosystem))]]

EnginePublishes(t) ==
  t.ecosystem = "rust" /\ t.registry = "crates.io" /\ t.adapter = "cargo-publish"

PackageNames(members) == {members[i].package : i \in DOMAIN members}

\* What Cargo takes for a workspace: its members have names of their own.
IsWorkspace(members) ==
  /\ members \in Seq(ToSet(members))
  /\ \A m \in ToSet(members) : IsFiniteSet(m.deps)
  /\ \A m, n \in ToSet(members) : m.package = n.package => m = n

\* A frontmatter's `targets' is a list if it is anything.
ASSUME SourcesAssumption ==
  \A s \in Sources :
    /\ s.document # Malformed =>
         TargetEntries(s.document) \in Seq(ToSet(TargetEntries(s.document)))
    /\ s.facts.workspace # Null => IsWorkspace(s.facts.workspace.members)

\* The members' workspace dependencies, none for a package that is no member.
DepsOf(members, package) ==
  UNION {members[i].deps : i \in {i \in DOMAIN members : members[i].package = package}}

\* The packages and all that their members depend on, however indirectly: the
\* least set that has them and is closed.
Closed(packages, members) == \A p \in packages : DepsOf(members, p) \subseteq packages

ClosureOf(packages, members) ==
  LET all == packages \cup UNION {DepsOf(members, p) : p \in PackageNames(members)}
  IN {p \in all : \A S \in SUBSET all : packages \subseteq S /\ Closed(S, members) => p \in S}

\* Seeded fault: members come in the order the workspace declares them.
AsDeclared(members) == [i \in DOMAIN members |-> members[i].package]

\* One round of topo_order_members: the first declared member whose dependencies
\* are out goes out too; when there is none, all that are left as declared.
Round(order, members) ==
  LET left == Keep(members, {m \in ToSet(members) : m.package \notin ToSet(order)})
      ready == Keep(left, {m \in ToSet(members) :
                 (m.deps \cap PackageNames(members)) \ {m.package} \subseteq ToSet(order)})
  IN CASE left = <<>> -> order
       [] left # <<>> /\ ready = <<>> -> order \o [i \in DOMAIN left |-> left[i].package]
       [] OTHER -> Append(order, ready[1].package)

\* topo_order_members: a round for every member.
TopoOrder(members) ==
  LET order[n \in 0 .. Len(members)] == IF n = 0 THEN <<>> ELSE Round(order[n - 1], members)
  IN order[Len(members)]

\* dependency_closure_order: roots that are no member come last.
ClosureOrder(roots, members) ==
  LET required == ClosureOf(ToSet(roots), members)
      ordered == TopoOrder(Keep(members, {m \in ToSet(members) : m.package \in required}))
  IN ordered \o Keep(roots, ToSet(roots) \ ToSet(ordered))

\* expand_rust_workspace_members: the crates the engine publishes become their
\* dependency closure, where the first of them stood.
ExpandMembers(base, facts) ==
  LET own == {t \in ToSet(base) : EnginePublishes(t)}
      engine == Keep(base, own)
      roots == [i \in DOMAIN engine |-> engine[i].package]
  IN IF facts.workspace = Null \/ engine = <<>> \/ Null \in ToSet(roots) THEN base
     ELSE LET order == ClosureOrder(roots, facts.workspace.members)
              first == CHOOSE i \in DOMAIN base :
                         base[i] \in own /\ \A j \in 1 .. i - 1 : base[j] \notin own
          IN SubSeq(base, 1, first - 1)
             \o [i \in DOMAIN order |-> [engine[1] EXCEPT !.package = order[i]]]
             \o Keep(SubSeq(base, first, Len(base)), ToSet(base) \ own)

ResolvedTargets(c, facts) == ExpandMembers(BaseTargets(c, facts), facts)

-----------------------------------------------------------------------------
(* target_id.rs                                                             *)

MaxLevel == 3

\* A package as the discriminator writes it: none as the empty segment.
NoName == "unnamed"
Segments(t) == <<Or(t.package, NoName), t.registry, t.adapter>>
Discriminator(t, level) == [k \in 1 .. level |-> Segments(t)[k]]

MinimalLevel(targets, group) ==
  LET distinct == {level \in 1 .. MaxLevel :
                     \A i, j \in group : i # j =>
                       Discriminator(targets[i], level) # Discriminator(targets[j], level)}
  IN IF distinct = {} THEN MaxLevel ELSE CHOOSE l \in distinct : \A k \in distinct : l <= k

JournalTargetIds(targets) ==
  [i \in DOMAIN targets |->
     LET group == {j \in DOMAIN targets : targets[j].ecosystem = targets[i].ecosystem}
     IN <<targets[i].ecosystem,
          IF group = {i} THEN <<>> ELSE Discriminator(targets[i], MinimalLevel(targets, group))>>]

-----------------------------------------------------------------------------
(* The version                                                              *)

ManifestVersioned == {"rust", "node", "python"}

VersionOf(facts, t) ==
  LET rows == SelectSeq(facts.packages,
                        LAMBDA p : p.ecosystem = t.ecosystem /\ p.package = t.package)
  IN IF rows = <<>> THEN Null ELSE rows[1].version

\* classify_target_versions: the versions of the targets' manifests, Null among
\* them when one shows none; without targets those of the root manifests, or
\* of the members when there is no root package.
DeclaredVersions(c, facts, targets) ==
  IF c.targets # <<>>
  THEN {VersionOf(facts, targets[i]) :
          i \in {i \in DOMAIN targets : targets[i].ecosystem \in ManifestVersioned
                                        /\ targets[i].package # Null}}
  ELSE LET candidates == {p \in ToSet(facts.packages) :
                            /\ p.ecosystem \in ToSet(c.ecosystems) \cap ManifestVersioned
                            /\ p.package # Null /\ p.version # Null}
           roots == {p \in candidates : p.root}
       IN {p.version : p \in IF roots = {} THEN candidates ELSE roots}

\* resolve_release_version: Null where it fails.
ReleaseVersion(c, facts) ==
  LET versions == DeclaredVersions(c, facts, ResolvedTargets(c, facts))
  IN IF \E v \in versions : versions = {v} THEN CHOOSE v \in versions : TRUE ELSE Null

\* bump_version.
BumpVersion(level, v) ==
  CASE level = "patch" -> <<v[1], v[2], v[3] + 1>>
    [] level = "minor" -> <<v[1], v[2] + 1, 0>>
    [] level = "major" -> <<v[1] + 1, 0, 0>>

-----------------------------------------------------------------------------
(* The bump                                                                 *)

\* A requirement is Null when a declaration gives none, [exact |-> v] for =v,
\* [caret |-> v] otherwise.  A pin group is one owner's declarations of one
\* dependency, in whatever tables; the owner is a member, another crate of the
\* workspace or the root's [workspace.dependencies].
Exact(v) == [exact |-> v]
IsExact(r) == r # Null /\ "exact" \in DOMAIN r
Explicit(group) == group.reqs \ {Null}

\* Seeded fault: only the published members' own declarations are rewritten.
PublishedGroups(workspace) ==
  {g \in workspace.pins : {g.dep, g.owner} \subseteq PackageNames(workspace.members)}

MemberGroups(workspace) ==
  {g \in workspace.pins : g.dep \in PackageNames(workspace.members)}

\* exact_pin_count.
Rewritable(group, from) == Explicit(group) = {Exact(from)}
Refused(group, from) ==
  ~Rewritable(group, from) /\ \E r \in Explicit(group) : IsExact(r)

\* derive_pin_rewrites fails on what it cannot rewrite as a whole.
PinsAreSealable(facts, from) ==
  facts.workspace # Null => \A g \in MemberGroups(facts.workspace) : ~Refused(g, from)

PinRewrites(facts, from) ==
  IF facts.workspace = Null THEN {}
  ELSE {[owner |-> g.owner, dep |-> g.dep] :
          g \in {g \in MemberGroups(facts.workspace) : Rewritable(g, from)}}

\* derive_bump_plan, with the range issuectl reads trailers from.
BumpPlan(c, facts, head, level, from) ==
  [level |-> level, from |-> from, to |-> BumpVersion(level, from),
   pins |-> PinRewrites(facts, from),
   finalizes |-> c.changelog.mode # "automated",
   range |-> IF c.changelog.mode = "automated" \/ c.changelog.source # "issuectl-trailers" THEN Null
             ELSE IF from \in facts.tags THEN <<from, head>> ELSE <<head>>,
   hook |-> c.release.bump_hook]

-----------------------------------------------------------------------------
(* The plan and its address                                                 *)

PhaseSequence == <<"dry_run", "build", "publish", "tag", "dist", "verify", "advance_branch">>
BumpAwarePhases(bump) == (IF bump = Null THEN <<>> ELSE <<"bump">>) \o PhaseSequence

\* Seeded fault: the resolved targets are not hashed, only the contract's.
SealWithoutTargets(c, targets, head, version, bump) ==
  [contract |-> c, head |-> head, version |-> version, bump |-> bump,
   targets |-> <<>>, phases |-> BumpAwarePhases(bump)]

Seal(c, targets, head, version, bump) ==
  [contract |-> c, head |-> head, version |-> version, bump |-> bump,
   targets |-> targets, phases |-> BumpAwarePhases(bump)]

\* build_inner.
BuiltPlan(c, facts, head, version, bump) ==
  LET targets == ResolvedTargets(c, facts)
  IN [plan_id |-> Seal(c, targets, head, version, bump),
      head_sha |-> head, version |-> version, targets |-> targets, bump |-> bump,
      phases |-> BumpAwarePhases(bump),
      homebrew_tap |-> DeclaredTap(c), license |-> c.license, description |-> facts.description,
      homebrew_platforms |-> IF c.distributions = <<>> THEN <<>>
                             ELSE c.distributions[1].platforms]

\* derive_release_plan: none when no version can be determined or, with a bump,
\* a pin cannot be sealed.
DerivedPlans(c, facts, head, flag) ==
  LET versions == {ReleaseVersion(c, facts)} \ {Null}
      bumps == {BumpPlan(c, facts, head, flag, v) : v \in {v \in versions : PinsAreSealable(facts, v)}}
  IN IF flag = Null THEN {BuiltPlan(c, facts, head, v, Null) : v \in versions}
     ELSE {BuiltPlan(c, facts, head, bump.to, bump) : bump \in bumps}

-----------------------------------------------------------------------------
(* The gates of a cut                                                       *)

\* distribution.rs find_undeclared_distribution: the repository publishes on the
\* tag, or declares a tap that no installer serves, and no target says so.
Undeclared(c, facts) ==
  LET registries == {c.targets[i].registry : i \in DOMAIN c.targets}
      unserved == \E i \in DOMAIN c.distributions :
                    /\ c.distributions[i].homebrew_tap # Null
                    /\ "homebrew" \notin ToSet(c.distributions[i].installers)
  IN \/ facts.publishesOnTag /\ "gh-releases" \notin registries
     \/ unserved /\ "homebrew" \notin registries

\* homebrew.rs homebrew_platform_condition: GNU and musl variants are one.
PlatformCondition(platform) ==
  IF platform \in {"linux", "linux-gnu"} THEN "linux" ELSE IF platform = "macos" THEN "macos" ELSE Null

\* coordinator validate_plan.
Executable(plan) ==
  LET ids == JournalTargetIds(plan.targets)
      formula == \E i \in DOMAIN plan.targets : plan.targets[i].registry = "homebrew"
      served == SelectSeq(plan.homebrew_platforms, LAMBDA p : PlatformCondition(p) # Null)
      conditions == {PlatformCondition(served[i]) : i \in DOMAIN served}
  IN /\ \A i \in DOMAIN plan.targets : plan.targets[i].package # Null
     /\ Cardinality(ToSet(ids)) = Len(ids)
     /\ formula => served # <<>> /\ Cardinality(conditions) = Len(served)

\* delegated_dependency_conflicts.
DelegatedConflicts(plan, facts) ==
  LET delegated == {plan.targets[i].package :
                      i \in {i \in DOMAIN plan.targets : plan.targets[i].adapter = "cargo-publish-ci"}}
  IN IF facts.workspace = Null THEN {} ELSE
     {i \in DOMAIN plan.targets :
        /\ EnginePublishes(plan.targets[i])
        /\ ClosureOf(DepsOf(facts.workspace.members, plan.targets[i].package), facts.workspace.members)
             \cap delegated # {}}

-----------------------------------------------------------------------------
(* plan, cut and what people do in between                                  *)

PlanInit == source = Null /\ approved = {} /\ executed = Null

\* Every command reads the contract again; the same text reads the same.
ReadSources ==
  {[facts |-> s.facts, read |-> NormalizedStr(s.document, s.repository)] : s \in Sources}

\* None is not something: neither a bump nor the version it makes.
ASSUME NullAssumption ==
  \A s \in ReadSources, head \in 0 .. MaxEdits, level \in BumpFlags \ {Null} :
    LET v == ReleaseVersion(s.read.contract, s.facts)
    IN v # Null => /\ BumpPlan(s.read.contract, s.facts, head, level, v) # Null
                   /\ BumpVersion(level, v) # Null

\* What a repository holds at a commit, after so many edits.
Revision(s, head, edits) == [facts |-> s.facts, read |-> s.read, head |-> head, edits |-> edits]

\* A repository as it is first seen.
OpenRepository ==
  /\ source = Null
  /\ \E s \in ReadSources : source' = Revision(s, 0, 0)
  /\ UNCHANGED <<approved, executed>>

\* Somebody edits it: a commit moves HEAD, an edit of the working tree does not.
EditRepository ==
  /\ source # Null /\ executed = Null
  /\ source.edits < MaxEdits
  /\ \E s \in ReadSources, moves \in 0 .. 1 :
       source' = Revision(s, source.head + moves, source.edits + 1)
  /\ UNCHANGED <<approved, executed>>

\* What plan and cut read first: a valid contract of at most one distribution.
Readable == source.read.problems = {} /\ Len(source.read.contract.distributions) <= 1

CurrentContract == source.read.contract

\* `release plan', stored under the cut lock; what its warnings say stops nothing.
PlanRelease ==
  /\ source # Null /\ executed = Null
  /\ Cardinality(approved) < MaxPlans
  /\ Readable
  /\ \E flag \in BumpFlags :
       \E plan \in DerivedPlans(CurrentContract, source.facts, source.head, flag) :
         approved' = approved \cup {plan}
  /\ UNCHANGED <<source, executed>>

\* `release cut --plan', up to the run it creates: the flag is the one the
\* stored plan was sealed with or, where it has none, any.
CutRelease ==
  /\ source # Null /\ executed = Null
  /\ Readable
  /\ CurrentContract.status = "approved"
  /\ ~Undeclared(CurrentContract, source.facts)
  /\ \E stored \in approved, flag \in BumpFlags :
       LET level == IF stored.bump = Null THEN flag ELSE stored.bump.level
       IN /\ stored.bump # Null => flag \in {Null, level}
          /\ \E current \in DerivedPlans(CurrentContract, source.facts, source.head, level) :
               /\ current.plan_id = stored.plan_id
               /\ Executable(current)
               /\ DelegatedConflicts(current, source.facts) = {}
               /\ executed' = [plan |-> current, stored |-> stored]
  /\ UNCHANGED <<source, approved>>

PlanNext == OpenRepository \/ EditRepository \/ PlanRelease \/ CutRelease
PlanSpec == ContractInit /\ PlanInit /\ [][PlanNext /\ UNCHANGED contractVars]_<<planVars, contractVars>>

-----------------------------------------------------------------------------
(* Properties of what a cut executes                                        *)

PlanTypeOK ==
  /\ source # Null => source.edits \in 0 .. MaxEdits /\ source.head \in 0 .. source.edits
  /\ Cardinality(approved) <= MaxPlans
  /\ \A plan \in approved : plan.head_sha \in 0 .. MaxEdits /\ plan.version # Null
  /\ executed # Null => executed.stored \in approved

Running == executed # Null
ThePlan == executed.plan
Members == IF source.facts.workspace = Null THEN <<>> ELSE source.facts.workspace.members
EngineTargets == {i \in DOMAIN ThePlan.targets : EnginePublishes(ThePlan.targets[i])}
EngineCrates == {ThePlan.targets[i].package : i \in EngineTargets}

\* What runs is what was approved, whatever was edited in between: everything a
\* phase acts on is as in the stored document.  The formula's description is the
\* one field the address does not cover (plan.rs 192), and may differ.
ExecutesTheApproved ==
  Running => [ThePlan EXCEPT !.description = Null] = [executed.stored EXCEPT !.description = Null]

\* Crates that depend on each other in a circle, which Cargo does not build.
NeedsCircle(package) ==
  \E p, q \in ClosureOf({package}, Members) :
    p # q /\ q \in ClosureOf({p}, Members) /\ p \in ClosureOf({q}, Members)

\* A crate is published after the workspace crates it depends on, all of which
\* are published too, unless what it needs cannot be ordered.
DependenciesComeFirst ==
  Running =>
    \A i \in EngineTargets :
      \A d \in DepsOf(Members, ThePlan.targets[i].package) \cap PackageNames(Members) :
        \/ d = ThePlan.targets[i].package
        \/ NeedsCircle(ThePlan.targets[i].package)
        \/ \E j \in EngineTargets : j < i /\ ThePlan.targets[j].package = d

\* No more is published than the contract declares and its crates need, and no
\* declared target is dropped.
NothingBesidesTheDeclared ==
  Running =>
    LET declared == ToSet(BaseTargets(CurrentContract, source.facts))
        roots == {t.package : t \in {t \in declared : EnginePublishes(t)}}
    IN /\ declared \subseteq ToSet(ThePlan.targets)
       /\ \A t \in ToSet(ThePlan.targets) \ declared :
            \E r \in roots : EnginePublishes(t) /\ t.package \in ClosureOf({r}, Members)

\* The engine publishes before the tag that wakes CI, so no crate of the engine's
\* needs, however indirectly, one that CI publishes.
NothingWaitsForCI ==
  Running =>
    \A i \in DOMAIN ThePlan.targets :
      ThePlan.targets[i].adapter = "cargo-publish-ci" =>
        \A e \in EngineCrates :
          e # ThePlan.targets[i].package => ThePlan.targets[i].package \notin ClosureOf({e}, Members)

\* The journal tells the targets of a plan apart, so a resume never takes one's
\* receipt for another's: a plan whose targets name their packages is only refused
\* for ids that are equal when two targets are.
TargetsHaveTheirIds ==
  \A plan \in approved :
    LET ids == JournalTargetIds(plan.targets)
    IN \A i, j \in DOMAIN ids :
         ids[i] = ids[j] => \/ plan.targets[i] = plan.targets[j]
                            \/ Null \in {plan.targets[i].package, plan.targets[j].package}

\* The version that is tagged is the one in every manifest that is published;
\* with a bump, the one that was bumped from.
VersionIsTheManifests ==
  Running =>
    \A i \in DOMAIN ThePlan.targets :
      ThePlan.targets[i].ecosystem \in ManifestVersioned =>
        VersionOf(source.facts, ThePlan.targets[i]) =
          IF ThePlan.bump = Null THEN ThePlan.version ELSE ThePlan.bump.from

\* After a bump no declaration in the workspace, whoever makes it, pins a member
\* to another version than the one just made.
PinsMoveTogether ==
  (Running /\ ThePlan.bump # Null /\ source.facts.workspace # Null) =>
    \A g \in {g \in source.facts.workspace.pins : g.dep \in PackageNames(Members)} :
      \/ \A r \in g.reqs : ~IsExact(r)
      \/ [owner |-> g.owner, dep |-> g.dep] \in ThePlan.bump.pins /\ Explicit(g) = {Exact(ThePlan.bump.from)}

\* normalize.rs 1467: `The two identities are mutually exclusive statements about
\* who runs `cargo publish' for that crate'; 1491: `Keep exactly one publisher for
\* a package'.
OnePublisher ==
  Running =>
    \A i, j \in DOMAIN ThePlan.targets :
      (ThePlan.targets[i].adapter = "cargo-publish-ci" /\ EnginePublishes(ThePlan.targets[j]))
        => ThePlan.targets[i].package # ThePlan.targets[j].package

\* The plan a cut runs can be carried out, and releases what was declared: under
\* the version of the manifests, with distinct ids, and waiting for nobody.
PlanInv ==
  /\ PlanTypeOK
  /\ NothingBesidesTheDeclared
  /\ NothingWaitsForCI
  /\ TargetsHaveTheirIds
  /\ VersionIsTheManifests
  /\ PinsMoveTogether
=============================================================================
