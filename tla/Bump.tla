-------------------------------- MODULE Bump --------------------------------
(***************************************************************************)
(* The bump barrier of a `--bump' cut (shipshape-core release/bump_exec.rs *)
(* and release/bump.rs): in a clean checkout of the sealed commit the      *)
(* engine sets the root's version, rewrites the sealed pins, refreshes     *)
(* Cargo.lock, moves the pending notes under the new version, runs the     *)
(* contract's hook and commits.  Any step may fail; the process may die    *)
(* between two; a later resume starts over in a fresh checkout until a     *)
(* bump commit is recorded.                                                *)
(*                                                                         *)
(* The bump is sealed from the repository that Facts describes, by         *)
(* ReleasePlan's derivation, and applied to the same commit: that          *)
(* `release plan' reads a working tree with uncommitted edits is a gap the *)
(* code documents (plan.rs 58) and is left out.  Approvals stored before   *)
(* seal v9, whose changelog is finalised without markers, are left out.    *)
(***************************************************************************)
EXTENDS ReleasePlan, Facts

CONSTANTS
  BumpTrees,      \* workspaces that are released
  BumpContracts,  \* normalized contracts, as far as a bump depends on them
  Notebooks,      \* what CHANGELOG.md and the fragment directory may hold
  Locked,         \* may the repository have a Cargo.lock?
  MaxAttempts     \* bound on cuts and resumes

\* Why the executor may refuse a pin.
Refusals == {"pin not found", "manifest not found"}

ASSUME BumpAssumption ==
  /\ Null \notin Refusals /\ Locked \subseteq BOOLEAN /\ MaxAttempts \in Nat
  /\ \A t \in BumpTrees : IsProject(t) /\ t.root # Null

\* A notebook is [changelog, directory, fragments].  The changelog, Null for no
\* file, is [markers, header, nested, pending, released]: how many marker pairs
\* there are, whether the region has its Unreleased header and, wrongly, another
\* heading, the notes in it, and those of every release.
ASSUME NotebooksAssumption ==
  \A notebook \in Notebooks :
    /\ DOMAIN notebook = {"changelog", "directory", "fragments"}
    /\ notebook.changelog # Null =>
         DOMAIN notebook.changelog = {"markers", "header", "nested", "pending", "released"}

VARIABLES
  sealed,   \* the approved bump and what it was derived from, Null before
  checkout, \* the worktree of this attempt, Null without one
  todo,     \* what the current step has still to do
  step,     \* the step the attempt is at
  attempts, \* cuts and resumes so far
  bumped    \* the commit that is recorded, Null before

bumpVars == <<sealed, checkout, todo, step, attempts, bumped>>

-----------------------------------------------------------------------------
(* Sealing                                                                  *)

\* The detected facts as far as a plan depends on them.
FactsForPlan(t) ==
  [packages |-> PackagesIn(t), workspace |-> WorkspaceIn(t), description |-> Description(t),
   tags |-> {tag.version : tag \in {tag \in t.tags : tag.prefix = "v" /\ ~tag.pre}},
   publishesOnTag |-> t.dist # {} \/ SurfaceOf(t).tag_triggered # {}]

\* What an approved `release plan --bump patch' fixes: the bump, how notes are
\* kept, and the crates the engine will publish.
SealedBump(t, c, facts, version, targets) ==
  [tree |-> t, bump |-> BumpPlan(c, facts, 0, "patch", version), changelog |-> c.changelog,
   crates |-> {targets[i].package : i \in {i \in DOMAIN targets : EnginePublishes(targets[i])}}]

\* None when a pin of the workspace could not follow.
SealableBumps(t, c, facts, version) ==
  IF version = Null \/ ~PinsAreSealable(facts, version) THEN {}
  ELSE {SealedBump(t, c, facts, version, ResolvedTargets(c, facts))}

BumpsFrom(t, facts) ==
  UNION {SealableBumps(t, c, facts, ReleaseVersion(c, facts)) : c \in BumpContracts}

-----------------------------------------------------------------------------
(* Step 1: the root's version                                               *)

\* workspace_version: a [workspace.package] with a version is authoritative.
VersionSource(t) ==
  IF WorkspacePackage(t) # Null /\ WorkspacePackage(t).version # Null THEN "workspace" ELSE "package"

RootVersion(t) ==
  CASE VersionSource(t) = "workspace" -> WorkspacePackage(t).version
    [] VersionSource(t) = "package" /\ t.root.package # Null /\ t.root.package.version # Inherited ->
         t.root.package.version
    [] OTHER -> Null

WithRootVersion(t, v) ==
  IF VersionSource(t) = "workspace" THEN [t EXCEPT !.root.workspace.package.version = v]
  ELSE [t EXCEPT !.root.package.version = v]

-----------------------------------------------------------------------------
(* Step 2: the pins                                                         *)

\* workspace_member_dirs of bump_exec.rs, a second reader of the members list:
\* it knows no exclusions and expands no bare glob.
DirsOfTheExecutor(t) ==
  IF t.root.workspace = Null THEN {}
  ELSE UNION {LET entry == t.root.workspace.members[i]
              IN CASE entry.form = "dir" -> {entry.path} \cap Dirs(t)
                   [] entry.form = "glob" /\ entry.path # <<>> -> ToSet(Below(t, entry.path))
                   [] OTHER -> {} : i \in DOMAIN t.root.workspace.members}

\* member_manifest_paths: among crates of one name the last that is listed wins.
Manifests(t, package) == {dir \in DirsOfTheExecutor(t) : MemberName(CrateAt(t, dir)) = package}

\* The declarations of dep that count: a member's local ones, the root's tables.
Declarations(deps, pin) ==
  {i \in DOMAIN deps : /\ CrateOf(deps[i]) = pin.dep
                       /\ IF pin.owner = WorkspaceRoot THEN deps[i].form # "plain" ELSE Local(deps[i])}

\* rewrite_pin_inner: every explicit requirement must be the sealed one.
PinsMatch(deps, pin, from) ==
  LET explicit == {i \in Declarations(deps, pin) : deps[i].req # Null}
  IN explicit # {} /\ \A i \in explicit : deps[i].req = Exact(from)

\* Seeded fault: dev dependencies are left as they are.
RewrittenInBuilds(deps, pin, from, to) ==
  [i \in DOMAIN deps |->
     IF i \in Declarations(deps, pin) /\ deps[i].req = Exact(from) /\ deps[i].table # "dev"
     THEN [deps[i] EXCEPT !.req = Exact(to)] ELSE deps[i]]

\* rewrite_deps.
RewrittenDeps(deps, pin, from, to) ==
  [i \in DOMAIN deps |-> IF i \in Declarations(deps, pin) /\ deps[i].req = Exact(from)
                         THEN [deps[i] EXCEPT !.req = Exact(to)] ELSE deps[i]]

\* cargo update --workspace needs a version for every exact pin between crates.
VersionAt(t, package) ==
  {MemberVersion(t, MemberManifests(t)[i]) :
     i \in {i \in DOMAIN MemberManifests(t) : MemberName(MemberManifests(t)[i]) = package}}
Resolvable(t) ==
  \A dir \in ToSet(MemberDirs(t)) : \A d \in ToSet(CrateAt(t, dir).deps) :
    (d.source = "path" /\ IsExact(d.req) /\ VersionAt(t, CrateOf(d)) # {}) =>
      d.req.exact \in VersionAt(t, CrateOf(d))

-----------------------------------------------------------------------------
(* Step 4: the notes                                                        *)

FragmentCounts(f) == f.kind = "note"

\* collect_fragments: blank files, hidden ones and READMEs are no notes.
Consumed(notebook) == {f \in notebook.fragments : FragmentCounts(f)}

FragmentsReadable(notebook) == notebook.directory \in {"absent", "inside"}

CompiledFragments(mode, notebook) ==
  IF mode = "fragment" /\ notebook.directory = "inside" THEN Consumed(notebook) ELSE {}

NotesOf(fragments) == {f.name : f \in fragments}

\* finalize_marker_changelog's refusals, for compiled notes.
FinalizeFails(changelog, to, compiled) ==
  LET notes == changelog.pending \cup compiled
  IN \/ changelog.markers = "broken"
     \/ ~changelog.header
     \/ changelog.markers = "one" /\ changelog.nested
     \/ to \in DOMAIN changelog.released /\ notes # {}
     \/ to \notin DOMAIN changelog.released /\ notes = {}

WithRelease(released, to, notes) ==
  [v \in DOMAIN released \cup {to} |-> IF v = to THEN notes ELSE released[v]]

\* Seeded fault: the notes stay pending too.
FinalizedTwice(changelog, to, compiled) ==
  IF to \in DOMAIN changelog.released THEN changelog
  ELSE [changelog EXCEPT !.markers = "one", !.nested = FALSE,
                         !.released = WithRelease(@, to, changelog.pending \cup compiled)]

\* A version that is released already, with nothing pending, is left alone.
Finalized(changelog, to, compiled) ==
  IF to \in DOMAIN changelog.released THEN changelog
  ELSE [changelog EXCEPT !.markers = "one", !.nested = FALSE, !.pending = {},
                         !.released = WithRelease(@, to, changelog.pending \cup compiled)]

-----------------------------------------------------------------------------
(* The barrier                                                              *)

BumpInit ==
  /\ sealed = Null /\ checkout = Null /\ todo = {} /\ step = "none"
  /\ attempts = 0 /\ bumped = Null

Sealable == UNION {UNION {BumpsFrom(t, facts) : facts \in {FactsForPlan(t)}} : t \in BumpTrees}

\* The plan is approved and the cut has its run.
SealTheBump ==
  /\ sealed = Null
  /\ \E seal \in Sealable, notebook \in Notebooks, locked \in Locked :
       sealed' = [tree |-> seal.tree, bump |-> seal.bump, changelog |-> seal.changelog,
                  crates |-> seal.crates, notebook |-> notebook, locked |-> locked]
  /\ UNCHANGED <<checkout, todo, step, attempts, bumped>>

From == sealed.bump.from
To == sealed.bump.to

\* The coordinator enters the barrier, first or again, unless a bump commit is
\* recorded: a worktree of the sealed commit is made afresh.
EnterBarrier ==
  /\ sealed # Null /\ bumped = Null /\ step \in {"none", "failed"}
  /\ attempts < MaxAttempts
  /\ attempts' = attempts + 1
  /\ checkout' = [tree |-> sealed.tree, notebook |-> sealed.notebook, reason |-> Null]
  /\ todo' = {}
  /\ step' = "version"
  /\ UNCHANGED <<sealed, bumped>>

\* A step fails for a reason, or the process dies: the worktree is given up.
GiveUp(reason) ==
  /\ step' = "failed"
  /\ checkout' = [checkout EXCEPT !.reason = reason]
  /\ todo' = {}
  /\ UNCHANGED <<sealed, attempts, bumped>>

\* Files cannot be read or written, a command does not run, git refuses, or the
\* process is killed: at any step.
Interrupted == step \notin {"none", "failed", "done"} /\ GiveUp("interrupted")

SetVersion ==
  /\ step = "version"
  /\ IF RootVersion(checkout.tree) # From THEN GiveUp("version not found")
     ELSE /\ checkout' = [checkout EXCEPT !.tree = WithRootVersion(@, To)]
          /\ todo' = sealed.bump.pins
          /\ step' = "pins"
          /\ UNCHANGED <<sealed, attempts, bumped>>

\* One sealed rewrite; the code's order among them does not matter.
RewritePin ==
  /\ step = "pins" /\ todo # {}
  /\ \E pin \in todo :
       IF pin.owner = WorkspaceRoot
       THEN LET deps == checkout.tree.root.workspace.dependencies
            IN IF ~PinsMatch(deps, pin, From) THEN GiveUp("pin not found")
               ELSE /\ checkout' = [checkout EXCEPT !.tree.root.workspace.dependencies =
                                      RewrittenDeps(deps, pin, From, To)]
                    /\ todo' = todo \ {pin}
                    /\ UNCHANGED <<sealed, step, attempts, bumped>>
       ELSE \/ Manifests(checkout.tree, pin.owner) = {} /\ GiveUp("manifest not found")
            \/ \E dir \in Manifests(checkout.tree, pin.owner) :
                 LET at == CHOOSE i \in DOMAIN checkout.tree.crates : checkout.tree.crates[i].dir = dir
                     deps == checkout.tree.crates[at].deps
                 IN IF ~PinsMatch(deps, pin, From) THEN GiveUp("pin not found")
                    ELSE /\ checkout' = [checkout EXCEPT !.tree.crates[at].deps =
                                           RewrittenDeps(deps, pin, From, To)]
                         /\ todo' = todo \ {pin}
                         /\ UNCHANGED <<sealed, step, attempts, bumped>>

RefreshLockfile ==
  /\ step = "pins" /\ todo = {}
  /\ IF sealed.locked /\ ~Resolvable(checkout.tree) THEN GiveUp("Cargo.lock")
     ELSE step' = "notes" /\ UNCHANGED <<sealed, checkout, todo, attempts, bumped>>

\* compile_changelog and finalize_marker_changelog, up to the written file.
\* issuectl's notes are a bonus: whatever goes wrong with it adds none.
FinalizeChangelog ==
  /\ step = "notes"
  /\ LET notebook == checkout.notebook
     IN CASE ~sealed.bump.finalizes ->
               step' = "hook" /\ UNCHANGED <<sealed, checkout, todo, attempts, bumped>>
          [] sealed.bump.finalizes /\ notebook.changelog = Null -> GiveUp("no changelog")
          [] OTHER ->
               \E issues \in {{}, {"issue"}} :
                 /\ issues = {} \/ sealed.changelog.source = "issuectl-trailers"
                 /\ LET fragments == CompiledFragments(sealed.changelog.mode, notebook)
                        compiled == NotesOf(fragments) \cup issues
                    IN IF \/ sealed.changelog.mode = "fragment" /\ ~FragmentsReadable(notebook)
                          \/ FinalizeFails(notebook.changelog, To, compiled)
                       THEN GiveUp("notes")
                       ELSE /\ checkout' = [checkout EXCEPT !.notebook.changelog =
                                              Finalized(notebook.changelog, To, compiled)]
                            /\ todo' = fragments
                            /\ step' = "fragments"
                            /\ UNCHANGED <<sealed, attempts, bumped>>

\* The notes are written; now their fragments go, one by one.
RemoveFragment ==
  /\ step = "fragments" /\ todo # {}
  /\ \E f \in todo :
       /\ checkout' = [checkout EXCEPT !.notebook.fragments = @ \ {f}]
       /\ todo' = todo \ {f}
  /\ UNCHANGED <<sealed, step, attempts, bumped>>

FragmentsRemoved ==
  /\ step = "fragments" /\ todo = {}
  /\ step' = "hook"
  /\ UNCHANGED <<sealed, checkout, todo, attempts, bumped>>

\* The contract's hook may edit what it likes; of what it does only the root's
\* version matters here, which is checked after it.
RunHook ==
  /\ step = "hook"
  /\ \E v \in IF sealed.bump.hook = Null THEN {To} ELSE {From, To} :
       LET after == WithRootVersion(checkout.tree, v)
       IN IF RootVersion(after) # To THEN GiveUp("the hook changed the version")
          ELSE /\ checkout' = [checkout EXCEPT !.tree = after]
               /\ step' = "commit"
               /\ UNCHANGED <<sealed, todo, attempts, bumped>>

\* commit_bump, and the BumpApplied event that makes the barrier idempotent.
CommitBump ==
  /\ step = "commit"
  /\ bumped' = [tree |-> checkout.tree, notebook |-> checkout.notebook]
  /\ step' = "done"
  /\ UNCHANGED <<sealed, checkout, todo, attempts>>

BumpNext ==
  \/ SealTheBump \/ EnterBarrier \/ Interrupted
  \/ SetVersion \/ RewritePin \/ RefreshLockfile
  \/ FinalizeChangelog \/ RemoveFragment \/ FragmentsRemoved
  \/ RunHook \/ CommitBump

BumpSpec ==
  /\ ContractInit /\ PlanInit /\ FactsInit /\ BumpInit
  /\ [][BumpNext /\ UNCHANGED <<contractVars, planVars, factsVars>>]_<<contractVars, planVars, factsVars, bumpVars>>

-----------------------------------------------------------------------------
(* Properties                                                               *)

Steps == {"none", "version", "pins", "notes", "fragments", "hook", "commit", "done", "failed"}

\* What is to be done belongs to the step, the number of attempts is bounded,
\* and what is recorded is what an attempt that came to its end left.
BumpTypeOK ==
  /\ step \in Steps /\ attempts \in 0 .. MaxAttempts
  /\ step \in {"pins", "fragments"} \/ todo = {}
  /\ IF step = "none" THEN checkout = Null ELSE DOMAIN checkout = {"tree", "notebook", "reason"}
  /\ bumped = IF step = "done" THEN [tree |-> checkout.tree, notebook |-> checkout.notebook] ELSE Null
  /\ step = "pins" => todo \subseteq sealed.bump.pins

\* The two readers of the members list know the same manifest for a crate.
SameManifest(package) ==
  package # WorkspaceRoot =>
    Manifests(sealed.tree, package) =
      {dir \in ToSet(MemberDirs(sealed.tree)) : MemberName(CrateAt(sealed.tree, dir)) = package}

\* A pin that was sealed can be rewritten: the executor refuses one only where
\* its reader of the members list and the detector's disagree.
PinsApply ==
  (checkout # Null /\ checkout.reason \in Refusals) =>
    \E pin \in sealed.bump.pins : ~SameManifest(pin.owner)

SealedCrates ==
  {WorkspaceIn(sealed.tree).members[i].package : i \in DOMAIN WorkspaceIn(sealed.tree).members}

\* What bumping makes of one declaration of a crate: an exact pin on a member
\* that the release knows moves to the new version, anything else stays.
Moved(d, owner, counts) ==
  IF counts /\ IsExact(d.req) /\ CrateOf(d) \in SealedCrates \ {owner}
  THEN [d EXCEPT !.req = Exact(To)] ELSE d

\* In the bump commit every exact pin on a released crate, in whatever table and
\* crate of the workspace, requires the new version, and no other requirement
\* has changed; the own package of a root that has one is not looked at.
PinsMoveExactly ==
  (bumped # Null /\ WorkspaceIn(sealed.tree) # Null) =>
    /\ \A i \in DOMAIN sealed.tree.crates :
         LET crate == sealed.tree.crates[i]
             owner == MemberName(crate)
             member == owner # Null /\ crate.dir \in ToSet(MemberDirs(sealed.tree))
         IN SameManifest(owner) =>
              bumped.tree.crates[i].deps =
                [j \in DOMAIN crate.deps |-> Moved(crate.deps[j], owner, member /\ Local(crate.deps[j]))]
    /\ LET deps == sealed.tree.root.workspace.dependencies
       IN bumped.tree.root.workspace.dependencies =
            [j \in DOMAIN deps |-> Moved(deps[j], WorkspaceRoot, deps[j].form # "plain")]

\* No note is lost or told twice, whichever attempt made the commit: whatever
\* was pending, in the changelog or in a fragment, stands under the new version
\* and nowhere else, blank files stay, and older releases read as they did.
NotesAreReleased ==
  (bumped # Null /\ sealed.bump.finalizes) =>
    LET before == sealed.notebook
        after == bumped.notebook
        fragments == IF sealed.changelog.mode = "fragment" /\ before.directory # "absent"
                     THEN {f \in before.fragments : f.kind = "note"} ELSE {}
        pending == before.changelog.pending \cup {f.name : f \in fragments}
    IN /\ pending # {} => pending \subseteq after.changelog.released[To]
       /\ \A v \in DOMAIN before.changelog.released :
            after.changelog.released[v] = before.changelog.released[v]
       /\ after.changelog.pending = {}
       /\ after.fragments = before.fragments \ fragments

\* Every crate that takes its version from the workspace is at the new version
\* in the bump commit, and so is the root that the tag names.
InheritorsAreBumped ==
  bumped # Null =>
    /\ RootVersion(bumped.tree) = To
    /\ \A dir \in ToSet(MemberDirs(bumped.tree)) :
         LET crate == CrateAt(bumped.tree, dir)
         IN (/\ crate.package # Null /\ crate.package.version = Inherited
             /\ MemberVersion(sealed.tree, crate) # Null)
              => MemberVersion(bumped.tree, crate) = To

\* protocol/plan.rs 69: `the engine sets the workspace version, rewrites the
\* intra-workspace pins, refreshes the lockfile, finalizes the CHANGELOG, and
\* runs any declared `bump_hook` before the crates are built, so the publish
\* barrier builds the crates at the new version'.
BumpedCratesHaveTheVersion ==
  bumped # Null =>
    \A i \in DOMAIN bumped.tree.crates :
      LET crate == bumped.tree.crates[i]
      IN (crate.dir \in ToSet(MemberDirs(bumped.tree)) /\ MemberName(crate) \in sealed.crates)
           => MemberVersion(bumped.tree, crate) = To

\* The bump that derive_bump_plan sealed is the one that apply_bump makes, in every
\* manifest of the workspace and after any number of interrupted attempts.
BumpInv ==
  /\ BumpTypeOK
  /\ PinsApply
  /\ PinsMoveExactly
  /\ InheritorsAreBumped
=============================================================================
