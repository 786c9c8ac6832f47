# Shipshape release coordinator: TLA+ models, checks and proofs

`shipshape` (repository `ossctl`) prepares and executes the release of an open
source project: it seals a plan, publishes crates, pushes the tag, lets CI build
what is delegated to it, writes the Homebrew formula, verifies that everything is
visible, and moves the default branch. Most of these effects cannot be undone, any of
them may be the last thing a killed process did, and CI, registries and other people
act on the same state at the same time. This directory models that part, and the
decisions that precede it: what a contract means, what a plan contains, what a bump
rewrites.

Paths below are relative to `src/crates/`; `core` is `shipshape-core/src`, `cli` is
`shipshape-cli/src`.

## 1. The system

| component | source | state it keeps | operations |
|---|---|---|---|
| release coordinator | `core/release/coordinator.rs` | the running process: sealed checkout, current barrier | `execute`: bump, dry-run, build, publish, tag, dist, verify, advance-branch |
| run state | `core/protocol/journal.rs`, `core/release/journal.rs` | projection of the event log: receipts, phase outcomes, tag steps, status | `apply`, `reduce` |
| run journal | `core/release/journal.rs`, `cli/sys.rs` | `events.jsonl` (truth), `manifest.json` (cache) | `create`, `open`, `append`, `persist_manifest` |
| journal lock | `cli/sys.rs`, `cli/release.rs` | the file `releases/.lock` with pid and host of its holder | `lock_exclusive`, drop, `break_stale_lock` |
| plan store | `core/release/plan_store.rs` | one document per plan id, discard markers | `save`, `load`, `discard` |
| resume | `core/release/resume.rs`, `reconcile.rs` | none; reads the journal and the registries | `reconcile_for_resume`, adoption, blockers |
| cargo adapter | `core/release/adapters/cargo.rs` | what the cut uploaded, its pre-tag baseline (registry: external) | dry run, build, publish, authenticate a skip, poll the index, verify |
| homebrew adapter | `core/release/adapters/homebrew.rs` | none (tap and forge: external) | create by pull request, rewrite on the branch, verify |
| delegated publishing | `core/release/delegated.rs`, `coordinator.rs` (`verify_phase`) | the polling window of an attempt (workflow runs: external) | name the workflow, classify its run, await it, then the destination |
| git and forge | `cli/sys.rs` | local and remote tag, GitHub Release, default branch (external) | `create_tag`, `push_tag`, `create_github_release`, `advance_branch` |
| commands | `cli/release.rs` | none | `plan`, `cut`, `resume`, `abandon`, `verify` |
| contract | `core/contract/normalize.rs`, `schema.rs`, `spdx.rs` | none | normalise a frontmatter, refuse by floors, print the canonical form |
| facts | `core/facts/mod.rs` | none | gather packages, members, edges, pins, publishing workflows, maturity |
| plan | `core/release/plan.rs`, `core/protocol/plan.rs`, `distribution.rs`, `target_id.rs` | the sealed plan | resolve, order, expand, seal; plan and refuse, cut and refuse |
| bump | `core/release/bump.rs`, `bump_exec.rs` | the bump commit in a sealed worktree | seal the pins, rewrite, finalise the notes, commit |
| skills | `cli/skill.rs` | files in the agents' directories | install |
| npm, PyPI, Go and binary adapters, preflight, audit, publicize, dist report, command line | the rest of `core` and `cli` | none, or what they upload | not modelled |

How they interact: a command takes the lock, loads the plan, creates or opens the
journal and calls `execute`. `execute` walks the barriers; for every target it makes an
effect through an adapter and then appends the event that records it. `resume` opens
the journal, queries the registries for what has no receipt, journals adoptions and
calls `execute` again, which skips what is recorded. `abandon` is the only command that
may break a lock left by a dead process; it closes the run and discards its plan. A
pushed tag starts CI, from then on outside the coordinator's control. Before all this,
`plan` normalises the contract, gathers facts, derives and seals the plan; `cut`
derives it again and goes on only if the address is the same.

What is hard here, and where the properties are aimed (PROJECT.json lists each at its
line): a crash between an effect and its record; barriers across partial
re-execution; a bump that is applied again and yields another commit; registries that
answer late, not at all or about somebody else's artifact; CI that is pending, fails or
is re-run; two binaries that classify the same release differently; lock files of dead
processes; torn log lines and stale caches; commands racing for one plan; two cuts
at one registry whose index lags; a verify window that several workflows and a wall
clock share; two readers of one manifest that must agree; a bump that is interrupted.

## 2. The modules

| module | models | how |
|---|---|---|
| `RunState` | journal projection, events, `publish_phase_reached`, `classify` | operators; `RunState` is the record type, `Apply(s, e)` the reducer |
| `ReleaseCut` | one run: coordinator, resume, abandon, against the world | state machine over `RunState`; extends it |
| `Release` | the abstract promise of a release | the specification `ReleaseCut` implements |
| `CutLock` | the lock file protocol, one file operation per step | state machine over any number of commands |
| `RunJournal` | log, sync, manifest, replay, kill, power loss | state machine over `RunState` |
| `PlanStore` | plan document, marker, run, under the four commands | state machine; an abandoned lock stays until broken |
| `HomebrewTap` | the formula of one package in a shared tap, over several releases | state machine, one clone, push or API call per step |
| `RunState_proofs`, `ReleaseCut_proofs` | theorems about the projection and `ReleaseCut` | see section 5 |
| `CutLock_proofs`, `DelegatedVerify_proofs` | theorems about `CutLock`, `DelegatedVerify` | |
| `Publishing_proofs` | theorems about `HomebrewTap` and `CargoPublish` | |
| `Commands_proofs` | theorems about `RunJournal`, `PlanStore` and `SkillInstall` | |
| `Planning_proofs` | theorems about `ReleasePlan` and `Contract` | |
| `Bump_proofs` | theorems about `Bump` and `Facts` | |
| `DelegatedVerify` | the verify barrier of a run whose targets CI delivers, and `release verify` | state machine: one observation, sleep or record per step; the report an operator |
| `CargoPublish` | dry run, build, publish and verify of crates, for cuts that overlap | state machine: one request to the registry per step |
| `SkillInstall` | installers of skills and the people who edit what they installed | state machine: one file operation per step |
| `Contract` | normalisation, floors, canonical form | a function on frontmatters and repositories; two actions |
| `ReleasePlan` | the plan from contract and facts, its seal, the refusals of plan and cut | operators, under a repository that is edited between plan and cut |
| `Facts` | the report from a tree | operators, under a repository that gains tags, committers, CI |
| `Bump` | the bump from a tree and a notebook, file by file | state machine over the operators of `Facts` and `ReleasePlan` |
| `MCReleaseCut`, `MCDelegatedVerify`, `MCCargoPublish`, ... | values of the constants | plans, event sets, trees, documents |
| `MCDelivery`, `MCProgress`, `MCPublishing`, `MCCommands`, `MCPlanning` | what is checked together | see section 3 |

The modules meet at these points. `ReleaseCut` and `RunJournal` share `RunState`: the
former treats a journal append as one durable step, the latter shows what that step is
made of. `ReleaseCut` has one process because of `CutLock`, as long as no
abandon removes a lock it did not read. `ReleaseCut` re-executes the sealed plan because of `PlanStore`'s `StartedRunHasPlan`. `HomebrewTap` opens up the one
step `WriteFormula` of `ReleaseCut` and lets several releases share the tap,
`CargoPublish` its `Upload` and lets two cuts share the registry, `DelegatedVerify` the
barrier that `ReleaseCut` passes target by target. `ReleasePlan` extends `Contract`, whose
result it plans from; `Bump` extends both and `Facts`, whose pins it seals.

Each module states its parts separately and most of them collect the state predicates
as one invariant (`TapInv`, `CargoInv`, `LockInv`, `JournalInv`, `StoreInv`, `SkillInv`,
`VerifyInv`, `ContractInv`, `PlanInv`, `FactsInv`, `BumpInv`): a type invariant and named
conjuncts, each with the comment that says what it means.

### ReleaseCut

`run` is the journal's projection and survives a crash. `proc` is everything the process
has in memory: barrier (`phase`), step within it (`step`), sealed checkout, whether it
still runs barriers or only observes (`barrier`), what verification has seen so far.
`artifact`, `visible`, `localTag`, `remoteTag`, `gh`, `ci`, `branch` are the world. The
content of an artifact is the commit it was built from, or `Foreign`; 0 is the sealed
head and each bump attempt makes the next number, so re-applied bumps are different
commits, as they are in git.

An effect and its record are separate actions where the code has separate statements:
`Upload`/`ConfirmUpload`, `CreateTag`/`RecordTag`, `PushTag`/`RecordPush`,
`CreateRelease`/`RecordRelease`, `WriteFormula`/`RecordFormula`, `Advance`/`RecordAdvance`,
`ApplyBump`/`RecordBump`. `Crash` is possible between any two. Actions that fail
(`CommandFails`, `EffectReportedFailed`, `CheckoutFails`, `NoOpUpload`) follow the code's
`fail_phase`: record, stop, except that a failed dist barrier is followed by an
observe-only verify. Target classes are a constant function: *engine* (published by the
coordinator before the tag), *delegated* (published by CI from the tag), *posttag*
(written by the coordinator after the tag). `Deps` are dependencies within the
workspace, checked by the code before a publish.

`Resume` is atomic, since it reads the journal under the lock and the registries
read-only; `down` are the targets whose registry does not answer. A run is only
resumed when no target blocks; `allow` is `--allow-unverified`.

### CutLock

`Create` is `O_EXCL`; the holder's identity is a second write, so a lock may be unreadable
(`written = FALSE`), which abandon refuses to break. `Inspect`, `Probe` and `Break` are the
read, the liveness probe and the removal of `break_stale_lock`. A command on another host is
never reported alive, and never broken either since the host is compared. Read, probe and
removal are three steps, anything may happen between them, and the removal is of the path:
the history variable `mistaken` collects the abandons that removed a lock other than the one
they read. Nobody is assumed to hold back while an abandon works.

### RunJournal

A line is a sequence of writes. On a machine of the first kind it reaches the file together
with its newline (`whole`), on one of the second after it (`apart`), on one of the third
also in half (`torn`, whose half line is `Torn`). What is appended to a line without a
newline continues it, and a line of two writes does not parse. `synced` is the durable
prefix. `MemoryIsReplay` relates the open journal's state to the replay of the log; events
after a terminal one are frozen out by `Apply`.

### PlanStore

Several plans, cuts, resumes and abandons of one plan id. `step` follows each command
between its file operations; the lock is a variable, held by a dead process until an
abandon takes it over (`Stale`). Abandon by plan scans the runs, drops the lock and opens
the run it found anew, as the code does.

### DelegatedVerify

An attempt of `verify_phase` first awaits the workflow runs of every delegated target in
rounds (`runs`), then polls their destinations in rounds (`destinations`), then writes
the outcomes down one by one (`record`); after a failure earlier in the run it only
looks (`look`). One observation is one step, so CI, the network, the index and a
re-run of a workflow come between any two. A window has a length and a number of sleeps:
the clock may stand still, and the sleeps end it then. `CargoPublishWorkflow` finds the
file that publishes the crates among the workflows of the tag, or none if it cannot
tell. `Reported` is what `release verify` says, written after the second implementation.
`history` is there for the properties: what was green, red, matched or astray during the
attempt.

### CargoPublish

Two cuts of one workspace, each packaging its own sources. The store of the registry and
its index are two variables; the index lags. A crate may be taken by the other cut or a
stranger at any moment, `cargo publish` may exit 0 without having done anything
(`silentNoOps`), the registry may be out of reach. `DefersPackaging` is the gate that
leaves a crate's dry run and build to the publish phase when its dependencies are not visible yet;
`Authentic` compares digests; `WindowVerdict` says what a polling window has shown.

### SkillInstall

Installers inspect all destinations, decide, and write one file after another through a
temporary name; people put files of their own, or edit what is installed, in between.

### Contract, ReleasePlan, Facts

These are functions, written as operators that follow the code's order of questions, and
checked over sets of inputs that TLC enumerates: documents with absent, malformed and
contradicting keys; workspaces with globs, exclusions, root packages, renames, inherited
and multi-line dependencies; workflows that call each other. The actions are the
commands and what people do between them: a plan is approved, the repository is edited,
another plan is approved, a cut is attempted. `Seal` is the content address as the
record it is computed from: two plans have the same address when these are equal. The
loops over lists and members (`Keep`, `TopoOrder`) are recursive functions with one stage
per element, and the closure of a crate's dependencies is the
least set that is closed, so that both can be reasoned about. The search for a
publisher through called workflows is a recursive function on the sets of files it has yet
to visit, since what a depth-first search has visited is what ends it.

### Bump

`SealTheBump` fixes tree, notes and pins; the barrier then sets the version, rewrites one
pin per step, refreshes the lockfile, finalises the changelog, removes the fragments,
runs the hook and commits, in a fresh checkout of the sealed commit on every attempt.
The executor looks members up with a reader of its own (`Manifests`), which is not the
detector's.

### HomebrewTap

A formula is absent, written by hand, claimed (by hand, with the marker put on it), or
the one a version generates. Each version's dist barrier probes the tap, clones it, and then
creates the formula through a branch and a pull request or rewrites it on the default
branch. The clone may be newer than the probe, the default branch newer than the clone
(`rev` against `clone` decides whether a push is a fast-forward), and what is `served`
older than both. A failure to clone is retried from the probe on (`Attempts`), every
other one ends the attempt and leaves the rest to a resume. `OneHost` says whether the
releases exclude each other through the journal lock; two clones of the repository do
not. The other actors merge and close proposals, delete branches and edit the formula.

## 3. Runs

| run | question | instance and bounds |
|---|---|---|
| `delivery` | do the barriers, receipts and the single commit survive every interruption? does the verify barrier end, and judge by what it saw? | two crates, the second depending on the first, a formula, a bump, a foreign tag possible, one crate withdrawn or foreign; 3 faults. A crate of the engine, cargo-dist binaries, a crate of CI, one or two workflows that publish; 2 changes of the world, a window of one tick and one sleep |
| `progress` | does a completed run have everything, is the branch moved only after verification, has the GitHub Release one owner, does every run end, does the coordinator implement `Release`? whom does the lock admit, whatever starts when, and is a stale one freed? | crate, CI-built binaries, formula over them, a bump, both dispositions; 3 faults, fairness. Three commands (one on another host), two abandons |
| `publishing` | is only an owned formula replaced, a receipt a delivery, a proposal made once, whoever else works on the tap? is a crate's receipt the cut's own, are dependencies visible first, is silence never absence? | two versions on two hosts; 2 faults, 1 edit. Three crates, one published by CI, two cuts, two sources and a stranger, a window of one poll |
| `commands` | is an acknowledged event ever lost, a replay ever different? does a run always have its plan, is disposal remembered, an outcome final? is a skill ever torn or a person's file overwritten? | 4 events of 4 kinds, 2 crashes: power loss or writes cut short. 2 plans, 2 cuts, 1 resume, 2 abandons, killed anywhere. Two installers of two versions, two paths, 1 edit |
| `planning` | do defaults pass the floors, does the canonical form read back? is what is cut what was approved, in dependency order? does the report know every edge, pin and publisher? is the bump complete, and every note told once? | 8,138 documents in 5 repositories; 81 repositories with 1 edit and 2 approvals; 3,112 trees; 194 trees to bump with 3 contracts and 6 notebooks, 2 attempts |
| `foreign` | is everything a completed run delivered its own? (**no**) | 1 fault |
| `tap_late` | does a release resumed late leave a newer formula alone? (**no**) | two versions on one host, 1 fault |
| `lock_race` | is the lock exclusive? (**no**) | two commands, one abandon |
| `journal_torn` | does a crash anywhere recover cleanly? (**no**) | 2 events, 2 kills, each line written whole, its newline after it |
| `contract_evidence` | may every crate of an accepted contract be published? (**no**) | the documents of `planning` |
| `two_publishers` | has a crate one publisher in the plan that is cut? (**no**) | the repositories of `planning`, one approval |
| `stale_member_version` | have all released crates the version of the plan? (**no**) | the trees of `planning` |

The first five runs check several components side by side: the module that composes
them (`MCDelivery` and so on) chooses in its initial state which component a behaviour
is `about`; that one steps and the others rest. Nothing is added to a component's own
next-state relation and nothing is left out of it; the states of different components
do not multiply. Fairness is required only of the component a behaviour is about.

Why the bounds are enough. Three targets give one of every class or two that depend on each
other; a fourth adds no new order because loops follow plan order. A fault is a crash, a
failure or an outage: three allow a crash during the recovery from a failure of a recovery.
A bump attempt is only repeated after a fault, so `commits` needs no bound of its own. In
`progress` two commands and two abandons make two mistaken removals and three guards held at
once, the most the invariant allows; the third command takes the path that the drop of one
of these three frees for it. In `RunJournal` the faults are counted by `MaxCrashes` and the
log is bounded by `MaxEvents`. In `DelegatedVerify` two changes of the world are a workflow
that turns red and green again, or turns green and has its destination withdrawn: what falls
between one look and the next; an attempt begins anew when the journal says so, and changes
are counted over all of them. Two cuts and a stranger are every party that can own a version
a cut did not publish: itself earlier, another cut, somebody else; three crates are one that
is needed, one that needs it, and one that CI publishes. Two installers and one person are
what can stand between an inspection and its write. The trees and documents are chosen: the
keys, forms and sections the models branch on occur in them, alone and beside the ones they
are compared with; other texts are not covered. A second edit between plan and cut is a
first one before another approval.

Symmetry is used for cuts and for sources (`publishing`), for cuts and for installers
(`commands`): the definitions compare them for equality only, and no property that needs
fairness is checked in these runs.

`CHECK_DEADLOCK FALSE` is set where the system really stops: a finished run, commands
that have all ended, the bounds of the journal.

Every property of these five runs is also checked to be breakable: PROJECT.json lists for each a seeded
fault (the definitions commented *Seeded fault*) under which TLC finds it violated; a
collected invariant has one, which breaks one of its parts.

## 4. Fairness

`ReleaseCut!Fairness` (`RunFairness` in `MCProgress`): the process does not idle (`execute`
has no wait without a deadline); the operator resumes an interrupted run with the
go-ahead the program asks for; registries, CI runs and manual merges make progress, and
a failed workflow is re-run. Nothing is assumed of faults except that they are bounded.
No fairness is put on `Abandon`, hence `Recovers` does not hold by giving up. It is
checked (`RunRecovers`) of the runs that no binary of another disposition resumes: the
code refuses such a resume for as long as the binary is the wrong one.

`LockFairness`: an abandon that was started runs on.

`VerifyFairness`: a coordinator that is in the barrier takes its next step. Nothing is
assumed of CI, the network, the clock or the operator, so `BarrierEnds` says that the
sleeps alone end the barrier.

## 5. What is proved

TLAPS checks every leaf of what follows. The theorems hold for every value of the constants
that the named assumptions allow; TLC evaluates these assumptions in the runs.

### The coordinator

For every number of targets, every classification, dependency relation and schedule, and
any number of faults:

- `TypeCorrect`: `Spec => []TypeOK`, from one lemma per event about `Apply`
  (`RunState_proofs`) and one case per action (`ReleaseCut_proofs`).
- `Invariance`: the inductive invariant `Inv` of `ReleaseCut_proofs`. The properties are
  not inductive alone: that nothing leaves before everything is built depends on where
  the *process* is, and after a crash on what the *journal* says of the barriers it
  passed. `Inv` ties the two: a barrier is behind the run when it is journaled
  ok or the process is past it (`Behind`), a barrier that is behind has established its
  facts (`BarrierFacts`), and whatever exists in the world implies the facts of the
  barriers before it (`OutFacts`, `TagFacts`). `OneCommit` and `Sealed` carry the
  commit from the checkout to the world, `UploadOrder` the plan order of uploads, `Live`
  that a process only works on a run in progress.
- `BuildBarrierHolds`, `TagBarrierHolds`, `SingleCommitHolds`, `OneUnreceiptedHolds`:
  the four safety properties of run `delivery` that follow from `Inv`.
- `DeliveryInvariance`: the second inductive invariant, `Delivery` of `ReleaseCut_proofs`.
  `Inv` says what must have happened before something goes out; `Delivery` says how far
  the journal may claim the run has come. `Ladder` orders the barriers: the ones journaled
  ok form a chain, the process stands at its end or, observing after a failed dist
  barrier, at verify. `TagLine` and `BranchLine` follow the tag and the branch from effect
  to record, `Closed` says what a closed barrier has recorded and that the branch is
  advanced after a closed verify only, `Checked` that a target leaves verify's list by being
  verified, `Landing` that whatever was seen or recorded exists, `Disposition` that the journal
  knows one owner of the GitHub Release, `OutBehindBuild` that what left has a build
  behind it. Preservation is organised by fact and not by action: lemmas state once which
  actions may add a record, an effect or a label, and each part of `Delivery` is then
  discharged for those alone.
- `ReceiptIsBackedHolds`, `ReachedSignalIsSafeHolds`, `CompletedMeansDeliveredHolds`,
  `AdvanceAfterVerifyHolds`, `OneDispositionHolds`: the remaining properties of `ReleaseCut`
  in runs `delivery` and `progress`. They hold under every schedule, also for a journal of schema 5, whose
  terminal barrier is verify, and for a plan without targets, whose release is the
  tag; neither has a run of its own.
- `Refinement`: `Spec => ImplementsRelease`, every step of the coordinator being a step
  of `Release` or a stutter, under `ForeignTargets = {}`. The premise is needed: after
  an abandon someone else may still take a version, and `Release` has no publish after its
  end.

### The lock

`LockInvHolds` and `OneMorePerMistakeHolds`, for any invocations, hosts and crashes, and
without any assumption on who starts when. Exclusion itself does not hold (`lock_race`): the
breaker's removal is blind, it removes the path and not the file it read. What holds is that
this is the only damage and how far it goes. Whose lock was removed under it removes, when
it drops its guard, the lock of the next holder, whose drop removes another: one mistake is
passed on without end, and "the path names the holder" is lost for good. So `LockInd` counts
(`DisplacedAreCounted`): those who write or hold while the path does not name them are never
more than the mistaken removals. A create and a mistaken removal are the steps that matter:
the create finds no lock, so it displaces nobody; a mistaken removal displaces one and is
counted, an abandon making one at most (`MistakenOnce`); a displaced holder's drop displaces
one and is itself gone (`OneForAnother`). All others hold what the path names, which is at
most one. That a removal of what was read harms nobody needs that its process has ended
(`ReadOfTheDead` with `KilledIsGone`), and that needs the host (`ProbesItsHost`).

### The journal

`JournalInvHolds` and `AcknowledgedIsKeptHolds`, for any events that may be appended, any
number of kills and power losses between any two writes. A sequence number is a position, until an
append continues a line without its newline; then the handle is one ahead of the
file for good (`WatermarkCounts`, `Glued`), and the log is never readable again, which is why
nothing false is ever replayed. `HandleFollows` relates the projection in memory to the
replay in each step of an append, `EndOfFile` says where a line may lack its newline,
`AcknowledgedIsSynced` that what was acknowledged is in the part no power loss takes. The replay is a recursive function
(`Reduce`); the lemmas about it say that it is determined by its lines and that the
replay of one more line is one `ApplySeq` more.

### The plan store

`StoreInvHolds`, `StartedRunHasPlanHolds` and `OutcomeIsFinalHolds`, for any number of commands
killed anywhere. Between reading and acting a command holds the lock, so what it found
stays true: `StoreInd` has `LockIsHeld`, `FindingsHold` (what each step relies on),
`StepsByCommand` and `RunIsNew`. Abandon gives the lock up between its scan and its
reopening; what it found then is only that the run exists, and that is all it relies on.

### The tap

`TapInvHolds`, `OverwritesOnlyOwnHolds` and `OneProposalHolds`, for any set of releases. That a
push replaces an owned formula needs `PushesOnOwn`: a clone is never newer than the
branch, and as long as it is the branch's commit the push replaces what was read.
`ServedWasShipped`, `RecordsDelivered` and `ProposalHasBranch` carry receipts and
proposals over the steps between an effect and its record.

### The cargo adapter

`CargoInvHolds`, `ResolvesDependenciesHolds` and `AbsenceIsNotGuessedHolds`, for any plan in
dependency order (`CratePlan`), any number of cuts and any window. `CargoInd` says of
each cut what the phases it has passed left behind (`PhasesDone`) and what the gate, the
window and the probe have established about the crate it is at (`StepKnows`, `WindowKnows`). The
registry only grows, so a step of another cut or a stranger disturbs none of it; a step of
the cut itself disturbs only its own part. One lemma composes the two
halves for all actions.

### The verify barrier

`VerifyInvHolds`, `PassedMeansDeliveredHolds`, `ReportsAgreeHolds` and `FailureIsNotHiddenHolds`,
for any list of targets, any workflows in the tag, any window. The barrier decides
by answers that may be stale when they are used, so `VerifyInd` relates each of them to
`history`: an owner it is ready with was green in this attempt (`ReadyWereGreen`), what
it holds for missing was seen missing (`OutcomesAreObserved`), who it still waits for was not red
when it looked (`RunsAccountedFor`). For `ReportsAgree` the same parts say, as long as
nothing changed, that each answer is what asking again would give.

### Plan and cut

`PlanInvHolds`, `ExecutesTheApprovedHolds` and `DependenciesComeFirstHolds`, for any
contracts, facts, edits and bumps. `PlanInd` says that what is stored was derived
from some reading (`ApprovedAreSealed`), and what is executed is derived from the
present one under the address of a stored plan (`ExecutedIsSealed`); `AddressDecides` is the lemma that
one address is one plan but for the description. What is derived is a matter of the
operators: `TopoOrders` says that every member comes out, each after what it depends on,
`ClosureOrders` and `RunningExpansion` carry the order through the expansion of targets
to the plan.

The order is proved for every workspace, also one Cargo would refuse. `TopoOrder`
appends members in the order they are declared when a round brings none out, and
`EndlessNeedsCircle` says when that happens to a crate: when it needs two crates that
need each other. `DependenciesComeFirst` has this exception, for dependencies only; without it the property is
false of the operator. `TargetsHaveTheirIds` excepts targets without a package: `unnamed` stands
for it in an id, and no cut executes a plan with such a target.

### The contract

`ContractInvHolds`, for any frontmatters and any repositories. The state keeps little
(`ContractInd`: what was normalized came out of this frontmatter and some repository), so the
parts of `ContractInv` are about the operators, and each is a lemma from `ContractInd`:
`ContractTyped`, `DefaultsPass`, `FormulaWriters`, `NonePublished`, `ReadsBack`.

The last one is the long one. The canonical form is what every reader has made of its
key, put back under that key; `Again` is that form, read a second time. One lemma per reader (`EnumAgain`,
`EcosystemsAgain`, `ChangelogAgain`, `TargetsAgain`, ...) says that it finds there what
it found before and complains of nothing: a list in canonical order stays as it is
(`CanonicallyTwice`), a target of full type reads as itself, a distribution as it was written
(`Written`), the extra fields are captured again. So the second contract is the first but for
its extra fields (`Alike`, `ContractAgain`), no floor looks at these (`FloorsAlike`), and
it is accepted where the first one was.

### The facts

`FactsInvHolds`, for any repository of the kind Cargo accepts. `FactsInd` says that the report
is what the operators make of the tree: tags, committers, CI and bots may be added after
a report, but no file is written that it was made from (`SameFiles`). The parts are again about
the operators: what the scanner takes for members, edges and pins of a manifest against
what Cargo takes for them.

For the workflows that publish (`SurfaceOf`) the search along calls is compared with what
it is meant to find. `Callers` is the least set of workflows that holds the ones that publish and
whoever calls one of it that accepts calls (`ClosedBut`, away from what was visited). A search
step avoids one more file; `CallersStepByStep` says what that takes away from
the set, and `SearchFindsCallers` that the search succeeds exactly for
the members of `Callers`. That file systems are finite is used there, and nothing else.

### The bump

`BumpInvHolds` and `NotesAreReleasedHolds`, for any trees with a root manifest, any notebook,
any refusals and any number of attempts. What is in the checkout depends on the step
the executor is at, which neither property mentions; `BumpInd` does. `IsSealed`
says what was approved, `SameProject` what no step changes, so that the members, their
directories and their declarations are those the pins were sealed from. `PinsSoFar` says that
the manifests are the sealed ones with the pins rewritten so far (`RewrittenPins`,
`After`), `NotesSoFar` that the notes are finalised from the step on that does it and that
fragments are removed only then (`NotesWritten`), the last conjuncts that the root has
its version once the version step is past and that a rewrite is refused only where the two
readers of the members look into different manifests (`PinsApply`). A failed attempt leaves a checkout that nobody continues in, and the next
one starts from the sealed tree; this is why the attempts need no bound.

### Recursive functions

The induction theorems of the library take an operator as parameter, which the provers
cannot instantiate. Facts about recursive functions are proved by a least
counterexample instead: a set of naturals with a member has a least one
(`LeastMember`, from the well-foundedness of `<`), `Recursion` gives a
function defined by stages its existence, and a stage where a fact fails for the first time
contradicts the stage before. `Keep`, `TopoOrder`, `Reduce`
and the search of `Facts` are treated that way, the latter over finite sets.

### Assumptions

`RunState` and `ReleaseCut`: the classification, dependencies before dependents, the
schedules of schema 5 and later. `CutLock`: cuts are not abandons (`InvocationsAssumption`).
`RunJournal`: what is appended is appendable, and half a line is no entry
(`EventsAssumption`, `TornAssumption`). `PlanStore`: the commands are distinct
(`CommandsAssumption`). `HomebrewTap`: versions are numbers, and the other contents are no
versions. `CargoPublish`: the plan's order, which the planner produces and `DependenciesComeFirst`
is about (`CratePlan`). `DelegatedVerify`: types of targets and workflows, and `Null` is no answer.
`SkillInstall`: plans are sequences of paths, kinds of files. `ReleasePlan`: `targets` is a
list, a workspace's members have names of their own, as Cargo demands, and a bump
and its version are something (`SourcesAssumption`, `NullAssumption`, `PlanAssumption`).
`Contract`: what YAML's types give, lists that are lists, mappings that are mappings, names
that are strings, and no keyword that is the absent or the malformed value (`ContractAssumption`). `Facts`:
absent is no version, package or workspace (`NothingIsNull`), and the repositories are projects
that Cargo accepts (`TreesAssumption`); what Cargo rejects never builds and is not
released. `Bump`: the same of its trees, which have the root manifest that a bump sets
the version of (`BumpAssumption`), and the fields of a notebook (`NotebooksAssumption`).

### Only model-checked

- Liveness (`RunRecovers`, `StaleLockIsBroken`, `BarrierEnds`): out of the proof system's reach.
- That the chosen documents, trees and notebooks are read as the code reads them: a theorem is
  about the operators, and the runs show what these come to on inputs one can look at.

Every safety invariant and every action property of the passing runs is a theorem.

## 6. What the violated runs show

- `lock_race`: `break_stale_lock` (`cli/sys.rs:1291`) removes the file at the path, not the
  file it inspected. A command holds the lock and an abandon reads it; the command drops its
  guard, finishes and exits; a second command creates its own lock; the abandon's probe
  finds the first one's process gone, and it removes the lock of the second and creates one:
  both hold a guard. Nobody was killed, and one abandon is enough. ADR-0003 (line 44)
  excludes two processes on one release.
- `journal_torn`: `append_line` (`cli/sys.rs:1366`) writes a line and its newline
  separately. A kill between them leaves a line that still parses, and the next process
  opens the log; its append continues on that line, and when it stops the log never parses
  again. The module documentation (`core/release/journal.rs:24`) promises clean recovery
  from a crash anywhere. The machine of this run writes every line whole, so nothing but the
  missing newline is at fault; a line that a kill cuts in half is unreadable at once
  (`TearsLines`, in run `commands`).
- `foreign`: without a receipt `resume` adopts whatever occupies the version
  (`core/release/resume.rs:438`). The publish path authenticates the digest of an existing
  version and claims to close the last such path (`core/release/adapters/cargo.rs:442`).
- `tap_late`: release 1 is interrupted, release 2 reaches the tap, release 1 is resumed. It
  clones the newer formula, sees that it differs from its own, and pushes the older one
  (`core/release/adapters/homebrew.rs:536`). The issue that describes this downgrade
  (`issues/homebrew-publish-resume-idempotency/item.md`) was closed with the remark that
  both scenarios left "fail closed today".

- `contract_evidence`: `check_cargo_publish_evidence` looks at manifests only when the
  contract's ecosystems name rust (`core/contract/normalize.rs:1546`). Ecosystems and
  targets are declared separately, so a crates.io target of a crate with `publish = false`
  passes, and fails after the tag instead of before it.
- `two_publishers`: `check_publisher_conflicts` compares targets that name a package
  (`core/contract/normalize.rs:1479`). A target without one is resolved by the plan to
  the only crate, and the same crate is left to CI by another target.
- `stale_member_version`: `apply_bump` sets the version of the root
  (`core/release/bump_exec.rs:188`). A member with a version of its own, equal to the
  workspace's when the plan is sealed, is released under the plan's version with the old
  one in its manifest.

## 7. What is not modelled

- Preflight (read-only, before a run exists), the stale-binary warning, the recovery window
  of `enforce_shipshape_recovery_window`.
- The npm, PyPI, Go and binary adapters: their targets are resolved in `ReleasePlan` and
  verified in `DelegatedVerify`, their commands are not modelled. One hazard of the binary
  adapter is in PROJECT.json without a property.
- Journals of schema 1 to 4, whose terminal barrier was another; the cancelled-target
  event, which nothing emits.
- Text: manifests are records of sections and declarations, the changelog is a record
  of what is pending and released, workflow scripts are what the reader makes of them,
  versions are X.Y.Z, licenses are names. Reports and formulas have no wording.
- Wall-clock durations: a deadline may pass at any time (`DelegatedVerify` counts).
- pid reuse; collection of the bump commit by git: the model's commits are permanent and
  the code fails closed when the commit is missing.
- The formula bump through `brew` for a tap of others: `HomebrewTap` has the configured tap.
- In `DelegatedVerify`: the two records of an attempt that ends early are one step; a
  target of the engine without a receipt; the report without a stored plan.
- In `ReleasePlan`: the reading of distribution metadata beyond what expands targets; manifests that
  are not TOML, whose pins the planner refuses to seal (`release/plan.rs:794`).
- Warnings and deprecated keys of the contract; badges, docs and license detection in
  the facts; audit, publicize and dist reports; the command line and its output.

Observed while modelling, without being findings: `cut` keeps a comment about a
flag-driven fallback for plans missing from the store (`cli/release.rs` near 1931) while
the reload under the lock refuses them; some `protocol/journal.rs` comments still call `Dist` the
terminal barrier. Further, by component:

- `CargoPublish`: two overlapping cuts of a crate that CI publishes may both take the one
  publish for theirs; the baseline tells new from old, not whose.
- `Contract`: a check near `normalize.rs:1637` calls itself a floor and only warns.
  `versioning_pattern` is a field of the contract and no known key, against the remark
  that the list of keys must stay in sync with the fields (`normalize.rs:52`). Read
  back, a canonical form therefore has it as a field and among its extra fields; the canonical
  form of that has it in two places and is refused (`normalize.rs:1927`), against the remark
  that the extra fields round-trip (`normalize.rs:61`). `CanonicalReadsBack` leaves out contracts
  that have it among their extra fields.
- `ReleasePlan`: the description is not part of the seal (`protocol/plan.rs:34`), so the
  formula's text may change between approval and cut; `ExecutesTheApproved` leaves it out.
  That a dirty tree can be planned is documented (`plan.rs:58`).
- `Facts` and `DelegatedVerify`: the plan follows reusable workflows to a `cargo publish`,
  the barrier follows direct commands and helper scripts only. A repository that
  publishes through a called workflow is planned without a warning and never verified.
- `Facts`: a registry dependency is never an edge, even if it shares a member's name
  (`facts/mod.rs:1083`), but `lib.workspace = true` is one also when the workspace's own `lib` is
  a registry crate (`facts/mod.rs:1230`). The order then has one constraint too many, and a false
  circle if the member needs its heir. `EdgesAreTheDependencies` names this exception
  (`InheritsARegistryCrate`).
- `Facts`: a renamed dependency in dotted keys is no edge; the own pins of a root package
  are not scanned, nor rewritten by the bump; `member_publishable_to_crates_io` takes an
  inherited `publish.workspace = true` for publishable.
- `Bump`: the executor's reader of the members ignores `exclude`, a bare `*` and commented
  entries; the properties name the disagreement (`SameManifest`) and a bump stops there. A
  virtual workspace without a version of its own seals a plan its cut always refuses.
- `DelegatedVerify`: once a registry answered, an outage for the rest of the window keeps
  `missing`; a failed wait overwrites an earlier `matches` by `unknown`; adapters without
  a known workflow are verified at their destination alone.

## 8. Plan

Done, in the order of importance: `RunState`, `ReleaseCut` (with `Release`), `RunJournal`,
`CutLock`, `PlanStore`, `HomebrewTap`, the proofs about `ReleaseCut`; then
`CargoPublish`, `DelegatedVerify`, `ReleasePlan`, `Contract`, `Facts`, `Bump`, `SkillInstall`
and the modules that check them together.

Theorems: first those about `ReleaseCut`, then the invariants and action
properties of `CutLock`, `RunJournal`, `PlanStore`, `SkillInstall`, `HomebrewTap`,
`CargoPublish`, `DelegatedVerify`, `ReleasePlan`, `Contract`, `Facts` and `Bump`. None of the
runs' safety properties is left; the next theorems are those of the next modules.

Next modules: the npm, PyPI, Go and binary adapters, which publish without a probe and
keep their list of assets in memory; preflight; the publicize order and the audit's rules
over facts; the dist report.
