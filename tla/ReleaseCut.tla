----------------------------- MODULE ReleaseCut -----------------------------
(***************************************************************************)
(* One release run: the coordinator's phase barriers (coordinator.rs), the *)
(* `release resume' reconcile (resume.rs) and `release abandon', against a *)
(* world of registries, git refs and tag-triggered CI that other parties   *)
(* change at any time.  An effect on the world and the journal event that  *)
(* records it are two steps, so a crash may fall between them; everything  *)
(* the process holds in memory is the variable `proc' and is lost then.    *)
(*                                                                         *)
(* The single-active-cut lock (module CutLock) is why there is one `proc'. *)
(***************************************************************************)
EXTENDS RunState

CONSTANTS Class,          \* target -> "engine", "delegated" or "posttag"
          Deps,           \* engine target -> engine targets it depends on
          Watched,        \* delegated targets with a GitHub workflow to wait for
          NeedsAssets,    \* do the post-tag targets need assets that CI builds?
          HasBump,        \* is this a --bump plan?
          Advances,       \* does the sealed plan carry the advance-branch phase?
          Dispositions,   \* the Release dispositions the binaries at hand derive
          PriorTags,      \* what may sit at the release's tag name at the start
          ForeignTargets, \* engine targets whose version someone else may take
          VanishTargets,  \* targets whose artifact may be withdrawn (yanked)
          Foreign,        \* content that is not of this release
          MaxFaults       \* bound on crashes, outages and failed commands

ASSUME ClassAssumption  == Class \in [Target -> {"engine", "delegated", "posttag"}]

EngineTargets  == {t \in Target : Class[t] = "engine"}
CiTargets      == {t \in Target : Class[t] = "delegated"}
PostTagTargets == {t \in Target : Class[t] = "posttag"}

ASSUME DepsAssumption == /\ Deps \in [Target -> SUBSET EngineTargets]
                         /\ \A t \in Target : \A d \in Deps[t] : d < t
ASSUME SetsAssumption == /\ Watched \subseteq CiTargets
                         /\ ForeignTargets \subseteq EngineTargets
                         /\ VanishTargets \subseteq Target
                         /\ Dispositions \subseteq {"engine", "ci", "tag_only"}
                         /\ PriorTags \subseteq {NoCommit, Foreign}
                         /\ {NeedsAssets, HasBump, Advances} \subseteq BOOLEAN
                         /\ MaxFaults \in Nat
\* Journals since schema 5: the run completes with its plan's last barrier.
ASSUME ScheduleAssumption == TerminalPhase = IF Advances THEN AdvanceBranch ELSE Verify
ASSUME ForeignAssumption == Foreign \notin Nat /\ Foreign # NoCommit

VARIABLES run,        \* the journal's projection (durable)
          proc,       \* the process executing the run, if any (volatile)
          commits,    \* number of bump commits made in sealed checkouts
          artifact,   \* target -> the content that occupies its version
          visible,    \* targets whose registry answers that the version exists
          localTag, remoteTag,
          gh,         \* who created the GitHub Release: "none", "engine", "ci"
          ci,         \* the tag-triggered workflow
          branch,     \* remote default branch against the release commit
          faults

vars == <<run, proc, commits, artifact, visible, localTag, remoteTag,
          gh, ci, branch, faults>>
refs == <<localTag, remoteTag, gh, branch>>

-----------------------------------------------------------------------------
(* The process.                                                            *)

Steps == {"idle", "adopt", "checkout", "enter", "work", "applied", "uploaded",
          "tagged", "tag_pushed", "released", "fetch", "written",
          "owners", "owner_failed", "poll", "advanced"}

\* No process holds the run.
Idle == [step |-> "idle", phase |-> Bump, barrier |-> TRUE, todo |-> {},
         adopt |-> {}, seen |-> {}, bad |-> FALSE, checkout |-> NoCommit,
         release |-> "none"]

\* The commit the run releases: its recorded bump commit, else the sealed head.
Commit == IF run.bump # NoCommit THEN run.bump ELSE SealedHead

At(step, phase) == proc.step = step /\ proc.phase = phase

\* Targets the phase's loop has still to process; recorded ones are skipped.
Pending(p) ==
  {t \in Target :
     \/ p = DryRun  /\ t \notin run.dryRun
     \/ p = Build   /\ t \notin run.built
     \/ p = Publish /\ t \notin PostTagTargets \cup run.published \cup run.delegated
     \/ p = Dist    /\ t \in PostTagTargets \ run.published
     \/ p = Verify  /\ t \in proc.todo \ run.verified}

\* Seeded fault: a loop in any order.
IsAnyOf(p, t) == t \in Pending(p)

\* The loops follow plan order and stop at the first failure.
IsNext(p, t) == t \in Pending(p) /\ \A u \in Pending(p) : t <= u

Record(e) == run' = Apply(run, e)

Spend == faults < MaxFaults /\ faults' = faults + 1

\* Seeded fault: the last barrier has a successor.
NextPhaseEndless(p) ==
  IF ~proc.barrier THEN Idle ELSE [proc EXCEPT !.step = "enter", !.phase = p + 1]

\* Leave a completed (or skipped) barrier for the next one.
NextPhase(p) ==
  IF p = AdvanceBranch \/ ~proc.barrier
  THEN Idle
  ELSE [proc EXCEPT !.step = "enter", !.phase = p + 1]

\* Seeded fault: a failed publish barrier does not stop the coordinator.
FailPhaseAndTag(p) ==
  /\ Record(PhaseCompleted(p, "failed"))
  /\ proc' = IF p = Publish THEN NextPhase(p) ELSE Idle

\* fail_phase: journal the failure and stop, except that a failed dist barrier
\* is followed by an observation-only verify.
FailPhase(p) ==
  /\ Record(PhaseCompleted(p, "failed"))
  /\ proc' = IF p = Dist
             THEN [proc EXCEPT !.step = "enter", !.phase = Verify, !.barrier = FALSE]
             ELSE Idle

-----------------------------------------------------------------------------
Init ==
  /\ run = CreatedRun
  /\ proc = [Idle EXCEPT !.step = "checkout"]
  /\ commits = 0
  /\ artifact = [t \in Target |-> NoCommit]
  /\ visible = {}
  /\ localTag \in PriorTags
  /\ remoteTag \in PriorTags
  /\ gh = "none"
  /\ ci = "absent"
  /\ branch = "behind"
  /\ faults = 0

-----------------------------------------------------------------------------
(* execute: checkout, then the barriers.                                   *)

\* Seeded fault: always the sealed head, also after a recorded bump.
MaterializeHead ==
  /\ proc.step = "checkout"
  /\ \E d \in Dispositions :
       proc' = [proc EXCEPT !.step = "enter", !.checkout = SealedHead, !.release = d]
  /\ UNCHANGED <<run, commits, artifact, visible, refs, ci, faults>>

\* The sealed checkout is made at the commit the journal names.
Materialize ==
  /\ proc.step = "checkout"
  /\ \E d \in Dispositions :
       proc' = [proc EXCEPT !.step = "enter", !.checkout = Commit, !.release = d]
  /\ UNCHANGED <<run, commits, artifact, visible, refs, ci, faults>>

\* The commit is not in the object store, or `git worktree add' fails: nothing
\* is journaled.
CheckoutFails ==
  /\ proc.step = "checkout"
  /\ Spend
  /\ proc' = Idle
  /\ UNCHANGED <<run, commits, artifact, visible, refs, ci>>

\* Seeded fault: a barrier that was ever closed is skipped.
SkippedOnceClosed(p) ==
  \/ run.phases[p] # "none"
  \/ p = Bump /\ ~HasBump
  \/ p = AdvanceBranch /\ ~Advances

Skipped(p) ==
  \/ run.phases[p] = "ok"
  \/ p = Bump /\ ~HasBump
  \/ p = AdvanceBranch /\ ~Advances

SkipPhase ==
  /\ proc.step = "enter"
  /\ Skipped(proc.phase)
  /\ proc' = NextPhase(proc.phase)
  /\ UNCHANGED <<run, commits, artifact, visible, refs, ci, faults>>

\* The tag archive and the assets are fetched for any plan with a post-tag
\* target, and only the completion barrier waits for the workflow owners.
FirstStep(p) ==
  IF p = Dist /\ PostTagTargets # {} THEN "fetch"
  ELSE IF p = Verify /\ proc.barrier THEN "owners" ELSE "work"

EnterPhase ==
  /\ proc.step = "enter"
  /\ ~Skipped(proc.phase)
  /\ Record(PhaseEntered(proc.phase))
  /\ proc' = [proc EXCEPT !.step = FirstStep(proc.phase),
                          !.todo = IF proc.phase = Verify THEN Target ELSE {}]
  /\ UNCHANGED <<commits, artifact, visible, refs, ci, faults>>

\* Seeded fault: only an engine-created Release is noticed.
ContradictionOneWay == proc.release = "ci" /\ run.releaseCreated

\* A disposition other than the one this attempt derived is already recorded.
Contradiction ==
  \/ proc.release = "ci" /\ run.releaseCreated
  \/ proc.release = "engine" /\ run.releaseDelegated
  \/ proc.release = "tag_only" /\ (run.releaseCreated \/ run.releaseDelegated)

\* The Release step has nothing (more) to do, or refuses to do anything.
ReleaseSettled ==
  \/ Contradiction
  \/ /\ proc.release = "engine" => run.releaseCreated
     /\ proc.release = "ci" => run.releaseDelegated

\* All the phase's facts are recorded.
PhaseDone(p) ==
  /\ Pending(p) = {}
  /\ p = Bump => run.bump # NoCommit
  /\ p = Tag => run.tagCreated /\ run.tagPushed /\ ReleaseSettled
  /\ p = AdvanceBranch => run.branchSelected /\ run.advanced # NoCommit

\* Seeded fault: verify observes, and completes whatever it observed.
OutcomeLenient(p) ==
  IF (p = Tag /\ Contradiction) \/ (p = AdvanceBranch /\ run.advanced # Commit)
  THEN "failed" ELSE "ok"

\* Whether a barrier whose facts are recorded completes Ok.
Outcome(p) ==
  IF \/ p = Tag /\ Contradiction
     \/ p = Verify /\ (proc.bad \/ ~proc.barrier)
     \/ p = AdvanceBranch /\ run.advanced # Commit
  THEN "failed" ELSE "ok"

CompletePhase ==
  /\ proc.step = "work"
  /\ LET p == proc.phase IN
       /\ PhaseDone(p)
       /\ IF Outcome(p) = "ok"
          THEN Record(PhaseCompleted(p, "ok")) /\ proc' = NextPhase(p)
          ELSE FailPhase(p)
  /\ UNCHANGED <<commits, artifact, visible, refs, ci, faults>>

\* A command of the phase fails without an effect: an adapter's dry run or
\* build, a registry outage at the publish probe, a git or gh error, ...
CommandFails ==
  /\ proc.step \in {"work", "fetch"}
  /\ proc.phase # Verify
  /\ ~PhaseDone(proc.phase) \/ proc.step = "fetch"
  /\ proc.phase = Publish => \E t \in EngineTargets : IsNext(Publish, t)
  /\ proc.phase = Tag /\ run.tagPushed => proc.release = "engine"
  /\ Spend
  /\ FailPhase(proc.phase)
  /\ UNCHANGED <<commits, artifact, visible, refs, ci>>

\* A command had its effect and is reported as failed all the same.
EffectReportedFailed ==
  /\ proc.step \in {"applied", "uploaded", "tagged", "tag_pushed", "released",
                    "written", "advanced"}
  /\ Spend
  /\ FailPhase(proc.phase)
  /\ UNCHANGED <<commits, artifact, visible, refs, ci>>

-----------------------------------------------------------------------------
(* bump, dry-run-all, build-all                                            *)

\* Re-applied only while no bump commit is recorded; the checkout moves to it.
ApplyBump ==
  /\ At("work", Bump)
  /\ run.bump = NoCommit
  /\ commits' = commits + 1
  /\ proc' = [proc EXCEPT !.step = "applied", !.checkout = commits + 1]
  /\ UNCHANGED <<run, artifact, visible, refs, ci, faults>>

RecordBump ==
  /\ proc.step = "applied"
  /\ Record(BumpApplied(proc.checkout))
  /\ proc' = [proc EXCEPT !.step = "work"]
  /\ UNCHANGED <<commits, artifact, visible, refs, ci, faults>>

DryRunTarget(t) ==
  /\ At("work", DryRun)
  /\ IsNext(DryRun, t)
  /\ Record(TargetDryRun(t))
  /\ UNCHANGED <<proc, commits, artifact, visible, refs, ci, faults>>

BuildTarget(t) ==
  /\ At("work", Build)
  /\ IsNext(Build, t)
  /\ Record(TargetBuilt(t))
  /\ UNCHANGED <<proc, commits, artifact, visible, refs, ci, faults>>

-----------------------------------------------------------------------------
(* publish-all                                                             *)

Publishing(t) == At("work", Publish) /\ IsNext(Publish, t)

\* A CI-delegated target is journaled and skipped, whatever the registry says.
DelegateTarget(t) ==
  /\ Publishing(t)
  /\ t \in CiTargets
  /\ Record(TargetDelegated(t))
  /\ UNCHANGED <<proc, commits, artifact, visible, refs, ci, faults>>

\* The version is on the registry already: its digest must be this checkout's.
AuthenticateSkip(t) ==
  /\ Publishing(t)
  /\ t \in EngineTargets \cap visible
  /\ IF artifact[t] = proc.checkout
     THEN Record(TargetPublished(t)) /\ UNCHANGED proc
     ELSE FailPhase(Publish)
  /\ UNCHANGED <<commits, artifact, visible, refs, ci, faults>>

\* The registry does not list the version.  The dependencies must be indexed
\* and the version free; otherwise the wait or the upload fails.
Upload(t) ==
  /\ Publishing(t)
  /\ t \in EngineTargets \ visible
  /\ IF Deps[t] \subseteq visible /\ artifact[t] = NoCommit
     THEN /\ artifact' = [artifact EXCEPT ![t] = proc.checkout]
          /\ proc' = [proc EXCEPT !.step = "uploaded"]
          /\ UNCHANGED run
     ELSE FailPhase(Publish) /\ UNCHANGED artifact
  /\ UNCHANGED <<commits, visible, refs, ci, faults>>

\* The publish command exits 0 and has uploaded nothing.
NoOpUpload(t) ==
  /\ Publishing(t)
  /\ t \in EngineTargets \ visible
  /\ Spend
  /\ proc' = [proc EXCEPT !.step = "uploaded"]
  /\ UNCHANGED <<run, commits, artifact, visible, refs, ci>>

\* A receipt needs the version to be visible; the wait for it may time out.
ConfirmUpload(t) ==
  /\ proc.step = "uploaded"
  /\ IsNext(Publish, t)
  /\ \/ /\ t \in visible
        /\ Record(TargetPublished(t))
        /\ proc' = [proc EXCEPT !.step = "work"]
     \/ /\ t \notin visible
        /\ FailPhase(Publish)
  /\ UNCHANGED <<commits, artifact, visible, refs, ci, faults>>

-----------------------------------------------------------------------------
(* tag-once                                                                *)

\* Seeded fault: an existing tag is always refused.
CreateTagOnce ==
  /\ At("work", Tag)
  /\ ~run.tagCreated
  /\ IF localTag = NoCommit
     THEN /\ localTag' = Commit
          /\ proc' = [proc EXCEPT !.step = "tagged"]
          /\ UNCHANGED run
     ELSE FailPhase(Tag) /\ UNCHANGED localTag
  /\ UNCHANGED <<commits, artifact, visible, remoteTag, gh, branch, ci, faults>>

\* `create_tag' accepts a tag that already sits at the commit, nothing else.
CreateTag ==
  /\ At("work", Tag)
  /\ ~run.tagCreated
  /\ IF localTag \in {NoCommit, Commit}
     THEN /\ localTag' = Commit
          /\ proc' = [proc EXCEPT !.step = "tagged"]
          /\ UNCHANGED run
     ELSE FailPhase(Tag) /\ UNCHANGED localTag
  /\ UNCHANGED <<commits, artifact, visible, remoteTag, gh, branch, ci, faults>>

RecordTag ==
  /\ proc.step = "tagged"
  /\ Record(TagCreatedLocal)
  /\ proc' = [proc EXCEPT !.step = "work"]
  /\ UNCHANGED <<commits, artifact, visible, refs, ci, faults>>

PushTag ==
  /\ At("work", Tag)
  /\ run.tagCreated /\ ~run.tagPushed
  /\ IF remoteTag \in {NoCommit, localTag}
     THEN /\ remoteTag' = localTag
          /\ proc' = [proc EXCEPT !.step = "tag_pushed"]
          /\ UNCHANGED run
     ELSE FailPhase(Tag) /\ UNCHANGED remoteTag
  /\ UNCHANGED <<commits, artifact, visible, localTag, gh, branch, ci, faults>>

RecordPush ==
  /\ proc.step = "tag_pushed"
  /\ Record(TagPushedRemote)
  /\ proc' = [proc EXCEPT !.step = "work"]
  /\ UNCHANGED <<commits, artifact, visible, refs, ci, faults>>

\* The Release step's turn: both tag steps recorded, its own fact not.
Releasing(d) == /\ At("work", Tag)
                /\ run.tagCreated /\ run.tagPushed
                /\ ~ReleaseSettled
                /\ proc.release = d

\* An existing Release is returned as it is.
CreateRelease ==
  /\ Releasing("engine")
  /\ gh' = IF gh = "none" THEN "engine" ELSE gh
  /\ proc' = [proc EXCEPT !.step = "released"]
  /\ UNCHANGED <<run, commits, artifact, visible, localTag, remoteTag, branch, ci, faults>>

RecordRelease ==
  /\ proc.step = "released"
  /\ Record(GithubReleaseCreated)
  /\ proc' = [proc EXCEPT !.step = "work"]
  /\ UNCHANGED <<commits, artifact, visible, refs, ci, faults>>

DelegateRelease ==
  /\ Releasing("ci")
  /\ Record(GithubReleaseDelegated)
  /\ UNCHANGED <<proc, commits, artifact, visible, refs, ci, faults>>

-----------------------------------------------------------------------------
(* dist: post-tag targets                                                  *)

\* Fetch and hash the tag archive and the binaries; a CI that has not uploaded
\* them yet outlasts the fetch's attempts.
FetchInputs ==
  /\ At("fetch", Dist)
  /\ IF NeedsAssets => ci = "success"
     THEN proc' = [proc EXCEPT !.step = "work"] /\ UNCHANGED run
     ELSE FailPhase(Dist)
  /\ UNCHANGED <<commits, artifact, visible, refs, ci, faults>>

\* Push the formula of the tag archive; a tap that already has it is a no-op.
WriteFormula(t) ==
  /\ At("work", Dist)
  /\ IsNext(Dist, t)
  /\ artifact' = [artifact EXCEPT ![t] = remoteTag]
  /\ proc' = [proc EXCEPT !.step = "written"]
  /\ UNCHANGED <<run, commits, visible, refs, ci, faults>>

RecordFormula(t) ==
  /\ proc.step = "written"
  /\ IsNext(Dist, t)
  /\ Record(TargetPublished(t))
  /\ proc' = [proc EXCEPT !.step = "work"]
  /\ UNCHANGED <<commits, artifact, visible, refs, ci, faults>>

-----------------------------------------------------------------------------
(* verify                                                                  *)

\* Recorded as CI-delegated and with a workflow run that can be watched.
Owners == run.delegated \cap Watched

\* The completion barrier waits for the owners' workflow.  A failed or missing
\* run, one still running at the deadline, or an outage fails the barrier.
OwnersReady ==
  /\ proc.step = "owners"
  /\ Owners = {} \/ ci = "success"
  /\ proc' = [proc EXCEPT !.step = "poll"]
  /\ UNCHANGED <<run, commits, artifact, visible, refs, ci, faults>>

OwnersNotReady ==
  /\ proc.step = "owners"
  /\ \E t \in Owners :
       /\ \A u \in Owners : t <= u
       /\ Record(TargetVerified(t, FALSE))
  /\ \/ ci # "success" /\ UNCHANGED faults
     \/ ci = "success" /\ Spend
  /\ proc' = [proc EXCEPT !.step = "owner_failed"]
  /\ UNCHANGED <<commits, artifact, visible, refs, ci>>

OwnerFailureStops ==
  /\ proc.step = "owner_failed"
  /\ FailPhase(Verify)
  /\ UNCHANGED <<commits, artifact, visible, refs, ci, faults>>

\* One round over the delegated destinations.  A destination that matched once
\* stays settled; the barrier moves on when all are, or at the deadline.
PollRound ==
  /\ proc.step = "poll"
  /\ LET due     == run.delegated \ run.verified
         settled == proc.seen \cup (due \cap visible)
     IN  \/ proc' = [proc EXCEPT !.seen = settled, !.step = "work"]
         \/ ~(due \subseteq settled) /\ proc' = [proc EXCEPT !.seen = settled]
  /\ UNCHANGED <<run, commits, artifact, visible, refs, ci, faults>>

\* What verify concludes of a target when everything can be observed.
Observed(t) ==
  IF t \in run.delegated
  THEN IF proc.barrier THEN t \in proc.seen
       ELSE t \in visible /\ (t \in Watched => ci = "success")
  ELSE t \in run.published /\ t \in visible

\* Every target not yet verified gets an outcome; the first failure is kept.
VerifyTarget(t) ==
  /\ At("work", Verify)
  /\ IsNext(Verify, t)
  /\ \E matches \in BOOLEAN :
       /\ \/ matches = Observed(t) /\ UNCHANGED faults
          \/ Observed(t) /\ ~matches /\ Spend
       /\ Record(TargetVerified(t, matches))
       /\ proc' = [proc EXCEPT !.todo = @ \ {t}, !.bad = @ \/ ~matches]
  /\ UNCHANGED <<commits, artifact, visible, refs, ci>>

-----------------------------------------------------------------------------
(* advance-branch                                                          *)

SelectBranch ==
  /\ At("work", AdvanceBranch)
  /\ ~run.branchSelected
  /\ Record(DefaultBranchSelected)
  /\ UNCHANGED <<proc, commits, artifact, visible, refs, ci, faults>>

\* A fast-forward push, or nothing if the branch has the commit already; a
\* diverged branch is refused.
Advance ==
  /\ At("work", AdvanceBranch)
  /\ run.branchSelected /\ run.advanced = NoCommit
  /\ IF branch # "diverged"
     THEN /\ branch' = "contains"
          /\ proc' = [proc EXCEPT !.step = "advanced"]
          /\ UNCHANGED run
     ELSE FailPhase(AdvanceBranch) /\ UNCHANGED branch
  /\ UNCHANGED <<commits, artifact, visible, localTag, remoteTag, gh, ci, faults>>

RecordAdvance ==
  /\ proc.step = "advanced"
  /\ Record(DefaultBranchAdvanced(Commit))
  /\ proc' = [proc EXCEPT !.step = "work"]
  /\ UNCHANGED <<commits, artifact, visible, refs, ci, faults>>

-----------------------------------------------------------------------------
(* resume, abandon, crash                                                  *)

\* What the read-only adapter query says of a target, `down' being those whose
\* registry does not answer.  A post-tag target without a receipt has no URL
\* to look at.
RemoteOutcome(t, down) ==
  IF t \in down \/ (t \in PostTagTargets /\ t \notin run.published) THEN "unknown"
  ELSE IF t \in visible THEN "matches" ELSE "missing"

ResumeAction(t, down, allow) ==
  IF t \in run.delegated \cup CiTargets THEN "delegated"
  ELSE Classify(t \in run.published, RemoteOutcome(t, down), allow, PublishReached(run))

\* A blocked resume changes nothing.
Resume(allow, down) ==
  /\ proc.step = "idle"
  /\ run.status = "in_progress"
  /\ \A t \in Target : ~IsBlocker(ResumeAction(t, down, allow))
  /\ IF down = {} THEN UNCHANGED faults ELSE Spend
  /\ proc' = [Idle EXCEPT !.step  = "adopt",
                          !.adopt = {t \in Target : ResumeAction(t, down, allow) = "adopt"}]
  /\ UNCHANGED <<run, commits, artifact, visible, refs, ci>>

\* Adoptions are journaled one by one, in plan order.
Adopt ==
  /\ proc.step = "adopt"
  /\ IF proc.adopt = {}
     THEN proc' = [proc EXCEPT !.step = "checkout"] /\ UNCHANGED run
     ELSE \E t \in proc.adopt :
            /\ \A u \in proc.adopt : t <= u
            /\ Record(TargetPublished(t))
            /\ proc' = [proc EXCEPT !.adopt = @ \ {t}]
  /\ UNCHANGED <<commits, artifact, visible, refs, ci, faults>>

\* Seeded fault: no lock between the coordinator and abandon.
AbandonUnderWay ==
  /\ run.status = "in_progress"
  /\ Record(RunAbandoned)
  /\ UNCHANGED <<proc, commits, artifact, visible, refs, ci, faults>>

Abandon ==
  /\ proc.step = "idle"
  /\ run.status = "in_progress"
  /\ Record(RunAbandoned)
  /\ UNCHANGED <<proc, commits, artifact, visible, refs, ci, faults>>

\* The process dies, or stops because the journal cannot be written.
Crash ==
  /\ proc.step # "idle"
  /\ Spend
  /\ proc' = Idle
  /\ UNCHANGED <<run, commits, artifact, visible, refs, ci>>

-----------------------------------------------------------------------------
(* The world.                                                              *)

\* A registry's index, or a tap's served file, catches up with its content.
Index(t) ==
  /\ artifact[t] # NoCommit /\ t \notin visible
  /\ visible' = visible \cup {t}
  /\ UNCHANGED <<run, proc, commits, artifact, refs, ci, faults>>

Withdraw(t) ==
  /\ t \in VanishTargets \cap visible
  /\ Spend
  /\ visible' = visible \ {t}
  /\ UNCHANGED <<run, proc, commits, artifact, refs, ci>>

\* Someone else publishes the version first.
PublishForeign(t) ==
  /\ t \in ForeignTargets /\ artifact[t] = NoCommit
  /\ artifact' = [artifact EXCEPT ![t] = Foreign]
  /\ UNCHANGED <<run, proc, commits, visible, refs, ci, faults>>

\* The pushed tag triggers the workflow; a human re-runs a failed one.
CiStart ==
  /\ \/ ci = "absent" /\ CiTargets # {} /\ remoteTag \notin {NoCommit, Foreign}
     \/ ci = "failed"
  /\ ci' = "running"
  /\ UNCHANGED <<run, proc, commits, artifact, visible, refs, faults>>

\* It publishes the delegated targets from the tag.
CiPublish(t) ==
  /\ ci = "running"
  /\ t \in CiTargets /\ artifact[t] = NoCommit
  /\ artifact' = [artifact EXCEPT ![t] = remoteTag]
  /\ UNCHANGED <<run, proc, commits, visible, refs, ci, faults>>

\* It owns the Release where some binary delegates it, and finishes last.
CiSucceed ==
  /\ ci = "running"
  /\ \A t \in CiTargets : artifact[t] # NoCommit
  /\ ci' = "success"
  /\ gh' = IF "ci" \in Dispositions /\ gh = "none" THEN "ci" ELSE gh
  /\ UNCHANGED <<run, proc, commits, artifact, visible, localTag, remoteTag, branch, faults>>

CiFail ==
  /\ ci = "running"
  /\ Spend
  /\ ci' = "failed"
  /\ UNCHANGED <<run, proc, commits, artifact, visible, refs>>

\* Others push to the default branch; a human merges the release commit.
Diverge ==
  /\ branch = "behind"
  /\ Spend
  /\ branch' = "diverged"
  /\ UNCHANGED <<run, proc, commits, artifact, visible, localTag, remoteTag, gh, ci>>

MergeRelease ==
  /\ branch = "diverged"
  /\ branch' = "contains"
  /\ UNCHANGED <<run, proc, commits, artifact, visible, localTag, remoteTag, gh, ci, faults>>

-----------------------------------------------------------------------------
\* The steps the process takes by itself.
Coordinate ==
  \/ Materialize \/ SkipPhase \/ EnterPhase \/ CompletePhase
  \/ ApplyBump \/ RecordBump
  \/ \E t \in Target : \/ DryRunTarget(t) \/ BuildTarget(t)
                       \/ DelegateTarget(t) \/ AuthenticateSkip(t)
                       \/ Upload(t) \/ ConfirmUpload(t)
                       \/ WriteFormula(t) \/ RecordFormula(t)
                       \/ VerifyTarget(t)
  \/ CreateTag \/ RecordTag \/ PushTag \/ RecordPush
  \/ CreateRelease \/ RecordRelease \/ DelegateRelease
  \/ FetchInputs
  \/ OwnersReady \/ OwnersNotReady \/ OwnerFailureStops \/ PollRound
  \/ SelectBranch \/ Advance \/ RecordAdvance
  \/ Adopt

Operate == \/ \E allow \in BOOLEAN, down \in SUBSET Target : Resume(allow, down)
           \/ Abandon

Fault == \/ CheckoutFails \/ CommandFails \/ EffectReportedFailed \/ Crash
         \/ \E t \in Target : NoOpUpload(t)

World == \/ \E t \in Target : Index(t) \/ Withdraw(t) \/ PublishForeign(t) \/ CiPublish(t)
         \/ CiStart \/ CiSucceed \/ CiFail \/ Diverge \/ MergeRelease

Next == Coordinate \/ Operate \/ Fault \/ World

Spec == Init /\ [][Next]_vars

\* The process does not idle by itself, the operator resumes an interrupted run
\* with the go-ahead it asks for, and registries, CI and merges make progress.
Fairness ==
  /\ WF_vars(Coordinate)
  /\ WF_vars(Resume(TRUE, {}))
  /\ \A t \in Target : WF_vars(Index(t)) /\ WF_vars(CiPublish(t))
  /\ WF_vars(CiStart) /\ WF_vars(CiSucceed) /\ WF_vars(MergeRelease)

FairSpec == Spec /\ Fairness

-----------------------------------------------------------------------------
Process == [ step     : Steps,
             phase    : Phase,
             barrier  : BOOLEAN,
             todo     : SUBSET Target,
             adopt    : SUBSET Target,
             seen     : SUBSET Target,
             bad      : BOOLEAN,
             checkout : Nat \cup {NoCommit},
             release  : Dispositions \cup {"none"} ]

WorldTypeOK ==
  /\ commits \in Nat
  /\ artifact \in [Target -> Nat \cup {NoCommit, Foreign}]
  /\ visible \in SUBSET Target
  /\ localTag \in Nat \cup {NoCommit, Foreign}
  /\ remoteTag \in Nat \cup {NoCommit, Foreign}
  /\ gh \in {"none", "engine", "ci"}
  /\ ci \in {"absent", "running", "success", "failed"}
  /\ branch \in {"behind", "contains", "diverged"}
  /\ faults \in Nat

TypeOK == run \in RunState /\ proc \in Process /\ WorldTypeOK

-----------------------------------------------------------------------------
(* Safety.                                                                 *)

\* Content that this release put there.
Ours(c) == c \in Nat

\* Landed on the registry by this run, without a receipt in the journal.
Unreceipted == {t \in EngineTargets : Ours(artifact[t]) /\ t \notin run.published}

\* Nothing irreversible leaves before every target has passed its dry run and
\* its build, across any crash, resume and partial phase (execute's barriers).
BuildBarrier ==
  \A t \in Target : Ours(artifact[t]) => run.dryRun = Target /\ run.built = Target

\* A receipt always has content behind it: an upload that shipped nothing, an
\* outage or an adoption never yields one (publish, reconcile_for_resume).
ReceiptIsBacked == \A t \in run.published : artifact[t] # NoCommit

\* The public tag exists only when every engine-published target is out and
\* receipted (tag-once, "only after every publish succeeded").
TagBarrier == Ours(remoteTag) => EngineTargets \subseteq run.published

\* One commit is built, published, tagged and merged, and it is the journaled
\* one, whatever attempts a --bump run took (execute, bump_phase, tag_phase).
SingleCommit ==
  /\ \A t \in Target : Ours(artifact[t]) => artifact[t] = Commit
  /\ Ours(localTag) => localTag = Commit
  /\ Ours(remoteTag) => remoteTag = Commit
  /\ run.advanced # NoCommit => run.advanced = Commit
  /\ (\E t \in Target : Ours(artifact[t])) => (HasBump <=> run.bump # NoCommit)

\* Receipts are journaled before the next target is attempted, so a crash
\* leaves at most one landed target without a receipt: the first one missing.
AtMostOneUnreceipted ==
  \A t \in Unreceipted : \A u \in EngineTargets :
    u # t => u \notin Unreceipted /\ (u < t => u \in run.published)

\* `publish_phase_reached' errs on the safe side only: while it is false, an
\* unobservable target cannot have been published by this run.
ReachedSignalIsSafe ==
  ~PublishReached(run) => /\ \A t \in Target : ~Ours(artifact[t])
                          /\ ~Ours(remoteTag)

\* A completed run has everything out, the tag public, and, for a plan with
\* that phase, the release commit on the default branch.
CompletedMeansDelivered ==
  run.status = "completed" =>
    /\ \A t \in Target : artifact[t] # NoCommit
    /\ Ours(remoteTag)
    /\ Advances => branch = "contains"

\* The default branch is advanced only over a fully verified release.
AdvanceAfterVerify ==
  run.advanced # NoCommit => run.verified = Target /\ Ours(remoteTag)

\* The Release is either the coordinator's or CI's in the journal, even when
\* attempts derive different owners (tag_phase's contradiction check).
OneDisposition == ~(run.releaseCreated /\ run.releaseDelegated)

\* A completed run contains no content of someone else: the digest check on
\* an already-published version "fails CLOSED" (publish, authenticate_skip).
CompletedIsOurs ==
  run.status = "completed" => \A t \in Target : artifact[t] # Foreign

-----------------------------------------------------------------------------
(* Liveness and refinement.                                                *)

\* Faults stop, the operator resumes: the run reaches a terminal status.
Recovers == <>(run.status # "in_progress")

Abstract == INSTANCE Release
  WITH Engine   <- EngineTargets,
       FromTag  <- CiTargets \cup PostTagTargets,
       status   <- run.status,
       out      <- {t \in Target : artifact[t] # NoCommit},
       tagged   <- Ours(remoteTag),
       advanced <- run.advanced # NoCommit

\* Every step of the coordinator is a step of the abstract release.
ImplementsRelease == Abstract!Spec
=============================================================================
