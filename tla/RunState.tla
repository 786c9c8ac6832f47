------------------------------ MODULE RunState ------------------------------
(***************************************************************************)
(* The projection of a release run's journal: the record `RunState' of     *)
(* protocol/journal.rs, the events that change it, and the reducer `apply' *)
(* of release/journal.rs.  Constant-level: the state machines that append  *)
(* events (ReleaseCut, RunJournal) extend this module.                     *)
(*                                                                         *)
(* A target is its position in the plan's order, a commit is a natural     *)
(* number: 0 is the sealed `head_sha', k > 0 the k-th bump commit made.    *)
(***************************************************************************)
EXTENDS Naturals

CONSTANTS N,              \* number of targets of the plan
          TerminalPhase,  \* the barrier whose Ok completes the run
          NoCommit        \* "nothing recorded / nothing there"

ASSUME TargetsAssumption  == N \in Nat
ASSUME NoCommitAssumption == NoCommit \notin Nat

Target == 1..N

-----------------------------------------------------------------------------
(* The phase barriers, in the order the coordinator runs them.             *)

Bump          == 1
DryRun        == 2
Build         == 3
Publish       == 4
Tag           == 5
Dist          == 6
Verify        == 7
AdvanceBranch == 8

Phase == Bump..AdvanceBranch

NoPhase == 0   \* `current_phase = None'

ASSUME TerminalAssumption == TerminalPhase \in {Tag, Dist, Verify, AdvanceBranch}

IsPublishOrLater(p) == p >= Publish

SealedHead == 0   \* the plan's sealed commit

-----------------------------------------------------------------------------
(* The projection.  `published', `delegated', `dryRun' and `built' are the *)
(* key sets of the source's maps; `verified' is the set of targets whose   *)
(* last recorded outcome is Matches, the only outcome any code tests for.  *)
(* The tag fields are the four flags of `TagState' of the plan's one tag.  *)

RunState ==
  [ status           : {"in_progress", "completed", "abandoned"},
    current          : Phase \cup {NoPhase},
    phases           : [Phase -> {"none", "ok", "failed"}],
    bump             : Nat \cup {NoCommit},
    dryRun           : SUBSET Target,
    built            : SUBSET Target,
    published        : SUBSET Target,
    delegated        : SUBSET Target,
    verified         : SUBSET Target,
    tagCreated       : BOOLEAN,
    tagPushed        : BOOLEAN,
    releaseCreated   : BOOLEAN,
    releaseDelegated : BOOLEAN,
    branchSelected   : BOOLEAN,
    advanced         : Nat \cup {NoCommit} ]

\* The empty state and, as far as the model's fields go, what `run_created'
\* makes of it.
CreatedRun ==
  [ status           |-> "in_progress",
    current          |-> NoPhase,
    phases           |-> [p \in Phase |-> "none"],
    bump             |-> NoCommit,
    dryRun           |-> {},
    built            |-> {},
    published        |-> {},
    delegated        |-> {},
    verified         |-> {},
    tagCreated       |-> FALSE,
    tagPushed        |-> FALSE,
    releaseCreated   |-> FALSE,
    releaseDelegated |-> FALSE,
    branchSelected   |-> FALSE,
    advanced         |-> NoCommit ]

-----------------------------------------------------------------------------
(* The events the coordinator and the CLI append.                          *)

RunCreated               == [kind |-> "run_created"]
BumpApplied(c)           == [kind |-> "bump_applied", commit |-> c]
PhaseEntered(p)          == [kind |-> "phase_entered", phase |-> p]
PhaseCompleted(p, o)     == [kind |-> "phase_completed", phase |-> p, outcome |-> o]
TargetDryRun(t)          == [kind |-> "target_dry_run", target |-> t]
TargetBuilt(t)           == [kind |-> "target_built", target |-> t]
TargetPublished(t)       == [kind |-> "target_published", target |-> t]
TargetDelegated(t)       == [kind |-> "target_delegated", target |-> t]
TargetVerified(t, m)     == [kind |-> "target_verified", target |-> t, matches |-> m]
TagCreatedLocal          == [kind |-> "tag_created_local"]
TagPushedRemote          == [kind |-> "tag_pushed_remote"]
GithubReleaseCreated     == [kind |-> "github_release_created"]
GithubReleaseDelegated   == [kind |-> "github_release_delegated"]
DefaultBranchSelected    == [kind |-> "default_branch_selected"]
DefaultBranchAdvanced(c) == [kind |-> "default_branch_advanced", commit |-> c]
RunAbandoned             == [kind |-> "run_abandoned"]

\* Seeded fault: the terminal barrier of an older journal schema.
CompletedAtVerify(s, p, o) ==
  [s EXCEPT !.phases  = [@ EXCEPT ![p] = o],
            !.current = IF @ = p THEN NoPhase ELSE @,
            !.status  = IF p = Verify /\ o = "ok" THEN "completed" ELSE @]

\* A completed barrier: upsert its record, leave it if it is the current one,
\* and complete the run when it is the terminal barrier and it is Ok.
Completed(s, p, o) ==
  [s EXCEPT !.phases  = [@ EXCEPT ![p] = o],
            !.current = IF @ = p THEN NoPhase ELSE @,
            !.status  = IF p = TerminalPhase /\ o = "ok" THEN "completed" ELSE @]

\* The change an event makes to a run in progress.
Effect(s, e) ==
  CASE e.kind = "run_created"              -> CreatedRun
    [] e.kind = "bump_applied"             -> [s EXCEPT !.bump = e.commit]
    [] e.kind = "phase_entered"            -> [s EXCEPT !.current = e.phase]
    [] e.kind = "phase_completed"          -> Completed(s, e.phase, e.outcome)
    [] e.kind = "target_dry_run"           -> [s EXCEPT !.dryRun = @ \cup {e.target}]
    [] e.kind = "target_built"             -> [s EXCEPT !.built = @ \cup {e.target}]
    [] e.kind = "target_published"         -> [s EXCEPT !.published = @ \cup {e.target}]
    [] e.kind = "target_delegated"         -> [s EXCEPT !.delegated = @ \cup {e.target}]
    [] e.kind = "target_verified"          ->
         [s EXCEPT !.verified = IF e.matches THEN @ \cup {e.target} ELSE @ \ {e.target}]
    [] e.kind = "tag_created_local"        -> [s EXCEPT !.tagCreated = TRUE]
    [] e.kind = "tag_pushed_remote"        -> [s EXCEPT !.tagPushed = TRUE]
    [] e.kind = "github_release_created"   -> [s EXCEPT !.releaseCreated = TRUE]
    [] e.kind = "github_release_delegated" -> [s EXCEPT !.releaseDelegated = TRUE]
    [] e.kind = "default_branch_selected"  -> [s EXCEPT !.branchSelected = TRUE]
    [] e.kind = "default_branch_advanced"  -> [s EXCEPT !.advanced = e.commit]
    [] e.kind = "run_abandoned"            -> [s EXCEPT !.status = "abandoned"]

\* A terminal run is frozen: no later event changes the projection.
Apply(s, e) == IF s.status = "in_progress" THEN Effect(s, e) ELSE s

-----------------------------------------------------------------------------
(* What resume reads off the projection (release/resume.rs).               *)

\* Seeded fault: the barrier in progress is forgotten, only effects count.
PublishReachedByEffects(s) ==
  \/ \E p \in Phase : IsPublishOrLater(p) /\ s.phases[p] # "none"
  \/ s.published # {}
  \/ s.delegated # {}
  \/ s.tagCreated \/ s.tagPushed \/ s.releaseCreated \/ s.releaseDelegated

\* Did this run ever enter the publish barrier?  Fails safe: any signal counts.
PublishReached(s) ==
  \/ s.current # NoPhase /\ IsPublishOrLater(s.current)
  \/ \E p \in Phase : IsPublishOrLater(p) /\ s.phases[p] # "none"
  \/ s.published # {}
  \/ s.delegated # {}
  \/ s.tagCreated \/ s.tagPushed \/ s.releaseCreated \/ s.releaseDelegated

\* Seeded fault: the operator's go-ahead adopts what could not be observed.
ClassifyTrusting(recorded, outcome, allow, reached) ==
  IF recorded THEN "skip"
  ELSE IF outcome = "matches" \/ (outcome = "unknown" /\ allow) THEN "adopt" ELSE "publish"

\* The state table: journal state x remote outcome -> what resume does.
Classify(recorded, outcome, allow, reached) ==
  IF recorded
  THEN CASE outcome = "matches" -> "skip"
         [] outcome = "unknown" -> IF allow THEN "skip" ELSE "unverifiable"
         [] OTHER               -> "conflict"
  ELSE CASE outcome = "matches" -> "adopt"
         [] outcome = "missing" -> "publish"
         [] outcome = "unknown" -> IF reached /\ ~allow THEN "unverifiable" ELSE "publish"
         [] OTHER               -> "conflict"

IsBlocker(action) == action \in {"conflict", "unverifiable", "cancelled"}
=============================================================================
