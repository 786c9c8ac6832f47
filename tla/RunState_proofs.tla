--------------------------- MODULE RunState_proofs ---------------------------
(* Facts about the reducer of RunState, for every plan.                      *)
EXTENDS RunState, TLAPS

\* Every event a run in progress can be given; `run_created' only starts one.
Event ==
  UNION { {BumpApplied(c) : c \in Nat \cup {NoCommit}},
          {DefaultBranchAdvanced(c) : c \in Nat},
          {PhaseEntered(p) : p \in Phase},
          {PhaseCompleted(p, o) : p \in Phase, o \in {"ok", "failed"}},
          {TargetDryRun(t) : t \in Target}, {TargetBuilt(t) : t \in Target},
          {TargetPublished(t) : t \in Target}, {TargetDelegated(t) : t \in Target},
          {TargetVerified(t, m) : t \in Target, m \in BOOLEAN},
          {TagCreatedLocal, TagPushedRemote, GithubReleaseCreated,
           GithubReleaseDelegated, DefaultBranchSelected, RunAbandoned} }

-----------------------------------------------------------------------------
(* What each event does to a run in progress.                              *)

\* What `bump_applied' changes.
LEMMA EffectBumpApplied ==
  ASSUME NEW s, NEW c
  PROVE  Effect(s, BumpApplied(c)) = [s EXCEPT !.bump = c]
BY DEF Effect, BumpApplied

\* What `phase_entered' changes.
LEMMA EffectPhaseEntered ==
  ASSUME NEW s, NEW p
  PROVE  Effect(s, PhaseEntered(p)) = [s EXCEPT !.current = p]
BY DEF Effect, PhaseEntered

\* What `phase_completed' changes.
LEMMA EffectPhaseCompleted ==
  ASSUME NEW s, NEW p, NEW o
  PROVE  Effect(s, PhaseCompleted(p, o)) = Completed(s, p, o)
BY DEF Effect, PhaseCompleted

\* What `target_dry_run' changes.
LEMMA EffectTargetDryRun ==
  ASSUME NEW s, NEW t
  PROVE  Effect(s, TargetDryRun(t)) = [s EXCEPT !.dryRun = @ \cup {t}]
BY DEF Effect, TargetDryRun

\* What `target_built' changes.
LEMMA EffectTargetBuilt ==
  ASSUME NEW s, NEW t
  PROVE  Effect(s, TargetBuilt(t)) = [s EXCEPT !.built = @ \cup {t}]
BY DEF Effect, TargetBuilt

\* What `target_published' changes.
LEMMA EffectTargetPublished ==
  ASSUME NEW s, NEW t
  PROVE  Effect(s, TargetPublished(t)) = [s EXCEPT !.published = @ \cup {t}]
BY DEF Effect, TargetPublished

\* What `target_delegated' changes.
LEMMA EffectTargetDelegated ==
  ASSUME NEW s, NEW t
  PROVE  Effect(s, TargetDelegated(t)) = [s EXCEPT !.delegated = @ \cup {t}]
BY DEF Effect, TargetDelegated

\* What `target_verified' changes.
LEMMA EffectTargetVerified ==
  ASSUME NEW s, NEW t, NEW m \in BOOLEAN
  PROVE  Effect(s, TargetVerified(t, m)) =
           [s EXCEPT !.verified = IF m THEN @ \cup {t} ELSE @ \ {t}]
BY DEF Effect, TargetVerified

\* What `tag_created_local' changes.
LEMMA EffectTagCreatedLocal ==
  ASSUME NEW s
  PROVE  Effect(s, TagCreatedLocal) = [s EXCEPT !.tagCreated = TRUE]
BY DEF Effect, TagCreatedLocal

\* What `tag_pushed_remote' changes.
LEMMA EffectTagPushedRemote ==
  ASSUME NEW s
  PROVE  Effect(s, TagPushedRemote) = [s EXCEPT !.tagPushed = TRUE]
BY DEF Effect, TagPushedRemote

\* What `github_release_created' changes.
LEMMA EffectGithubReleaseCreated ==
  ASSUME NEW s
  PROVE  Effect(s, GithubReleaseCreated) = [s EXCEPT !.releaseCreated = TRUE]
BY DEF Effect, GithubReleaseCreated

\* What `github_release_delegated' changes.
LEMMA EffectGithubReleaseDelegated ==
  ASSUME NEW s
  PROVE  Effect(s, GithubReleaseDelegated) = [s EXCEPT !.releaseDelegated = TRUE]
BY DEF Effect, GithubReleaseDelegated

\* What `default_branch_selected' changes.
LEMMA EffectDefaultBranchSelected ==
  ASSUME NEW s
  PROVE  Effect(s, DefaultBranchSelected) = [s EXCEPT !.branchSelected = TRUE]
BY DEF Effect, DefaultBranchSelected

\* What `default_branch_advanced' changes.
LEMMA EffectDefaultBranchAdvanced ==
  ASSUME NEW s, NEW c
  PROVE  Effect(s, DefaultBranchAdvanced(c)) = [s EXCEPT !.advanced = c]
BY DEF Effect, DefaultBranchAdvanced

\* What `run_abandoned' changes.
LEMMA EffectRunAbandoned ==
  ASSUME NEW s
  PROVE  Effect(s, RunAbandoned) = [s EXCEPT !.status = "abandoned"]
BY DEF Effect, RunAbandoned

-----------------------------------------------------------------------------
\* A completed barrier leaves a projection.
LEMMA CompletedType ==
  ASSUME NEW s \in RunState, NEW p \in Phase, NEW o \in {"ok", "failed"}
  PROVE  Completed(s, p, o) \in RunState
BY DEF Completed, RunState

\* The reducer never leaves the set of projections.
LEMMA ApplyType ==
  ASSUME NEW s \in RunState, NEW e \in Event
  PROVE  Apply(s, e) \in RunState
<1> SUFFICES Effect(s, e) \in RunState
  BY DEF Apply
<1>1. CASE \E c \in Nat \cup {NoCommit} : e = BumpApplied(c)
  BY <1>1, EffectBumpApplied DEF RunState
<1>2. CASE \E c \in Nat : e = DefaultBranchAdvanced(c)
  BY <1>2, EffectDefaultBranchAdvanced DEF RunState
<1>3. CASE \E p \in Phase : e = PhaseEntered(p)
  BY <1>3, EffectPhaseEntered DEF RunState
<1>4. CASE \E p \in Phase, o \in {"ok", "failed"} : e = PhaseCompleted(p, o)
  BY <1>4, EffectPhaseCompleted, CompletedType
<1>5. CASE \E t \in Target : e = TargetDryRun(t)
  BY <1>5, EffectTargetDryRun DEF RunState
<1>6. CASE \E t \in Target : e = TargetBuilt(t)
  BY <1>6, EffectTargetBuilt DEF RunState
<1>7. CASE \E t \in Target : e = TargetPublished(t)
  BY <1>7, EffectTargetPublished DEF RunState
<1>8. CASE \E t \in Target : e = TargetDelegated(t)
  BY <1>8, EffectTargetDelegated DEF RunState
<1>9. CASE \E t \in Target, m \in BOOLEAN : e = TargetVerified(t, m)
  BY <1>9, EffectTargetVerified DEF RunState
<1>10. CASE e = TagCreatedLocal
  <2>1. Effect(s, e) = [s EXCEPT !.tagCreated = TRUE]
    BY <1>10, EffectTagCreatedLocal
  <2> QED BY <2>1 DEF RunState
<1>11. CASE e = TagPushedRemote
  <2>1. Effect(s, e) = [s EXCEPT !.tagPushed = TRUE]
    BY <1>11, EffectTagPushedRemote
  <2> QED BY <2>1 DEF RunState
<1>12. CASE e = GithubReleaseCreated
  <2>1. Effect(s, e) = [s EXCEPT !.releaseCreated = TRUE]
    BY <1>12, EffectGithubReleaseCreated
  <2> QED BY <2>1 DEF RunState
<1>13. CASE e = GithubReleaseDelegated
  <2>1. Effect(s, e) = [s EXCEPT !.releaseDelegated = TRUE]
    BY <1>13, EffectGithubReleaseDelegated
  <2> QED BY <2>1 DEF RunState
<1>14. CASE e = DefaultBranchSelected
  <2>1. Effect(s, e) = [s EXCEPT !.branchSelected = TRUE]
    BY <1>14, EffectDefaultBranchSelected
  <2> QED BY <2>1 DEF RunState
<1>15. CASE e = RunAbandoned
  <2>1. Effect(s, e) = [s EXCEPT !.status = "abandoned"]
    BY <1>15, EffectRunAbandoned
  <2> QED BY <2>1 DEF RunState
<1> QED
  BY <1>1, <1>2, <1>3, <1>4, <1>5, <1>6, <1>7, <1>8, <1>9, <1>10, <1>11,
     <1>12, <1>13, <1>14, <1>15 DEF Event

-----------------------------------------------------------------------------
(* What the reducer keeps.                                                 *)

\* The facts that only ever accumulate, and the two commits.
Grows(s, r) == /\ r.bump = s.bump /\ r.advanced = s.advanced
               /\ s.dryRun \subseteq r.dryRun
               /\ s.built \subseteq r.built
               /\ s.published \subseteq r.published

SameBarriers(s, r) == r.phases = s.phases /\ r.delegated = s.delegated /\ r.status = s.status

\* Events that complete no barrier and record neither a commit nor a delegation.
QuietEvent ==
  UNION { {PhaseEntered(p) : p \in Phase},
          {TargetDryRun(t) : t \in Target}, {TargetBuilt(t) : t \in Target},
          {TargetPublished(t) : t \in Target},
          {TargetVerified(t, m) : t \in Target, m \in BOOLEAN},
          {TagCreatedLocal, TagPushedRemote, GithubReleaseCreated,
           GithubReleaseDelegated, DefaultBranchSelected} }

\* A quiet event moves no barrier, no bump and no advance, and only adds facts.
LEMMA ApplyQuiet ==
  ASSUME NEW s \in RunState, NEW e \in QuietEvent
  PROVE  Grows(s, Apply(s, e)) /\ SameBarriers(s, Apply(s, e))
<1> SUFFICES Grows(s, Effect(s, e)) /\ SameBarriers(s, Effect(s, e))
  BY DEF Apply, Grows, SameBarriers
<1>1. CASE \E p \in Phase : e = PhaseEntered(p)
  BY <1>1, EffectPhaseEntered DEF RunState, Grows, SameBarriers
<1>2. CASE \E t \in Target : e = TargetDryRun(t)
  BY <1>2, EffectTargetDryRun DEF RunState, Grows, SameBarriers
<1>3. CASE \E t \in Target : e = TargetBuilt(t)
  BY <1>3, EffectTargetBuilt DEF RunState, Grows, SameBarriers
<1>4. CASE \E t \in Target : e = TargetPublished(t)
  BY <1>4, EffectTargetPublished DEF RunState, Grows, SameBarriers
<1>5. CASE \E t \in Target, m \in BOOLEAN : e = TargetVerified(t, m)
  BY <1>5, EffectTargetVerified DEF RunState, Grows, SameBarriers
<1>6. CASE e = TagCreatedLocal
  <2>1. Effect(s, e) = [s EXCEPT !.tagCreated = TRUE]
    BY <1>6, EffectTagCreatedLocal
  <2> QED BY <2>1 DEF RunState, Grows, SameBarriers
<1>7. CASE e = TagPushedRemote
  <2>1. Effect(s, e) = [s EXCEPT !.tagPushed = TRUE]
    BY <1>7, EffectTagPushedRemote
  <2> QED BY <2>1 DEF RunState, Grows, SameBarriers
<1>8. CASE e = GithubReleaseCreated
  <2>1. Effect(s, e) = [s EXCEPT !.releaseCreated = TRUE]
    BY <1>8, EffectGithubReleaseCreated
  <2> QED BY <2>1 DEF RunState, Grows, SameBarriers
<1>9. CASE e = GithubReleaseDelegated
  <2>1. Effect(s, e) = [s EXCEPT !.releaseDelegated = TRUE]
    BY <1>9, EffectGithubReleaseDelegated
  <2> QED BY <2>1 DEF RunState, Grows, SameBarriers
<1>10. CASE e = DefaultBranchSelected
  <2>1. Effect(s, e) = [s EXCEPT !.branchSelected = TRUE]
    BY <1>10, EffectDefaultBranchSelected
  <2> QED BY <2>1 DEF RunState, Grows, SameBarriers
<1> QED
  BY <1>1, <1>2, <1>3, <1>4, <1>5, <1>6, <1>7, <1>8, <1>9, <1>10 DEF QuietEvent

\* A delegated target moves nothing but the set of delegated targets.
LEMMA ApplyDelegated ==
  ASSUME NEW s \in RunState, NEW t \in Target
  PROVE  LET r == Apply(s, TargetDelegated(t)) IN
         /\ Grows(s, r)
         /\ r.phases = s.phases /\ r.status = s.status
         /\ r.delegated \subseteq s.delegated \cup {t}
BY EffectTargetDelegated DEF Apply, RunState, Grows

\* Abandoning moves nothing but the status.
LEMMA ApplyAbandoned ==
  ASSUME NEW s \in RunState
  PROVE  LET r == Apply(s, RunAbandoned) IN
         Grows(s, r) /\ r.phases = s.phases /\ r.delegated = s.delegated
BY EffectRunAbandoned DEF Apply, RunState, Grows

\* A completed barrier is the only one whose record changes; only the terminal
\* barrier, and only when it is Ok, ends the run.
LEMMA ApplyCompleted ==
  ASSUME NEW s \in RunState, NEW p \in Phase, NEW o \in {"ok", "failed"}
  PROVE  LET r == Apply(s, PhaseCompleted(p, o)) IN
         /\ Grows(s, r) /\ r.delegated = s.delegated
         /\ \A q \in Phase : r.phases[q] = s.phases[q] \/ (q = p /\ r.phases[q] = o)
         /\ r.status = s.status \/ (o = "ok" /\ p = TerminalPhase)
<1>1. CASE s.status = "in_progress"
  <2>1. Apply(s, PhaseCompleted(p, o)) = Completed(s, p, o)
    BY <1>1, EffectPhaseCompleted DEF Apply
  <2> QED
    BY <2>1 DEF Completed, RunState, Grows
<1>2. CASE s.status # "in_progress"
  BY <1>2 DEF Apply, Grows
<1> QED
  BY <1>1, <1>2

\* A recorded bump moves nothing but the bump commit.
LEMMA ApplyBumpApplied ==
  ASSUME NEW s \in RunState, NEW c, s.status = "in_progress"
  PROVE  LET r == Apply(s, BumpApplied(c)) IN
         /\ r.bump = c /\ r.advanced = s.advanced
         /\ r.dryRun = s.dryRun /\ r.built = s.built /\ r.published = s.published
         /\ SameBarriers(s, r)
BY EffectBumpApplied DEF Apply, RunState, SameBarriers

\* A recorded advance moves nothing but the advanced commit.
LEMMA ApplyAdvanced ==
  ASSUME NEW s \in RunState, NEW c
  PROVE  LET r == Apply(s, DefaultBranchAdvanced(c)) IN
         /\ r.bump = s.bump /\ r.advanced \in {s.advanced, c}
         /\ r.dryRun = s.dryRun /\ r.built = s.built /\ r.published = s.published
         /\ SameBarriers(s, r)
BY EffectDefaultBranchAdvanced DEF Apply, RunState, SameBarriers
=============================================================================
