-------------------------- MODULE ReleaseCut_proofs --------------------------
(***************************************************************************)
(* ReleaseCut, for every plan the assumptions allow: its types, the phase  *)
(* barriers with the safety properties that follow from them, and what a   *)
(* completed run has delivered.                                            *)
(***************************************************************************)
EXTENDS ReleaseCut, RunState_proofs

-----------------------------------------------------------------------------
(* The helpers of the coordinator stay within their types.                   *)

\* The released commit is a commit.
LEMMA CommitType == ASSUME run \in RunState PROVE Commit \in Nat
BY DEF RunState, Commit, SealedHead

\* No process at all is a process state.
LEMMA IdleType == Idle \in Process
BY DEF Idle, Process, Steps, Phase, Bump, AdvanceBranch

\* Leaving a barrier for the next one keeps the process state typed.
LEMMA NextPhaseType ==
  ASSUME proc \in Process, NEW p \in Phase
  PROVE  NextPhase(p) \in Process
<1>1. CASE p = AdvanceBranch \/ ~proc.barrier
  BY <1>1, IdleType DEF NextPhase
<1>2. CASE ~(p = AdvanceBranch \/ ~proc.barrier)
  <2>1. p + 1 \in Phase
    BY <1>2 DEF Phase, Bump, AdvanceBranch
  <2> QED
    BY <1>2, <2>1 DEF NextPhase, Process, Steps
<1> QED
  BY <1>1, <1>2

\* A recorded event leaves a projection.
LEMMA RecordType ==
  ASSUME run \in RunState, NEW e \in Event, Record(e)
  PROVE  run' \in RunState
BY ApplyType DEF Record

\* The completion of any barrier, with either outcome, is an event.
LEMMA CompletionIsEvent ==
  ASSUME NEW p \in Phase, NEW o \in {"ok", "failed"}
  PROVE  PhaseCompleted(p, o) \in Event
BY DEF Event

\* A failed barrier keeps the journal and the process typed (fail_phase).
LEMMA FailPhaseType ==
  ASSUME run \in RunState, proc \in Process, NEW p \in Phase, FailPhase(p)
  PROVE  run' \in RunState /\ proc' \in Process
<1>1. run' \in RunState
  BY CompletionIsEvent, RecordType DEF FailPhase
<1>2. proc' \in Process
  <2>1. [proc EXCEPT !.step = "enter", !.phase = Verify, !.barrier = FALSE] \in Process
    <3>1. "enter" \in Steps /\ Verify \in Phase
      BY DEF Steps, Phase, Bump, Verify, AdvanceBranch
    <3> QED
      BY <3>1 DEF Process
  <2> QED
    BY <2>1, IdleType DEF FailPhase
<1> QED
  BY <1>1, <1>2

\* The values the actions write are of their types.
LEMMA Labels ==
  /\ "idle" \in Steps /\ "adopt" \in Steps /\ "checkout" \in Steps /\ "enter" \in Steps
  /\ "work" \in Steps /\ "applied" \in Steps /\ "uploaded" \in Steps /\ "tagged" \in Steps
  /\ "tag_pushed" \in Steps /\ "released" \in Steps /\ "fetch" \in Steps
  /\ "written" \in Steps /\ "owners" \in Steps /\ "owner_failed" \in Steps
  /\ "poll" \in Steps /\ "advanced" \in Steps
BY DEF Steps

\* The named barriers are phases.
LEMMA Barriers ==
  /\ Bump \in Phase /\ DryRun \in Phase /\ Build \in Phase /\ Publish \in Phase
  /\ Tag \in Phase /\ Dist \in Phase /\ Verify \in Phase /\ AdvanceBranch \in Phase
BY DEF Phase, Bump, DryRun, Build, Publish, Tag, Dist, Verify, AdvanceBranch

\* The events about one target are events.
LEMMA TargetEvents ==
  ASSUME NEW t \in Target
  PROVE  /\ TargetDryRun(t) \in Event /\ TargetBuilt(t) \in Event
         /\ TargetPublished(t) \in Event /\ TargetDelegated(t) \in Event
         /\ \A m \in BOOLEAN : TargetVerified(t, m) \in Event
BY DEF Event

\* The events about the run as a whole are events.
LEMMA RunEvents ==
  /\ \A c \in Nat \cup {NoCommit} : BumpApplied(c) \in Event
  /\ \A c \in Nat : DefaultBranchAdvanced(c) \in Event
  /\ \A q \in Phase : PhaseEntered(q) \in Event
  /\ TagCreatedLocal \in Event /\ TagPushedRemote \in Event
  /\ GithubReleaseCreated \in Event /\ GithubReleaseDelegated \in Event
  /\ DefaultBranchSelected \in Event /\ RunAbandoned \in Event
BY DEF Event

-----------------------------------------------------------------------------
\* Every action keeps the types.
LEMMA TypeStep == TypeOK /\ [Next]_vars => TypeOK'
<1> SUFFICES ASSUME TypeOK, [Next]_vars
             PROVE  TypeOK'
  OBVIOUS
<1>0. run \in RunState /\ proc \in Process /\ WorldTypeOK
  BY DEF TypeOK
<1> USE <1>0, Labels, Barriers, RunEvents, RecordType, CommitType
<1>1. CASE Materialize
  <2>1. run' \in RunState
    BY <1>1 DEF Materialize
  <2>2. proc' \in Process
    BY <1>1 DEF Materialize, Process
  <2>3. WorldTypeOK'
    BY <1>1 DEF Materialize, WorldTypeOK, refs
  <2> QED
    BY <2>1, <2>2, <2>3 DEF TypeOK
<1>2. CASE SkipPhase
  <2>1. run' \in RunState
    BY <1>2 DEF SkipPhase
  <2>2. proc' \in Process
    <3>1. proc.phase \in Phase
      BY DEF Process
    <3> QED
      BY <1>2, <3>1, NextPhaseType DEF SkipPhase
  <2>3. WorldTypeOK'
    BY <1>2 DEF SkipPhase, WorldTypeOK, refs
  <2> QED
    BY <2>1, <2>2, <2>3 DEF TypeOK
<1>3. CASE EnterPhase
  <2>1. run' \in RunState
    BY <1>3 DEF EnterPhase, Process
  <2>2. proc' \in Process
    BY <1>3 DEF EnterPhase, Process, FirstStep
  <2>3. WorldTypeOK'
    BY <1>3 DEF EnterPhase, WorldTypeOK, refs
  <2> QED
    BY <2>1, <2>2, <2>3 DEF TypeOK
<1>4. CASE CompletePhase
  <2>1. proc.phase \in Phase
    BY DEF Process
  <2>2. ASSUME Outcome(proc.phase) = "ok"
        PROVE  run' \in RunState /\ proc' \in Process
    <3>1. Record(PhaseCompleted(proc.phase, "ok")) /\ proc' = NextPhase(proc.phase)
      BY <1>4, <2>2 DEF CompletePhase
    <3> QED
      BY <2>1, <3>1, CompletionIsEvent, NextPhaseType
  <2>3. ASSUME Outcome(proc.phase) # "ok"
        PROVE  run' \in RunState /\ proc' \in Process
    <3>1. FailPhase(proc.phase)
      BY <1>4, <2>3 DEF CompletePhase
    <3> QED
      BY <2>1, <3>1, FailPhaseType
  <2>4. run' \in RunState /\ proc' \in Process
    BY <2>2, <2>3
  <2>5. WorldTypeOK'
    BY <1>4 DEF CompletePhase, WorldTypeOK, refs
  <2> QED
    BY <2>4, <2>5 DEF TypeOK
<1>5. CASE ApplyBump
  <2>1. run' \in RunState
    BY <1>5 DEF ApplyBump
  <2>2. proc' \in Process
    <3>1. commits + 1 \in Nat
      BY DEF WorldTypeOK
    <3> QED
      BY <1>5, <3>1 DEF ApplyBump, Process
  <2>3. WorldTypeOK'
    BY <1>5 DEF ApplyBump, WorldTypeOK, refs
  <2> QED
    BY <2>1, <2>2, <2>3 DEF TypeOK
<1>6. CASE RecordBump
  <2>1. run' \in RunState
    BY <1>6 DEF RecordBump, Process
  <2>2. proc' \in Process
    BY <1>6 DEF RecordBump, Process
  <2>3. WorldTypeOK'
    BY <1>6 DEF RecordBump, WorldTypeOK, refs
  <2> QED
    BY <2>1, <2>2, <2>3 DEF TypeOK
<1>7. ASSUME NEW t \in Target, DryRunTarget(t) PROVE TypeOK'
  <2>1. run' \in RunState
    BY <1>7, TargetEvents DEF DryRunTarget
  <2>2. proc' \in Process
    BY <1>7 DEF DryRunTarget, Process
  <2>3. WorldTypeOK'
    BY <1>7 DEF DryRunTarget, WorldTypeOK, refs
  <2> QED
    BY <2>1, <2>2, <2>3 DEF TypeOK
<1>8. ASSUME NEW t \in Target, BuildTarget(t) PROVE TypeOK'
  <2>1. run' \in RunState
    BY <1>8, TargetEvents DEF BuildTarget
  <2>2. proc' \in Process
    BY <1>8 DEF BuildTarget, Process
  <2>3. WorldTypeOK'
    BY <1>8 DEF BuildTarget, WorldTypeOK, refs
  <2> QED
    BY <2>1, <2>2, <2>3 DEF TypeOK
<1>9. ASSUME NEW t \in Target, DelegateTarget(t) PROVE TypeOK'
  <2>1. run' \in RunState
    BY <1>9, TargetEvents DEF DelegateTarget
  <2>2. proc' \in Process
    BY <1>9 DEF DelegateTarget, Process
  <2>3. WorldTypeOK'
    BY <1>9 DEF DelegateTarget, WorldTypeOK, refs
  <2> QED
    BY <2>1, <2>2, <2>3 DEF TypeOK
<1>10. ASSUME NEW t \in Target, AuthenticateSkip(t) PROVE TypeOK'
  <2>1. run' \in RunState
    BY <1>10, TargetEvents, FailPhaseType DEF AuthenticateSkip
  <2>2. proc' \in Process
    BY <1>10, FailPhaseType DEF AuthenticateSkip, Process
  <2>3. WorldTypeOK'
    BY <1>10 DEF AuthenticateSkip, WorldTypeOK, refs
  <2> QED
    BY <2>1, <2>2, <2>3 DEF TypeOK
<1>11. ASSUME NEW t \in Target, Upload(t) PROVE TypeOK'
  <2>1. run' \in RunState
    BY <1>11, TargetEvents, FailPhaseType DEF Upload
  <2>2. proc' \in Process
    BY <1>11, FailPhaseType DEF Upload, Process
  <2>3. WorldTypeOK'
    <3>1. proc.checkout \in Nat \cup {NoCommit}
      BY DEF Process
    <3>2. artifact' \in [Target -> Nat \cup {NoCommit, Foreign}]
      BY <1>11, <3>1 DEF Upload, WorldTypeOK
    <3> QED
      BY <1>11, <3>2 DEF Upload, WorldTypeOK, refs
  <2> QED
    BY <2>1, <2>2, <2>3 DEF TypeOK
<1>12. ASSUME NEW t \in Target, ConfirmUpload(t) PROVE TypeOK'
  <2>1. run' \in RunState
    BY <1>12, TargetEvents, FailPhaseType DEF ConfirmUpload
  <2>2. proc' \in Process
    BY <1>12, FailPhaseType DEF ConfirmUpload, Process
  <2>3. WorldTypeOK'
    BY <1>12 DEF ConfirmUpload, WorldTypeOK, refs
  <2> QED
    BY <2>1, <2>2, <2>3 DEF TypeOK
<1>13. ASSUME NEW t \in Target, WriteFormula(t) PROVE TypeOK'
  <2>1. run' \in RunState
    BY <1>13, TargetEvents DEF WriteFormula
  <2>2. proc' \in Process
    BY <1>13 DEF WriteFormula, Process
  <2>3. WorldTypeOK'
    BY <1>13 DEF WriteFormula, WorldTypeOK, refs
  <2> QED
    BY <2>1, <2>2, <2>3 DEF TypeOK
<1>14. ASSUME NEW t \in Target, RecordFormula(t) PROVE TypeOK'
  <2>1. run' \in RunState
    BY <1>14, TargetEvents DEF RecordFormula
  <2>2. proc' \in Process
    BY <1>14 DEF RecordFormula, Process
  <2>3. WorldTypeOK'
    BY <1>14 DEF RecordFormula, WorldTypeOK, refs
  <2> QED
    BY <2>1, <2>2, <2>3 DEF TypeOK
<1>15. ASSUME NEW t \in Target, VerifyTarget(t) PROVE TypeOK'
  <2>1. run' \in RunState
    BY <1>15, TargetEvents DEF VerifyTarget
  <2>2. proc' \in Process
    <3>1. PICK matches \in BOOLEAN :
                 proc' = [proc EXCEPT !.todo = @ \ {t}, !.bad = @ \/ ~matches]
      BY <1>15 DEF VerifyTarget
    <3> QED
      BY <3>1 DEF Process
  <2>3. WorldTypeOK'
    BY <1>15 DEF VerifyTarget, Spend, WorldTypeOK, refs
  <2> QED
    BY <2>1, <2>2, <2>3 DEF TypeOK
<1>16. CASE CreateTag
  <2>1. run' \in RunState
    BY <1>16, FailPhaseType DEF CreateTag
  <2>2. proc' \in Process
    BY <1>16, FailPhaseType DEF CreateTag, Process
  <2>3. WorldTypeOK'
    BY <1>16 DEF CreateTag, WorldTypeOK, refs
  <2> QED
    BY <2>1, <2>2, <2>3 DEF TypeOK
<1>17. CASE RecordTag
  <2>1. run' \in RunState
    BY <1>17 DEF RecordTag
  <2>2. proc' \in Process
    BY <1>17 DEF RecordTag, Process
  <2>3. WorldTypeOK'
    BY <1>17 DEF RecordTag, WorldTypeOK, refs
  <2> QED
    BY <2>1, <2>2, <2>3 DEF TypeOK
<1>18. CASE PushTag
  <2>1. run' \in RunState
    BY <1>18, FailPhaseType DEF PushTag
  <2>2. proc' \in Process
    BY <1>18, FailPhaseType DEF PushTag, Process
  <2>3. WorldTypeOK'
    BY <1>18 DEF PushTag, WorldTypeOK, refs
  <2> QED
    BY <2>1, <2>2, <2>3 DEF TypeOK
<1>19. CASE RecordPush
  <2>1. run' \in RunState
    BY <1>19 DEF RecordPush
  <2>2. proc' \in Process
    BY <1>19 DEF RecordPush, Process
  <2>3. WorldTypeOK'
    BY <1>19 DEF RecordPush, WorldTypeOK, refs
  <2> QED
    BY <2>1, <2>2, <2>3 DEF TypeOK
<1>20. CASE CreateRelease
  <2>1. run' \in RunState
    BY <1>20 DEF CreateRelease
  <2>2. proc' \in Process
    BY <1>20 DEF CreateRelease, Process
  <2>3. WorldTypeOK'
    BY <1>20 DEF CreateRelease, WorldTypeOK, refs
  <2> QED
    BY <2>1, <2>2, <2>3 DEF TypeOK
<1>21. CASE RecordRelease
  <2>1. run' \in RunState
    BY <1>21 DEF RecordRelease
  <2>2. proc' \in Process
    BY <1>21 DEF RecordRelease, Process
  <2>3. WorldTypeOK'
    BY <1>21 DEF RecordRelease, WorldTypeOK, refs
  <2> QED
    BY <2>1, <2>2, <2>3 DEF TypeOK
<1>22. CASE DelegateRelease
  <2>1. run' \in RunState
    BY <1>22 DEF DelegateRelease
  <2>2. proc' \in Process
    BY <1>22 DEF DelegateRelease, Process
  <2>3. WorldTypeOK'
    BY <1>22 DEF DelegateRelease, WorldTypeOK, refs
  <2> QED
    BY <2>1, <2>2, <2>3 DEF TypeOK
<1>23. CASE FetchInputs
  <2>1. run' \in RunState
    BY <1>23, FailPhaseType DEF FetchInputs
  <2>2. proc' \in Process
    BY <1>23, FailPhaseType DEF FetchInputs, Process
  <2>3. WorldTypeOK'
    BY <1>23 DEF FetchInputs, WorldTypeOK, refs
  <2> QED
    BY <2>1, <2>2, <2>3 DEF TypeOK
<1>24. CASE OwnersReady
  <2>1. run' \in RunState
    BY <1>24 DEF OwnersReady
  <2>2. proc' \in Process
    BY <1>24 DEF OwnersReady, Process
  <2>3. WorldTypeOK'
    BY <1>24 DEF OwnersReady, WorldTypeOK, refs
  <2> QED
    BY <2>1, <2>2, <2>3 DEF TypeOK
<1>25. CASE OwnersNotReady
  <2>1. run' \in RunState
    <3>1. PICK t \in Target : Record(TargetVerified(t, FALSE))
      BY <1>25 DEF OwnersNotReady, Owners, TypeOK, RunState
    <3> QED
      BY <3>1, TargetEvents
  <2>2. proc' \in Process
    BY <1>25 DEF OwnersNotReady, Process
  <2>3. WorldTypeOK'
    BY <1>25 DEF OwnersNotReady, Spend, WorldTypeOK, refs
  <2> QED
    BY <2>1, <2>2, <2>3 DEF TypeOK
<1>26. CASE OwnerFailureStops
  <2>1. run' \in RunState
    BY <1>26, FailPhaseType DEF OwnerFailureStops
  <2>2. proc' \in Process
    BY <1>26, FailPhaseType DEF OwnerFailureStops, Process
  <2>3. WorldTypeOK'
    BY <1>26 DEF OwnerFailureStops, WorldTypeOK, refs
  <2> QED
    BY <2>1, <2>2, <2>3 DEF TypeOK
<1>27. CASE PollRound
  <2>1. run' \in RunState
    BY <1>27 DEF PollRound
  <2>2. proc' \in Process
    <3>1. PICK settled \in SUBSET Target :
                 \/ proc' = [proc EXCEPT !.seen = settled, !.step = "work"]
                 \/ proc' = [proc EXCEPT !.seen = settled]
      <4>1. run.delegated \in SUBSET Target /\ proc.seen \in SUBSET Target
        BY DEF RunState, Process
      <4> QED
        BY <1>27, <4>1 DEF PollRound
    <3> QED
      BY <3>1 DEF Process
  <2>3. WorldTypeOK'
    BY <1>27 DEF PollRound, WorldTypeOK, refs
  <2> QED
    BY <2>1, <2>2, <2>3 DEF TypeOK
<1>28. CASE SelectBranch
  <2>1. run' \in RunState
    BY <1>28 DEF SelectBranch
  <2>2. proc' \in Process
    BY <1>28 DEF SelectBranch, Process
  <2>3. WorldTypeOK'
    BY <1>28 DEF SelectBranch, WorldTypeOK, refs
  <2> QED
    BY <2>1, <2>2, <2>3 DEF TypeOK
<1>29. CASE Advance
  <2>1. run' \in RunState
    BY <1>29, FailPhaseType DEF Advance
  <2>2. proc' \in Process
    BY <1>29, FailPhaseType DEF Advance, Process
  <2>3. WorldTypeOK'
    BY <1>29 DEF Advance, WorldTypeOK, refs
  <2> QED
    BY <2>1, <2>2, <2>3 DEF TypeOK
<1>30. CASE RecordAdvance
  <2>1. run' \in RunState
    BY <1>30 DEF RecordAdvance
  <2>2. proc' \in Process
    BY <1>30 DEF RecordAdvance, Process
  <2>3. WorldTypeOK'
    BY <1>30 DEF RecordAdvance, WorldTypeOK, refs
  <2> QED
    BY <2>1, <2>2, <2>3 DEF TypeOK
<1>31. CASE Adopt
  <2>1. run' \in RunState
    BY <1>31, TargetEvents DEF Adopt, Process
  <2>2. proc' \in Process
    BY <1>31 DEF Adopt, Process
  <2>3. WorldTypeOK'
    BY <1>31 DEF Adopt, WorldTypeOK, refs
  <2> QED
    BY <2>1, <2>2, <2>3 DEF TypeOK
<1>32. CASE Abandon
  <2>1. run' \in RunState
    BY <1>32 DEF Abandon
  <2>2. proc' \in Process
    BY <1>32 DEF Abandon, Process
  <2>3. WorldTypeOK'
    BY <1>32 DEF Abandon, WorldTypeOK, refs
  <2> QED
    BY <2>1, <2>2, <2>3 DEF TypeOK
<1>33. CASE CheckoutFails
  <2>1. run' \in RunState
    BY <1>33 DEF CheckoutFails
  <2>2. proc' \in Process
    BY <1>33, IdleType DEF CheckoutFails
  <2>3. WorldTypeOK'
    BY <1>33 DEF CheckoutFails, Spend, WorldTypeOK, refs
  <2> QED
    BY <2>1, <2>2, <2>3 DEF TypeOK
<1>34. CASE CommandFails
  <2>1. run' \in RunState
    BY <1>34, FailPhaseType DEF CommandFails, Process
  <2>2. proc' \in Process
    BY <1>34, FailPhaseType DEF CommandFails, Process
  <2>3. WorldTypeOK'
    BY <1>34 DEF CommandFails, Spend, WorldTypeOK, refs
  <2> QED
    BY <2>1, <2>2, <2>3 DEF TypeOK
<1>35. CASE EffectReportedFailed
  <2>1. run' \in RunState
    BY <1>35, FailPhaseType DEF EffectReportedFailed, Process
  <2>2. proc' \in Process
    BY <1>35, FailPhaseType DEF EffectReportedFailed, Process
  <2>3. WorldTypeOK'
    BY <1>35 DEF EffectReportedFailed, Spend, WorldTypeOK, refs
  <2> QED
    BY <2>1, <2>2, <2>3 DEF TypeOK
<1>36. CASE Crash
  <2>1. run' \in RunState
    BY <1>36 DEF Crash
  <2>2. proc' \in Process
    BY <1>36, IdleType DEF Crash
  <2>3. WorldTypeOK'
    BY <1>36 DEF Crash, Spend, WorldTypeOK, refs
  <2> QED
    BY <2>1, <2>2, <2>3 DEF TypeOK
<1>37. ASSUME NEW t \in Target, NoOpUpload(t) PROVE TypeOK'
  <2>1. run' \in RunState
    BY <1>37, TargetEvents DEF NoOpUpload
  <2>2. proc' \in Process
    BY <1>37 DEF NoOpUpload, Process
  <2>3. WorldTypeOK'
    BY <1>37 DEF NoOpUpload, Spend, WorldTypeOK, refs
  <2> QED
    BY <2>1, <2>2, <2>3 DEF TypeOK
<1>38. ASSUME NEW t \in Target, Index(t) PROVE TypeOK'
  <2>1. run' \in RunState
    BY <1>38, TargetEvents DEF Index
  <2>2. proc' \in Process
    BY <1>38 DEF Index, Process
  <2>3. WorldTypeOK'
    BY <1>38 DEF Index, WorldTypeOK, refs
  <2> QED
    BY <2>1, <2>2, <2>3 DEF TypeOK
<1>39. ASSUME NEW t \in Target, Withdraw(t) PROVE TypeOK'
  <2>1. run' \in RunState
    BY <1>39, TargetEvents DEF Withdraw
  <2>2. proc' \in Process
    BY <1>39 DEF Withdraw, Process
  <2>3. WorldTypeOK'
    BY <1>39 DEF Withdraw, Spend, WorldTypeOK, refs
  <2> QED
    BY <2>1, <2>2, <2>3 DEF TypeOK
<1>40. ASSUME NEW t \in Target, PublishForeign(t) PROVE TypeOK'
  <2>1. run' \in RunState
    BY <1>40, TargetEvents DEF PublishForeign
  <2>2. proc' \in Process
    BY <1>40 DEF PublishForeign, Process
  <2>3. WorldTypeOK'
    BY <1>40 DEF PublishForeign, WorldTypeOK, refs
  <2> QED
    BY <2>1, <2>2, <2>3 DEF TypeOK
<1>41. ASSUME NEW t \in Target, CiPublish(t) PROVE TypeOK'
  <2>1. run' \in RunState
    BY <1>41, TargetEvents DEF CiPublish
  <2>2. proc' \in Process
    BY <1>41 DEF CiPublish, Process
  <2>3. WorldTypeOK'
    BY <1>41 DEF CiPublish, WorldTypeOK, refs
  <2> QED
    BY <2>1, <2>2, <2>3 DEF TypeOK
<1>42. CASE CiStart
  <2>1. run' \in RunState
    BY <1>42 DEF CiStart
  <2>2. proc' \in Process
    BY <1>42 DEF CiStart, Process
  <2>3. WorldTypeOK'
    BY <1>42 DEF CiStart, WorldTypeOK, refs
  <2> QED
    BY <2>1, <2>2, <2>3 DEF TypeOK
<1>43. CASE CiSucceed
  <2>1. run' \in RunState
    BY <1>43 DEF CiSucceed
  <2>2. proc' \in Process
    BY <1>43 DEF CiSucceed, Process
  <2>3. WorldTypeOK'
    BY <1>43 DEF CiSucceed, WorldTypeOK, refs
  <2> QED
    BY <2>1, <2>2, <2>3 DEF TypeOK
<1>44. CASE CiFail
  <2>1. run' \in RunState
    BY <1>44 DEF CiFail
  <2>2. proc' \in Process
    BY <1>44 DEF CiFail, Process
  <2>3. WorldTypeOK'
    BY <1>44 DEF CiFail, Spend, WorldTypeOK, refs
  <2> QED
    BY <2>1, <2>2, <2>3 DEF TypeOK
<1>45. CASE Diverge
  <2>1. run' \in RunState
    BY <1>45 DEF Diverge
  <2>2. proc' \in Process
    BY <1>45 DEF Diverge, Process
  <2>3. WorldTypeOK'
    BY <1>45 DEF Diverge, Spend, WorldTypeOK, refs
  <2> QED
    BY <2>1, <2>2, <2>3 DEF TypeOK
<1>46. CASE MergeRelease
  <2>1. run' \in RunState
    BY <1>46 DEF MergeRelease
  <2>2. proc' \in Process
    BY <1>46 DEF MergeRelease, Process
  <2>3. WorldTypeOK'
    BY <1>46 DEF MergeRelease, WorldTypeOK, refs
  <2> QED
    BY <2>1, <2>2, <2>3 DEF TypeOK
<1>47. ASSUME NEW allow \in BOOLEAN, NEW down \in SUBSET Target, Resume(allow, down)
       PROVE  TypeOK'
  <2>1. run' \in RunState
    BY <1>47 DEF Resume
  <2>2. proc' \in Process
    <3>1. PICK A \in SUBSET Target : proc' = [Idle EXCEPT !.step = "adopt", !.adopt = A]
      <4>1. {t \in Target : ResumeAction(t, down, allow) = "adopt"} \in SUBSET Target
        OBVIOUS
      <4> QED
        BY <1>47, <4>1 DEF Resume
    <3> QED
      BY <3>1, IdleType DEF Process
  <2>3. WorldTypeOK'
    BY <1>47 DEF Resume, Spend, WorldTypeOK, refs
  <2> QED
    BY <2>1, <2>2, <2>3 DEF TypeOK
<1>48. CASE UNCHANGED vars
  BY <1>48 DEF TypeOK, WorldTypeOK, vars
<1> QED
  BY <1>1, <1>2, <1>3, <1>4, <1>5, <1>6, <1>7, <1>8, <1>9, <1>10, <1>11, <1>12,
     <1>13, <1>14, <1>15, <1>16, <1>17, <1>18, <1>19, <1>20, <1>21, <1>22, <1>23, <1>24,
     <1>25, <1>26, <1>27, <1>28, <1>29, <1>30, <1>31, <1>32, <1>33, <1>34, <1>35, <1>36,
     <1>37, <1>38, <1>39, <1>40, <1>41, <1>42, <1>43, <1>44, <1>45, <1>46, <1>47, <1>48
  DEF Next, Coordinate, Operate, Fault, World

\* The journal's projection, the process and the world keep their types.
THEOREM TypeCorrect == Spec => []TypeOK
<1>1. Init => TypeOK
  <2> SUFFICES ASSUME Init PROVE TypeOK
    OBVIOUS
  <2>1. run \in RunState
    BY DEF Init, CreatedRun, RunState
  <2>2. proc \in Process
    BY Labels, IdleType DEF Init, Process
  <2>3. WorldTypeOK
    BY SetsAssumption DEF Init, WorldTypeOK
  <2> QED
    BY <2>1, <2>2, <2>3 DEF TypeOK
<1> QED
  BY <1>1, TypeStep, PTL DEF Spec

-----------------------------------------------------------------------------
(* The inductive invariant.                                                *)

\* What a barrier that is behind the run has established.
Established(p) ==
  /\ p = Bump /\ HasBump => run.bump # NoCommit
  /\ p = DryRun  => run.dryRun = Target
  /\ p = Build   => run.built = Target
  /\ p = Publish => EngineTargets \subseteq run.published

\* A barrier is behind the run once it is journaled Ok, and, for the process
\* at work, once the process has gone past it.
Behind(p) == run.phases[p] = "ok" \/ proc.phase > p

BarrierFacts == \A p \in Phase : Behind(p) => Established(p)

\* Steps that belong to one barrier.
StepsFit ==
  /\ proc.step \in {"idle", "adopt", "checkout", "applied"} => proc.phase = Bump
  /\ proc.step = "uploaded" => proc.phase = Publish
  /\ proc.step \in {"tagged", "tag_pushed", "released"} => proc.phase = Tag
  /\ proc.step \in {"fetch", "written"} => proc.phase = Dist
  /\ proc.step \in {"owners", "owner_failed", "poll"} => proc.phase = Verify
  /\ proc.step = "advanced" => proc.phase = AdvanceBranch

\* The checkout is at the commit of the run, except between making the bump
\* commit and journaling it.
Sealed ==
  /\ ~HasBump => run.bump = NoCommit
  /\ proc.step \notin {"idle", "adopt", "checkout", "applied"} => proc.checkout = Commit
  /\ proc.step = "applied" => run.bump = NoCommit /\ proc.checkout \in Nat
  /\ proc.phase = Bump /\ proc.step \notin {"idle", "adopt", "checkout", "enter"} => HasBump

\* Something of this release exists outside the process.
Out == \/ \E t \in Target : Ours(artifact[t])
       \/ Ours(localTag)
       \/ Ours(remoteTag)
       \/ run.advanced # NoCommit

OutFacts == Out => Established(Bump) /\ Established(DryRun) /\ Established(Build)

TagFacts == Ours(localTag) \/ Ours(remoteTag) => Established(Publish)

OneCommit ==
  /\ \A t \in Target : Ours(artifact[t]) => artifact[t] = Commit
  /\ Ours(localTag) => localTag = Commit
  /\ Ours(remoteTag) => remoteTag = Commit
  /\ run.advanced # NoCommit => run.advanced = Commit

UploadOrder ==
  \A t \in EngineTargets : Ours(artifact[t]) =>
    \A u \in EngineTargets : u < t => u \in run.published

DelegatedAreCi == run.delegated \subseteq CiTargets

\* A process only works on a run in progress; all it has left to do on one it
\* has just completed is to skip a barrier the plan does not have.
Live == proc.step # "idle" =>
          \/ run.status = "in_progress"
          \/ proc.step = "enter" /\ proc.phase = AdvanceBranch /\ ~Advances

ProcInv  == BarrierFacts /\ StepsFit /\ Sealed /\ Live
WorldInv == OutFacts /\ TagFacts /\ OneCommit /\ UploadOrder /\ DelegatedAreCi
Inv      == ProcInv /\ WorldInv

-----------------------------------------------------------------------------
(* Steps that leave the invariant's facts alone.                           *)

\* A quiet event leaves the barriers, the bump and the advance as they are.
LEMMA RecordQuiet ==
  ASSUME run \in RunState, NEW e \in QuietEvent, Record(e)
  PROVE  Grows(run, run') /\ SameBarriers(run, run')
BY ApplyQuiet DEF Record

\* A step that records nothing leaves the journal part as it is.
LEMMA NothingRecorded ==
  ASSUME run' = run
  PROVE  Grows(run, run') /\ SameBarriers(run, run')
BY DEF Grows, SameBarriers

\* The released commit depends on the recorded bump alone.
LEMMA CommitKept ==
  ASSUME Grows(run, run')
  PROVE  Commit' = Commit
BY DEF Grows, Commit

\* What the closed barriers establish survives a journal that only grows.
LEMMA EstablishedKept ==
  ASSUME run' \in RunState, Grows(run, run'), NEW p \in Phase, Established(p)
  PROVE  Established(p)'
<1>1. run'.dryRun \subseteq Target /\ run'.built \subseteq Target
  BY DEF RunState
<1> QED
  BY <1>1 DEF Established, Grows

\* The world part survives whatever does not touch content, tags or commits.
LEMMA WorldFrame ==
  ASSUME run' \in RunState, WorldInv, Grows(run, run'), run'.delegated \subseteq CiTargets,
         UNCHANGED <<artifact, localTag, remoteTag>>
  PROVE  WorldInv'
<1> USE CommitKept, EstablishedKept, Barriers
<1>1. OutFacts'
  BY DEF WorldInv, OutFacts, Out, Ours, Grows
<1>2. TagFacts'
  BY DEF WorldInv, TagFacts, Ours
<1>3. OneCommit'
  BY DEF WorldInv, OneCommit, Ours, Grows
<1>4. UploadOrder'
  BY DEF WorldInv, UploadOrder, Ours, Grows
<1> QED
  BY <1>1, <1>2, <1>3, <1>4 DEF WorldInv, DelegatedAreCi

\* The process part survives a step inside a barrier.
LEMMA WorkStep ==
  ASSUME TypeOK, TypeOK', ProcInv,
         Grows(run, run'), run'.phases = run.phases, run'.status = run.status,
         proc.step \notin {"idle", "adopt", "checkout", "enter", "applied"},
         proc'.step \notin {"idle", "adopt", "checkout", "enter", "applied"},
         proc'.phase = proc.phase, proc'.checkout = proc.checkout,
         StepsFit'
  PROVE  ProcInv'
<1> USE DEF TypeOK, ProcInv
<1>1. BarrierFacts'
  BY EstablishedKept DEF BarrierFacts, Behind
<1>2. Sealed'
  BY CommitKept DEF Sealed, Grows
<1>3. Live'
  BY DEF Live
<1> QED
  BY <1>1, <1>2, <1>3

\* A failed barrier records its failure and stops, or goes on to observe.
LEMMA FailStep ==
  ASSUME TypeOK, TypeOK', ProcInv, proc.step \notin {"idle", "adopt", "checkout", "enter"},
         FailPhase(proc.phase)
  PROVE  ProcInv' /\ Grows(run, run') /\ run'.delegated = run.delegated
<1> USE DEF TypeOK
<1>1. proc.phase \in Phase
  BY DEF Process
<1>2. /\ Grows(run, run') /\ run'.delegated = run.delegated
      /\ \A q \in Phase : run'.phases[q] = "ok" => run.phases[q] = "ok"
      /\ run'.status = run.status
  BY <1>1, ApplyCompleted DEF FailPhase, Record
<1>3. CASE proc.phase # Dist
  <2>1. proc' = Idle
    BY <1>3 DEF FailPhase
  <2>2. BarrierFacts'
    BY <1>2, <2>1, EstablishedKept DEF ProcInv, BarrierFacts, Behind, Idle, Bump, Phase,
                                       AdvanceBranch
  <2>3. StepsFit' /\ Sealed' /\ Live'
    BY <1>2, <2>1 DEF ProcInv, StepsFit, Sealed, Live, Idle, Grows
  <2> QED
    BY <1>2, <2>2, <2>3 DEF ProcInv
<1>4. CASE proc.phase = Dist
  <2>1. /\ proc'.step = "enter" /\ proc'.phase = Verify /\ proc'.checkout = proc.checkout
    BY <1>4 DEF FailPhase, Process
  <2>2. BarrierFacts'
    BY <1>2, <1>4, <2>1, EstablishedKept
    DEF ProcInv, BarrierFacts, Behind, Established, Phase,
        Bump, DryRun, Build, Publish, Dist, Verify, AdvanceBranch
  <2>3. proc.step # "applied"
    BY <1>4 DEF ProcInv, StepsFit, Bump, Dist
  <2>4. StepsFit' /\ Sealed'
    BY <1>2, <2>1, <2>3, CommitKept DEF ProcInv, StepsFit, Sealed, Grows, Bump, Verify
  <2>5. Live'
    BY <1>2, <2>1 DEF ProcInv, Live
  <2> QED
    BY <1>2, <2>2, <2>4, <2>5 DEF ProcInv
<1> QED
  BY <1>3, <1>4

\* Going on to the next barrier needs what the finished one establishes.
LEMMA NextStep ==
  ASSUME TypeOK, TypeOK', ProcInv,
         proc.step \notin {"idle", "adopt", "checkout", "applied"},
         Grows(run, run'), Established(proc.phase),
         \A q \in Phase : run'.phases[q] = "ok" => run.phases[q] = "ok" \/ q = proc.phase,
         run'.status = run.status \/ proc.phase = TerminalPhase,
         proc' = NextPhase(proc.phase)
  PROVE  ProcInv'
<1> USE DEF TypeOK
<1>1. CASE proc.phase = AdvanceBranch \/ ~proc.barrier
  <2>1. proc' = Idle
    BY <1>1 DEF NextPhase
  <2>2. BarrierFacts'
    BY <2>1, EstablishedKept DEF ProcInv, BarrierFacts, Behind, Idle, Bump, Phase,
                                 AdvanceBranch
  <2>3. StepsFit' /\ Sealed' /\ Live'
    BY <2>1 DEF ProcInv, StepsFit, Sealed, Live, Idle, Grows
  <2> QED
    BY <2>2, <2>3 DEF ProcInv
<1>2. CASE ~(proc.phase = AdvanceBranch \/ ~proc.barrier)
  <2>1. /\ proc'.step = "enter" /\ proc'.phase = proc.phase + 1
        /\ proc'.checkout = proc.checkout
    BY <1>2 DEF NextPhase, Process
  <2>2. BarrierFacts'
    <3> SUFFICES ASSUME NEW p \in Phase, Behind(p)'
                 PROVE  Established(p)'
      BY DEF BarrierFacts
    <3>1. run.phases[p] = "ok" \/ p = proc.phase \/ proc.phase > p
      BY <2>1 DEF Behind, Process, Phase, Bump, AdvanceBranch
    <3>2. Established(p)
      BY <3>1 DEF ProcInv, BarrierFacts, Behind
    <3> QED
      BY <3>2, EstablishedKept
  <2>3. StepsFit' /\ Sealed'
    BY <2>1, CommitKept DEF ProcInv, StepsFit, Sealed, Grows
  <2>4. Live'
    BY <1>2, <2>1, ScheduleAssumption DEF ProcInv, Live, Verify, AdvanceBranch
  <2> QED
    BY <2>2, <2>3, <2>4 DEF ProcInv
<1> QED
  BY <1>1, <1>2

\* A step of the process that starts over keeps what the journal establishes.
LEMMA RestartStep ==
  ASSUME TypeOK, TypeOK', ProcInv, Grows(run, run'), run'.phases = run.phases,
         proc'.step \in {"idle", "adopt", "checkout"}, proc'.phase = Bump,
         proc'.step # "idle" => run'.status = "in_progress"
  PROVE  ProcInv'
<1>1. BarrierFacts'
  BY EstablishedKept DEF TypeOK, ProcInv, BarrierFacts, Behind, Bump, Phase, AdvanceBranch
<1>2. StepsFit' /\ Sealed' /\ Live'
  BY DEF ProcInv, StepsFit, Sealed, Live, Grows
<1> QED
  BY <1>1, <1>2 DEF ProcInv

\* A step of neither the journal, the tags nor the content keeps the world part.
LEMMA NothingMoves ==
  ASSUME ProcInv, UNCHANGED <<run, proc>>
  PROVE  ProcInv'
BY DEF ProcInv, BarrierFacts, Behind, Established, StepsFit, Sealed, Live, Commit

-----------------------------------------------------------------------------
(* Steps that change content, a tag or a commit.                           *)

\* Past the build barrier every target has its dry run and its build.
LEMMA PastBuild ==
  ASSUME ProcInv, proc.phase \in Phase, proc.phase >= Publish
  PROVE  Established(Bump) /\ Established(DryRun) /\ Established(Build)
<1>1. Behind(Bump) /\ Behind(DryRun) /\ Behind(Build)
  BY DEF Behind, Phase, Bump, DryRun, Build, Publish, AdvanceBranch
<1> QED
  BY <1>1, Barriers DEF ProcInv, BarrierFacts

\* Past the publish barrier every engine target has its receipt.
LEMMA PastPublish ==
  ASSUME ProcInv, proc.phase \in Phase, proc.phase >= Tag
  PROVE  Established(Publish)
<1>1. Behind(Publish)
  BY DEF Behind, Phase, Bump, Publish, Tag, AdvanceBranch
<1> QED
  BY <1>1, Barriers DEF ProcInv, BarrierFacts

\* An engine target is due in publish-all exactly while it has no receipt.
LEMMA PendingPublish ==
  Pending(Publish) = (EngineTargets \cup CiTargets) \ (run.published \cup run.delegated)
BY ClassAssumption
DEF Pending, EngineTargets, CiTargets, PostTagTargets, DryRun, Build, Publish, Dist, Verify

\* A post-tag target is due in dist exactly while it has no receipt.
LEMMA PendingDist == Pending(Dist) = PostTagTargets \ run.published
BY DEF Pending, PostTagTargets, DryRun, Build, Publish, Dist, Verify

\* The released commit is content of this release, never a foreign one.
LEMMA CommitIsOurs == ASSUME run \in RunState PROVE Ours(Commit)
BY CommitType DEF Ours

\* Content that lands must be the run's commit, after all that goes before it.
LEMMA LandStep ==
  ASSUME TypeOK, WorldInv, run' = run, UNCHANGED <<localTag, remoteTag>>,
         NEW t \in Target, NEW c, artifact' = [artifact EXCEPT ![t] = c],
         Ours(c) => /\ c = Commit
                    /\ Established(Bump) /\ Established(DryRun) /\ Established(Build)
                    /\ t \in EngineTargets =>
                         \A u \in EngineTargets : u < t => u \in run.published
  PROVE  WorldInv'
<1>1. \A u \in Target : artifact'[u] = IF u = t THEN c ELSE artifact[u]
  BY DEF TypeOK, WorldTypeOK
<1>2. Commit' = Commit /\ \A p : Established(p)' = Established(p)
  BY DEF Commit, Established
<1>3. OutFacts'
  BY <1>1, <1>2 DEF WorldInv, OutFacts, Out
<1>4. TagFacts'
  BY <1>2 DEF WorldInv, TagFacts, Ours
<1>5. OneCommit'
  BY <1>1, <1>2 DEF WorldInv, OneCommit, Ours
<1>6. UploadOrder'
  BY <1>1 DEF WorldInv, UploadOrder, Ours, EngineTargets
<1> QED
  BY <1>3, <1>4, <1>5, <1>6 DEF WorldInv, DelegatedAreCi

\* A tag may only come to the run's commit, and after every publish.
LEMMA TagStep ==
  ASSUME TypeOK, WorldInv, run' = run, artifact' = artifact,
         Ours(localTag') => localTag' = Commit, Ours(remoteTag') => remoteTag' = Commit,
         Established(Bump), Established(DryRun), Established(Build), Established(Publish)
  PROVE  WorldInv'
<1>1. Commit' = Commit /\ \A p : Established(p)' = Established(p)
  BY DEF Commit, Established
<1>2. OutFacts' /\ TagFacts'
  BY <1>1 DEF OutFacts, TagFacts
<1>3. OneCommit'
  BY <1>1 DEF WorldInv, OneCommit, Ours
<1>4. UploadOrder'
  BY DEF WorldInv, UploadOrder, Ours
<1> QED
  BY <1>2, <1>3, <1>4 DEF WorldInv, DelegatedAreCi


-----------------------------------------------------------------------------
(* Every step keeps the invariant.                                         *)

\* The events about one target are quiet, except its delegation.
LEMMA QuietTargetEvents ==
  ASSUME NEW t \in Target
  PROVE  /\ TargetDryRun(t) \in QuietEvent /\ TargetBuilt(t) \in QuietEvent
         /\ TargetPublished(t) \in QuietEvent
         /\ \A m \in BOOLEAN : TargetVerified(t, m) \in QuietEvent
BY DEF QuietEvent

\* The events about the tag, the Release and the branch selection are quiet.
LEMMA QuietRunEvents ==
  /\ \A q \in Phase : PhaseEntered(q) \in QuietEvent
  /\ TagCreatedLocal \in QuietEvent /\ TagPushedRemote \in QuietEvent
  /\ GithubReleaseCreated \in QuietEvent /\ GithubReleaseDelegated \in QuietEvent
  /\ DefaultBranchSelected \in QuietEvent
BY DEF QuietEvent

\* Every action of the coordinator, the operator, the faults and the world keeps Inv.
LEMMA InvStep == TypeOK /\ TypeOK' /\ Inv /\ [Next]_vars => Inv'
<1> SUFFICES ASSUME TypeOK, TypeOK', Inv, [Next]_vars
             PROVE  Inv'
  OBVIOUS
<1>0. /\ run \in RunState /\ run' \in RunState /\ proc \in Process /\ proc' \in Process
      /\ ProcInv /\ WorldInv /\ run.delegated \subseteq CiTargets
  BY DEF TypeOK, Inv, WorldInv, DelegatedAreCi
<1> USE <1>0 DEF Inv
<1>1. ASSUME NEW t \in Target, DryRunTarget(t) PROVE Inv'
  <2>1. Grows(run, run') /\ SameBarriers(run, run')
    BY <1>1, QuietTargetEvents, RecordQuiet DEF DryRunTarget
  <2>2. ProcInv'
    BY <1>1, <2>1, WorkStep
    DEF DryRunTarget, At, Releasing, SameBarriers, Process, ProcInv, StepsFit
  <2> QED
    BY <1>1, <2>1, <2>2, WorldFrame DEF DryRunTarget, SameBarriers, refs
<1>2. ASSUME NEW t \in Target, BuildTarget(t) PROVE Inv'
  <2>1. Grows(run, run') /\ SameBarriers(run, run')
    BY <1>2, QuietTargetEvents, RecordQuiet DEF BuildTarget
  <2>2. ProcInv'
    BY <1>2, <2>1, WorkStep
    DEF BuildTarget, At, Releasing, SameBarriers, Process, ProcInv, StepsFit
  <2> QED
    BY <1>2, <2>1, <2>2, WorldFrame DEF BuildTarget, SameBarriers, refs
<1>3. ASSUME NEW t \in Target, RecordFormula(t) PROVE Inv'
  <2>1. Grows(run, run') /\ SameBarriers(run, run')
    BY <1>3, QuietTargetEvents, RecordQuiet DEF RecordFormula
  <2>2. ProcInv'
    BY <1>3, <2>1, WorkStep
    DEF RecordFormula, At, Releasing, SameBarriers, Process, ProcInv, StepsFit
  <2> QED
    BY <1>3, <2>1, <2>2, WorldFrame DEF RecordFormula, SameBarriers, refs
<1>4. ASSUME NEW t \in Target, VerifyTarget(t) PROVE Inv'
  <2>1. Grows(run, run') /\ SameBarriers(run, run')
    BY <1>4, QuietTargetEvents, RecordQuiet DEF VerifyTarget
  <2>2. ProcInv'
    BY <1>4, <2>1, WorkStep
    DEF VerifyTarget, At, Releasing, SameBarriers, Process, ProcInv, StepsFit
  <2> QED
    BY <1>4, <2>1, <2>2, WorldFrame DEF VerifyTarget, SameBarriers, refs
<1>5. CASE RecordTag
  <2>1. Grows(run, run') /\ SameBarriers(run, run')
    BY <1>5, QuietRunEvents, RecordQuiet DEF RecordTag
  <2>2. ProcInv'
    BY <1>5, <2>1, WorkStep
    DEF RecordTag, At, Releasing, SameBarriers, Process, ProcInv, StepsFit
  <2> QED
    BY <1>5, <2>1, <2>2, WorldFrame DEF RecordTag, SameBarriers, refs
<1>6. CASE RecordPush
  <2>1. Grows(run, run') /\ SameBarriers(run, run')
    BY <1>6, QuietRunEvents, RecordQuiet DEF RecordPush
  <2>2. ProcInv'
    BY <1>6, <2>1, WorkStep
    DEF RecordPush, At, Releasing, SameBarriers, Process, ProcInv, StepsFit
  <2> QED
    BY <1>6, <2>1, <2>2, WorldFrame DEF RecordPush, SameBarriers, refs
<1>7. CASE RecordRelease
  <2>1. Grows(run, run') /\ SameBarriers(run, run')
    BY <1>7, QuietRunEvents, RecordQuiet DEF RecordRelease
  <2>2. ProcInv'
    BY <1>7, <2>1, WorkStep
    DEF RecordRelease, At, Releasing, SameBarriers, Process, ProcInv, StepsFit
  <2> QED
    BY <1>7, <2>1, <2>2, WorldFrame DEF RecordRelease, SameBarriers, refs
<1>8. CASE DelegateRelease
  <2>1. Grows(run, run') /\ SameBarriers(run, run')
    BY <1>8, QuietRunEvents, RecordQuiet DEF DelegateRelease
  <2>2. ProcInv'
    BY <1>8, <2>1, WorkStep
    DEF DelegateRelease, At, Releasing, SameBarriers, Process, ProcInv, StepsFit
  <2> QED
    BY <1>8, <2>1, <2>2, WorldFrame DEF DelegateRelease, SameBarriers, refs
<1>9. CASE SelectBranch
  <2>1. Grows(run, run') /\ SameBarriers(run, run')
    BY <1>9, QuietRunEvents, RecordQuiet DEF SelectBranch
  <2>2. ProcInv'
    BY <1>9, <2>1, WorkStep
    DEF SelectBranch, At, Releasing, SameBarriers, Process, ProcInv, StepsFit
  <2> QED
    BY <1>9, <2>1, <2>2, WorldFrame DEF SelectBranch, SameBarriers, refs
<1>10. CASE OwnersNotReady
  <2>1. Grows(run, run') /\ SameBarriers(run, run')
    <3>1. PICK t \in Target : Record(TargetVerified(t, FALSE))
      BY <1>10 DEF OwnersNotReady, Owners, RunState
    <3> QED
      BY <3>1, QuietTargetEvents, RecordQuiet
  <2>2. ProcInv'
    BY <1>10, <2>1, WorkStep
    DEF OwnersNotReady, At, Releasing, SameBarriers, Process, ProcInv, StepsFit
  <2> QED
    BY <1>10, <2>1, <2>2, WorldFrame DEF OwnersNotReady, SameBarriers, refs
<1>11. ASSUME NEW t \in Target, NoOpUpload(t) PROVE Inv'
  <2>1. Grows(run, run') /\ SameBarriers(run, run')
    BY <1>11, NothingRecorded DEF NoOpUpload
  <2>2. ProcInv'
    BY <1>11, <2>1, WorkStep
    DEF NoOpUpload, At, Releasing, Publishing, SameBarriers, Process, ProcInv, StepsFit
  <2> QED
    BY <1>11, <2>1, <2>2, WorldFrame DEF NoOpUpload, SameBarriers, refs
<1>12. CASE CreateRelease
  <2>1. Grows(run, run') /\ SameBarriers(run, run')
    BY <1>12, NothingRecorded DEF CreateRelease
  <2>2. ProcInv'
    BY <1>12, <2>1, WorkStep
    DEF CreateRelease, At, Releasing, Publishing, SameBarriers, Process, ProcInv, StepsFit
  <2> QED
    BY <1>12, <2>1, <2>2, WorldFrame DEF CreateRelease, SameBarriers, refs
<1>13. CASE OwnersReady
  <2>1. Grows(run, run') /\ SameBarriers(run, run')
    BY <1>13, NothingRecorded DEF OwnersReady
  <2>2. ProcInv'
    BY <1>13, <2>1, WorkStep
    DEF OwnersReady, At, Releasing, Publishing, SameBarriers, Process, ProcInv, StepsFit
  <2> QED
    BY <1>13, <2>1, <2>2, WorldFrame DEF OwnersReady, SameBarriers, refs
<1>14. CASE PollRound
  <2>1. Grows(run, run') /\ SameBarriers(run, run')
    BY <1>14, NothingRecorded DEF PollRound
  <2>2. ProcInv'
    BY <1>14, <2>1, WorkStep
    DEF PollRound, At, Releasing, Publishing, SameBarriers, Process, ProcInv, StepsFit
  <2> QED
    BY <1>14, <2>1, <2>2, WorldFrame DEF PollRound, SameBarriers, refs
<1>15. ASSUME NEW t \in Target, Index(t) PROVE Inv'
  <2>1. Grows(run, run') /\ SameBarriers(run, run')
    BY <1>15, NothingRecorded DEF Index
  <2> QED
    BY <1>15, <2>1, NothingMoves, WorldFrame DEF Index, SameBarriers, refs
<1>16. ASSUME NEW t \in Target, Withdraw(t) PROVE Inv'
  <2>1. Grows(run, run') /\ SameBarriers(run, run')
    BY <1>16, NothingRecorded DEF Withdraw
  <2> QED
    BY <1>16, <2>1, NothingMoves, WorldFrame DEF Withdraw, SameBarriers, refs
<1>17. CASE CiStart
  <2>1. Grows(run, run') /\ SameBarriers(run, run')
    BY <1>17, NothingRecorded DEF CiStart
  <2> QED
    BY <1>17, <2>1, NothingMoves, WorldFrame DEF CiStart, SameBarriers, refs
<1>18. CASE CiSucceed
  <2>1. Grows(run, run') /\ SameBarriers(run, run')
    BY <1>18, NothingRecorded DEF CiSucceed
  <2> QED
    BY <1>18, <2>1, NothingMoves, WorldFrame DEF CiSucceed, SameBarriers, refs
<1>19. CASE CiFail
  <2>1. Grows(run, run') /\ SameBarriers(run, run')
    BY <1>19, NothingRecorded DEF CiFail
  <2> QED
    BY <1>19, <2>1, NothingMoves, WorldFrame DEF CiFail, SameBarriers, refs
<1>20. CASE Diverge
  <2>1. Grows(run, run') /\ SameBarriers(run, run')
    BY <1>20, NothingRecorded DEF Diverge
  <2> QED
    BY <1>20, <2>1, NothingMoves, WorldFrame DEF Diverge, SameBarriers, refs
<1>21. CASE MergeRelease
  <2>1. Grows(run, run') /\ SameBarriers(run, run')
    BY <1>21, NothingRecorded DEF MergeRelease
  <2> QED
    BY <1>21, <2>1, NothingMoves, WorldFrame DEF MergeRelease, SameBarriers, refs
<1>22. ASSUME NEW t \in Target, AuthenticateSkip(t) PROVE Inv'
  <2>1. proc.phase = Publish /\ proc.step \notin {"idle", "adopt", "checkout", "enter", "applied"}
    BY <1>22 DEF AuthenticateSkip, Publishing, At, ProcInv, StepsFit
  <2>2. CASE FailPhase(proc.phase)
    BY <1>22, <2>1, <2>2, FailStep, WorldFrame DEF AuthenticateSkip, refs
  <2>3. CASE ~FailPhase(proc.phase)
    <3>1. Grows(run, run') /\ SameBarriers(run, run')
      BY <1>22, <2>1, <2>3, QuietTargetEvents, RecordQuiet DEF AuthenticateSkip
    <3>2. ProcInv'
      BY <1>22, <2>1, <2>3, <3>1, WorkStep DEF AuthenticateSkip, SameBarriers, Process, ProcInv, StepsFit
    <3> QED
      BY <1>22, <3>1, <3>2, WorldFrame DEF AuthenticateSkip, SameBarriers, refs
  <2> QED
    BY <2>2, <2>3
<1>23. ASSUME NEW t \in Target, ConfirmUpload(t) PROVE Inv'
  <2>1. proc.phase = Publish /\ proc.step \notin {"idle", "adopt", "checkout", "enter", "applied"}
    BY <1>23 DEF ConfirmUpload, Publishing, At, ProcInv, StepsFit
  <2>2. CASE FailPhase(proc.phase)
    BY <1>23, <2>1, <2>2, FailStep, WorldFrame DEF ConfirmUpload, refs
  <2>3. CASE ~FailPhase(proc.phase)
    <3>1. Grows(run, run') /\ SameBarriers(run, run')
      BY <1>23, <2>1, <2>3, QuietTargetEvents, RecordQuiet DEF ConfirmUpload
    <3>2. ProcInv'
      BY <1>23, <2>1, <2>3, <3>1, WorkStep DEF ConfirmUpload, SameBarriers, Process, ProcInv, StepsFit
    <3> QED
      BY <1>23, <3>1, <3>2, WorldFrame DEF ConfirmUpload, SameBarriers, refs
  <2> QED
    BY <2>2, <2>3
<1>24. CASE FetchInputs
  <2>1. proc.phase = Dist /\ proc.step \notin {"idle", "adopt", "checkout", "enter", "applied"}
    BY <1>24 DEF FetchInputs, Publishing, At, ProcInv, StepsFit
  <2>2. CASE FailPhase(proc.phase)
    BY <1>24, <2>1, <2>2, FailStep, WorldFrame DEF FetchInputs, refs
  <2>3. CASE ~FailPhase(proc.phase)
    <3>1. Grows(run, run') /\ SameBarriers(run, run')
      BY <1>24, <2>1, <2>3, NothingRecorded DEF FetchInputs
    <3>2. ProcInv'
      BY <1>24, <2>1, <2>3, <3>1, WorkStep DEF FetchInputs, SameBarriers, Process, ProcInv, StepsFit
    <3> QED
      BY <1>24, <3>1, <3>2, WorldFrame DEF FetchInputs, SameBarriers, refs
  <2> QED
    BY <2>2, <2>3
<1>25. ASSUME NEW t \in Target, DelegateTarget(t) PROVE Inv'
  <2>1. Grows(run, run') /\ run'.phases = run.phases /\ run'.status = run.status
        /\ run'.delegated \subseteq run.delegated \cup {t}
    BY <1>25, ApplyDelegated DEF DelegateTarget, Record
  <2>2. ProcInv'
    BY <1>25, <2>1, WorkStep DEF DelegateTarget, Publishing, At, ProcInv, StepsFit
  <2> QED
    BY <1>25, <2>1, <2>2, WorldFrame DEF DelegateTarget, refs
<1>26. CASE Materialize
  <2>1. /\ proc'.step = "enter" /\ proc'.phase = Bump /\ proc'.checkout = Commit
        /\ run' = run
    BY <1>26 DEF Materialize, Process, ProcInv, StepsFit
  <2>2. Grows(run, run') /\ SameBarriers(run, run')
    BY <2>1, NothingRecorded
  <2>3. BarrierFacts'
    BY <2>1, <2>2, EstablishedKept
    DEF ProcInv, BarrierFacts, Behind, SameBarriers, Bump, Phase, AdvanceBranch
  <2>4. StepsFit' /\ Sealed'
    BY <2>1, <2>2, CommitKept DEF ProcInv, StepsFit, Sealed, Grows
  <2>5. Live'
    BY <1>26, <2>1 DEF Materialize, ProcInv, Live
  <2> QED
    BY <1>26, <2>2, <2>3, <2>4, <2>5, WorldFrame DEF Materialize, ProcInv, SameBarriers, refs
<1>27. CASE SkipPhase
  <2>1. Grows(run, run') /\ SameBarriers(run, run')
    BY <1>27, NothingRecorded DEF SkipPhase
  <2>2. proc.phase \in Phase
    BY DEF Process
  <2>3. Established(proc.phase)
    BY <1>27, <2>2 DEF SkipPhase, Skipped, ProcInv, BarrierFacts, Behind, Established,
                    Bump, DryRun, Build, Publish, Tag, Dist, Verify, AdvanceBranch
  <2>4. ProcInv'
    BY <1>27, <2>1, <2>3, NextStep DEF SkipPhase, SameBarriers
  <2> QED
    BY <1>27, <2>1, <2>4, WorldFrame DEF SkipPhase, SameBarriers, refs
<1>28. CASE EnterPhase
  <2>1. Grows(run, run') /\ SameBarriers(run, run')
    BY <1>28, QuietRunEvents, RecordQuiet DEF EnterPhase, Process
  <2>2. /\ proc'.step = FirstStep(proc.phase) /\ proc'.phase = proc.phase
        /\ proc'.checkout = proc.checkout
    BY <1>28 DEF EnterPhase, Process
  <2>3. BarrierFacts'
    BY <2>1, <2>2, EstablishedKept DEF ProcInv, BarrierFacts, Behind, SameBarriers
  <2>4. StepsFit'
    BY <2>2 DEF FirstStep, StepsFit
  <2>5. Sealed'
    BY <1>28, <2>1, <2>2, CommitKept
    DEF EnterPhase, Skipped, FirstStep, ProcInv, Sealed, Grows
  <2>6. Live'
    BY <1>28, <2>1 DEF EnterPhase, Skipped, ProcInv, Live, SameBarriers
  <2>7. ProcInv'
    BY <2>3, <2>4, <2>5, <2>6 DEF ProcInv
  <2> QED
    BY <1>28, <2>1, <2>7, WorldFrame DEF EnterPhase, SameBarriers, refs
<1>29. CASE CompletePhase
  <2>1. proc.phase \in Phase /\ proc.step = "work" /\ PhaseDone(proc.phase)
    BY <1>29 DEF CompletePhase, Process
  <2>2. CASE Outcome(proc.phase) = "ok"
    <3>1. Record(PhaseCompleted(proc.phase, "ok")) /\ proc' = NextPhase(proc.phase)
      BY <1>29, <2>2 DEF CompletePhase
    <3>2. /\ Grows(run, run') /\ run'.delegated = run.delegated
          /\ \A q \in Phase : run'.phases[q] = "ok" => run.phases[q] = "ok" \/ q = proc.phase
          /\ run'.status = run.status \/ proc.phase = TerminalPhase
      BY <2>1, <3>1, ApplyCompleted DEF Record
    <3>3. EngineTargets \cap CiTargets = {} /\ EngineTargets \subseteq Target
      BY DEF EngineTargets, CiTargets
    <3>4. /\ run.dryRun \subseteq Target /\ run.built \subseteq Target
      BY DEF RunState
    <3>5. Established(proc.phase)
      <4>1. proc.phase = Bump => run.bump # NoCommit
        BY <2>1 DEF PhaseDone
      <4>2. proc.phase = DryRun => run.dryRun = Target
        BY <2>1, <3>4 DEF PhaseDone, Pending
      <4>3. proc.phase = Build => run.built = Target
        BY <2>1, <3>4 DEF PhaseDone, Pending
      <4>4. proc.phase = Publish => EngineTargets \subseteq run.published
        BY <2>1, <3>3, PendingPublish DEF PhaseDone
      <4> QED
        BY <4>1, <4>2, <4>3, <4>4 DEF Established
    <3>6. ProcInv'
      BY <2>1, <3>1, <3>2, <3>5, NextStep
    <3> QED
      BY <1>29, <3>2, <3>6, WorldFrame DEF CompletePhase, refs
  <2>3. CASE Outcome(proc.phase) # "ok"
    <3>1. FailPhase(proc.phase)
      BY <1>29, <2>3 DEF CompletePhase
    <3> QED
      BY <1>29, <2>1, <3>1, FailStep, WorldFrame DEF CompletePhase, refs
  <2> QED
    BY <2>2, <2>3
<1>30. CASE OwnerFailureStops
  <2>1. /\ FailPhase(proc.phase)
        /\ proc.step \notin {"idle", "adopt", "checkout", "enter"}
    BY <1>30 DEF OwnerFailureStops, ProcInv, StepsFit
  <2> QED
    BY <1>30, <2>1, FailStep, WorldFrame DEF OwnerFailureStops, refs
<1>31. CASE CommandFails
  <2>1. /\ FailPhase(proc.phase)
        /\ proc.step \notin {"idle", "adopt", "checkout", "enter"}
    BY <1>31 DEF CommandFails, ProcInv, StepsFit
  <2> QED
    BY <1>31, <2>1, FailStep, WorldFrame DEF CommandFails, refs
<1>32. CASE EffectReportedFailed
  <2>1. /\ FailPhase(proc.phase)
        /\ proc.step \notin {"idle", "adopt", "checkout", "enter"}
    BY <1>32 DEF EffectReportedFailed, ProcInv, StepsFit
  <2> QED
    BY <1>32, <2>1, FailStep, WorldFrame DEF EffectReportedFailed, refs
<1>33. CASE CheckoutFails
  <2>1. Grows(run, run') /\ SameBarriers(run, run')
    BY <1>33, NothingRecorded DEF CheckoutFails
  <2>2. proc'.step = "idle" /\ proc'.phase = Bump
    BY <1>33 DEF CheckoutFails, Idle
  <2>3. ProcInv'
    BY <2>1, <2>2, RestartStep DEF SameBarriers
  <2> QED
    BY <1>33, <2>1, <2>3, WorldFrame DEF CheckoutFails, SameBarriers, refs
<1>34. CASE Crash
  <2>1. Grows(run, run') /\ SameBarriers(run, run')
    BY <1>34, NothingRecorded DEF Crash
  <2>2. proc'.step = "idle" /\ proc'.phase = Bump
    BY <1>34 DEF Crash, Idle
  <2>3. ProcInv'
    BY <2>1, <2>2, RestartStep DEF SameBarriers
  <2> QED
    BY <1>34, <2>1, <2>3, WorldFrame DEF Crash, SameBarriers, refs
<1>35. CASE Adopt
  <2>1. Grows(run, run') /\ SameBarriers(run, run')
    BY <1>35, NothingRecorded, QuietTargetEvents, RecordQuiet DEF Adopt, Process
  <2>2. proc'.step \in {"adopt", "checkout"} /\ proc'.phase = Bump
    BY <1>35 DEF Adopt, Process, ProcInv, StepsFit
  <2>3. ProcInv'
    BY <1>35, <2>1, <2>2, RestartStep DEF Adopt, SameBarriers, ProcInv, Live
  <2> QED
    BY <1>35, <2>1, <2>3, WorldFrame DEF Adopt, SameBarriers, refs
<1>36. CASE Abandon
  <2>1. Grows(run, run') /\ run'.phases = run.phases /\ run'.delegated = run.delegated
    BY <1>36, ApplyAbandoned DEF Abandon, Record
  <2>2. ProcInv'
    BY <1>36, <2>1, RestartStep DEF Abandon, ProcInv, StepsFit
  <2> QED
    BY <1>36, <2>1, <2>2, WorldFrame DEF Abandon, refs
<1>37. ASSUME NEW allow \in BOOLEAN, NEW down \in SUBSET Target, Resume(allow, down)
       PROVE  Inv'
  <2>1. Grows(run, run') /\ SameBarriers(run, run')
    BY <1>37, NothingRecorded DEF Resume
  <2>2. proc'.step = "adopt" /\ proc'.phase = Bump
    BY <1>37 DEF Resume, Idle
  <2>3. ProcInv'
    BY <1>37, <2>1, <2>2, RestartStep DEF Resume, SameBarriers
  <2> QED
    BY <1>37, <2>1, <2>3, WorldFrame DEF Resume, SameBarriers, refs
<1>38. CASE UNCHANGED vars
  <2>1. run' = run /\ proc' = proc /\ UNCHANGED <<artifact, localTag, remoteTag>>
    BY <1>38 DEF vars
  <2>2. Grows(run, run') /\ SameBarriers(run, run')
    BY <2>1, NothingRecorded
  <2> QED
    BY <2>1, <2>2, NothingMoves, WorldFrame DEF SameBarriers
<1>39. ASSUME NEW t \in Target, Upload(t) PROVE Inv'
  <2>1. At("work", Publish) /\ proc.phase \in Phase /\ proc.phase >= Publish
        /\ proc.step \notin {"idle", "adopt", "checkout", "enter", "applied"}
    BY <1>39 DEF Upload, Publishing, At, Process, Publish
  <2>2. CASE FailPhase(Publish) /\ artifact' = artifact
    BY <1>39, <2>1, <2>2, FailStep, WorldFrame DEF Upload, At, refs
  <2>3. CASE /\ artifact' = [artifact EXCEPT ![t] = proc.checkout]
             /\ proc' = [proc EXCEPT !.step = "uploaded"] /\ run' = run
    <3>1. ProcInv'
      BY <2>1, <2>3, NothingRecorded, WorkStep DEF At, SameBarriers, Process, StepsFit
    <3>2. proc.checkout = Commit
      BY <2>1 DEF ProcInv, Sealed
    <3>3. ASSUME NEW u \in EngineTargets, t \in EngineTargets, u < t
          PROVE  u \in run.published
      <4>1. u \notin Pending(Publish)
        BY <1>39, <3>3 DEF Upload, Publishing, IsNext, Target, EngineTargets
      <4>2. u \notin run.delegated
        BY <3>3 DEF EngineTargets, CiTargets
      <4> QED
        BY <3>3, <4>1, <4>2, PendingPublish
    <3>4. UNCHANGED <<localTag, remoteTag>>
      BY <1>39 DEF Upload, refs
    <3>5. WorldInv'
      BY <2>1, <2>3, <3>2, <3>3, <3>4, PastBuild, LandStep
    <3> QED
      BY <3>1, <3>5
  <2> QED
    BY <1>39, <2>2, <2>3 DEF Upload
<1>40. ASSUME NEW t \in Target, WriteFormula(t) PROVE Inv'
  <2>1. Grows(run, run') /\ SameBarriers(run, run')
    BY <1>40, NothingRecorded DEF WriteFormula
  <2>2. ProcInv'
    BY <1>40, <2>1, WorkStep DEF WriteFormula, At, SameBarriers, Process, StepsFit
  <2>3. t \notin EngineTargets
    BY <1>40, PendingDist DEF WriteFormula, IsNext, PostTagTargets, EngineTargets
  <2>4. UNCHANGED <<localTag, remoteTag>>
    BY <1>40 DEF WriteFormula, refs
  <2>5. WorldInv'
    BY <1>40, <2>3, <2>4, LandStep DEF WriteFormula, WorldInv, OutFacts, Out, OneCommit
  <2> QED
    BY <2>2, <2>5
<1>41. ASSUME NEW t \in Target, CiPublish(t) PROVE Inv'
  <2>1. run' = run /\ proc' = proc /\ UNCHANGED <<localTag, remoteTag>>
        /\ artifact' = [artifact EXCEPT ![t] = remoteTag]
    BY <1>41 DEF CiPublish, refs
  <2>2. t \notin EngineTargets
    BY <1>41 DEF CiPublish, CiTargets, EngineTargets
  <2>3. WorldInv'
    BY <2>1, <2>2, LandStep DEF WorldInv, OutFacts, Out, OneCommit
  <2> QED
    BY <2>1, <2>3, NothingMoves
<1>42. ASSUME NEW t \in Target, PublishForeign(t) PROVE Inv'
  <2>1. run' = run /\ proc' = proc /\ UNCHANGED <<localTag, remoteTag>>
        /\ artifact' = [artifact EXCEPT ![t] = Foreign]
    BY <1>42 DEF PublishForeign, refs
  <2>2. ~Ours(Foreign)
    BY ForeignAssumption DEF Ours
  <2>3. WorldInv'
    BY <2>1, <2>2, LandStep
  <2> QED
    BY <2>1, <2>3, NothingMoves
<1>43. CASE CreateTag
  <2>1. proc.step = "work" /\ proc.phase = Tag /\ proc.phase \in Phase /\ proc.phase >= Tag
        /\ proc.phase >= Publish /\ UNCHANGED <<artifact, remoteTag>>
    BY <1>43, Barriers DEF CreateTag, At, Tag, Publish
  <2>2. CASE FailPhase(Tag) /\ localTag' = localTag
    BY <2>1, <2>2, FailStep, WorldFrame
  <2>3. CASE localTag' = Commit /\ proc' = [proc EXCEPT !.step = "tagged"] /\ run' = run
    <3>1. ProcInv'
      BY <2>1, <2>3, NothingRecorded, WorkStep DEF SameBarriers, Process, StepsFit
    <3>2. WorldInv'
      BY <2>1, <2>3, PastBuild, PastPublish, TagStep DEF WorldInv, OneCommit, Ours
    <3> QED
      BY <3>1, <3>2
  <2> QED
    BY <1>43, <2>2, <2>3 DEF CreateTag
<1>44. CASE PushTag
  <2>1. proc.step = "work" /\ proc.phase = Tag /\ proc.phase \in Phase /\ proc.phase >= Tag
        /\ proc.phase >= Publish /\ UNCHANGED <<artifact, localTag>>
    BY <1>44, Barriers DEF PushTag, At, Tag, Publish
  <2>2. CASE FailPhase(Tag) /\ remoteTag' = remoteTag
    BY <2>1, <2>2, FailStep, WorldFrame
  <2>3. CASE remoteTag' = localTag /\ proc' = [proc EXCEPT !.step = "tag_pushed"] /\ run' = run
    <3>1. ProcInv'
      BY <2>1, <2>3, NothingRecorded, WorkStep DEF SameBarriers, Process, StepsFit
    <3>2. WorldInv'
      BY <2>1, <2>3, PastBuild, PastPublish, TagStep DEF WorldInv, OneCommit, Ours
    <3> QED
      BY <3>1, <3>2
  <2> QED
    BY <1>44, <2>2, <2>3 DEF PushTag
<1>45. CASE Advance
  <2>1. proc.step = "work" /\ proc.phase = AdvanceBranch
        /\ UNCHANGED <<artifact, localTag, remoteTag>>
    BY <1>45 DEF Advance, At
  <2>2. CASE FailPhase(AdvanceBranch)
    BY <2>1, <2>2, FailStep, WorldFrame
  <2>3. CASE proc' = [proc EXCEPT !.step = "advanced"] /\ run' = run
    <3>1. Grows(run, run') /\ SameBarriers(run, run')
      BY <2>3, NothingRecorded
    <3>2. ProcInv'
      BY <2>1, <2>3, <3>1, WorkStep DEF SameBarriers, Process, StepsFit
    <3> QED
      BY <2>1, <3>1, <3>2, WorldFrame DEF SameBarriers
  <2> QED
    BY <1>45, <2>2, <2>3 DEF Advance
<1>46. CASE RecordAdvance
  <2>1. proc.step = "advanced" /\ proc.phase = AdvanceBranch
        /\ UNCHANGED <<artifact, localTag, remoteTag>>
        /\ proc' = [proc EXCEPT !.step = "work"]
    BY <1>46 DEF RecordAdvance, ProcInv, StepsFit, refs
  <2>2. /\ run'.bump = run.bump /\ run'.advanced \in {run.advanced, Commit}
        /\ run'.dryRun = run.dryRun /\ run'.built = run.built
        /\ run'.published = run.published /\ SameBarriers(run, run')
    BY <1>46, ApplyAdvanced DEF RecordAdvance, Record
  <2>3. Commit' = Commit /\ \A p : Established(p)' = Established(p)
    BY <2>2 DEF Commit, Established
  <2>4. Established(Bump) /\ Established(DryRun) /\ Established(Build)
    BY <2>1, Barriers, PastBuild DEF AdvanceBranch, Publish
  <2>5. ProcInv'
    <3>1. BarrierFacts'
      BY <2>1, <2>2, <2>3 DEF ProcInv, BarrierFacts, Behind, SameBarriers, Process
    <3>2. StepsFit' /\ Sealed' /\ Live'
      BY <2>1, <2>2, <2>3
      DEF ProcInv, StepsFit, Sealed, Live, SameBarriers, Process, Bump, AdvanceBranch
    <3> QED
      BY <3>1, <3>2 DEF ProcInv
  <2>6. WorldInv'
    <3>1. OutFacts' /\ TagFacts'
      BY <2>1, <2>3, <2>4 DEF WorldInv, OutFacts, TagFacts, Ours
    <3>2. OneCommit'
      BY <2>1, <2>2, <2>3 DEF WorldInv, OneCommit, Ours
    <3>3. UploadOrder' /\ DelegatedAreCi'
      BY <2>1, <2>2 DEF WorldInv, UploadOrder, DelegatedAreCi, Ours, SameBarriers
    <3> QED
      BY <3>1, <3>2, <3>3 DEF WorldInv
  <2> QED
    BY <2>5, <2>6
<1>47. CASE ApplyBump
  <2>1. /\ proc.step = "work" /\ proc.phase = Bump /\ run.bump = NoCommit
        /\ proc'.step = "applied" /\ proc'.phase = Bump /\ proc'.checkout = commits + 1
        /\ UNCHANGED <<run, artifact, localTag, remoteTag>>
    BY <1>47 DEF ApplyBump, At, Process, refs
  <2>2. Grows(run, run') /\ SameBarriers(run, run')
    BY <2>1, NothingRecorded
  <2>3. commits + 1 \in Nat
    BY DEF TypeOK, WorldTypeOK
  <2>4. BarrierFacts'
    BY <2>1, <2>2, EstablishedKept DEF ProcInv, BarrierFacts, Behind, SameBarriers
  <2>5. StepsFit' /\ Sealed' /\ Live'
    BY <2>1, <2>3 DEF ProcInv, StepsFit, Sealed, Live
  <2> QED
    BY <2>1, <2>2, <2>4, <2>5, WorldFrame DEF ProcInv, SameBarriers
<1>48. CASE RecordBump
  <2>1. /\ proc.step = "applied" /\ proc.phase = Bump /\ run.bump = NoCommit
        /\ proc.checkout \in Nat /\ HasBump
        /\ proc'.step = "work" /\ proc'.phase = Bump /\ proc'.checkout = proc.checkout
        /\ UNCHANGED <<artifact, localTag, remoteTag>>
    BY <1>48 DEF RecordBump, ProcInv, StepsFit, Sealed, Process, refs
  <2>2. /\ run'.bump = proc.checkout /\ run'.advanced = run.advanced
        /\ run'.dryRun = run.dryRun /\ run'.built = run.built
        /\ run'.published = run.published /\ SameBarriers(run, run')
    <3>1. run.status = "in_progress"
      BY <2>1 DEF ProcInv, Live
    <3> QED
      BY <1>48, <3>1, ApplyBumpApplied DEF RecordBump, Record
  <2>3. Commit' = proc.checkout /\ run'.bump # NoCommit
    BY <2>1, <2>2, NoCommitAssumption DEF Commit
  <2>4. \A p \in Phase : Established(p) => Established(p)'
    BY <2>2, <2>3 DEF Established
  <2>5. ProcInv'
    <3>1. BarrierFacts'
      BY <2>1, <2>2, <2>4 DEF ProcInv, BarrierFacts, Behind, SameBarriers
    <3>2. StepsFit' /\ Sealed' /\ Live'
      BY <2>1, <2>2, <2>3 DEF ProcInv, StepsFit, Sealed, Live, SameBarriers
    <3> QED
      BY <3>1, <3>2 DEF ProcInv
  <2>6. ~Out
    BY <2>1 DEF WorldInv, OutFacts, Established, Bump
  <2>7. WorldInv'
    BY <2>1, <2>2, <2>6
    DEF WorldInv, OutFacts, TagFacts, OneCommit, UploadOrder, DelegatedAreCi, Out, Ours,
        SameBarriers, EngineTargets
  <2> QED
    BY <2>5, <2>7
<1> QED
  BY <1>1, <1>2, <1>3, <1>4, <1>5, <1>6, <1>7, <1>8, <1>9, <1>10, <1>11, <1>12,
     <1>13, <1>14, <1>15, <1>16, <1>17, <1>18, <1>19, <1>20, <1>21, <1>22, <1>23, <1>24,
     <1>25, <1>26, <1>27, <1>28, <1>29, <1>30, <1>31, <1>32, <1>33, <1>34, <1>35, <1>36,
     <1>37, <1>38, <1>39, <1>40, <1>41, <1>42, <1>43, <1>44, <1>45, <1>46, <1>47, <1>48
  DEF Next, Coordinate, Operate, Fault, World

-----------------------------------------------------------------------------
(* The theorems.                                                           *)

\* A run that was just created satisfies Inv.
LEMMA InvInit == Init => Inv
<1> SUFFICES ASSUME Init PROVE Inv
  OBVIOUS
<1>1. /\ run = CreatedRun /\ proc.step = "checkout" /\ proc.phase = Bump
  BY DEF Init, Idle
<1>2. BarrierFacts
  BY <1>1 DEF BarrierFacts, Behind, CreatedRun, Bump, Phase, AdvanceBranch
<1>3. StepsFit /\ Sealed /\ Live
  BY <1>1 DEF StepsFit, Sealed, Live, CreatedRun
<1>4. ~Out
  BY <1>1, NoCommitAssumption, ForeignAssumption, SetsAssumption
  DEF Init, Out, Ours, CreatedRun
<1>5. WorldInv
  BY <1>1, <1>4
  DEF WorldInv, OutFacts, TagFacts, OneCommit, UploadOrder, DelegatedAreCi, Out,
      EngineTargets, CreatedRun
<1> QED
  BY <1>2, <1>3, <1>5 DEF Inv, ProcInv

\* The barriers, the seal and the upload order are invariants of every run.
THEOREM Invariance == Spec => []Inv
<1>1. Inv /\ TypeOK /\ TypeOK' /\ [Next]_vars => Inv'
  BY InvStep
<1> QED
  BY <1>1, InvInit, TypeCorrect, PTL DEF Spec

\* Nothing leaves before all targets passed their dry run and their build, over
\* every crash, resume and partial barrier (execute).
THEOREM BuildBarrierHolds == Spec => []BuildBarrier
<1>1. Inv => BuildBarrier
  BY DEF Inv, WorldInv, OutFacts, Out, Established, BuildBarrier, DryRun, Build
<1> QED
  BY <1>1, Invariance, PTL

\* The tag is public only after every publish is receipted (tag_phase).
THEOREM TagBarrierHolds == Spec => []TagBarrier
<1>1. Inv => TagBarrier
  BY DEF Inv, WorldInv, TagFacts, Established, TagBarrier, Publish
<1> QED
  BY <1>1, Invariance, PTL

\* All content, the tag and the branch are at one commit, the journaled one, in
\* every interleaving of bump, crash and resume (bump_phase, execute).
THEOREM SingleCommitHolds == Spec => []SingleCommit
<1>1. Inv => SingleCommit
  <2> SUFFICES ASSUME Inv PROVE SingleCommit
    OBVIOUS
  <2>1. (\E t \in Target : Ours(artifact[t])) => (HasBump <=> run.bump # NoCommit)
    BY SetsAssumption
    DEF Inv, ProcInv, Sealed, WorldInv, OutFacts, Out, Established, Bump
  <2> QED
    BY <2>1 DEF Inv, WorldInv, OneCommit, SingleCommit
<1> QED
  BY <1>1, Invariance, PTL

\* At most one upload is without a receipt, and it is the first (publish_phase).
THEOREM OneUnreceiptedHolds == Spec => []AtMostOneUnreceipted
<1>1. Inv => AtMostOneUnreceipted
  <2> SUFFICES ASSUME Inv, NEW t \in Unreceipted, NEW u \in EngineTargets, u # t
               PROVE  u \notin Unreceipted /\ (u < t => u \in run.published)
    BY DEF AtMostOneUnreceipted
  <2>1. t \in EngineTargets /\ Ours(artifact[t]) /\ t \notin run.published
    BY DEF Unreceipted
  <2>2. u < t => u \in run.published
    BY <2>1 DEF Inv, WorldInv, UploadOrder
  <2>3. t < u => ~Ours(artifact[u])
    BY <2>1 DEF Inv, WorldInv, UploadOrder
  <2>4. u < t \/ t < u
    BY <2>1, TargetsAssumption DEF EngineTargets, Target
  <2> QED
    BY <2>2, <2>3, <2>4 DEF Unreceipted
<1> QED
  BY <1>1, Invariance, PTL

-----------------------------------------------------------------------------
(***************************************************************************)
(* What a completed run has delivered: the order in which barriers close,  *)
(* what each of them leaves in the journal and in the world, and that      *)
(* ReleaseCut implements Release.  The inductive invariant.                *)
(***************************************************************************)

Landed == {t \in Target : artifact[t] # NoCommit}

\* The process is inside a barrier.
Working == proc.step \notin {"idle", "adopt", "checkout", "enter"}

\* Barriers close in order.
Chain == \A p \in Phase : run.phases[p] = "ok" => \A q \in Phase : q < p => Skipped(q)

\* The process goes past closed barriers only, but for the look it takes at the
\* destinations after a failed dist.
Reached == \A q \in Phase : q < proc.phase => Skipped(q) \/ (q = Dist /\ ~proc.barrier)

Mode == ~proc.barrier => proc.phase = Verify

\* No closed barrier is worked on again.
AtWork == Working => ~Skipped(proc.phase) /\ run.current = proc.phase

Ended == run.status = "completed" => run.phases[TerminalPhase] = "ok"

Ladder == Chain /\ Reached /\ Mode /\ AtWork /\ Ended

\* What is journaled of the tag is there.
TagLine == /\ run.tagCreated \/ proc.step = "tagged" => Ours(localTag)
           /\ run.tagPushed \/ proc.step = "tag_pushed" => Ours(remoteTag)

\* The branch keeps the release commit once it has it.
BranchLine == run.advanced # NoCommit \/ proc.step = "advanced" => branch = "contains"

\* What a closed barrier leaves in the journal.
Closed == /\ run.phases[Tag] = "ok" => run.tagPushed
          /\ run.phases[Verify] = "ok" => run.verified = Target
          /\ run.phases[AdvanceBranch] = "ok" => run.advanced # NoCommit
          /\ run.advanced # NoCommit => run.phases[Verify] = "ok"

\* A target leaves verify's list when it is verified, or the barrier is lost.
Checked == Working /\ proc.phase = Verify =>
             /\ proc.step \in {"owners", "poll"} => proc.todo = Target
             /\ proc.step = "work" => proc.bad \/ proc.todo \cup run.verified = Target

\* Whatever anyone has seen, recorded or is about to record has landed.
Landing == /\ visible \subseteq Landed
           /\ run.published \cup run.verified \subseteq Landed
           /\ proc.seen \cup proc.adopt \subseteq Landed
           /\ proc.step = "written" => \A t \in Target : IsNext(Dist, t) => t \in Landed

\* The Release has one owner, also between its creation and the record of it.
Disposition == /\ OneDisposition
               /\ proc.step = "released" => ~run.releaseDelegated

\* Whatever is out was put there by a run that had gone past its build barrier
\* and left a signal of that.
OutBehindBuild ==
  (\E t \in Target : Ours(artifact[t])) \/ Ours(remoteTag) =>
    PublishReached(run) /\ Skipped(Bump) /\ Skipped(DryRun) /\ Skipped(Build)

Delivery == /\ Ladder /\ TagLine /\ BranchLine /\ Closed /\ Checked
            /\ Landing /\ Disposition /\ OutBehindBuild

-----------------------------------------------------------------------------
(* The kinds of steps, as far as the order of the barriers is concerned.    *)

SamePlace == run'.phases = run.phases /\ run'.current = run.current

\* A step inside a barrier.
Inside == /\ Working /\ Working'
          /\ proc'.phase = proc.phase /\ proc'.barrier = proc.barrier
          /\ SamePlace /\ run'.status = run.status

\* The barrier is lost.
Fails == Working /\ FailPhase(proc.phase)

\* The barrier is passed.
Closes == CompletePhase /\ Outcome(proc.phase) = "ok"

\* The process ends, starts over or prepares its checkout.
Restarts == /\ ~Working' /\ proc'.phase = Bump /\ proc'.barrier
            /\ SamePlace /\ run'.status \in {run.status, "abandoned"}

StepKind == \/ Inside \/ Fails \/ Closes \/ Restarts
            \/ EnterPhase \/ SkipPhase
            \/ UNCHANGED <<run, proc>>

\* Events about targets, the tag, the Release and the branch leave the place of
\* the run alone.
LEMMA RecordInside ==
  ASSUME run \in RunState, NEW e, Record(e),
         \/ \E c \in Nat : e = BumpApplied(c) \/ e = DefaultBranchAdvanced(c)
         \/ \E t \in Target : \/ e \in {TargetDryRun(t), TargetBuilt(t), TargetPublished(t),
                                        TargetDelegated(t)}
                              \/ \E m \in BOOLEAN : e = TargetVerified(t, m)
         \/ e \in {TagCreatedLocal, TagPushedRemote, GithubReleaseCreated,
                   GithubReleaseDelegated, DefaultBranchSelected}
  PROVE  SamePlace /\ run'.status = run.status
<1> SUFFICES LET r == Effect(run, e) IN
             r.phases = run.phases /\ r.current = run.current /\ r.status = run.status
  BY DEF Record, Apply, SamePlace
<1>1. CASE \E c \in Nat : e = BumpApplied(c) \/ e = DefaultBranchAdvanced(c)
  BY <1>1, EffectBumpApplied, EffectDefaultBranchAdvanced DEF RunState
<1>2. CASE \E t \in Target : e \in {TargetDryRun(t), TargetBuilt(t), TargetPublished(t),
                                    TargetDelegated(t)}
  BY <1>2, EffectTargetDryRun, EffectTargetBuilt, EffectTargetPublished,
     EffectTargetDelegated DEF RunState
<1>3. CASE \E t \in Target, m \in BOOLEAN : e = TargetVerified(t, m)
  BY <1>3, EffectTargetVerified DEF RunState
<1>4. CASE e = TagCreatedLocal
  <2>1. Effect(run, e) = [run EXCEPT !.tagCreated = TRUE]
    BY <1>4, EffectTagCreatedLocal
  <2> QED BY <2>1 DEF RunState
<1>5. CASE e = TagPushedRemote
  <2>1. Effect(run, e) = [run EXCEPT !.tagPushed = TRUE]
    BY <1>5, EffectTagPushedRemote
  <2> QED BY <2>1 DEF RunState
<1>6. CASE e = GithubReleaseCreated
  <2>1. Effect(run, e) = [run EXCEPT !.releaseCreated = TRUE]
    BY <1>6, EffectGithubReleaseCreated
  <2> QED BY <2>1 DEF RunState
<1>7. CASE e = GithubReleaseDelegated
  <2>1. Effect(run, e) = [run EXCEPT !.releaseDelegated = TRUE]
    BY <1>7, EffectGithubReleaseDelegated
  <2> QED BY <2>1 DEF RunState
<1>8. CASE e = DefaultBranchSelected
  <2>1. Effect(run, e) = [run EXCEPT !.branchSelected = TRUE]
    BY <1>8, EffectDefaultBranchSelected
  <2> QED BY <2>1 DEF RunState
<1> QED
  BY <1>1, <1>2, <1>3, <1>4, <1>5, <1>6, <1>7, <1>8

\* Every step is of one of the kinds.
LEMMA StepKinds ==
  ASSUME TypeOK, Inv, Mode, [Next]_vars
  PROVE  StepKind
<1>0. /\ run \in RunState /\ proc \in Process /\ StepsFit
  BY DEF TypeOK, Inv, ProcInv
<1> USE <1>0
<1>1. CASE \E t \in Target : \/ DryRunTarget(t) \/ BuildTarget(t) \/ DelegateTarget(t)
                             \/ RecordFormula(t) \/ VerifyTarget(t)
  <2>1. Working /\ Working' /\ proc'.phase = proc.phase /\ proc'.barrier = proc.barrier
    BY <1>1 DEF DryRunTarget, BuildTarget, DelegateTarget, RecordFormula, VerifyTarget,
                Publishing, At, Working, Process
  <2>2. SamePlace /\ run'.status = run.status
    BY <1>1, RecordInside
    DEF DryRunTarget, BuildTarget, DelegateTarget, RecordFormula, VerifyTarget
  <2> QED
    BY <2>1, <2>2 DEF StepKind, Inside
<1>2. CASE RecordTag \/ RecordPush \/ RecordRelease \/ DelegateRelease \/ SelectBranch
  <2>1. Working /\ Working' /\ proc'.phase = proc.phase /\ proc'.barrier = proc.barrier
    BY <1>2 DEF RecordTag, RecordPush, RecordRelease, DelegateRelease, SelectBranch,
                Releasing, At, Working, Process
  <2>2. SamePlace /\ run'.status = run.status
    BY <1>2, RecordInside
    DEF RecordTag, RecordPush, RecordRelease, DelegateRelease, SelectBranch
  <2> QED
    BY <2>1, <2>2 DEF StepKind, Inside
<1>3. CASE RecordBump \/ RecordAdvance \/ OwnersNotReady
  <2>1. Working /\ Working' /\ proc'.phase = proc.phase /\ proc'.barrier = proc.barrier
    BY <1>3 DEF RecordBump, RecordAdvance, OwnersNotReady, Working, Process
  <2>2. SamePlace /\ run'.status = run.status
    <3>1. RecordBump => proc.checkout \in Nat
      BY DEF RecordBump, Inv, ProcInv, Sealed
    <3>2. RecordAdvance => Commit \in Nat
      BY CommitType
    <3>3. OwnersNotReady => \E t \in Target : Record(TargetVerified(t, FALSE))
      BY DEF OwnersNotReady, Owners, RunState
    <3> QED
      BY <1>3, <3>1, <3>2, <3>3, RecordInside DEF RecordBump, RecordAdvance
  <2> QED
    BY <2>1, <2>2 DEF StepKind, Inside
<1>4. CASE \/ ApplyBump \/ CreateRelease \/ OwnersReady \/ PollRound
           \/ \E t \in Target : NoOpUpload(t) \/ WriteFormula(t)
  BY <1>4 DEF ApplyBump, CreateRelease, OwnersReady, PollRound, NoOpUpload, WriteFormula,
              Publishing, Releasing, At, Working, Process, StepKind, Inside, SamePlace
<1>5. CASE CreateTag \/ PushTag \/ Advance \/ FetchInputs \/ \E t \in Target : Upload(t)
  BY <1>5 DEF CreateTag, PushTag, Advance, FetchInputs, Upload,
              Publishing, At, Working, Process, StepKind, Inside, Fails, SamePlace
<1>6. ASSUME NEW t \in Target, AuthenticateSkip(t) \/ ConfirmUpload(t) PROVE StepKind
  <2>1. Working /\ proc.phase = Publish
    BY <1>6 DEF AuthenticateSkip, ConfirmUpload, Publishing, At, Working, StepsFit
  <2>2. CASE FailPhase(Publish)
    BY <2>1, <2>2 DEF StepKind, Fails
  <2>3. CASE Record(TargetPublished(t)) /\ proc' \in {proc, [proc EXCEPT !.step = "work"]}
    BY <2>1, <2>3, RecordInside DEF Working, Process, StepKind, Inside
  <2> QED
    BY <1>6, <2>2, <2>3 DEF AuthenticateSkip, ConfirmUpload
<1>7. CASE CommandFails \/ EffectReportedFailed \/ OwnerFailureStops
  BY <1>7 DEF CommandFails, EffectReportedFailed, OwnerFailureStops, StepsFit, Working,
              StepKind, Fails
<1>8. CASE CompletePhase
  <2>1. Working
    BY <1>8 DEF CompletePhase, Working
  <2> QED
    BY <1>8, <2>1 DEF CompletePhase, StepKind, Fails, Closes
<1>9. CASE Materialize
  BY <1>9 DEF Materialize, StepsFit, Mode, Process, Bump, Verify, Working, StepKind,
              Restarts, SamePlace
<1>10. CASE CheckoutFails \/ Crash \/ \E allow \in BOOLEAN, down \in SUBSET Target :
                                        Resume(allow, down)
  <2>1. run' = run
    BY <1>10 DEF CheckoutFails, Crash, Resume
  <2>2. proc' = Idle \/ \E A : proc' = [Idle EXCEPT !.step = "adopt", !.adopt = A]
    BY <1>10 DEF CheckoutFails, Crash, Resume
  <2>3. CASE proc' = Idle
    BY <2>1, <2>3 DEF Idle, Working, StepKind, Restarts, SamePlace
  <2>4. ASSUME NEW A, proc' = [Idle EXCEPT !.step = "adopt", !.adopt = A]
        PROVE  StepKind
    <3>1. proc'.step = "adopt" /\ proc'.phase = Bump /\ proc'.barrier = TRUE
      BY <2>4 DEF Idle
    <3> QED
      BY <2>1, <3>1 DEF Working, StepKind, Restarts, SamePlace
  <2> QED
    BY <2>2, <2>3, <2>4
<1>11. CASE Abandon
  <2>1. run'.phases = run.phases /\ run'.current = run.current /\ run'.status = "abandoned"
    BY <1>11, EffectRunAbandoned DEF Abandon, Record, Apply, RunState
  <2> QED
    BY <1>11, <2>1 DEF Abandon, StepsFit, Mode, Process, Bump, Verify, Working, StepKind,
                       Restarts, SamePlace
<1>12. CASE Adopt
  <2>1. /\ ~Working' /\ proc'.phase = Bump /\ proc'.barrier
    BY <1>12 DEF Adopt, StepsFit, Mode, Process, Bump, Verify, Working
  <2>2. SamePlace /\ run'.status = run.status
    BY <1>12, RecordInside DEF Adopt, Process, SamePlace
  <2> QED
    BY <2>1, <2>2 DEF StepKind, Restarts
<1>13. CASE \/ \E t \in Target : \/ Index(t) \/ Withdraw(t) \/ PublishForeign(t)
                                 \/ CiPublish(t)
            \/ CiStart \/ CiSucceed \/ CiFail \/ Diverge \/ MergeRelease
            \/ UNCHANGED vars
  BY <1>13 DEF Index, Withdraw, PublishForeign, CiPublish, CiStart, CiSucceed, CiFail,
               Diverge, MergeRelease, vars, StepKind
<1> QED
  BY <1>1, <1>2, <1>3, <1>4, <1>5, <1>6, <1>7, <1>8, <1>9, <1>10, <1>11, <1>12, <1>13
  DEF Next, Coordinate, Operate, Fault, World, StepKind

-----------------------------------------------------------------------------
(* The barriers close in order.                                             *)

\* Which barriers are closed depends on their records alone.
LEMMA SkippedKept ==
  ASSUME run'.phases = run.phases
  PROVE  \A q \in Phase : Skipped(q)' <=> Skipped(q)
BY DEF Skipped

\* The record that a barrier leaves, and that it alone may end the run.
LEMMA CompletionEffect ==
  ASSUME run \in RunState, run.status = "in_progress",
         NEW p \in Phase, NEW o \in {"ok", "failed"}, Record(PhaseCompleted(p, o))
  PROVE  /\ \A q \in Phase : run'.phases[q] = IF q = p THEN o ELSE run.phases[q]
         /\ run'.status = IF p = TerminalPhase /\ o = "ok" THEN "completed" ELSE run.status
         /\ run'.current = IF run.current = p THEN NoPhase ELSE run.current
<1>1. run' = Completed(run, p, o)
  BY EffectPhaseCompleted DEF Record, Apply
<1> QED
  BY <1>1 DEF Completed, RunState

\* A process inside a barrier works on a run in progress.
LEMMA WorkIsLive == ASSUME Inv, Working PROVE run.status = "in_progress"
BY DEF Inv, ProcInv, Live, Working

\* Every kind of step keeps the order of the barriers.
LEMMA LadderStep == TypeOK /\ TypeOK' /\ Inv /\ Ladder /\ [Next]_vars => Ladder'
<1> SUFFICES ASSUME TypeOK, TypeOK', Inv, Ladder, [Next]_vars
             PROVE  Ladder'
  OBVIOUS
<1>0. /\ run \in RunState /\ run' \in RunState /\ proc \in Process /\ proc' \in Process
      /\ proc.phase \in Phase /\ StepsFit
      /\ Chain /\ Reached /\ Mode /\ AtWork /\ Ended
  BY DEF TypeOK, Inv, ProcInv, Ladder, Process
<1> USE <1>0
<1>1. CASE Inside
  <2>1. run'.phases = run.phases /\ \A q \in Phase : Skipped(q)' <=> Skipped(q)
    BY <1>1, SkippedKept DEF Inside, SamePlace
  <2>2. Chain' /\ Reached' /\ Mode'
    BY <1>1, <2>1 DEF Inside, Chain, Reached, Mode
  <2>3. AtWork' /\ Ended'
    BY <1>1, <2>1 DEF Inside, SamePlace, AtWork, Ended
  <2> QED
    BY <2>2, <2>3 DEF Ladder
<1>2. CASE Fails
  <2>1. /\ run.status = "in_progress" /\ ~Skipped(proc.phase)
        /\ Record(PhaseCompleted(proc.phase, "failed"))
    BY <1>2, WorkIsLive DEF Fails, FailPhase, AtWork
  <2>2. /\ \A q \in Phase : run'.phases[q] = IF q = proc.phase THEN "failed" ELSE run.phases[q]
        /\ run'.status = "in_progress"
    BY <2>1, CompletionEffect
  <2>3. \A q \in Phase : Skipped(q) => Skipped(q)'
    BY <2>1, <2>2 DEF Skipped
  <2>4. Chain'
    BY <2>2, <2>3 DEF Chain
  <2>5. Ended'
    BY <2>2 DEF Ended
  <2>6. CASE proc.phase = Dist
    <3>1. proc'.step = "enter" /\ proc'.phase = Verify /\ ~proc'.barrier
      BY <1>2, <2>6 DEF Fails, FailPhase, Process
    <3>2. \A q \in Phase : q < Verify => q < Dist \/ q = Dist
      BY DEF Phase, Bump, Dist, Verify, AdvanceBranch
    <3>3. Reached'
      BY <2>3, <2>6, <3>1, <3>2 DEF Reached, Mode, Dist, Verify
    <3> QED
      BY <2>4, <2>5, <3>1, <3>3 DEF Ladder, Mode, AtWork, Working
  <2>7. CASE proc.phase # Dist
    <3>1. proc' = Idle
      BY <1>2, <2>7 DEF Fails, FailPhase
    <3>2. Reached' /\ Mode' /\ AtWork'
      BY <3>1 DEF Idle, Reached, Mode, AtWork, Working, Phase, Bump, AdvanceBranch
    <3> QED
      BY <2>4, <2>5, <3>2 DEF Ladder
  <2> QED
    BY <2>6, <2>7
<1>3. CASE Closes
  <2>1. /\ Working /\ ~Skipped(proc.phase) /\ Record(PhaseCompleted(proc.phase, "ok"))
        /\ proc' = NextPhase(proc.phase) /\ proc.barrier
    BY <1>3 DEF Closes, CompletePhase, Working, AtWork, Outcome, Mode
  <2>2. /\ \A q \in Phase : run'.phases[q] = IF q = proc.phase THEN "ok" ELSE run.phases[q]
        /\ run'.status \in {run.status, "completed"}
        /\ run'.status = "completed" => proc.phase = TerminalPhase
    BY <2>1, WorkIsLive, CompletionEffect
  <2>3. \A q \in Phase : Skipped(q) \/ q = proc.phase => Skipped(q)'
    BY <2>2 DEF Skipped
  <2>4. \A q \in Phase : q < proc.phase => Skipped(q)
    BY <2>1 DEF Reached
  <2>5. Chain'
    BY <2>2, <2>3, <2>4 DEF Chain
  <2>6. Ended'
    BY <2>2 DEF Ended
  <2>7. Reached' /\ Mode' /\ AtWork'
    <3>1. CASE proc.phase = AdvanceBranch
      BY <2>1, <3>1 DEF NextPhase, Idle, Reached, Mode, AtWork, Working, Phase, Bump,
                        AdvanceBranch
    <3>2. CASE proc.phase # AdvanceBranch
      <4>1. proc'.step = "enter" /\ proc'.phase = proc.phase + 1 /\ proc'.barrier
        BY <2>1, <3>2 DEF NextPhase, Process
      <4>2. \A q \in Phase : q < proc.phase + 1 => q < proc.phase \/ q = proc.phase
        BY DEF Phase, Bump, AdvanceBranch
      <4> QED
        BY <2>3, <2>4, <4>1, <4>2 DEF Reached, Mode, AtWork, Working
    <3> QED
      BY <3>1, <3>2
  <2> QED
    BY <2>5, <2>6, <2>7 DEF Ladder
<1>4. CASE Restarts
  <2>1. run'.phases = run.phases /\ \A q \in Phase : Skipped(q)' <=> Skipped(q)
    BY <1>4, SkippedKept DEF Restarts, SamePlace
  <2>2. Chain' /\ Ended'
    BY <1>4, <2>1 DEF Restarts, Chain, Ended
  <2>3. Reached' /\ Mode' /\ AtWork'
    BY <1>4 DEF Restarts, Reached, Mode, AtWork, Phase, Bump, AdvanceBranch
  <2> QED
    BY <2>2, <2>3 DEF Ladder
<1>5. CASE EnterPhase
  <2>1. run.status = "in_progress"
    BY <1>5 DEF EnterPhase, Inv, ProcInv, Live, Skipped
  <2>2. /\ run' = [run EXCEPT !.current = proc.phase]
        /\ proc'.phase = proc.phase /\ proc'.barrier = proc.barrier
    BY <1>5, <2>1, EffectPhaseEntered DEF EnterPhase, Record, Apply, Process
  <2>3. run'.phases = run.phases /\ run'.current = proc.phase /\ run'.status = run.status
    BY <2>2 DEF RunState
  <2>4. \A q \in Phase : Skipped(q)' <=> Skipped(q)
    BY <2>3, SkippedKept
  <2>5. Chain' /\ Reached' /\ Mode'
    BY <2>2, <2>3, <2>4 DEF Chain, Reached, Mode
  <2>6. AtWork' /\ Ended'
    BY <1>5, <2>2, <2>3, <2>4 DEF EnterPhase, AtWork, Ended
  <2> QED
    BY <2>5, <2>6 DEF Ladder
<1>6. CASE SkipPhase
  <2>1. run' = run /\ Skipped(proc.phase) /\ proc' = NextPhase(proc.phase)
    BY <1>6 DEF SkipPhase
  <2>2. Chain' /\ Ended'
    BY <2>1 DEF Chain, Ended, Skipped
  <2>3. CASE proc.phase = AdvanceBranch \/ ~proc.barrier
    <3>1. proc' = Idle
      BY <2>1, <2>3 DEF NextPhase
    <3> QED
      BY <2>2, <3>1 DEF Ladder, Idle, Reached, Mode, AtWork, Working, Phase, Bump,
                        AdvanceBranch
  <2>4. CASE ~(proc.phase = AdvanceBranch \/ ~proc.barrier)
    <3>1. proc'.step = "enter" /\ proc'.phase = proc.phase + 1 /\ proc'.barrier
      BY <2>1, <2>4 DEF NextPhase, Process
    <3>2. \A q \in Phase : q < proc.phase + 1 => q < proc.phase \/ q = proc.phase
      BY DEF Phase, Bump, AdvanceBranch
    <3>3. Reached'
      BY <2>1, <2>4, <3>1, <3>2 DEF Reached, Skipped
    <3> QED
      BY <2>2, <3>1, <3>3 DEF Ladder, Mode, AtWork, Working
  <2> QED
    BY <2>3, <2>4
<1>7. CASE UNCHANGED <<run, proc>>
  BY <1>7 DEF Ladder, Chain, Reached, Mode, AtWork, Ended, Skipped, Working
<1> QED
  BY <1>1, <1>2, <1>3, <1>4, <1>5, <1>6, <1>7, StepKinds DEF StepKind

-----------------------------------------------------------------------------
(* Which step may change which fact.                                        *)

\* A receipt is journaled after an upload, a skip, a formula or an adoption.
Receipt(t) == \/ AuthenticateSkip(t) \/ RecordFormula(t)
              \/ ConfirmUpload(t) /\ t \in visible
              \/ Adopt /\ t \in proc.adopt

\* A step leaves the journal alone, closes a barrier, or appends one event.
Recorded ==
  \/ run' = run
  \/ \E p \in Phase, o \in {"ok", "failed"} : Record(PhaseCompleted(p, o))
  \/ \E p \in Phase : Record(PhaseEntered(p))
  \/ \E c \in Nat : Record(BumpApplied(c))
  \/ Record(RunAbandoned) \/ Record(DefaultBranchSelected)
  \/ \E t \in Target : \/ Record(TargetDryRun(t)) \/ Record(TargetBuilt(t))
                       \/ Record(TargetDelegated(t))
                       \/ Receipt(t) /\ Record(TargetPublished(t))
                       \/ VerifyTarget(t) /\ \E m \in BOOLEAN : Record(TargetVerified(t, m))
                       \/ OwnersNotReady /\ Record(TargetVerified(t, FALSE))
  \/ RecordTag /\ Record(TagCreatedLocal)
  \/ RecordPush /\ Record(TagPushedRemote)
  \/ RecordRelease /\ Record(GithubReleaseCreated)
  \/ DelegateRelease /\ Record(GithubReleaseDelegated)
  \/ RecordAdvance /\ Record(DefaultBranchAdvanced(Commit))

\* Every step of the system records in one of these ways.
LEMMA StepRecords ==
  ASSUME TypeOK, Inv, [Next]_vars
  PROVE  Recorded
<1>0. /\ run \in RunState /\ proc \in Process /\ proc.phase \in Phase
  BY DEF TypeOK, Process
<1> USE <1>0, Barriers
<1>1. CASE \/ Materialize \/ CheckoutFails \/ SkipPhase \/ ApplyBump \/ CreateRelease
           \/ OwnersReady \/ PollRound \/ Crash
           \/ \E t \in Target : NoOpUpload(t) \/ WriteFormula(t)
           \/ \E allow \in BOOLEAN, down \in SUBSET Target : Resume(allow, down)
  BY <1>1 DEF Materialize, CheckoutFails, SkipPhase, ApplyBump, CreateRelease, OwnersReady,
              PollRound, Crash, NoOpUpload, WriteFormula, Resume, Recorded
<1>2. CASE \/ \E t \in Target : \/ Index(t) \/ Withdraw(t) \/ PublishForeign(t)
                                \/ CiPublish(t)
           \/ CiStart \/ CiSucceed \/ CiFail \/ Diverge \/ MergeRelease
           \/ UNCHANGED vars
  BY <1>2 DEF Index, Withdraw, PublishForeign, CiPublish, CiStart, CiSucceed, CiFail,
              Diverge, MergeRelease, vars, Recorded
<1>3. CASE \E p \in Phase : FailPhase(p)
  BY <1>3 DEF FailPhase, Recorded
<1>4. CASE CommandFails \/ EffectReportedFailed \/ OwnerFailureStops
  BY <1>3, <1>4 DEF CommandFails, EffectReportedFailed, OwnerFailureStops
<1>5. CASE CreateTag \/ PushTag \/ Advance \/ FetchInputs \/ \E t \in Target : Upload(t)
  BY <1>3, <1>5 DEF CreateTag, PushTag, Advance, FetchInputs, Upload, Recorded
<1>6. CASE CompletePhase
  BY <1>3, <1>6 DEF CompletePhase, Recorded
<1>7. CASE EnterPhase \/ Abandon \/ SelectBranch
  BY <1>7 DEF EnterPhase, Abandon, SelectBranch, Recorded
<1>8. CASE RecordBump
  <2>1. proc.checkout \in Nat
    BY <1>8 DEF RecordBump, Inv, ProcInv, Sealed
  <2> QED
    BY <1>8, <2>1 DEF RecordBump, Recorded
<1>9. CASE \E t \in Target : DryRunTarget(t) \/ BuildTarget(t) \/ DelegateTarget(t)
  BY <1>9 DEF DryRunTarget, BuildTarget, DelegateTarget, Recorded
<1>10. CASE \E t \in Target : AuthenticateSkip(t) \/ ConfirmUpload(t) \/ RecordFormula(t)
  BY <1>3, <1>10 DEF AuthenticateSkip, ConfirmUpload, RecordFormula, Receipt, Recorded
<1>11. CASE Adopt
  BY <1>11 DEF Adopt, Process, Receipt, Recorded
<1>12. CASE OwnersNotReady \/ \E t \in Target : VerifyTarget(t)
  BY <1>12 DEF OwnersNotReady, Owners, RunState, VerifyTarget, Recorded
<1>13. CASE RecordTag \/ RecordPush \/ RecordRelease \/ DelegateRelease \/ RecordAdvance
  BY <1>13 DEF RecordTag, RecordPush, RecordRelease, DelegateRelease, RecordAdvance,
               Recorded
<1> QED
  BY <1>1, <1>2, <1>4, <1>5, <1>6, <1>7, <1>8, <1>9, <1>10, <1>11, <1>12, <1>13
  DEF Next, Coordinate, Operate, Fault, World

TagFlagsKept == /\ run'.tagCreated = run.tagCreated /\ run'.tagPushed = run.tagPushed
                /\ run'.releaseCreated = run.releaseCreated
                /\ run'.releaseDelegated = run.releaseDelegated

TargetFactsKept == /\ run'.published = run.published /\ run'.delegated = run.delegated
                   /\ run'.verified = run.verified

FactsKept == TagFlagsKept /\ TargetFactsKept /\ run'.advanced = run.advanced

\* Facts about the tag and the targets are never taken back, except that a target
\* was verified; each is added by the action that is named for it.
JournalCauses ==
  /\ run.tagCreated => run'.tagCreated
  /\ run.tagPushed => run'.tagPushed
  /\ run.releaseCreated => run'.releaseCreated
  /\ run.releaseDelegated => run'.releaseDelegated
  /\ run.published \subseteq run'.published /\ run.delegated \subseteq run'.delegated
  /\ run'.tagCreated => run.tagCreated \/ RecordTag
  /\ run'.tagPushed => run.tagPushed \/ RecordPush
  /\ run'.releaseCreated => run.releaseCreated \/ RecordRelease
  /\ run'.releaseDelegated => run.releaseDelegated \/ DelegateRelease
  /\ run'.advanced = run.advanced \/ (RecordAdvance /\ run'.advanced = Commit)
  /\ \A t \in Target : t \in run'.published => t \in run.published \/ Receipt(t)
  /\ run'.verified = run.verified \/ OwnersNotReady \/ \E t \in Target : VerifyTarget(t)

\* Events about barriers, builds and the run as a whole leave those facts alone.
LEMMA RecordFrame ==
  ASSUME run \in RunState, run.status = "in_progress", NEW e, Record(e),
         \/ \E p \in Phase, o \in {"ok", "failed"} : e = PhaseCompleted(p, o)
         \/ \E p \in Phase : e = PhaseEntered(p)
         \/ \E c \in Nat : e = BumpApplied(c)
         \/ \E t \in Target : e = TargetDryRun(t) \/ e = TargetBuilt(t)
         \/ e = RunAbandoned
         \/ e = DefaultBranchSelected
  PROVE  FactsKept
<1>0. run' = Effect(run, e)
  BY DEF Record, Apply
<1>1. CASE \E p \in Phase, o \in {"ok", "failed"} : e = PhaseCompleted(p, o)
  <2>1. PICK p \in Phase, o \in {"ok", "failed"} : run' = Completed(run, p, o)
    BY <1>0, <1>1, EffectPhaseCompleted
  <2>2. TagFlagsKept
    BY <2>1 DEF Completed, RunState, TagFlagsKept
  <2>3. TargetFactsKept /\ run'.advanced = run.advanced
    BY <2>1 DEF Completed, RunState, TargetFactsKept
  <2> QED
    BY <2>2, <2>3 DEF FactsKept
<1>2. CASE \E p \in Phase : e = PhaseEntered(p)
  BY <1>0, <1>2, EffectPhaseEntered DEF RunState, FactsKept, TagFlagsKept, TargetFactsKept
<1>3. CASE \E c \in Nat : e = BumpApplied(c)
  BY <1>0, <1>3, EffectBumpApplied DEF RunState, FactsKept, TagFlagsKept, TargetFactsKept
<1>4. CASE \E t \in Target : e = TargetDryRun(t) \/ e = TargetBuilt(t)
  BY <1>0, <1>4, EffectTargetDryRun, EffectTargetBuilt
  DEF RunState, FactsKept, TagFlagsKept, TargetFactsKept
<1>5. CASE e = RunAbandoned
  <2>1. run' = [run EXCEPT !.status = "abandoned"]
    BY <1>0, <1>5, EffectRunAbandoned
  <2> QED BY <2>1 DEF RunState, FactsKept, TagFlagsKept, TargetFactsKept
<1>6. CASE e = DefaultBranchSelected
  <2>1. run' = [run EXCEPT !.branchSelected = TRUE]
    BY <1>0, <1>6, EffectDefaultBranchSelected
  <2> QED BY <2>1 DEF RunState, FactsKept, TagFlagsKept, TargetFactsKept
<1> QED
  BY <1>1, <1>2, <1>3, <1>4, <1>5, <1>6

\* Every step of the system changes the journal's facts for its own reason only.
LEMMA StepCauses ==
  ASSUME TypeOK, Inv, [Next]_vars
  PROVE  JournalCauses
<1>0. run \in RunState
  BY DEF TypeOK
<1> USE <1>0
<1>1. CASE FactsKept
  BY <1>1 DEF FactsKept, TagFlagsKept, TargetFactsKept, JournalCauses
<1>2. CASE run' = run
  BY <1>1, <1>2 DEF FactsKept, TagFlagsKept, TargetFactsKept
<1>3. CASE run.status # "in_progress"
  BY <1>2, <1>3, StepRecords DEF Recorded, Record, Apply
<1> SUFFICES ASSUME run.status = "in_progress" PROVE JournalCauses
  BY <1>3
<1>4. \A e : Record(e) => run' = Effect(run, e)
  BY DEF Record, Apply
<1>5. CASE \/ \E p \in Phase, o \in {"ok", "failed"} : Record(PhaseCompleted(p, o))
           \/ \E p \in Phase : Record(PhaseEntered(p))
           \/ \E c \in Nat : Record(BumpApplied(c))
           \/ Record(RunAbandoned) \/ Record(DefaultBranchSelected)
           \/ \E t \in Target : Record(TargetDryRun(t)) \/ Record(TargetBuilt(t))
  BY <1>1, <1>5, RecordFrame
<1>6. ASSUME NEW t \in Target, Record(TargetDelegated(t)) PROVE JournalCauses
  <2>1. run' = [run EXCEPT !.delegated = @ \cup {t}]
    BY <1>4, <1>6, EffectTargetDelegated
  <2> QED BY <2>1 DEF RunState, JournalCauses
<1>7. ASSUME NEW t \in Target, Receipt(t), Record(TargetPublished(t)) PROVE JournalCauses
  <2>1. run' = [run EXCEPT !.published = @ \cup {t}]
    BY <1>4, <1>7, EffectTargetPublished
  <2> QED BY <1>7, <2>1 DEF RunState, JournalCauses
<1>8. ASSUME NEW t \in Target, VerifyTarget(t) \/ OwnersNotReady,
             \E m \in BOOLEAN : Record(TargetVerified(t, m))
      PROVE  JournalCauses
  <2>1. \E V : run' = [run EXCEPT !.verified = V]
    BY <1>4, <1>8, EffectTargetVerified
  <2> QED BY <1>8, <2>1 DEF RunState, JournalCauses
<1>9. CASE RecordTag /\ Record(TagCreatedLocal)
  <2>1. run' = [run EXCEPT !.tagCreated = TRUE]
    BY <1>4, <1>9, EffectTagCreatedLocal
  <2> QED BY <1>9, <2>1 DEF RunState, JournalCauses
<1>10. CASE RecordPush /\ Record(TagPushedRemote)
  <2>1. run' = [run EXCEPT !.tagPushed = TRUE]
    BY <1>4, <1>10, EffectTagPushedRemote
  <2> QED BY <1>10, <2>1 DEF RunState, JournalCauses
<1>11. CASE RecordRelease /\ Record(GithubReleaseCreated)
  <2>1. run' = [run EXCEPT !.releaseCreated = TRUE]
    BY <1>4, <1>11, EffectGithubReleaseCreated
  <2> QED BY <1>11, <2>1 DEF RunState, JournalCauses
<1>12. CASE DelegateRelease /\ Record(GithubReleaseDelegated)
  <2>1. run' = [run EXCEPT !.releaseDelegated = TRUE]
    BY <1>4, <1>12, EffectGithubReleaseDelegated
  <2> QED BY <1>12, <2>1 DEF RunState, JournalCauses
<1>13. CASE RecordAdvance /\ Record(DefaultBranchAdvanced(Commit))
  <2>1. run' = [run EXCEPT !.advanced = Commit]
    BY <1>4, <1>13, EffectDefaultBranchAdvanced
  <2> QED BY <1>13, <2>1 DEF RunState, JournalCauses
<1> QED
  BY <1>2, <1>5, <1>6, <1>7, <1>8, <1>9, <1>10, <1>11, <1>12, <1>13, StepRecords
  DEF Recorded

\* Content, refs and the branch change by the actions that are named for it, and
\* a step label that stands for an effect is only set by the action that has it.
WorldCauses ==
  /\ artifact' = artifact \/ \E t \in Target : \/ Upload(t) \/ WriteFormula(t)
                                               \/ PublishForeign(t) \/ CiPublish(t)
  /\ visible' \subseteq visible \/ \E t \in Target : Index(t)
  /\ localTag' = localTag \/ CreateTag
  /\ remoteTag' = remoteTag \/ PushTag
  /\ branch = "contains" => branch' = "contains"
  /\ ci' = ci \/ CiStart \/ CiSucceed \/ CiFail

LabelCauses ==
  /\ proc'.step = "tagged" => proc.step = "tagged" \/ CreateTag
  /\ proc'.step = "tag_pushed" => proc.step = "tag_pushed" \/ PushTag
  /\ proc'.step = "released" => proc.step = "released" \/ CreateRelease
  /\ proc'.step = "advanced" => proc.step = "advanced" \/ Advance
  /\ proc'.step = "written" =>
       proc' = proc \/ \E t \in Target : WriteFormula(t)
  /\ proc'.seen \subseteq proc.seen \/ PollRound
  /\ proc'.adopt \subseteq proc.adopt
       \/ \E allow \in BOOLEAN, down \in SUBSET Target : Resume(allow, down)

\* No other action touches content, refs or the branch.
LEMMA StepWorldCauses ==
  ASSUME [Next]_vars
  PROVE  WorldCauses
<1>1. CASE \/ Materialize \/ CheckoutFails \/ SkipPhase \/ EnterPhase \/ CompletePhase
           \/ CommandFails \/ EffectReportedFailed \/ ApplyBump \/ RecordBump
           \/ RecordTag \/ RecordPush \/ RecordRelease \/ DelegateRelease \/ FetchInputs
  BY <1>1 DEF Materialize, CheckoutFails, SkipPhase, EnterPhase, CompletePhase,
              CommandFails, EffectReportedFailed, ApplyBump, RecordBump, RecordTag,
              RecordPush, RecordRelease, DelegateRelease, FetchInputs, refs, WorldCauses
<1>2. CASE \/ OwnersReady \/ OwnersNotReady \/ OwnerFailureStops \/ PollRound
           \/ SelectBranch \/ RecordAdvance \/ Adopt \/ Abandon \/ Crash
           \/ \E allow \in BOOLEAN, down \in SUBSET Target : Resume(allow, down)
  BY <1>2 DEF OwnersReady, OwnersNotReady, OwnerFailureStops, PollRound, SelectBranch,
              RecordAdvance, Adopt, Abandon, Crash, Resume, refs, WorldCauses
<1>3. CASE \E t \in Target : \/ DryRunTarget(t) \/ BuildTarget(t) \/ DelegateTarget(t)
                             \/ AuthenticateSkip(t) \/ ConfirmUpload(t) \/ NoOpUpload(t)
                             \/ RecordFormula(t) \/ VerifyTarget(t)
  BY <1>3 DEF DryRunTarget, BuildTarget, DelegateTarget, AuthenticateSkip, ConfirmUpload,
              NoOpUpload, RecordFormula, VerifyTarget, refs, WorldCauses
<1>4. CASE \E t \in Target : \/ Upload(t) \/ WriteFormula(t) \/ Index(t) \/ Withdraw(t)
                             \/ PublishForeign(t) \/ CiPublish(t)
  BY <1>4 DEF Upload, WriteFormula, Index, Withdraw, PublishForeign, CiPublish, refs,
              WorldCauses
<1>5. CASE CreateTag \/ PushTag \/ CreateRelease \/ Advance
  BY <1>5 DEF CreateTag, PushTag, CreateRelease, Advance, WorldCauses
<1>6. CASE CiStart \/ CiSucceed \/ CiFail \/ Diverge \/ MergeRelease \/ UNCHANGED vars
  BY <1>6 DEF CiStart, CiSucceed, CiFail, Diverge, MergeRelease, vars, refs, WorldCauses
<1> QED
  BY <1>1, <1>2, <1>3, <1>4, <1>5, <1>6 DEF Next, Coordinate, Operate, Fault, World

\* Leaving a barrier, either way, sets no such label and sees nothing new.
LEMMA LeaveCauses ==
  ASSUME TypeOK,
         \/ \E p \in Phase : FailPhase(p) \/ proc' = NextPhase(p)
         \/ proc' = Idle \/ proc' = proc
         \/ \E s \in {"enter", "checkout", "work", "uploaded", "applied", "fetch", "owners",
                      "owner_failed", "poll"} : proc'.step = s /\ proc'.seen = proc.seen
                                                /\ proc'.adopt \subseteq proc.adopt
  PROVE  LabelCauses
<1>0. proc \in Process
  BY DEF TypeOK
<1>1. CASE \E p \in Phase : FailPhase(p)
  BY <1>0, <1>1 DEF FailPhase, Idle, Process, LabelCauses
<1>2. CASE \E p \in Phase : proc' = NextPhase(p)
  <2>1. PICK p \in Phase : \/ proc' = Idle
                           \/ proc' = [proc EXCEPT !.step = "enter", !.phase = p + 1]
    BY <1>2 DEF NextPhase
  <2>2. CASE proc' = Idle
    BY <2>2 DEF Idle, LabelCauses
  <2>3. CASE proc' = [proc EXCEPT !.step = "enter", !.phase = p + 1]
    BY <1>0, <2>3 DEF Process, LabelCauses
  <2> QED
    BY <2>1, <2>2, <2>3
<1>3. CASE proc' = Idle \/ proc' = proc
  BY <1>3 DEF Idle, LabelCauses
<1>4. CASE \E s \in {"enter", "checkout", "work", "uploaded", "applied", "fetch", "owners",
                     "owner_failed", "poll"} : proc'.step = s /\ proc'.seen = proc.seen
                                               /\ proc'.adopt \subseteq proc.adopt
  BY <1>4 DEF LabelCauses
<1> QED
  BY <1>1, <1>2, <1>3, <1>4

\* No other action sets one of those labels or fills the sets of seen or adopted
\* targets.
LEMMA StepLabelCauses ==
  ASSUME TypeOK, [Next]_vars
  PROVE  LabelCauses
<1>0. proc \in Process /\ proc.phase \in Phase
  BY DEF TypeOK, Process
<1> USE <1>0, Barriers
<1>1. CASE \/ Materialize \/ CheckoutFails \/ SkipPhase \/ EnterPhase
           \/ ApplyBump \/ RecordBump
  BY <1>1, LeaveCauses
  DEF Materialize, CheckoutFails, SkipPhase, EnterPhase, FirstStep, ApplyBump, RecordBump,
      Process
<1>2. CASE CompletePhase \/ CommandFails \/ EffectReportedFailed \/ OwnerFailureStops
  BY <1>2, LeaveCauses
  DEF CompletePhase, CommandFails, EffectReportedFailed, OwnerFailureStops
<1>3. CASE \/ RecordTag \/ RecordPush \/ RecordRelease \/ DelegateRelease \/ FetchInputs
           \/ SelectBranch \/ RecordAdvance \/ OwnersReady \/ OwnersNotReady
           \/ Abandon \/ Crash
  BY <1>3, LeaveCauses
  DEF RecordTag, RecordPush, RecordRelease, DelegateRelease, FetchInputs, SelectBranch,
      RecordAdvance, OwnersReady, OwnersNotReady, Abandon, Crash, Process
<1>4. CASE \E t \in Target : \/ DryRunTarget(t) \/ BuildTarget(t) \/ DelegateTarget(t)
                             \/ AuthenticateSkip(t) \/ ConfirmUpload(t) \/ NoOpUpload(t)
                             \/ RecordFormula(t) \/ Upload(t)
  BY <1>4, LeaveCauses
  DEF DryRunTarget, BuildTarget, DelegateTarget, AuthenticateSkip, ConfirmUpload,
      NoOpUpload, RecordFormula, Upload, Process
<1>5. CASE \E t \in Target : VerifyTarget(t)
  <2>1. proc'.step = "work" /\ proc'.seen = proc.seen /\ proc'.adopt = proc.adopt
    BY <1>5 DEF VerifyTarget, At, Process
  <2> QED
    BY <2>1, LeaveCauses
<1>6. CASE PollRound
  BY <1>6 DEF PollRound, Process, LabelCauses
<1>7. CASE Adopt
  BY <1>7 DEF Adopt, Process, LabelCauses
<1>8. ASSUME NEW allow \in BOOLEAN, NEW down \in SUBSET Target, Resume(allow, down)
      PROVE  LabelCauses
  <2>1. proc'.step = "adopt" /\ proc'.seen = {}
    BY <1>8 DEF Resume, Idle
  <2> QED
    BY <1>8, <2>1 DEF LabelCauses
<1>9. CASE \/ CreateTag \/ PushTag \/ CreateRelease \/ Advance
  BY <1>9, LeaveCauses DEF CreateTag, PushTag, CreateRelease, Advance, Process, LabelCauses
<1>10. CASE \E t \in Target : WriteFormula(t)
  BY <1>10 DEF WriteFormula, Process, LabelCauses
<1>11. CASE \/ \E t \in Target : Index(t) \/ Withdraw(t) \/ PublishForeign(t) \/ CiPublish(t)
            \/ CiStart \/ CiSucceed \/ CiFail \/ Diverge \/ MergeRelease
            \/ UNCHANGED vars
  BY <1>11, LeaveCauses DEF Index, Withdraw, PublishForeign, CiPublish, CiStart, CiSucceed,
                            CiFail, Diverge, MergeRelease, vars
<1> QED
  BY <1>1, <1>2, <1>3, <1>4, <1>5, <1>6, <1>7, <1>8, <1>9, <1>10, <1>11
  DEF Next, Coordinate, Operate, Fault, World

-----------------------------------------------------------------------------
(* The tag, the Release and the branch.                                     *)

\* A failed tag or branch barrier ends the process.
LEMMA FailEnds ==
  ASSUME NEW p \in {Tag, AdvanceBranch}, FailPhase(p)
  PROVE  proc'.step = "idle"
BY DEF FailPhase, Idle, Tag, Dist, AdvanceBranch

\* The tag only comes to a commit of the run, and no journal entry outlives it.
LEMMA TagLineStep ==
  ASSUME TypeOK, Inv, TagLine, [Next]_vars
  PROVE  TagLine' /\ (Ours(remoteTag) => Ours(remoteTag)')
<1>0. run \in RunState /\ Ours(Commit)
  BY CommitIsOurs DEF TypeOK
<1>1. JournalCauses /\ WorldCauses /\ LabelCauses
  BY StepCauses, StepWorldCauses, StepLabelCauses
<1>2. CreateTag => Ours(localTag)' \/ (proc'.step = "idle" /\ localTag' = localTag)
  BY <1>0, FailEnds DEF CreateTag, Ours
<1>3. PushTag => Ours(remoteTag)' \/ (proc'.step = "idle" /\ remoteTag' = remoteTag)
  BY FailEnds DEF PushTag, TagLine, Ours
<1>4. /\ Ours(localTag) => Ours(localTag)'
      /\ Ours(remoteTag) => Ours(remoteTag)'
  BY <1>1, <1>2, <1>3 DEF WorldCauses, Ours
<1>5. run'.tagCreated \/ proc'.step = "tagged" => Ours(localTag)'
  BY <1>1, <1>2, <1>4 DEF JournalCauses, LabelCauses, TagLine, RecordTag
<1>6. run'.tagPushed \/ proc'.step = "tag_pushed" => Ours(remoteTag)'
  BY <1>1, <1>3, <1>4 DEF JournalCauses, LabelCauses, TagLine, RecordPush
<1> QED
  BY <1>4, <1>5, <1>6 DEF TagLine

\* The branch has the commit before the journal says so, and keeps it.
LEMMA BranchLineStep ==
  ASSUME TypeOK, Inv, BranchLine, [Next]_vars
  PROVE  BranchLine'
<1>1. JournalCauses /\ WorldCauses /\ LabelCauses
  BY StepCauses, StepWorldCauses, StepLabelCauses
<1>2. Advance => branch' = "contains" \/ proc'.step = "idle"
  BY FailEnds DEF Advance
<1> QED
  BY <1>1, <1>2 DEF JournalCauses, WorldCauses, LabelCauses, BranchLine, RecordAdvance

\* A Release gets its second owner neither from the coordinator nor from CI.
LEMMA DispositionStep ==
  ASSUME TypeOK, Inv, Disposition, [Next]_vars
  PROVE  Disposition'
<1>1. JournalCauses /\ LabelCauses
  BY StepCauses, StepLabelCauses
<1>2. RecordRelease => proc.step = "released"
  BY DEF RecordRelease
<1>3. DelegateRelease => proc.step = "work" /\ ~run.releaseCreated /\ proc' = proc
  BY DEF DelegateRelease, Releasing, At, ReleaseSettled, Contradiction
<1>4. CreateRelease => proc.step = "work" /\ ~run.releaseDelegated /\ run' = run
  BY DEF CreateRelease, Releasing, At, ReleaseSettled, Contradiction
<1>5. OneDisposition'
  BY <1>1, <1>2, <1>3 DEF JournalCauses, Disposition, OneDisposition, RecordRelease,
                          DelegateRelease
<1>6. proc'.step = "released" => ~run'.releaseDelegated
  BY <1>1, <1>3, <1>4 DEF JournalCauses, LabelCauses, Disposition
<1> QED
  BY <1>5, <1>6 DEF Disposition

-----------------------------------------------------------------------------
(* What the barriers leave in the journal.                                  *)

\* A closed barrier stays closed.
LEMMA OkKept ==
  ASSUME TypeOK, Inv, Ladder, [Next]_vars
  PROVE  /\ \A q \in Phase : run.phases[q] = "ok" => run'.phases[q] = "ok"
         /\ \A q \in Phase : run'.phases[q] = "ok" =>
              run.phases[q] = "ok" \/ (Closes /\ proc.phase = q)
         /\ \A q \in Phase : run.phases[q] # "none" => run'.phases[q] # "none"
         /\ \A q \in Phase : Skipped(q) => Skipped(q)'
<1>0. run \in RunState /\ proc.phase \in Phase /\ Mode /\ AtWork
  BY DEF TypeOK, Ladder, Process
<1> USE <1>0
<1>1. CASE run'.phases = run.phases
  BY <1>1, SkippedKept
<1>2. CASE Fails
  <2>1. ~Skipped(proc.phase) /\ Record(PhaseCompleted(proc.phase, "failed"))
    BY <1>2 DEF Fails, FailPhase, AtWork
  <2>2. \A q \in Phase : run'.phases[q] = IF q = proc.phase THEN "failed" ELSE run.phases[q]
    BY <1>2, <2>1, WorkIsLive, CompletionEffect DEF Fails
  <2> QED
    BY <2>1, <2>2 DEF Skipped
<1>3. CASE Closes
  <2>1. Working /\ Record(PhaseCompleted(proc.phase, "ok"))
    BY <1>3 DEF Closes, CompletePhase, Working
  <2>2. \A q \in Phase : run'.phases[q] = IF q = proc.phase THEN "ok" ELSE run.phases[q]
    BY <2>1, WorkIsLive, CompletionEffect
  <2> QED
    BY <1>3, <2>2 DEF Skipped
<1>4. CASE EnterPhase
  <2>1. run.status = "in_progress"
    BY <1>4 DEF EnterPhase, Inv, ProcInv, Live, Skipped
  <2>2. run' = [run EXCEPT !.current = proc.phase]
    BY <1>4, <2>1, EffectPhaseEntered DEF EnterPhase, Record, Apply
  <2> QED
    BY <1>1, <2>2 DEF RunState
<1> QED
  BY <1>1, <1>2, <1>3, <1>4, StepKinds
  DEF StepKind, Inside, Restarts, SkipPhase, SamePlace

\* What a verified target records, and when it counts as verified.
LEMMA VerifyEffect ==
  ASSUME TypeOK, Inv, NEW t \in Target, VerifyTarget(t)
  PROVE  /\ Working /\ proc.phase = Verify /\ t \in proc.todo \ run.verified
         /\ proc'.step = "work" /\ proc'.todo = proc.todo \ {t}
         /\ \/ proc'.bad /\ run'.verified = run.verified \ {t}
            \/ Observed(t) /\ proc'.bad = proc.bad /\ run'.verified = run.verified \cup {t}
<1>0. run \in RunState /\ proc \in Process
  BY DEF TypeOK
<1>1. /\ proc.step = "work" /\ proc.phase = Verify /\ Working
      /\ t \in proc.todo \ run.verified
  BY DEF VerifyTarget, At, Working, IsNext, Pending, DryRun, Build, Publish, Dist, Verify
<1>2. PICK m \in BOOLEAN :
        /\ m => Observed(t)
        /\ Record(TargetVerified(t, m))
        /\ proc' = [proc EXCEPT !.todo = @ \ {t}, !.bad = @ \/ ~m]
  BY DEF VerifyTarget
<1>3. run' = [run EXCEPT !.verified = IF m THEN @ \cup {t} ELSE @ \ {t}]
  BY <1>1, <1>2, WorkIsLive, EffectTargetVerified DEF Record, Apply
<1>4. /\ proc'.step = "work" /\ proc'.todo = proc.todo \ {t}
      /\ proc'.bad = (proc.bad \/ ~m)
  BY <1>0, <1>1, <1>2 DEF Process
<1>5. CASE m
  <2>1. run' = [run EXCEPT !.verified = @ \cup {t}]
    BY <1>3, <1>5
  <2>2. run'.verified = run.verified \cup {t}
    BY <1>0, <2>1 DEF RunState
  <2>3. proc'.bad = proc.bad
    BY <1>0, <1>4, <1>5 DEF Process
  <2> QED
    BY <1>1, <1>2, <1>4, <1>5, <2>2, <2>3
<1>6. CASE ~m
  <2>1. run' = [run EXCEPT !.verified = @ \ {t}]
    BY <1>3, <1>6
  <2>2. run'.verified = run.verified \ {t}
    BY <1>0, <2>1 DEF RunState
  <2>3. proc'.bad
    BY <1>4, <1>6
  <2> QED
    BY <1>1, <1>4, <2>2, <2>3
<1> QED
  BY <1>5, <1>6

\* Only verify's own step and a failed owner change the set of verified targets.
LEMMA VerifiedCauses ==
  ASSUME TypeOK, Inv, [Next]_vars, run'.verified # run.verified
  PROVE  /\ Working /\ proc.phase = Verify
         /\ \/ proc'.step = "owner_failed"
            \/ \E t \in Target : VerifyTarget(t)
BY StepCauses, VerifyEffect
DEF JournalCauses, OwnersNotReady, Working, TypeOK, Process, Inv, ProcInv, StepsFit

\* What is closed is recorded, for good.
LEMMA ClosedStep ==
  ASSUME TypeOK, TypeOK', Inv, Ladder, Checked, Closed, [Next]_vars
  PROVE  Closed'
<1>0. run \in RunState /\ proc \in Process /\ AtWork /\ Reached /\ StepsFit
  BY DEF TypeOK, Ladder, Inv, ProcInv
<1> USE <1>0, Barriers
<1>1. JournalCauses
  BY StepCauses
<1>2. /\ \A q \in Phase : run.phases[q] = "ok" => run'.phases[q] = "ok"
      /\ \A q \in Phase : run'.phases[q] = "ok" =>
           run.phases[q] = "ok" \/ (Closes /\ proc.phase = q)
  BY OkKept
<1>3. run'.phases[Tag] = "ok" => run'.tagPushed
  BY <1>1, <1>2 DEF JournalCauses, Closed, Closes, CompletePhase, PhaseDone
<1>4. run'.phases[Verify] = "ok" => run'.verified = Target
  <2>1. CASE run.phases[Verify] = "ok"
    BY <2>1, VerifiedCauses DEF Closed, AtWork, Skipped
  <2>2. CASE Closes /\ proc.phase = Verify
    <3>1. /\ proc.step = "work" /\ Pending(Verify) = {} /\ ~proc.bad
          /\ Working /\ Record(PhaseCompleted(Verify, "ok"))
      BY <2>2 DEF Closes, CompletePhase, PhaseDone, Outcome, Working
    <3>2. run.verified = Target
      BY <3>1, <2>2 DEF Checked, Pending, RunState, DryRun, Build, Publish, Dist, Verify
    <3>3. run'.verified = run.verified
      BY <3>1, WorkIsLive, RecordFrame DEF FactsKept, TargetFactsKept
    <3> QED
      BY <3>2, <3>3
  <2> QED
    BY <1>2, <2>1, <2>2
<1>5. run'.phases[AdvanceBranch] = "ok" => run'.advanced # NoCommit
  <2>1. Commit # NoCommit
    BY CommitType, NoCommitAssumption
  <2> QED
    BY <1>1, <1>2, <2>1 DEF JournalCauses, Closed, Closes, CompletePhase, PhaseDone
<1>6. run'.advanced # NoCommit => run'.phases[Verify] = "ok"
  <2>1. CASE run'.advanced = run.advanced
    BY <1>2, <2>1 DEF Closed
  <2>2. CASE RecordAdvance
    <3>1. proc.phase = AdvanceBranch
      BY <2>2 DEF RecordAdvance, StepsFit
    <3>2. run.phases[Verify] = "ok"
      BY <3>1 DEF Reached, Skipped, Bump, Dist, Verify, AdvanceBranch
    <3> QED
      BY <1>2, <3>2
  <2> QED
    BY <1>1, <2>1, <2>2 DEF JournalCauses
<1> QED
  BY <1>3, <1>4, <1>5, <1>6 DEF Closed

\* What a step inside verify, or into it, does to the list of targets.
LEMMA VerifyCauses ==
  ASSUME TypeOK, Inv, Mode, [Next]_vars, Working', proc'.phase = Verify,
         proc'.step \in {"owners", "poll", "work"}
  PROVE  \/ EnterPhase
         \/ \E t \in Target : VerifyTarget(t)
         \/ /\ Working /\ proc.phase = Verify /\ proc'.todo = proc.todo
            /\ proc'.bad = proc.bad /\ run'.verified = run.verified
            /\ proc'.step = proc.step \/ proc.step \in {"owners", "poll"}
<1>0. proc \in Process /\ StepsFit
  BY DEF TypeOK, Inv, ProcInv
<1>1. CASE Inside \/ UNCHANGED <<run, proc>>
  <2>1. Working /\ proc.phase = Verify
    BY <1>1 DEF Inside, Working
  <2>2. run'.verified = run.verified \/ \E t \in Target : VerifyTarget(t)
    BY VerifiedCauses
  <2>3. \/ \E t \in Target : VerifyTarget(t)
        \/ /\ proc'.todo = proc.todo /\ proc'.bad = proc.bad
           /\ proc'.step = proc.step \/ proc.step \in {"owners", "poll"}
    <3>1. CASE UNCHANGED proc
      BY <3>1
    <3>2. CASE OwnersReady \/ PollRound
      BY <1>0, <3>2 DEF OwnersReady, PollRound, Process
    <3>3. CASE OwnersNotReady
      BY <1>0, <3>3 DEF OwnersNotReady, Process
    <3>4. CASE \/ Materialize \/ CheckoutFails \/ SkipPhase \/ EnterPhase \/ Abandon
               \/ Adopt \/ \E allow \in BOOLEAN, down \in SUBSET Target : Resume(allow, down)
      BY <2>1, <3>4 DEF Materialize, CheckoutFails, SkipPhase, EnterPhase, Abandon, Adopt,
                        Resume, Working
    <3>5. CASE \/ CompletePhase \/ CommandFails \/ EffectReportedFailed
               \/ OwnerFailureStops \/ Crash
      <4>1. \A p \in Phase : p = Verify /\ FailPhase(p) => ~Working'
        BY DEF FailPhase, Idle, Working, Dist, Verify
      <4>2. NextPhase(Verify).step \in {"idle", "enter"}
        BY <1>0 DEF NextPhase, Idle, Process
      <4> QED
        BY <2>1, <3>5, <4>1, <4>2, Barriers
        DEF CompletePhase, CommandFails, EffectReportedFailed, OwnerFailureStops, Crash,
            Idle, Working
    <3>6. CASE \/ ApplyBump \/ RecordBump \/ CreateTag \/ RecordTag \/ PushTag \/ RecordPush
               \/ CreateRelease \/ RecordRelease \/ DelegateRelease \/ FetchInputs
               \/ SelectBranch \/ Advance \/ RecordAdvance
      BY <1>0, <2>1, <3>6
      DEF ApplyBump, RecordBump, CreateTag, RecordTag, PushTag, RecordPush, CreateRelease,
          RecordRelease, DelegateRelease, FetchInputs, SelectBranch, Advance,
          RecordAdvance, Releasing, At, StepsFit, Bump, Tag, Dist, Verify, AdvanceBranch
    <3>7. CASE \E t \in Target : \/ DryRunTarget(t) \/ BuildTarget(t) \/ DelegateTarget(t)
                                 \/ AuthenticateSkip(t) \/ Upload(t) \/ NoOpUpload(t)
                                 \/ ConfirmUpload(t) \/ WriteFormula(t) \/ RecordFormula(t)
      BY <1>0, <2>1, <3>7
      DEF DryRunTarget, BuildTarget, DelegateTarget, AuthenticateSkip, Upload, NoOpUpload,
          ConfirmUpload, WriteFormula, RecordFormula, Publishing, At, StepsFit, DryRun,
          Build, Publish, Dist, Verify
    <3>8. CASE \/ \E t \in Target : \/ Index(t) \/ Withdraw(t) \/ PublishForeign(t)
                                    \/ CiPublish(t)
               \/ CiStart \/ CiSucceed \/ CiFail \/ Diverge \/ MergeRelease
               \/ UNCHANGED vars
      BY <3>1, <3>8 DEF Index, Withdraw, PublishForeign, CiPublish, CiStart, CiSucceed,
                        CiFail, Diverge, MergeRelease, vars
    <3> QED
      BY <3>2, <3>3, <3>4, <3>5, <3>6, <3>7, <3>8
      DEF Next, Coordinate, Operate, Fault, World
  <2> QED
    BY <2>1, <2>2, <2>3
<1>2. CASE Fails \/ Closes \/ Restarts \/ SkipPhase
  <2>1. \A p : FailPhase(p) => proc'.step \in {"idle", "enter"}
    BY <1>0 DEF FailPhase, Idle, Process
  <2>2. \A p : NextPhase(p).step \in {"idle", "enter"}
    BY <1>0 DEF NextPhase, Idle, Process
  <2>3. ~Working'
    BY <1>2, <2>1, <2>2
    DEF Fails, Closes, CompletePhase, Restarts, SkipPhase, Working
  <2> QED
    BY <2>3
<1> QED
  BY <1>1, <1>2, StepKinds DEF StepKind

\* Verify drops a target from its list only when it is verified or the barrier lost.
LEMMA CheckedStep ==
  ASSUME TypeOK, TypeOK', Inv, Mode, Checked, [Next]_vars
  PROVE  Checked'
<1> SUFFICES ASSUME Working', proc'.phase = Verify, proc'.step \in {"owners", "poll", "work"}
             PROVE  /\ proc'.step \in {"owners", "poll"} => proc'.todo = Target
                    /\ proc'.step = "work" => proc'.bad \/ proc'.todo \cup run'.verified = Target
  BY DEF Checked
<1>0. proc \in Process /\ run' \in RunState /\ proc' \in Process
  BY DEF TypeOK
<1>1. CASE EnterPhase
  <2>1. proc'.todo = Target
    BY <1>0, <1>1 DEF EnterPhase, Process
  <2> QED
    BY <1>0, <2>1 DEF RunState
<1>2. ASSUME NEW t \in Target, VerifyTarget(t)
      PROVE  /\ proc'.step \in {"owners", "poll"} => proc'.todo = Target
             /\ proc'.step = "work" => proc'.bad \/ proc'.todo \cup run'.verified = Target
  <2>1. /\ Working /\ proc.phase = Verify /\ t \in proc.todo \ run.verified
        /\ proc'.step = "work" /\ proc'.todo = proc.todo \ {t}
        /\ \/ proc'.bad /\ run'.verified = run.verified \ {t}
           \/ Observed(t) /\ proc'.bad = proc.bad /\ run'.verified = run.verified \cup {t}
    BY <1>2, VerifyEffect
  <2>2. proc.step = "work"
    BY <1>2 DEF VerifyTarget, At
  <2> QED
    BY <2>1, <2>2 DEF Checked
<1>3. CASE /\ Working /\ proc.phase = Verify /\ proc'.todo = proc.todo
           /\ proc'.bad = proc.bad /\ run'.verified = run.verified
           /\ proc'.step = proc.step \/ proc.step \in {"owners", "poll"}
  BY <1>0, <1>3 DEF Checked, RunState
<1> QED
  BY <1>1, <1>2, <1>3, VerifyCauses

-----------------------------------------------------------------------------
(* What has landed.                                                         *)

\* The dist barrier is only worked on with the tag pushed.
LEMMA DistHasTag ==
  ASSUME TypeOK, Ladder, Closed, TagLine, proc.phase = Dist
  PROVE  Ours(remoteTag)
<1>1. run.phases[Tag] = "ok"
  BY Barriers DEF Ladder, Reached, Skipped, Bump, Tag, Dist, AdvanceBranch
<1> QED
  BY <1>1 DEF Closed, TagLine

\* Content that landed is never replaced by nothing.
LEMMA LandedGrows ==
  ASSUME TypeOK, TypeOK', Inv, Ladder, Closed, TagLine, [Next]_vars
  PROVE  Landed \subseteq Landed'
<1> SUFFICES ASSUME NEW t \in Target, artifact[t] # NoCommit
             PROVE  artifact'[t] # NoCommit
  BY DEF Landed
<1>0. artifact \in [Target -> Nat \cup {NoCommit, Foreign}]
  BY DEF TypeOK, WorldTypeOK
<1>1. ASSUME NEW u \in Target, Upload(u) PROVE artifact'[t] # NoCommit
  BY <1>0, <1>1 DEF Upload
<1>2. ASSUME NEW u \in Target, WriteFormula(u) PROVE artifact'[t] # NoCommit
  <2>1. Ours(remoteTag)
    BY <1>2, DistHasTag DEF WriteFormula, At
  <2> QED
    BY <1>0, <1>2, <2>1, NoCommitAssumption DEF WriteFormula, Ours
<1>3. ASSUME NEW u \in Target, PublishForeign(u) PROVE artifact'[t] # NoCommit
  BY <1>0, <1>3, ForeignAssumption DEF PublishForeign
<1>4. ASSUME NEW u \in Target, CiPublish(u) PROVE artifact'[t] # NoCommit
  BY <1>0, <1>4 DEF CiPublish
<1> QED
  BY <1>1, <1>2, <1>3, <1>4, StepWorldCauses DEF WorldCauses

\* Resume adopts what its registry says is there, nothing else.
LEMMA AdoptsVisible ==
  ASSUME NEW allow \in BOOLEAN, NEW down \in SUBSET Target, Resume(allow, down)
  PROVE  proc'.adopt \subseteq visible
<1>1. proc'.adopt = {t \in Target : ResumeAction(t, down, allow) = "adopt"}
  BY DEF Resume, Idle
<1>2. ASSUME NEW t \in Target, ResumeAction(t, down, allow) = "adopt"
      PROVE  t \in visible
  <2>1. Classify(t \in run.published, RemoteOutcome(t, down), allow, PublishReached(run))
          = "adopt"
    BY <1>2 DEF ResumeAction
  <2>2. RemoteOutcome(t, down) = "matches"
    BY <2>1 DEF Classify, RemoteOutcome
  <2> QED
    BY <2>2 DEF RemoteOutcome
<1> QED
  BY <1>1, <1>2

\* Nothing is seen, recorded or about to be recorded that has not landed.
LEMMA LandingStep ==
  ASSUME TypeOK, TypeOK', Inv, Ladder, Closed, TagLine, Landing, [Next]_vars
  PROVE  Landing'
<1>0. /\ run \in RunState /\ proc \in Process /\ StepsFit
      /\ run' \in RunState /\ proc' \in Process
      /\ visible \subseteq Target /\ visible' \subseteq Target
      /\ artifact \in [Target -> Nat \cup {NoCommit, Foreign}]
  BY DEF TypeOK, WorldTypeOK, Inv, ProcInv
<1> USE <1>0
<1>1. JournalCauses /\ WorldCauses /\ LabelCauses
  BY StepCauses, StepWorldCauses, StepLabelCauses
<1>2. Landed \subseteq Landed'
  BY LandedGrows
<1>3. visible' \subseteq Landed'
  <2>1. ASSUME NEW t \in Target, Index(t) PROVE visible' \subseteq Landed'
    <3>1. t \in Landed
      BY <2>1 DEF Index, Landed
    <3> QED
      BY <1>2, <2>1, <3>1 DEF Index, Landing
  <2> QED
    BY <1>1, <1>2, <2>1 DEF WorldCauses, Landing
<1>4. run'.published \subseteq Landed'
  <2>1. ASSUME NEW t \in Target, Receipt(t) PROVE t \in Landed
    BY <2>1 DEF Receipt, AuthenticateSkip, RecordFormula, Landing
  <2> QED
    BY <1>1, <1>2, <2>1 DEF JournalCauses, Landing, RunState
<1>5. run'.verified \subseteq Landed'
  <2>1. ASSUME NEW t \in Target, VerifyTarget(t) PROVE run'.verified \subseteq Landed'
    <3>1. Observed(t) => t \in Landed
      BY DEF Observed, Landing
    <3> QED
      BY <1>2, <2>1, <3>1, VerifyEffect DEF Landing
  <2>2. CASE OwnersNotReady
    <3>1. PICK t \in Target : Record(TargetVerified(t, FALSE))
      BY <2>2 DEF OwnersNotReady, Owners, RunState
    <3>2. Working
      BY <2>2 DEF OwnersNotReady, Working
    <3>3. run' = [run EXCEPT !.verified = @ \ {t}]
      BY <3>1, <3>2, WorkIsLive, EffectTargetVerified DEF Record, Apply
    <3>4. run'.verified \subseteq run.verified
      BY <3>3 DEF RunState
    <3> QED
      BY <1>2, <3>4 DEF Landing
  <2> QED
    BY <1>1, <1>2, <2>1, <2>2 DEF JournalCauses, Landing
<1>6. proc'.seen \subseteq Landed'
  <2>1. ASSUME PollRound PROVE proc'.seen \subseteq proc.seen \cup visible
    <3>1. PICK S \in SUBSET (proc.seen \cup visible) :
            proc' \in {[proc EXCEPT !.seen = S, !.step = "work"], [proc EXCEPT !.seen = S]}
      BY <2>1 DEF PollRound
    <3> QED
      BY <3>1 DEF Process
  <2> QED
    BY <1>1, <1>2, <2>1 DEF LabelCauses, Landing
<1>7. proc'.adopt \subseteq Landed'
  BY <1>1, <1>2, AdoptsVisible DEF LabelCauses, Landing
<1>8. ASSUME proc'.step = "written", NEW t \in Target, IsNext(Dist, t)'
      PROVE  t \in Landed'
  <2>1. CASE proc' = proc
    <3>1. \A u \in Target : ~Receipt(u)
      BY <1>8, <2>1 DEF Receipt, AuthenticateSkip, Publishing, At, RecordFormula,
                        ConfirmUpload, Adopt, Process
    <3>2. run'.published = run.published
      BY <1>1, <3>1 DEF JournalCauses, RunState
    <3>3. IsNext(Dist, t)
      BY <1>8, <3>2, PendingDist DEF IsNext, Pending, DryRun, Build, Publish, Dist, Verify
    <3> QED
      BY <1>2, <1>8, <2>1, <3>3 DEF Landing
  <2>2. ASSUME NEW u \in Target, WriteFormula(u) PROVE t \in Landed'
    <3>1. run' = run /\ artifact' = [artifact EXCEPT ![u] = remoteTag] /\ IsNext(Dist, u)
      BY <2>2 DEF WriteFormula
    <3>2. IsNext(Dist, t)
      BY <1>8, <3>1, PendingDist DEF IsNext, Pending, DryRun, Build, Publish, Dist, Verify
    <3>3. t = u
      BY <3>1, <3>2 DEF IsNext, Target
    <3>4. remoteTag # NoCommit
      BY <2>2, DistHasTag, NoCommitAssumption DEF WriteFormula, At, Ours
    <3> QED
      BY <3>1, <3>3, <3>4 DEF Landed
  <2> QED
    BY <1>1, <1>8, <2>1, <2>2 DEF LabelCauses
<1> QED
  BY <1>3, <1>4, <1>5, <1>6, <1>7, <1>8 DEF Landing

-----------------------------------------------------------------------------
(* Signals.                                                                 *)

\* The signals of the publish barrier are never lost, once the barriers before it
\* are closed.
LEMMA ReachedKept ==
  ASSUME TypeOK, Inv, Ladder, [Next]_vars,
         PublishReached(run), Skipped(Bump), Skipped(DryRun), Skipped(Build)
  PROVE  PublishReached(run')
<1>0. run \in RunState /\ proc.phase \in Phase /\ AtWork
  BY DEF TypeOK, Process, Ladder
<1> USE <1>0
<1>1. JournalCauses /\ \A q \in Phase : run.phases[q] # "none" => run'.phases[q] # "none"
  BY StepCauses, OkKept
<1>2. CASE \/ run.published # {} \/ run.delegated # {}
           \/ run.tagCreated \/ run.tagPushed \/ run.releaseCreated \/ run.releaseDelegated
           \/ \E p \in Phase : IsPublishOrLater(p) /\ run.phases[p] # "none"
  BY <1>1, <1>2 DEF JournalCauses, PublishReached
<1>3. CASE run.current # NoPhase /\ IsPublishOrLater(run.current)
  <2>1. CASE run'.current = run.current
    BY <1>3, <2>1 DEF PublishReached
  <2>2. CASE Fails \/ Closes
    <3>1. Working /\ proc.phase = run.current /\ run.status = "in_progress"
      BY <2>2, WorkIsLive DEF Fails, Closes, CompletePhase, Working, AtWork
    <3>2. \E o \in {"ok", "failed"} : Record(PhaseCompleted(proc.phase, o))
      BY <2>2 DEF Fails, FailPhase, Closes, CompletePhase
    <3>3. run'.phases[proc.phase] \in {"ok", "failed"}
      BY <3>1, <3>2, CompletionEffect
    <3> QED
      BY <1>3, <3>1, <3>3 DEF PublishReached
  <2>3. CASE EnterPhase
    <3>1. run.status = "in_progress" /\ ~Skipped(proc.phase)
      BY <2>3 DEF EnterPhase, Inv, ProcInv, Live, Skipped
    <3>2. run' = [run EXCEPT !.current = proc.phase]
      BY <2>3, <3>1, EffectPhaseEntered DEF EnterPhase, Record, Apply
    <3>3. run'.current = proc.phase
      BY <3>2 DEF RunState
    <3>4. proc.phase >= Publish
      BY <3>1 DEF Phase, Bump, DryRun, Build, Publish, AdvanceBranch
    <3> QED
      BY <3>3, <3>4 DEF PublishReached, IsPublishOrLater, Publish, NoPhase
  <2> QED
    BY <2>1, <2>2, <2>3, StepKinds
    DEF StepKind, Inside, Restarts, SkipPhase, SamePlace, Ladder
<1> QED
  BY <1>2, <1>3 DEF PublishReached

\* A process in or past the publish barrier has closed the build barrier.
LEMMA PastBuildSkipped ==
  ASSUME TypeOK, Ladder, proc.phase >= Publish
  PROVE  Skipped(Bump) /\ Skipped(DryRun) /\ Skipped(Build)
BY Barriers DEF Ladder, Reached, TypeOK, Process, Phase, Bump, DryRun, Build, Publish, Dist,
                AdvanceBranch

\* Nothing gets out without a signal of it in the journal.
LEMMA OutStep ==
  ASSUME TypeOK, TypeOK', Inv, Ladder, OutBehindBuild, [Next]_vars
  PROVE  OutBehindBuild'
<1> DEFINE IsOut  == (\E t \in Target : Ours(artifact[t])) \/ Ours(remoteTag)
           Signal == /\ PublishReached(run)
                     /\ Skipped(Bump) /\ Skipped(DryRun) /\ Skipped(Build)
<1>0. /\ run \in RunState /\ AtWork /\ WorldCauses
      /\ artifact \in [Target -> Nat \cup {NoCommit, Foreign}]
  BY StepWorldCauses DEF TypeOK, WorldTypeOK, Ladder
<1>1. IsOut => Signal
  BY DEF OutBehindBuild
<1>2. ASSUME Signal PROVE Signal'
  BY <1>2, ReachedKept, OkKept, Barriers
<1>3. ASSUME NEW t \in Target, Upload(t) PROVE IsOut' => Signal'
  <2>1. Working /\ proc.phase = Publish
    BY <1>3 DEF Upload, Publishing, At, Working
  <2>2. PublishReached(run)
    BY <1>0, <2>1 DEF AtWork, PublishReached, IsPublishOrLater, Publish, NoPhase
  <2> QED
    BY <1>2, <2>1, <2>2, PastBuildSkipped DEF Publish
<1>4. ASSUME PushTag PROVE IsOut' => Signal'
  <2>1. Working /\ proc.phase = Tag
    BY <1>4 DEF PushTag, At, Working
  <2>2. PublishReached(run)
    BY <1>0, <2>1 DEF AtWork, PublishReached, IsPublishOrLater, Publish, Tag, NoPhase
  <2>3. proc.phase >= Publish
    BY <2>1 DEF Publish, Tag
  <2> QED
    BY <1>2, <2>2, <2>3, PastBuildSkipped
<1>5. ASSUME NEW t \in Target, WriteFormula(t) \/ CiPublish(t) PROVE IsOut' => IsOut
  BY <1>0, <1>5 DEF WriteFormula, CiPublish, refs, Ours
<1>6. ASSUME NEW t \in Target, PublishForeign(t) PROVE IsOut' => IsOut
  BY <1>0, <1>6, ForeignAssumption DEF PublishForeign, refs, Ours
<1>7. ASSUME artifact' = artifact, ~PushTag PROVE IsOut' => IsOut
  BY <1>0, <1>7 DEF WorldCauses, Ours
<1>8. IsOut' => Signal'
  BY <1>0, <1>1, <1>2, <1>3, <1>4, <1>5, <1>6, <1>7 DEF WorldCauses
<1> QED
  BY <1>8 DEF OutBehindBuild

-----------------------------------------------------------------------------
(* The theorems.                                                            *)

\* A run that was just created satisfies Delivery.
LEMMA DeliveryInit == Init => Delivery
<1> SUFFICES ASSUME Init PROVE Delivery
  OBVIOUS
<1>1. /\ run = CreatedRun /\ proc.step = "checkout" /\ proc.phase = Bump /\ proc.barrier
      /\ proc.adopt = {} /\ proc.seen = {} /\ visible = {}
      /\ artifact = [t \in Target |-> NoCommit] /\ ~Ours(remoteTag)
  BY NoCommitAssumption, ForeignAssumption, SetsAssumption DEF Init, Idle, Ours
<1>2. Ladder
  BY <1>1 DEF Ladder, Chain, Reached, Mode, AtWork, Ended, Working, CreatedRun, Phase, Bump,
              AdvanceBranch
<1>3. TagLine /\ BranchLine /\ Checked /\ Disposition
  BY <1>1 DEF TagLine, BranchLine, Checked, Disposition, OneDisposition, Working, CreatedRun
<1>4. Closed
  BY <1>1, Barriers DEF Closed, CreatedRun
<1>5. Landing
  BY <1>1 DEF Landing, CreatedRun
<1>6. OutBehindBuild
  BY <1>1, NoCommitAssumption DEF OutBehindBuild, Ours
<1> QED
  BY <1>2, <1>3, <1>4, <1>5, <1>6 DEF Delivery

\* Barriers close in order, and what they record is what has happened.
THEOREM DeliveryInvariance == Spec => []Delivery
<1>1. TypeOK /\ TypeOK' /\ Inv /\ Delivery /\ [Next]_vars => Delivery'
  BY LadderStep, TagLineStep, BranchLineStep, ClosedStep, CheckedStep, LandingStep,
     DispositionStep, OutStep
  DEF Delivery, Ladder
<1> QED
  BY <1>1, DeliveryInit, TypeCorrect, Invariance, PTL DEF Spec

\* A receipt always has content behind it (publish, reconcile_for_resume).
THEOREM ReceiptIsBackedHolds == Spec => []ReceiptIsBacked
<1>1. Delivery => ReceiptIsBacked
  BY DEF Delivery, Landing, Landed, ReceiptIsBacked
<1> QED
  BY <1>1, DeliveryInvariance, PTL

\* The branch is advanced over a verified, tagged release only (advance_branch_phase).
THEOREM AdvanceAfterVerifyHolds == Spec => []AdvanceAfterVerify
<1>1. Delivery => AdvanceAfterVerify
  <2> SUFFICES ASSUME Delivery, run.advanced # NoCommit
               PROVE  run.verified = Target /\ Ours(remoteTag)
    BY DEF AdvanceAfterVerify
  <2>1. run.phases[Verify] = "ok"
    BY DEF Delivery, Closed
  <2>2. run.phases[Tag] = "ok"
    BY <2>1, Barriers DEF Delivery, Ladder, Chain, Skipped, Bump, Tag, Verify, AdvanceBranch
  <2> QED
    BY <2>1, <2>2 DEF Delivery, Closed, TagLine
<1> QED
  BY <1>1, DeliveryInvariance, PTL

\* The last barrier is closed only when all before it are.
LEMMA CompletedIsDelivered == Delivery => CompletedMeansDelivered
<1> SUFFICES ASSUME Delivery, run.status = "completed"
             PROVE  /\ \A t \in Target : artifact[t] # NoCommit
                    /\ Ours(remoteTag)
                    /\ Advances => branch = "contains"
  BY DEF CompletedMeansDelivered
<1>1. run.phases[TerminalPhase] = "ok"
  BY DEF Delivery, Ladder, Ended
<1>2. Advances => run.phases[AdvanceBranch] = "ok"
  BY <1>1, ScheduleAssumption
<1>3. run.phases[Verify] = "ok"
  BY <1>1, <1>2, ScheduleAssumption, Barriers
  DEF Delivery, Ladder, Chain, Skipped, Bump, Verify, AdvanceBranch
<1>4. run.phases[Tag] = "ok"
  BY <1>3, Barriers DEF Delivery, Ladder, Chain, Skipped, Bump, Tag, Verify, AdvanceBranch
<1>5. \A t \in Target : artifact[t] # NoCommit
  BY <1>3 DEF Delivery, Closed, Landing, Landed
<1>6. Ours(remoteTag)
  BY <1>4 DEF Delivery, Closed, TagLine
<1>7. Advances => branch = "contains"
  BY <1>2 DEF Delivery, Closed, BranchLine
<1> QED
  BY <1>5, <1>6, <1>7

\* A completed run has everything out, its tag public and its branch advanced, for
\* every schedule of barriers a journal may carry (resumable_phase_barriers).
THEOREM CompletedMeansDeliveredHolds == Spec => []CompletedMeansDelivered
BY CompletedIsDelivered, DeliveryInvariance, PTL

\* The journal never holds two owners of the Release (tag_phase).
THEOREM OneDispositionHolds == Spec => []OneDisposition
<1>1. Delivery => OneDisposition
  BY DEF Delivery, Disposition
<1> QED
  BY <1>1, DeliveryInvariance, PTL

\* Without a signal of the publish barrier nothing of this run is out
\* (publish_phase_reached).
THEOREM ReachedSignalIsSafeHolds == Spec => []ReachedSignalIsSafe
<1>1. Delivery => ReachedSignalIsSafe
  BY DEF Delivery, OutBehindBuild, ReachedSignalIsSafe
<1> QED
  BY <1>1, DeliveryInvariance, PTL

-----------------------------------------------------------------------------
(* The refinement.                                                          *)

\* The workflow only runs once the tag is out.
CiFollowsTag == ci # "absent" => Ours(remoteTag)

\* The pushed tag triggers the workflow, and stays.
LEMMA CiFollowsTagStep ==
  ASSUME TypeOK, Inv, TagLine, CiFollowsTag, [Next]_vars
  PROVE  CiFollowsTag'
<1>1. CiStart => Ours(remoteTag) \/ ci = "failed"
  BY DEF CiStart, TypeOK, WorldTypeOK, Ours
<1> QED
  BY <1>1, TagLineStep, StepWorldCauses
  DEF WorldCauses, CiFollowsTag, CiSucceed, CiFail

\* A run that has ended is frozen.
LEMMA Frozen ==
  ASSUME TypeOK, Inv, [Next]_vars, run.status # "in_progress"
  PROVE  run' = run
BY StepRecords DEF Recorded, Record, Apply

\* The status changes by a closed barrier or by abandoning, and alone.
LEMMA StatusStep ==
  ASSUME TypeOK, Inv, Mode, [Next]_vars, run'.status # run.status
  PROVE  /\ run.status = "in_progress"
         /\ run'.advanced = run.advanced
         /\ UNCHANGED <<artifact, remoteTag>>
         /\ run'.status = "abandoned" \/ (Closes /\ run'.status = "completed")
<1>0. run \in RunState /\ proc \in Process /\ proc.phase \in Phase
  BY DEF TypeOK, Process
<1> USE <1>0
<1>1. run.status = "in_progress"
  BY Frozen
<1>2. CASE Closes
  <2>1. Record(PhaseCompleted(proc.phase, "ok")) /\ UNCHANGED <<artifact, remoteTag>>
    BY <1>2 DEF Closes, CompletePhase, refs
  <2>2. run'.advanced = run.advanced
    BY <1>1, <2>1, RecordFrame DEF FactsKept
  <2>3. run'.status \in {run.status, "completed"}
    BY <1>1, <2>1, CompletionEffect
  <2> QED
    BY <1>1, <1>2, <2>1, <2>2, <2>3
<1>3. CASE Fails
  <2>1. Record(PhaseCompleted(proc.phase, "failed"))
    BY <1>3 DEF Fails, FailPhase
  <2> QED
    BY <1>1, <2>1, CompletionEffect
<1>4. CASE EnterPhase
  <2>1. run' = [run EXCEPT !.current = proc.phase]
    BY <1>1, <1>4, EffectPhaseEntered DEF EnterPhase, Record, Apply
  <2> QED
    BY <2>1 DEF RunState
<1>5. CASE Restarts
  <2>1. ~Working' /\ proc'.phase = Bump /\ run'.status = "abandoned"
    BY <1>5 DEF Restarts
  <2>2. run'.advanced = run.advanced
    BY <2>1, StepCauses DEF JournalCauses, RecordAdvance, Working, Process
  <2>3. ~PushTag /\ \A t \in Target : ~Upload(t) /\ ~WriteFormula(t)
    <3>1. PushTag => run' = run \/ FailPhase(Tag)
      BY DEF PushTag
    <3>2. \A t \in Target : Upload(t) => run' = run \/ FailPhase(Publish)
      BY DEF Upload
    <3>3. \A t \in Target : WriteFormula(t) => run' = run
      BY DEF WriteFormula
    <3>4. \A p \in Phase : FailPhase(p) => run'.status = run.status
      BY <1>1, CompletionEffect DEF FailPhase
    <3> QED
      BY <3>1, <3>2, <3>3, <3>4, Barriers
  <2>4. \A t \in Target : ~PublishForeign(t) /\ ~CiPublish(t)
    BY DEF PublishForeign, CiPublish
  <2> QED
    BY <1>1, <2>1, <2>2, <2>3, <2>4, StepWorldCauses DEF WorldCauses
<1> QED
  BY <1>2, <1>3, <1>4, <1>5, StepKinds DEF StepKind, Inside, SkipPhase

\* Every step of ReleaseCut is a step of Release, or one that Release does not see.
LEMMA RefinementStep ==
  ASSUME ForeignTargets = {}, TypeOK, TypeOK', Inv, Inv', Delivery, Delivery', CiFollowsTag,
         [Next]_vars
  PROVE  [Abstract!Next]_(Abstract!vars)
<1> DEFINE out    == {t \in Target : artifact[t] # NoCommit}
           tagged == Ours(remoteTag)
           moved  == run.advanced # NoCommit
<1>0. /\ run \in RunState /\ artifact \in [Target -> Nat \cup {NoCommit, Foreign}]
      /\ EngineTargets \cup (CiTargets \cup PostTagTargets) = Target
      /\ Ladder /\ Closed /\ TagLine
  BY ClassAssumption DEF TypeOK, WorldTypeOK, EngineTargets, CiTargets, PostTagTargets,
                         Delivery
<1>1. WorldCauses /\ JournalCauses
  BY StepWorldCauses, StepCauses
<1>2. CASE run'.status # run.status
  <2>1. /\ run.status = "in_progress" /\ moved' = moved /\ out' = out /\ tagged' = tagged
        /\ run'.status = "abandoned" \/ run'.status = "completed"
    BY <1>2, StatusStep DEF Delivery, Ladder, Ours
  <2>2. ASSUME run'.status = "completed" PROVE out = Target /\ tagged
    <3>1. CompletedMeansDelivered'
      BY CompletedIsDelivered, PTL
    <3> QED
      BY <2>1, <2>2, <3>1 DEF CompletedMeansDelivered
  <2> QED
    BY <1>0, <2>1, <2>2 DEF Abstract!Next, Abstract!Complete, Abstract!Abandon
<1>3. CASE run'.status = run.status /\ moved' # moved
  <2>1. RecordAdvance /\ run.status = "in_progress"
    BY <1>1, <1>3, Frozen DEF JournalCauses
  <2>2. /\ out' = out /\ tagged' = tagged /\ ~moved /\ moved' /\ run'.verified = run.verified
    <3>1. UNCHANGED <<artifact, remoteTag>>
      BY <2>1 DEF RecordAdvance, refs
    <3>2. moved'
      BY <1>0, <1>1, <1>3, CommitType, NoCommitAssumption DEF JournalCauses
    <3>3. run' = [run EXCEPT !.advanced = Commit]
      BY <2>1, EffectDefaultBranchAdvanced DEF RecordAdvance, Record, Apply
    <3> QED
      BY <1>0, <1>3, <3>1, <3>2, <3>3 DEF Ours, RunState
  <2>3. out = Target /\ tagged
    <3>1. proc.phase = AdvanceBranch
      BY <2>1 DEF RecordAdvance, Inv, ProcInv, StepsFit
    <3>2. run.phases[Verify] = "ok" /\ run.phases[Tag] = "ok"
      BY <1>0, <3>1, Barriers
      DEF Ladder, Reached, Skipped, Bump, Tag, Dist, Verify, AdvanceBranch
    <3> QED
      BY <1>0, <3>2 DEF Closed, TagLine, Delivery, Landing, Landed
  <2> QED
    BY <1>0, <1>3, <2>1, <2>2, <2>3 DEF Abstract!Next, Abstract!AdvanceBranch
<1>4. CASE /\ run'.status = run.status /\ moved' = moved
           /\ ~(tagged' <=> tagged)
  <2>1. PushTag
    BY <1>1, <1>4 DEF WorldCauses, Ours
  <2>2. ~tagged /\ tagged' /\ out' = out
    BY <1>0, <1>4, <2>1, TagLineStep DEF PushTag
  <2>3. proc.phase = Tag /\ Working
    BY <2>1 DEF PushTag, At, Working
  <2>4. run.status = "in_progress" /\ EngineTargets \subseteq run.published
    BY <2>3, WorkIsLive, PastPublish, Barriers DEF Inv, Established, Tag
  <2>5. EngineTargets \subseteq out
    BY <2>4 DEF Delivery, Landing, Landed
  <2> QED
    BY <1>4, <2>2, <2>4, <2>5 DEF Abstract!Next, Abstract!PushTag
<1>5. CASE /\ run'.status = run.status /\ moved' = moved
           /\ tagged' = tagged /\ out' # out
  <2>1. ASSUME NEW t \in Target, NEW c, artifact' = [artifact EXCEPT ![t] = c]
        PROVE  t \notin out /\ out' = out \cup {t}
    <3>1. \A u \in Target : artifact'[u] = IF u = t THEN c ELSE artifact[u]
      BY <1>0, <2>1
    <3>2. out \subseteq out'
      BY <1>0, LandedGrows DEF Landed
    <3> QED
      BY <1>5, <3>1, <3>2
  <2>2. ASSUME NEW t \in Target, Upload(t)
        PROVE  Abstract!Next
    <3>1. /\ Working /\ IsNext(Publish, t) /\ t \in EngineTargets
          /\ artifact' = artifact \/ artifact' = [artifact EXCEPT ![t] = proc.checkout]
      BY <2>2 DEF Upload, Publishing, At, Working
    <3>2. t \notin run.published
      BY <3>1, PendingPublish DEF IsNext
    <3>3. run.status = "in_progress" /\ ~tagged
      BY <3>1, <3>2, WorkIsLive DEF Inv, WorldInv, TagFacts, Established
    <3>4. t \notin out /\ out' = out \cup {t}
      BY <1>5, <2>1, <3>1
    <3>5. Abstract!Land(t)
      BY <1>5, <3>1, <3>3, <3>4 DEF Abstract!Land
    <3> QED
      BY <3>1, <3>5 DEF Abstract!Next
  <2>3. ASSUME NEW t \in Target, WriteFormula(t) \/ CiPublish(t)
        PROVE  Abstract!Next
    <3>1. artifact' = [artifact EXCEPT ![t] = remoteTag]
      BY <2>3 DEF WriteFormula, CiPublish
    <3>2. t \in CiTargets \cup PostTagTargets
      BY <2>3, PendingDist DEF WriteFormula, IsNext, CiPublish
    <3>3. tagged
      BY <1>0, <2>3, DistHasTag DEF WriteFormula, At, CiPublish, CiFollowsTag
    <3>4. t \notin out /\ out' = out \cup {t}
      BY <2>1, <3>1
    <3>5. Abstract!LandFromTag(t)
      BY <1>5, <3>2, <3>3, <3>4 DEF Abstract!LandFromTag
    <3> QED
      BY <3>2, <3>5 DEF Abstract!Next
  <2>4. artifact' # artifact /\ \A t \in Target : ~PublishForeign(t)
    BY <1>5 DEF PublishForeign
  <2> QED
    BY <1>1, <2>2, <2>3, <2>4 DEF WorldCauses
<1>6. CASE /\ run'.status = run.status /\ moved' = moved
           /\ tagged' = tagged /\ out' = out
  BY <1>6 DEF Abstract!vars
<1>7. (tagged' <=> tagged) => tagged' = tagged
  BY DEF Ours
<1> QED
  BY <1>2, <1>3, <1>4, <1>5, <1>6, <1>7

\* While nobody else takes a version of the release, whatever crashes, resumes,
\* outages and CI do, a run is a release as Release describes it (execute).
THEOREM Refinement ==
  ASSUME ForeignTargets = {}
  PROVE  Spec => ImplementsRelease
<1>1. Init => Abstract!Init
  BY NoCommitAssumption, ForeignAssumption, SetsAssumption
  DEF Init, Abstract!Init, CreatedRun, Ours
<1>2. Init => CiFollowsTag
  BY DEF Init, CiFollowsTag
<1>3. TypeOK /\ Inv /\ Delivery /\ CiFollowsTag /\ [Next]_vars => CiFollowsTag'
  BY CiFollowsTagStep DEF Delivery
<1>4. TypeOK /\ TypeOK' /\ Inv /\ Inv' /\ Delivery /\ Delivery' /\ CiFollowsTag /\ [Next]_vars
        => [Abstract!Next]_(Abstract!vars)
  BY RefinementStep
<1> QED
  BY <1>1, <1>2, <1>3, <1>4, TypeCorrect, Invariance, DeliveryInvariance, PTL
  DEF Spec, ImplementsRelease, Abstract!Spec
=============================================================================
