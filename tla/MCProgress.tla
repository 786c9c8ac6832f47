----------------------------- MODULE MCProgress ------------------------------
(* What must come to an end, side by side: a run that is resumed, a lock left *)
(* behind.  A behaviour is about one of them; the other rests, and fairness   *)
(* is asked only of the one it is about.                                      *)
EXTENDS MCReleaseCut, CutLock

VARIABLE about

progressVars == <<vars, lockVars, about>>

ProgressInit == about \in {"run", "lock"} /\ Init /\ LockInit

ProgressNext ==
  /\ about' = about
  /\ \/ about = "run" /\ Next /\ UNCHANGED lockVars
     \/ about = "lock" /\ LockNext /\ UNCHANGED vars

\* Fairness of ReleaseCut.
RunFairness ==
  /\ WF_vars(about = "run" /\ Coordinate)
  /\ WF_vars(about = "run" /\ Resume(TRUE, {}))
  /\ \A t \in Target : WF_vars(about = "run" /\ Index(t)) /\ WF_vars(about = "run" /\ CiPublish(t))
  /\ WF_vars(about = "run" /\ CiStart) /\ WF_vars(about = "run" /\ CiSucceed)
  /\ WF_vars(about = "run" /\ MergeRelease)

\* LockFairness.
ProgressSpec ==
  /\ ProgressInit /\ [][ProgressNext]_progressVars
  /\ RunFairness
  /\ \A p \in Abandons : WF_lockVars(about = "lock" /\ RunsOn(p))

\* Recovers, of the runs that no binary of another disposition resumes: faults
\* stop, the operator resumes, and the run reaches a terminal status.
RunRecovers == (about = "run" /\ [](proc.release # "engine")) => Recovers
=============================================================================
