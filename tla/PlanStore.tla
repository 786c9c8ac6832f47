----------------------------- MODULE PlanStore ------------------------------
(***************************************************************************)
(* One sealed plan in the durable store (release/plan_store.rs), the runs  *)
(* that were cut from it, and the commands that meet there: `release plan' *)
(* saves, `release cut' records a run, `release resume' continues one, and *)
(* `release abandon' discards the plan or abandons a run.                  *)
(* They hold the release lock, which is taken to work here (module         *)
(* CutLock); every file operation is one step, and a killed command leaves *)
(* the lock behind until an abandon breaks it.                             *)
(***************************************************************************)
EXTENDS Naturals, FiniteSets

CONSTANTS Plans,     \* invocations of `release plan'
          Cuts,      \* invocations of `release cut --plan', and the runs they make
          Resumes,   \* invocations of `release resume'
          Abandons,  \* invocations of `release abandon', by plan or by run
          Nobody

ASSUME CommandsAssumption ==
  /\ Plans \cap (Cuts \cup Resumes \cup Abandons) = {}
  /\ Cuts \cap (Resumes \cup Abandons) = {}
  /\ Resumes \cap Abandons = {}
  /\ Nobody \notin Plans \cup Cuts \cup Resumes \cup Abandons

Process == Plans \cup Cuts \cup Resumes \cup Abandons

VARIABLES plan,     \* is the plan document at its address?
          marker,   \* is there a disposal marker for the address?
          run,      \* the journaled status of the run of each cut
          lock,
          step,
          subject,  \* the run a resume or an abandon works on
          saved     \* was the plan ever saved? (history)

storeVars == <<plan, marker, run, lock, step, subject, saved>>
files == <<plan, marker, saved>>

Goto(p, label) == step' = [step EXCEPT ![p] = label]

Runs == {c \in Cuts : run[c] # "none"}

StoreInit ==
  /\ plan = FALSE /\ marker = FALSE /\ saved = FALSE
  /\ run = [c \in Cuts |-> "none"]
  /\ lock = Nobody
  /\ step = [p \in Process |-> "start"]
  /\ subject = [p \in Process |-> Nobody]

-----------------------------------------------------------------------------
(* The lock.                                                               *)

\* Its holder is gone: an abandon breaks it and tries again.
Stale == lock # Nobody /\ step[lock] = "dead"

FirstStep(p) == IF p \in Plans THEN "read" ELSE IF p \in Cuts THEN "reload" ELSE
                IF p \in Resumes THEN "open" ELSE "scan"

Locks(p) ==
  /\ \/ p \in Plans \cup Resumes \cup Abandons /\ step[p] = "start"
     \/ p \in Cuts /\ step[p] = "lock"
  /\ lock = Nobody \/ (p \in Abandons /\ Stale)
  /\ lock' = p
  /\ Goto(p, FirstStep(p))
  /\ UNCHANGED <<files, run, subject>>

\* The lock is held: the command gives up.
Refused(p) ==
  /\ step[p] \in {"start", "lock", "reopen"}
  /\ p \in Cuts => step[p] = "lock"
  /\ lock # Nobody /\ ~(p \in Abandons /\ Stale)
  /\ Goto(p, "done")
  /\ UNCHANGED <<files, run, lock, subject>>

Unlock(p) ==
  /\ step[p] = "unlock"
  /\ lock' = Nobody
  /\ Goto(p, "done")
  /\ UNCHANGED <<files, run, subject>>

-----------------------------------------------------------------------------
(* save                                                                    *)

\* The same bytes are there already, or are still to be linked in.
SaveReads(p) ==
  /\ step[p] = "read"
  /\ Goto(p, IF plan THEN "clear" ELSE "link")
  /\ UNCHANGED <<files, run, lock, subject>>

SaveLinks(p) ==
  /\ step[p] = "link"
  /\ plan' = TRUE /\ saved' = TRUE
  /\ Goto(p, "clear")
  /\ UNCHANGED <<marker, run, lock, subject>>

\* clear_discard_marker
SaveClears(p) ==
  /\ step[p] = "clear"
  /\ marker' = FALSE
  /\ Goto(p, "unlock")
  /\ UNCHANGED <<plan, saved, run, lock, subject>>

-----------------------------------------------------------------------------
(* cut and resume                                                          *)

\* The load before the lock only tells which bump to derive the plan with; a
\* plan that is not there may still be derived, and refused under the lock.
CutLoads(p) ==
  /\ p \in Cuts /\ step[p] = "start"
  /\ \E next \in {"lock", "done"} : (plan => next = "lock") /\ Goto(p, next)
  /\ UNCHANGED <<files, run, lock, subject>>

\* Seeded fault: the plan that was loaded before the lock is trusted.
CutTrustsLoad(p) ==
  /\ step[p] = "reload"
  /\ Goto(p, "create")
  /\ UNCHANGED <<files, run, lock, subject>>

\* The plan is authenticated again under the lock.
CutReloads(p) ==
  /\ step[p] = "reload"
  /\ Goto(p, IF plan THEN "create" ELSE "unlock")
  /\ UNCHANGED <<files, run, lock, subject>>

\* The dependency preflight refuses, or run_created is journaled.
CutCreatesRun(p) ==
  /\ step[p] = "create"
  /\ \/ Goto(p, "unlock") /\ UNCHANGED <<run, subject>>
     \/ /\ run' = [run EXCEPT ![p] = "in_progress"]
        /\ subject' = [subject EXCEPT ![p] = p]
        /\ Goto(p, "execute")
  /\ UNCHANGED <<files, lock>>

\* Journal::open, under the lock: only a run in progress goes on.  (Without a
\* plan document the plan would be derived again, or the resume refused.)
ResumeOpens(p) ==
  /\ step[p] = "open"
  /\ \/ \E c \in Runs : /\ run[c] = "in_progress"
                        /\ subject' = [subject EXCEPT ![p] = c]
                        /\ Goto(p, "execute")
     \/ Goto(p, "unlock") /\ UNCHANGED subject
  /\ UNCHANGED <<files, run, lock>>

\* The coordinator completes the run, or stops somewhere (module ReleaseCut).
Execute(p) ==
  /\ step[p] = "execute"
  /\ run' \in {run, [run EXCEPT ![subject[p]] = "completed"]}
  /\ Goto(p, "unlock")
  /\ UNCHANGED <<files, lock, subject>>

-----------------------------------------------------------------------------
(* abandon <plan>                                                          *)

\* A plan that backs one run gives way to the run, which is opened again after
\* the lock was dropped; one that backs several is refused.
Scan(p) ==
  /\ step[p] = "scan"
  /\ IF Cardinality(Runs) = 1
     THEN /\ subject' = [subject EXCEPT ![p] = CHOOSE c \in Runs : TRUE]
          /\ lock' = Nobody
          /\ Goto(p, "reopen")
     ELSE /\ Goto(p, IF Runs = {} THEN "load" ELSE "unlock")
          /\ UNCHANGED <<lock, subject>>
  /\ UNCHANGED <<files, run>>

\* `abandon <run>' starts where an abandoned plan's one run leads to.
AbandonNames(p) ==
  /\ p \in Abandons /\ step[p] = "start"
  /\ \E c \in Runs : subject' = [subject EXCEPT ![p] = c]
  /\ Goto(p, "reopen")
  /\ UNCHANGED <<files, run, lock>>

AbandonReopens(p) ==
  /\ step[p] = "reopen"
  /\ lock = Nobody \/ Stale
  /\ lock' = p
  /\ Goto(p, "abandon")
  /\ UNCHANGED <<files, run, subject>>

\* Seeded fault: the status seen by the scan is not looked at again.
AbandonBlindly(p) ==
  /\ step[p] = "abandon"
  /\ run' = [run EXCEPT ![subject[p]] = "abandoned"]
  /\ Goto(p, "unlock")
  /\ UNCHANGED <<files, lock, subject>>

\* A terminal run cannot be abandoned.
AbandonRun(p) ==
  /\ step[p] = "abandon"
  /\ run' = IF run[subject[p]] = "in_progress"
            THEN [run EXCEPT ![subject[p]] = "abandoned"] ELSE run
  /\ Goto(p, "unlock")
  /\ UNCHANGED <<files, lock, subject>>

\* No document: nothing to do (the marker tells a repeated request from an
\* unknown address).
DiscardLoads(p) ==
  /\ step[p] = "load"
  /\ Goto(p, IF plan THEN "mark" ELSE "unlock")
  /\ UNCHANGED <<files, run, lock, subject>>

\* Seeded fault: the document goes and no marker was written.
DiscardMarksLate(p) ==
  /\ step[p] = "mark"
  /\ plan' = FALSE
  /\ Goto(p, "remove")
  /\ UNCHANGED <<marker, saved, run, lock, subject>>

DiscardMarks(p) ==
  /\ step[p] = "mark"
  /\ marker' = TRUE
  /\ Goto(p, "remove")
  /\ UNCHANGED <<plan, saved, run, lock, subject>>

DiscardRemoves(p) ==
  /\ step[p] = "remove"
  /\ plan' = FALSE
  /\ Goto(p, "unlock")
  /\ UNCHANGED <<marker, saved, run, lock, subject>>

-----------------------------------------------------------------------------
\* A file operation fails: the command returns the error and drops the lock.
Fails(p) ==
  /\ lock = p /\ step[p] \notin {"unlock", "dead"}
  /\ lock' = Nobody
  /\ Goto(p, "done")
  /\ UNCHANGED <<files, run, subject>>

\* A command is killed between two steps; the lock it holds stays where it is.
Crash(p) ==
  /\ step[p] \notin {"start", "done", "dead"}
  /\ Goto(p, "dead")
  /\ UNCHANGED <<files, run, lock, subject>>

StoreNext ==
  \E p \in Process :
    \/ Locks(p) \/ Refused(p) \/ Unlock(p) \/ Fails(p) \/ Crash(p)
    \/ SaveReads(p) \/ SaveLinks(p) \/ SaveClears(p)
    \/ CutLoads(p) \/ CutReloads(p) \/ CutCreatesRun(p) \/ ResumeOpens(p) \/ Execute(p)
    \/ Scan(p) \/ AbandonNames(p) \/ AbandonReopens(p) \/ AbandonRun(p)
    \/ DiscardLoads(p) \/ DiscardMarks(p) \/ DiscardRemoves(p)

StoreSpec == StoreInit /\ [][StoreNext]_storeVars

-----------------------------------------------------------------------------
StoreTypeOK ==
  /\ {plan, marker, saved} \subseteq BOOLEAN
  /\ run \in [Cuts -> {"none", "in_progress", "completed", "abandoned"}]
  /\ lock \in Process \cup {Nobody}
  /\ step \in [Process -> {"start", "lock", "read", "link", "clear", "reload", "create",
                         "open", "execute", "scan", "reopen", "abandon", "load",
                         "mark", "remove", "unlock", "done", "dead"}]
  /\ subject \in [Process -> Cuts \cup {Nobody}]

\* "An abandon can neither delete the plan after this check nor miss the new
\* run reference": a started run's plan is never gone, so that a resume always
\* finds the sealed one (cut, abandon_plan_or_matching_run).
StartedRunHasPlan == Runs # {} => plan

\* "A durable marker distinguishes an idempotent retry from a well-formed but
\* genuinely unknown address": wherever commands were killed, an address that
\* ever held a plan has the plan or the marker (save, discard).
DisposalIsRemembered == saved => plan \/ marker

\* "Re-planning the same content after a discard is an explicit reapproval and
\* clears its disposal marker": also over what a killed discard left (save).
ReapprovalIsComplete == \A p \in Plans : step[p] = "unlock" => plan /\ ~marker

\* Whatever the commands do to each other between dropping and taking the lock,
\* a completed run is never abandoned, nor an abandoned one completed.
OutcomeIsFinal ==
  [][\A c \in Cuts : run[c] \in {"completed", "abandoned"} => run'[c] = run[c]]_storeVars

\* An address tells what became of its plan, whichever save or discard was killed:
\* it holds the plan, or the marker of its disposal.
StoreInv ==
  /\ StoreTypeOK
  /\ DisposalIsRemembered
  /\ ReapprovalIsComplete
=============================================================================
