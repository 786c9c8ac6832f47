------------------------------ MODULE CutLock -------------------------------
(***************************************************************************)
(* The single-active-cut lock (shipshape-cli sys.rs): an O_EXCL lock file  *)
(* that names its holder, taken by `release plan', `cut', `resume', and by *)
(* `release abandon', which may break it when the holder is dead.  Every   *)
(* file operation is one step; any invocation may be killed between two.   *)
(***************************************************************************)
EXTENDS Naturals, FiniteSets

CONSTANTS Cuts,       \* invocations of plan, cut and resume
          Abandons,   \* invocations of abandon
          Remote,     \* those running on another host of a shared file system
          None        \* no lock file / nothing read

Invocations == Cuts \cup Abandons

\* A lock file; `written' once it holds the creator's pid and hostname.
LockFile == [owner : Invocations, written : BOOLEAN]

ASSUME InvocationsAssumption == /\ Cuts \cap Abandons = {}
                                /\ Remote \subseteq Invocations
                                /\ None \notin Invocations \cup LockFile

VARIABLES lock,     \* the file at the lock path: None, or its creator and content
          pc,
          read,     \* what an abandon read of the lock it found held
          killed,   \* invocations the operating system no longer knows
          mistaken  \* abandons that removed a lock other than the one they read (history)

lockVars == <<lock, pc, read, killed, mistaken>>

\* Guards are held from the end of lock_exclusive to the guard's drop.
Holders == {p \in Invocations : pc[p] = "holding"}

Goto(p, label) == pc' = [pc EXCEPT ![p] = label]

LockInit ==
  /\ lock = None
  /\ pc = [p \in Invocations |-> "start"]
  /\ read = [p \in Invocations |-> None]
  /\ killed = {}
  /\ mistaken = {}

-----------------------------------------------------------------------------
(* lock_exclusive                                                          *)

Trying(p) == pc[p] \in {"start", "retry"}

\* Seeded fault: the create is not exclusive.
CreateOver(p) == /\ Trying(p)
                 /\ lock' = [owner |-> p, written |-> FALSE]
                 /\ Goto(p, "writing")
                 /\ UNCHANGED <<read, killed, mistaken>>

\* The O_EXCL create succeeds: the file is there, still empty.
Create(p) == /\ Trying(p)
             /\ lock = None
             /\ lock' = [owner |-> p, written |-> FALSE]
             /\ Goto(p, "writing")
             /\ UNCHANGED <<read, killed, mistaken>>

\* The file exists: cut and resume give up, abandon inspects the lock, once.
WouldBlock(p) == /\ Trying(p)
                 /\ lock # None
                 /\ Goto(p, IF p \in Abandons /\ pc[p] = "start" THEN "inspect" ELSE "done")
                 /\ UNCHANGED <<lock, read, killed, mistaken>>

\* The identity goes to the file that was created, wherever the path points.
Identified(p) == IF lock # None /\ lock.owner = p
                 THEN [lock EXCEPT !.written = TRUE] ELSE lock

WriteHolder(p) == /\ pc[p] = "writing"
                  /\ lock' = Identified(p)
                  /\ Goto(p, "holding")
                  /\ UNCHANGED <<read, killed, mistaken>>

\* Writing or syncing fails: no guard exists, and the file stays as it got.
WriteFails(p) == /\ pc[p] = "writing"
                 /\ lock' \in {lock, Identified(p)}
                 /\ Goto(p, "done")
                 /\ UNCHANGED <<read, killed, mistaken>>

\* The guard's drop removes whatever is at the path.
Release(p) == /\ pc[p] = "holding"
              /\ lock' = None
              /\ Goto(p, "done")
              /\ UNCHANGED <<read, killed, mistaken>>

-----------------------------------------------------------------------------
(* break_stale_lock                                                        *)

\* Seeded fault: a lock of another host is taken for one of this host.
InspectAnyHost(p) ==
  /\ pc[p] = "inspect"
  /\ IF lock # None /\ lock.written
     THEN /\ read' = [read EXCEPT ![p] = lock.owner]
          /\ Goto(p, "probe")
     ELSE Goto(p, "done") /\ UNCHANGED read
  /\ UNCHANGED <<lock, killed, mistaken>>

\* A vanished, unreadable or foreign-host lock is not broken.
Inspect(p) ==
  /\ pc[p] = "inspect"
  /\ IF lock # None /\ lock.written /\ (lock.owner \in Remote <=> p \in Remote)
     THEN /\ read' = [read EXCEPT ![p] = lock.owner]
          /\ Goto(p, "probe")
     ELSE Goto(p, "done") /\ UNCHANGED read
  /\ UNCHANGED <<lock, killed, mistaken>>

\* A pid this host does not know is dead; one of another host never is known.
ReportedDead(p, q) == q \in killed \/ (q \in Remote /\ p \notin Remote)
                                   \/ (p \in Remote /\ q \notin Remote)

\* kill(pid, 0)
Probe(p) == /\ pc[p] = "probe"
            /\ Goto(p, IF ReportedDead(p, read[p]) THEN "break" ELSE "done")
            /\ UNCHANGED <<lock, read, killed, mistaken>>

\* Seeded fault: a proven dead holder's lock is reported and left in place.
BreakNothing(p) == /\ pc[p] = "break"
                   /\ Goto(p, "retry")
                   /\ UNCHANGED <<lock, read, killed, mistaken>>

\* remove_file of the path, whatever is there by now; an absent file is an error.
Break(p) == /\ pc[p] = "break"
            /\ lock' = None
            /\ Goto(p, IF lock = None THEN "done" ELSE "retry")
            /\ mistaken' = mistaken \cup {q \in {p} : lock # None /\ lock.owner # read[p]}
            /\ UNCHANGED <<read, killed>>

\* The process is killed and runs no destructor.
Kill(p) == /\ pc[p] \notin {"start", "done", "killed"}
           /\ Goto(p, "killed")
           /\ killed' = killed \cup {p}
           /\ UNCHANGED <<lock, read, mistaken>>

\* A finished process leaves its pid.
Exit(p) == /\ pc[p] = "done"
           /\ Goto(p, "killed")
           /\ killed' = killed \cup {p}
           /\ UNCHANGED <<lock, read, mistaken>>

-----------------------------------------------------------------------------
Step(p) == \/ Create(p) \/ WouldBlock(p) \/ WriteHolder(p) \/ WriteFails(p) \/ Release(p)
           \/ Inspect(p) \/ Probe(p) \/ Break(p)

LockNext == \E p \in Invocations : Step(p) \/ Kill(p) \/ Exit(p)

LockSpec == LockInit /\ [][LockNext]_lockVars

\* An abandon that was started and is not killed runs on, and one is started
\* whenever it can be.
RunsOn(p) == Create(p) \/ WouldBlock(p) \/ WriteHolder(p) \/ Release(p) \/ Inspect(p) \/ Probe(p) \/ Break(p)
LockFairness == \A p \in Abandons : WF_lockVars(RunsOn(p))

LockFairSpec == LockSpec /\ LockFairness

-----------------------------------------------------------------------------
LockTypeOK ==
  /\ lock \in LockFile \cup {None}
  /\ pc \in [Invocations -> {"start", "writing", "holding", "inspect", "probe",
                         "break", "retry", "done", "killed"}]
  /\ read \in [Invocations -> Invocations \cup {None}]
  /\ killed \in SUBSET Invocations
  /\ mistaken \in SUBSET Abandons

\* ADR-0003: "two processes must never execute or reconcile the same release
\* concurrently" -- at most one guard is held at any time.
MutualExclusion == Cardinality(Holders) <= 1

\* The path names the holder for as long as its guard is held, so a drop never
\* removes a lock that is not the holder's own -- as long as no abandon has
\* removed a lock other than the one it read, which nothing prevents.
HolderOwnsLock == mistaken = {} => \A p \in Holders : lock # None /\ lock.owner = p

\* "Break lock_path only when its JSON holder identity proves it is a dead
\* process on this host": what was read before the removal is of such a process.
BreaksTheDead ==
  \A p \in Abandons : pc[p] = "break" => read[p] \in killed /\ (read[p] \in Remote <=> p \in Remote)

\* What the blind removals can cost.  Whose lock is removed under it will, when
\* it drops its guard, remove the lock of the next, and so on; still every
\* removal of a lock that was not read lets one more hold a guard, and nothing
\* else does: no kill, no failed write, no drop and no removal of what was read.
OneMorePerMistake == Cardinality(Holders) <= 1 + Cardinality(mistaken)

\* A holder killed on this host does not block the release for good: a later
\* abandon frees the path ("`abandon' alone may recover a stale O_EXCL lock").
StaleLockIsBroken ==
  \A q \in Cuts, p \in Abandons :
    (/\ lock # None /\ lock.owner = q /\ lock.written
     /\ q \in killed \ Remote /\ p \notin Remote /\ pc[p] = "start")
    ~> (lock = None \/ lock.owner # q \/ pc[p] = "killed")

\* What a guard relies on until it is dropped, and a removal on its probe.
LockInv ==
  /\ LockTypeOK
  /\ HolderOwnsLock
  /\ BreaksTheDead
=============================================================================
