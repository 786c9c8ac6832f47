---------------------------- MODULE SkillInstall ----------------------------
(***************************************************************************)
(* `shipshape skill install' (shipshape-cli skill.rs): every destination   *)
(* is inspected before the first is written, each is written by a rename   *)
(* of a sibling temporary file.  Binaries of different versions install    *)
(* into the same directories, people edit what is there, and an installer  *)
(* may be killed between any two file operations.                          *)
(***************************************************************************)
EXTENDS Naturals, Sequences

CONSTANTS
  Installers,     \* invocations
  SkillVersions,  \* cli_versions, as naturals in SemVer order
  SkillPaths,     \* destinations
  SkillPlans,     \* the lists of destinations an invocation may resolve to
  OtherKinds,     \* what else may be at a destination
  MaxEdits        \* bound on what people change

ASSUME SkillAssumption ==
  /\ SkillVersions \subseteq Nat
  /\ SkillPlans \subseteq Seq(SkillPaths) \ {<<>>}
  /\ OtherKinds \subseteq {"unmanaged", "unparseable", "nontext", "symlink", "directory"}
  /\ MaxEdits \in Nat

\* What is at a destination.  `managed' is a regular text file whose frontmatter
\* names the skill expected there; its cli_version may fail to parse.
Managed(v) == [managed |-> v]
Destination == [kind : OtherKinds] \cup {Managed(v) : v \in SkillVersions}
Nothing == [kind |-> "absent"]
HalfWritten == [kind |-> "torn"]

VARIABLES
  skillAt,      \* what is at each destination
  temps,        \* temporary files
  installer,    \* per invocation: its arguments, where it stands, its verdicts
  edits,        \* edits made so far
  skillWrites,  \* history, per invocation: the destinations it wrote
  disturbed     \* history, per invocation: inspected destinations others changed

skillVars == <<skillAt, temps, installer, edits, skillWrites, disturbed>>

\* `seen' entries of the plan are inspected, `done' are dealt with.
Uninvoked == [stage |-> "none", plan |-> <<>>, version |-> 0, force |-> FALSE,
              dryRun |-> FALSE, seen |-> 0, done |-> 0, verdict |-> <<>>]

SkillInit ==
  /\ skillAt = [p \in SkillPaths |-> Nothing]
  /\ temps = {}
  /\ edits = 0
  /\ installer = [i \in Installers |-> Uninvoked]
  /\ skillWrites = [i \in Installers |-> {}]
  /\ disturbed = [i \in Installers |-> {}]

Stage(i, stage) == installer[i].stage = stage
Inspected(i) == DOMAIN installer[i].verdict
HistoryUnchanged == UNCHANGED <<edits, skillWrites, disturbed>>

\* build_plan: the runtimes of --agent under --target, --dest or $HOME; under
\* --dest two runtimes share a path.
Invoke(i) ==
  /\ Stage(i, "none")
  /\ \E plan \in SkillPlans, v \in SkillVersions, f, d \in BOOLEAN :
       installer' = [installer EXCEPT ![i] =
         [Uninvoked EXCEPT !.stage = "running", !.plan = plan, !.version = v,
                           !.force = f, !.dryRun = d]]
  /\ UNCHANGED <<skillAt, temps>> /\ HistoryUnchanged

\* How an invocation ends without success; what it knew goes with it.
Over(i, stage) ==
  [Uninvoked EXCEPT !.stage = stage, !.force = installer[i].force, !.dryRun = installer[i].dryRun]

-----------------------------------------------------------------------------
(* preflight_plan                                                           *)

IsManaged(content) == "managed" \in DOMAIN content

\* Seeded fault: a newer file is upgraded like an older one.
DriftUnordered(content, version, force) ==
  CASE content = Nothing -> "install"
    [] IsManaged(content) /\ content.managed # version -> "upgrade"
    [] IsManaged(content) /\ content.managed = version -> "unchanged"
    [] OTHER -> IF force /\ content.kind # "directory" THEN "overwrite" ELSE "refuse"

\* check_drift and check_non_regular.
Drift(content, version, force) ==
  CASE content = Nothing -> "install"
    [] IsManaged(content) /\ content.managed < version -> "upgrade"
    [] IsManaged(content) /\ content.managed = version -> "unchanged"
    [] IsManaged(content) /\ content.managed > version ->
         IF force THEN "overwrite" ELSE "refuse"
    [] OTHER -> IF force /\ content.kind # "directory" THEN "overwrite" ELSE "refuse"

\* A path already inspected for another runtime is not inspected again.
Inspect(i) ==
  LET path == installer[i].plan[installer[i].seen + 1]
      verdict == Drift(skillAt[path], installer[i].version, installer[i].force)
  IN /\ Stage(i, "running")
     /\ installer[i].seen < Len(installer[i].plan)
     /\ \/ /\ path \in Inspected(i)
           /\ installer' = [installer EXCEPT ![i].seen = @ + 1]
        \/ /\ path \notin Inspected(i) /\ verdict = "refuse"
           /\ installer' = [installer EXCEPT ![i] = Over(i, "refused")]
        \/ /\ path \notin Inspected(i) /\ verdict # "refuse"
           /\ installer' = [installer EXCEPT
                ![i].seen = @ + 1,
                ![i].verdict = [p \in Inspected(i) \cup {path} |->
                                  IF p = path THEN verdict ELSE @[p]]]
     /\ UNCHANGED <<skillAt, temps>> /\ HistoryUnchanged

-----------------------------------------------------------------------------
(* The writing loop.                                                        *)

ReadyToWrite(i) == installer[i].seen = Len(installer[i].plan)

\* Nothing is written over an equal version, nor twice at one path.
Needless(i, path) ==
  \/ installer[i].verdict[path] = "unchanged"
  \/ \E k \in 1..installer[i].done : installer[i].plan[k] = path

NextPath(i) == installer[i].plan[installer[i].done + 1]

Writing(i) ==
  /\ Stage(i, "running") /\ ~ installer[i].dryRun
  /\ ReadyToWrite(i) /\ installer[i].done < Len(installer[i].plan)

PassOver(i) ==
  /\ Writing(i) /\ Needless(i, NextPath(i))
  /\ installer' = [installer EXCEPT ![i].done = @ + 1]
  /\ UNCHANGED <<skillAt, temps>> /\ HistoryUnchanged

\* Seeded fault: the destination itself is opened and written.
TempInPlace(i) ==
  /\ Writing(i) /\ ~ Needless(i, NextPath(i)) /\ i \notin temps
  /\ temps' = temps \cup {i}
  /\ skillAt' = [skillAt EXCEPT ![NextPath(i)] = HalfWritten]
  /\ UNCHANGED installer /\ HistoryUnchanged

\* write_atomic, first half: the sibling temporary file.
Temp(i) ==
  /\ Writing(i) /\ ~ Needless(i, NextPath(i)) /\ i \notin temps
  /\ temps' = temps \cup {i}
  /\ UNCHANGED <<skillAt, installer>> /\ HistoryUnchanged

\* Second half: the rename replaces the destination as a whole; a directory in
\* its place makes it fail and the temporary file is removed.
Rename(i) ==
  LET path == NextPath(i)
      fails == skillAt[path] = [kind |-> "directory"]
  IN /\ Writing(i) /\ i \in temps
     /\ temps' = temps \ {i}
     /\ installer' = [installer EXCEPT ![i] =
          IF fails THEN Over(i, "failed") ELSE [installer[i] EXCEPT !.done = @ + 1]]
     /\ skillAt' = [skillAt EXCEPT ![path] = IF fails THEN @ ELSE Managed(installer[i].version)]
     /\ skillWrites' = [skillWrites EXCEPT ![i] = IF fails THEN @ ELSE @ \cup {path}]
     /\ disturbed' = [j \in Installers |->
          IF j # i /\ ~ fails /\ path \in Inspected(j) THEN disturbed[j] \cup {path}
          ELSE disturbed[j]]
     /\ UNCHANGED edits

Report(i) ==
  /\ Stage(i, "running") /\ ReadyToWrite(i)
  /\ installer[i].dryRun \/ installer[i].done = Len(installer[i].plan)
  /\ installer' = [installer EXCEPT ![i].stage = "done"]
  /\ UNCHANGED <<skillAt, temps>> /\ HistoryUnchanged

KillInstaller(i) ==
  /\ Stage(i, "running")
  /\ installer' = [installer EXCEPT ![i] = Over(i, "failed")]
  /\ UNCHANGED <<skillAt, temps>> /\ HistoryUnchanged

\* People edit, replace and remove what is installed.
Edit(p) ==
  /\ edits < MaxEdits /\ edits' = edits + 1
  /\ \E content \in (Destination \cup {Nothing}) \ {skillAt[p]} :
       skillAt' = [skillAt EXCEPT ![p] = content]
  /\ disturbed' = [j \in Installers |->
       IF p \in Inspected(j) THEN disturbed[j] \cup {p} ELSE disturbed[j]]
  /\ UNCHANGED <<temps, installer, skillWrites>>

InstallerStep(i) ==
  Invoke(i) \/ Inspect(i) \/ PassOver(i) \/ Temp(i) \/ Rename(i) \/ Report(i) \/ KillInstaller(i)

SkillNext == (\E i \in Installers : InstallerStep(i)) \/ (\E p \in SkillPaths : Edit(p))

SkillSpec == SkillInit /\ [][SkillNext]_skillVars

-----------------------------------------------------------------------------
Verdicts ==
  UNION {[ps -> {"install", "upgrade", "unchanged", "overwrite"}] : ps \in SUBSET SkillPaths}

Invocation ==
  [stage : {"none", "running", "refused", "failed", "done"},
   plan : SkillPlans \cup {<<>>}, version : Nat, force : BOOLEAN, dryRun : BOOLEAN,
   seen : Nat, done : Nat, verdict : Verdicts]

SkillTypeOK ==
  /\ skillAt \in [SkillPaths -> Destination \cup {Nothing, HalfWritten}]
  /\ temps \subseteq {i \in Installers : ~ installer[i].dryRun}
  /\ edits \in 0..MaxEdits
  /\ installer \in [Installers -> Invocation]
  /\ skillWrites \in [Installers -> SUBSET SkillPaths]
  /\ disturbed \in [Installers -> SUBSET SkillPaths]

\* "no_clobber_default": without --force, and as long as nobody touches the file
\* between its inspection and the rename, an installer only creates a file or
\* replaces an older managed one -- also when the same path stands in the plan
\* for two runtimes.
NeverClobbers ==
  [][\A i \in Installers, p \in SkillPaths :
       /\ p \in skillWrites'[i] /\ p \notin skillWrites[i]
       /\ ~ installer[i].force /\ p \notin disturbed[i]
       => \/ skillAt[p] = Nothing
          \/ IsManaged(skillAt[p]) /\ skillAt[p].managed < installer[i].version]_skillVars

\* One destination that must not be overwritten refuses the whole installation:
\* no other has been written by then, and a dry run writes none at all.
RefusalWritesNothing ==
  \A i \in Installers :
    Stage(i, "refused") \/ installer[i].dryRun => skillWrites[i] = {}

\* At no point, and after no kill, is a truncated file at a destination.
NeverTorn == \A p \in SkillPaths : skillAt[p] # HalfWritten

\* An installation that reports success has left its version at every path of
\* its plan that nobody else touched since the inspection.
InstalledEverywhere ==
  \A i \in Installers :
    Stage(i, "done") /\ ~ installer[i].dryRun
    => \A k \in DOMAIN installer[i].plan :
         LET p == installer[i].plan[k]
         IN p \notin disturbed[i] => skillAt[p] = Managed(installer[i].version)

\* An installation is whole: every file of it is, and it is at all destinations
\* where success was reported, or at none where it was refused.
SkillInv ==
  /\ SkillTypeOK
  /\ NeverTorn
  /\ RefusalWritesNothing
  /\ InstalledEverywhere
=============================================================================
