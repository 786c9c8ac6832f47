----------------------- MODULE DelegatedVerify_proofs ------------------------
(***************************************************************************)
(* The verify barrier, proved for any list of targets, any workflows in    *)
(* the tag and any window, whatever CI, the networks, the clock and the    *)
(* operator do meanwhile.                                                  *)
(***************************************************************************)
EXTENDS DelegatedVerify, FiniteSetTheorems, WellFoundedInduction, TLAPS

CiRuns == {"none", "busy", "green", "red", "strange", "two"}

WorldStates ==
  [runs : [Observable -> CiRuns],
   shown : [Indices -> {"match", "absent", "conflict"}],
   up : BOOLEAN, files : TaggedTrees, changes : Nat]

BarrierStates ==
  [at : {"rest", "runs", "destinations", "record", "look"},
   mode : {"completion", "observation"},
   todo : SUBSET Indices, ready : SUBSET RunOwners,
   pending : SUBSET RunOwners, unknown : SUBSET RunOwners,
   outcome : [Indices -> Outcomes], answered : SUBSET Indices,
   failure : {Null, "pending", "failed", "unknown"},
   window : [elapsed : 0 .. Window, sleeps : 0 .. MaxSleeps]]

JournalStates ==
  [verified : [Indices -> Outcomes],
   result : {Null, "ok", "pending", "failed", "unknown"}]

HistoryStates ==
  [green : SUBSET Observable, astray : SUBSET Indices,
   matched : SUBSET Indices, red : SUBSET Observable,
   recorded : SUBSET Indices, quiet : BOOLEAN]

VerifyTypes ==
  /\ world \in WorldStates
  /\ barrier \in BarrierStates
  /\ journal \in JournalStates
  /\ history \in HistoryStates

\* An attempt that completes, once every workflow was green.
PastRuns == barrier.at = "destinations" \/ (barrier.at = "record" /\ barrier.mode = "completion")

\* An observation only records; nothing is recorded before the workflows are done.
ModeFits ==
  /\ barrier.at = "rest" => barrier.ready = {}
  /\ barrier.mode = "observation" => barrier.at \in {"record", "look"}
  /\ barrier.at = "look" => barrier.mode = "observation"
  /\ barrier.at \in {"runs", "destinations"} => history.recorded = {}
  /\ journal.result = "ok" => barrier.at = "rest"

\* The history holds what is the case now.
HistoryCovers ==
  /\ Matched(world) \subseteq history.matched
  /\ barrier.at # "rest" => /\ Green(world) \subseteq history.green
                            /\ Indices \ Matched(world) \subseteq history.astray
  /\ barrier.at = "runs" => history.red \subseteq Red(world)

\* The workflow of an owner was green in this attempt, and is while nothing
\* changes; who publishes the crates is known.
SeenGreen(i) ==
  /\ AdapterOf(i) \in history.green
  /\ history.quiet => RunStatus(AdapterOf(i)) = "success"
  /\ AdapterOf(i) = "cargo-publish-ci" => CargoPublishWorkflow(world.files) # Null

\* A round accounts for every owner, and who it still waits for was not red when
\* it looked.
RunsAccountedFor ==
  barrier.at = "runs" =>
    /\ barrier.todo \subseteq RunOwners
    /\ RunOwners = barrier.todo \cup barrier.ready \cup barrier.pending \cup barrier.unknown
    /\ \A i \in barrier.pending \cup barrier.unknown : AdapterOf(i) \notin history.red
    /\ history.quiet => /\ \A i \in barrier.pending : RunStatus(AdapterOf(i)) = "pending"
                        /\ \A i \in barrier.unknown : RunStatus(AdapterOf(i)) = "unknown"

ReadyWereGreen ==
  /\ \A i \in barrier.ready : SeenGreen(i)
  /\ PastRuns => barrier.ready = RunOwners

\* No destination is asked before the workflows are done.
NothingAnswered == barrier.at \in {"rest", "runs"} => barrier.answered = {}

\* What was seen of the destinations was the case in this attempt, and is while
\* nothing changes.
Delegated == {i \in Indices : ~IsEngine(i)}

OutcomesAreObserved ==
  PastRuns =>
    \A i \in Delegated :
      /\ barrier.outcome[i] # Null
      /\ barrier.outcome[i] = "missing" => i \in history.astray
      /\ barrier.outcome[i] = "matches" => i \in history.matched

\* An index that answered is asked again only about what it did not have.
AnswersRemembered ==
  barrier.at = "destinations" =>
    /\ barrier.todo \subseteq {i \in Delegated : journal.verified[i] # "matches"}
    /\ history.quiet /\ barrier.answered # {} => world.up
    /\ \A i \in barrier.answered :
         HasIndex(i) => /\ barrier.outcome[i] \in {"missing", "matches"}
                        /\ i \in barrier.todo => barrier.outcome[i] = "missing"
    /\ history.quiet =>
         \A i \in Delegated : journal.verified[i] # "matches" /\ i \notin barrier.todo
                              => barrier.outcome[i] = Destination(i, FALSE)

\* Whatever is recorded as other than a match is a failure of the phase.
RecordingCounts ==
  barrier.at = "record" /\ barrier.mode = "completion" =>
    /\ history.quiet =>
         \A i \in barrier.todo \cap Delegated : barrier.outcome[i] = Destination(i, FALSE)
    /\ barrier.failure # Null
       \/ \A i \in Indices \ barrier.todo : journal.verified[i] = "matches"

\* A look at a destination follows a green workflow, if there is one to watch.
LookIsEarned ==
  barrier.at = "look" =>
    /\ barrier.todo # {}
    /\ LET i == Min(barrier.todo)
       IN /\ ~IsEngine(i)
          /\ AdapterOf(i) \in Observable =>
               /\ AdapterOf(i) \in history.green
               /\ history.quiet => RunStatus(AdapterOf(i)) = "success"

\* A run that is verified has only matches on record.
PassedWasChecked ==
  journal.result = "ok" =>
    /\ \A i \in Indices : journal.verified[i] = "matches"
    /\ OwnedBy("cargo-publish-ci") # {} => CargoPublishWorkflow(world.files) # Null

VerifyInd ==
  /\ VerifyTypes /\ ModeFits /\ HistoryCovers
  /\ RunsAccountedFor /\ ReadyWereGreen
  /\ NothingAnswered /\ OutcomesAreObserved /\ AnswersRemembered
  /\ RecordingCounts /\ LookIsEarned /\ PassedWasChecked
  /\ NoVerdictBeforeCI /\ VerdictsAreObserved /\ ReportsAgree

-----------------------------------------------------------------------------
(* The operators.                                                           *)

\* Every set of naturals that is not empty has a least member.
LEMMA LeastMember ==
  ASSUME NEW S \in SUBSET Nat, S # {}
  PROVE  Min(S) \in S /\ \A y \in S : Min(S) <= y
<1>. DEFINE R == OpToRel(<, Nat)
<1>1. IsWellFoundedOn(R, Nat)
  BY NatLessThanWellFounded
<1>2. \A x, y \in Nat : y < x => <<y, x>> \in R
  BY DEF OpToRel
<1>. HIDE DEF R
<1>3. PICK x \in S : \A y \in S : ~ (<<y, x>> \in R)
  BY <1>1, WFMin
<1>4. ASSUME NEW y \in S PROVE x <= y
  <2>1. ~ (y < x)
    BY <1>2, <1>3, Zenon
  <2>. QED
    BY <2>1
<1>. QED
  BY <1>4 DEF Min

\* The targets are indexed by naturals.
LEMMA IndicesAreNaturals == Indices \subseteq Nat
BY VerifyAssumption DEF Indices

\* An owner is a target whose workflow can be observed, and every adapter that
\* has targets and a workflow has an owner.
LEMMA OwnersStandForAdapters ==
  /\ \A i \in RunOwners : i \in Indices /\ AdapterOf(i) \in Observable
  /\ \A i \in Indices : AdapterOf(i) \in Observable
       => \E o \in RunOwners : AdapterOf(o) = AdapterOf(i)
<1>1. ASSUME NEW a \in Observable, OwnedBy(a) # {}
      PROVE  Min(OwnedBy(a)) \in Indices /\ AdapterOf(Min(OwnedBy(a))) = a
  BY <1>1, IndicesAreNaturals, LeastMember DEF OwnedBy
<1>2. ASSUME NEW i \in RunOwners PROVE i \in Indices /\ AdapterOf(i) \in Observable
  BY <1>1 DEF RunOwners
<1>3. ASSUME NEW i \in Indices, AdapterOf(i) \in Observable
      PROVE  \E o \in RunOwners : AdapterOf(o) = AdapterOf(i)
  <2>1. OwnedBy(AdapterOf(i)) # {}
    BY DEF OwnedBy
  <2>. QED
    BY <1>1, <1>3, <2>1 DEF RunOwners
<1>. QED
  BY <1>2, <1>3

\* What a workflow's status tells of its runs.
LEMMA StatusReads ==
  ASSUME VerifyTypes, NEW a \in Observable
  PROVE  /\ RunStatus(a) \in {"pending", "success", "failed", "unknown"}
         /\ RunStatus(a) = "success" => a \in Green(world)
         /\ RunStatus(a) = "success" /\ a = "cargo-publish-ci"
              => CargoPublishWorkflow(world.files) # Null
         /\ RunStatus(a) = "failed" <=> a \in Red(world)
<1>1. world.runs[a] \in CiRuns
  BY DEF VerifyTypes, WorldStates
<1>. DEFINE reading == [none |-> "pending", busy |-> "pending", green |-> "success",
                        red |-> "failed", strange |-> "unknown", two |-> "unknown"]
<1>2. /\ reading["none"] = "pending" /\ reading["busy"] = "pending"
      /\ reading["green"] = "success" /\ reading["red"] = "failed"
      /\ reading["strange"] = "unknown" /\ reading["two"] = "unknown"
  OBVIOUS
<1>3. /\ reading[world.runs[a]] \in {"pending", "success", "failed", "unknown"}
      /\ reading[world.runs[a]] = "success" => world.runs[a] = "green"
  BY <1>1 DEF CiRuns
<1>. HIDE DEF reading
<1>4. RunStatus(a) = IF \/ ~ world.up
                        \/ a = "cargo-publish-ci" /\ CargoPublishWorkflow(world.files) = Null
                     THEN "unknown" ELSE reading[world.runs[a]]
  BY DEF RunStatus, StatusIn, reading
<1>5. RunStatus(a) = "failed" <=> a \in Red(world)
  BY DEF RunStatus, Red
<1>. QED
  BY <1>3, <1>4, <1>5 DEF Green

\* What is asked of a destination, and what remembering an answer changes.
LEMMA DestinationReads ==
  ASSUME VerifyTypes, NEW i \in Indices, NEW answered \in BOOLEAN
  PROVE  /\ Destination(i, answered) \in {"matches", "missing", "conflicts", "unknown"}
         /\ Destination(i, answered) = "matches" => i \in Matched(world)
         /\ Destination(i, answered) = "missing"
              => i \notin Matched(world) \/ (~ world.up /\ answered /\ HasIndex(i))
         /\ world.up \/ ~ answered => Destination(i, answered) = Destination(i, FALSE)
         /\ HasIndex(i) /\ (world.up \/ answered)
              => Destination(i, answered) \in {"matches", "missing"}
         /\ HasIndex(i) /\ ~ world.up => Destination(i, answered) # "matches"
         /\ Destination(i, answered) = RegistryOutcome(i, answered) \/ ~ HasIndex(i)
<1>1. world.shown[i] \in {"match", "absent", "conflict"}
  BY DEF VerifyTypes, WorldStates
<1>. DEFINE asset == [match |-> "matches", absent |-> "missing", conflict |-> "conflicts"]
<1>2. asset["match"] = "matches" /\ asset["absent"] = "missing" /\ asset["conflict"] = "conflicts"
  OBVIOUS
<1>3. /\ asset[world.shown[i]] \in {"matches", "missing", "conflicts"}
      /\ asset[world.shown[i]] = "matches" <=> world.shown[i] = "match"
  BY <1>1
<1>4. AssetOutcome(i) = IF ~ world.up THEN "unknown" ELSE asset[world.shown[i]]
  BY DEF AssetOutcome
<1>5. i \in Matched(world) <=> world.shown[i] = "match"
  BY DEF Matched
<1>. HIDE DEF asset
<1>. QED
  BY <1>3, <1>4, <1>5 DEF Destination, RegistryOutcome

\* A poll is counted while the window is open, whatever the clock says.
LEMMA SleepIsCounted ==
  ASSUME VerifyTypes, ~ Expired(barrier.window)
  PROVE  Slept(barrier.window) \subseteq [elapsed : 0 .. Window, sleeps : 0 .. MaxSleeps]
<1>1. barrier.window.sleeps \in 0 .. MaxSleeps
  BY DEF VerifyTypes, BarrierStates
<1>2. barrier.window.sleeps < MaxSleeps
  BY <1>1, VerifyAssumption DEF Expired
<1>3. Min({MaxSleeps, barrier.window.sleeps}) = barrier.window.sleeps
  <2>. DEFINE S == {MaxSleeps, barrier.window.sleeps}
  <2>1. S \in SUBSET Nat /\ S # {}
    BY <1>1, VerifyAssumption
  <2>2. Min(S) \in S /\ \A y \in S : Min(S) <= y
    BY <2>1, LeastMember
  <2>. QED
    BY <1>1, <2>2, VerifyAssumption
<1>. QED
  BY <1>1, <1>2, <1>3, VerifyAssumption DEF Slept

\* Who publishes the crates is known only if a single workflow shows evidence.
LEMMA OwnerIsUnique ==
  ASSUME NEW files \in TaggedTrees, CargoPublishWorkflow(files) # Null
  PROVE  \E i \in DOMAIN files : \A j \in DOMAIN files :
           LET file == files[j]
           IN (file.parses /\ file.onTag /\ (file.direct \/ file.helpers # {})) <=> j = i
<1>. DEFINE candidates == {i \in DOMAIN files : Publishes(files[i])}
<1>1. Cardinality(candidates) = 1 /\ \A i \in DOMAIN files : ~ Rejected(files[i])
  BY DEF CargoPublishWorkflow
<1>2. IsFiniteSet(DOMAIN files)
  BY VerifyAssumption, FS_Interval
<1>3. IsFiniteSet(candidates)
  BY <1>2, FS_Subset
<1>4. PICK i : candidates = {i}
  BY <1>1, <1>3, FS_Singleton
<1>5. ASSUME NEW j \in DOMAIN files
      PROVE  (files[j].parses /\ files[j].onTag /\ (files[j].direct \/ files[j].helpers # {}))
             <=> j = i
  BY <1>1, <1>4 DEF Publishes
<1>. QED
  BY <1>4, <1>5

\* The answers do not change while the world does not.
LEMMA AnswersRest ==
  ASSUME UNCHANGED world
  PROVE  /\ \A a : RunStatus(a)' = RunStatus(a)
         /\ \A i, b : Destination(i, b)' = Destination(i, b)
         /\ \A i, b : RegistryOutcome(i, b)' = RegistryOutcome(i, b)
         /\ \A i : Reported(i)' = Reported(i)
<1>1. /\ \A a : RunStatus(a)' = RunStatus(a)
      /\ \A i, b : RegistryOutcome(i, b)' = RegistryOutcome(i, b)
      /\ \A i : AssetOutcome(i)' = AssetOutcome(i)
  BY DEF RunStatus, RegistryOutcome, AssetOutcome
<1>2. \A i, b : Destination(i, b)' = Destination(i, b)
  BY <1>1 DEF Destination
<1>. QED
  BY <1>1, <1>2 DEF Reported

\* The targets of a barrier are taken in order.
LEMMA HeadOfTodo ==
  ASSUME VerifyTypes, barrier.todo # {}
  PROVE  Min(barrier.todo) \in barrier.todo /\ Min(barrier.todo) \in Indices
<1>1. barrier.todo \in SUBSET Indices
  BY DEF VerifyTypes, BarrierStates
<1>. QED
  BY <1>1, IndicesAreNaturals, LeastMember

-----------------------------------------------------------------------------
\* Nothing is on record when the phase begins.
LEMMA VerifyInitially == VerifyInit => VerifyInd
<1>. SUFFICES ASSUME VerifyInit PROVE VerifyInd
  OBVIOUS
<1>1. /\ barrier.at = "rest" /\ barrier.mode = "completion" /\ barrier.ready = {}
      /\ barrier.answered = {}
      /\ journal = [verified |-> NoVerdict, result |-> Null]
      /\ history.recorded = {} /\ history.matched = Matched(world)
      /\ NoVerdict \in [Indices -> Outcomes] /\ \A i \in Indices : NoVerdict[i] = Null
  BY DEF VerifyInit, AtRest, NoAttempt, NoVerdict, Outcomes
<1>2. VerifyTypes
  <2>1. world \in WorldStates
    BY DEF VerifyInit, CiRuns, WorldStates
  <2>2. barrier \in BarrierStates
    BY <1>1, VerifyAssumption DEF VerifyInit, AtRest, Begun, BarrierStates
  <2>3. history \in HistoryStates
    BY DEF VerifyInit, NoAttempt, Matched, HistoryStates
  <2>. QED
    BY <1>1, <2>1, <2>2, <2>3 DEF VerifyTypes, JournalStates
<1>3. ModeFits /\ HistoryCovers
  BY <1>1 DEF ModeFits, HistoryCovers
<1>4. /\ RunsAccountedFor /\ ReadyWereGreen /\ NothingAnswered /\ OutcomesAreObserved /\ AnswersRemembered
      /\ RecordingCounts /\ LookIsEarned
  BY <1>1 DEF RunsAccountedFor, ReadyWereGreen, NothingAnswered, OutcomesAreObserved,
     AnswersRemembered, RecordingCounts, LookIsEarned, PastRuns
<1>5. PassedWasChecked /\ NoVerdictBeforeCI /\ VerdictsAreObserved /\ ReportsAgree
  BY <1>1, VerifyAssumption DEF PassedWasChecked, NoVerdictBeforeCI,
     VerdictsAreObserved, ReportsAgree
<1>. QED
  BY <1>2, <1>3, <1>4, <1>5 DEF VerifyInd

-----------------------------------------------------------------------------
(* Attempts begin and end.                                                  *)

\* The resting barrier.
LEMMA RestIsEmpty ==
  /\ AtRest \in BarrierStates
  /\ AtRest.at = "rest" /\ AtRest.mode = "completion" /\ AtRest.ready = {}
  /\ AtRest.answered = {}
  /\ AtRest.pending = {} /\ AtRest.unknown = {}
<1>1. NoVerdict \in [Indices -> Outcomes]
  BY DEF NoVerdict, Outcomes
<1>. QED
  BY <1>1, VerifyAssumption DEF AtRest, Begun, BarrierStates

\* At rest only what is on record matters.
LEMMA RestKeeps ==
  ASSUME VerifyTypes', barrier' = AtRest,
         (Matched(world) \subseteq history.matched)',
         PassedWasChecked', NoVerdictBeforeCI', VerdictsAreObserved', ReportsAgree'
  PROVE  VerifyInd'
<1>1. /\ barrier'.at = "rest" /\ barrier'.mode = "completion" /\ barrier'.ready = {}
      /\ barrier'.answered = {}
  BY RestIsEmpty
<1>2. ModeFits' /\ HistoryCovers'
  BY <1>1 DEF ModeFits, HistoryCovers
<1>3. /\ RunsAccountedFor' /\ ReadyWereGreen' /\ NothingAnswered' /\ OutcomesAreObserved' /\ AnswersRemembered'
      /\ RecordingCounts' /\ LookIsEarned'
  BY <1>1 DEF RunsAccountedFor, ReadyWereGreen, NothingAnswered, OutcomesAreObserved,
     AnswersRemembered, RecordingCounts, LookIsEarned, PastRuns
<1>. QED
  BY <1>2, <1>3 DEF VerifyInd

\* A crash forgets the attempt, not what is on record.
LEMMA VerifyCrashKeeps ==
  ASSUME VerifyInd, VerifyCrash
  PROVE  VerifyInd'
<1>1. /\ barrier' = AtRest /\ UNCHANGED <<world, journal>>
      /\ history' = [green |-> {}, astray |-> {}, matched |-> history.matched, red |-> {},
                     recorded |-> {}, quiet |-> FALSE]
  BY DEF VerifyCrash, NoAttempt
<1>2. VerifyTypes'
  BY <1>1, RestIsEmpty DEF VerifyInd, VerifyTypes, HistoryStates
<1>. QED
  BY <1>1, <1>2, RestKeeps DEF VerifyInd, HistoryCovers, PassedWasChecked,
     NoVerdictBeforeCI, VerdictsAreObserved, ReportsAgree

\* An attempt that ends at a workflow records that target alone, as unknown.
LEMMA EndEarlyKeeps ==
  ASSUME VerifyInd, barrier.at = "runs", NEW i \in RunOwners,
         NEW failure \in {"pending", "failed", "unknown"}, EndEarly(i, failure),
         history.quiet => RunStatus(AdapterOf(i)) # "success"
  PROVE  VerifyInd'
<1>1. /\ barrier' = AtRest /\ UNCHANGED world
      /\ journal' = [journal EXCEPT !.verified[i] = "unknown", !.result = failure]
      /\ history' = [history EXCEPT !.recorded = {i}]
  BY DEF EndEarly
<1>2. i \in Indices /\ AdapterOf(i) \in Observable /\ ~ IsEngine(i)
  BY OwnersStandForAdapters DEF Observable, IsEngine
<1>3. /\ journal'.result = failure /\ journal'.verified[i] = "unknown"
      /\ \A j \in Indices \ {i} : journal'.verified[j] = journal.verified[j]
      /\ history'.recorded = {i} /\ history'.quiet = history.quiet
      /\ history'.matched = history.matched
      /\ history' \in HistoryStates
      /\ journal' \in JournalStates
  <2>1. /\ journal \in JournalStates
        /\ history \in HistoryStates
    BY DEF VerifyInd, VerifyTypes
  <2>. QED
    BY <1>1, <1>2, <2>1 DEF Outcomes, JournalStates, HistoryStates
<1>4. VerifyTypes'
  BY <1>1, <1>3, RestIsEmpty DEF VerifyInd, VerifyTypes
<1>5. PassedWasChecked'
  BY <1>3 DEF PassedWasChecked
<1>6. NoVerdictBeforeCI'
  BY <1>3 DEF NoVerdictBeforeCI
<1>7. VerdictsAreObserved'
  BY <1>3 DEF VerdictsAreObserved, VerifyInd
<1>8. ReportsAgree'
  <2>1. Reported(i)' = Reported(i)
    BY <1>1, AnswersRest
  <2>2. history.quiet => Reported(i) = "unknown"
    BY <1>2 DEF Reported
  <2>. QED
    BY <1>3, <2>1, <2>2 DEF ReportsAgree
<1>. QED
  BY <1>1, <1>4, <1>5, <1>6, <1>7, <1>8, RestKeeps DEF VerifyInd, HistoryCovers

\* An attempt begins with what is the case.
LEMMA EnterVerifyKeeps ==
  ASSUME VerifyInd, EnterVerify
  PROVE  VerifyInd'
<1>1. PICK mode \in {"completion", "observation"} :
        barrier' = [AtRest EXCEPT !.at = IF mode = "observation" THEN "record" ELSE "runs",
                      !.mode = mode,
                      !.todo = IF mode = "observation"
                               THEN {i \in Indices : journal.verified[i] # "matches"}
                               ELSE RunOwners]
  BY DEF EnterVerify
<1>2. /\ history' = [history EXCEPT !.green = Green(world), !.astray = Indices \ Matched(world),
                                !.red = Red(world), !.recorded = {}, !.quiet = TRUE]
      /\ UNCHANGED <<world, journal>> /\ journal.result # "ok"
  BY DEF EnterVerify
<1>3. /\ barrier' \in BarrierStates
      /\ barrier'.at = (IF mode = "observation" THEN "record" ELSE "runs")
      /\ barrier'.mode = mode /\ barrier'.ready = {} /\ barrier'.answered = {}
      /\ barrier'.pending = {} /\ barrier'.unknown = {}
      /\ mode = "completion" => barrier'.todo = RunOwners
  <2>1. RunOwners \subseteq Indices
    BY OwnersStandForAdapters
  <2>. QED
    BY <1>1, <2>1, RestIsEmpty DEF BarrierStates
<1>4. /\ history' \in HistoryStates
      /\ history'.green = Green(world) /\ history'.astray = Indices \ Matched(world)
      /\ history'.red = Red(world) /\ history'.recorded = {}
      /\ history'.matched = history.matched
  BY <1>2 DEF VerifyInd, VerifyTypes, Green, Red, HistoryStates
<1>5. VerifyTypes'
  BY <1>2, <1>3, <1>4 DEF VerifyInd, VerifyTypes
<1>6. ModeFits' /\ HistoryCovers'
  BY <1>2, <1>3 DEF VerifyInd, ModeFits, HistoryCovers
<1>7. RunsAccountedFor' /\ ReadyWereGreen'
  BY <1>3 DEF RunsAccountedFor, ReadyWereGreen, PastRuns
<1>8. /\ NothingAnswered' /\ OutcomesAreObserved' /\ AnswersRemembered'
      /\ RecordingCounts' /\ LookIsEarned'
  BY <1>3 DEF NothingAnswered, OutcomesAreObserved, AnswersRemembered, RecordingCounts,
     LookIsEarned, PastRuns
<1>9. PassedWasChecked' /\ NoVerdictBeforeCI' /\ VerdictsAreObserved' /\ ReportsAgree'
  BY <1>2 DEF VerifyInd, PassedWasChecked, NoVerdictBeforeCI, VerdictsAreObserved,
     ReportsAgree
<1>. QED
  BY <1>5, <1>6, <1>7, <1>8, <1>9 DEF VerifyInd

-----------------------------------------------------------------------------
(* Waiting for the workflows.                                               *)

\* A step that changes the barrier only leaves what was recorded as it is.
LEMMA BarrierOnlyKeeps ==
  ASSUME VerifyInd, UNCHANGED <<world, journal, history>>
  PROVE  PassedWasChecked' /\ NoVerdictBeforeCI' /\ VerdictsAreObserved' /\ ReportsAgree'
<1>1. \A i : Reported(i)' = Reported(i)
  BY AnswersRest
<1>2. ReportsAgree'
  BY <1>1 DEF VerifyInd, ReportsAgree
<1>. QED
  BY <1>2 DEF VerifyInd, PassedWasChecked, NoVerdictBeforeCI, VerdictsAreObserved

\* An owner whose workflow succeeds was seen green; one whose workflow is not
\* done was not red.
LEMMA ObserveRunKeeps ==
  ASSUME VerifyInd, ObserveRun
  PROVE  VerifyInd'
<1>. DEFINE i == Min(barrier.todo)
            status == RunStatus(AdapterOf(i))
<1>1. barrier.at = "runs" /\ barrier.todo # {}
  BY DEF ObserveRun
<1>2. i \in barrier.todo /\ i \in RunOwners /\ i \in Indices /\ AdapterOf(i) \in Observable
  BY <1>1, HeadOfTodo, OwnersStandForAdapters DEF VerifyInd, RunsAccountedFor
<1>3. /\ status \in {"pending", "success", "failed", "unknown"}
      /\ status = "success" => AdapterOf(i) \in Green(world)
      /\ status = "success" /\ AdapterOf(i) = "cargo-publish-ci"
           => CargoPublishWorkflow(world.files) # Null
      /\ status = "failed" <=> AdapterOf(i) \in Red(world)
  BY <1>2, StatusReads DEF VerifyInd
<1>. HIDE DEF status, i
<1>4. CASE status = "failed"
  BY <1>2, <1>4, EndEarlyKeeps DEF ObserveRun, status, i
<1>5. CASE status # "failed"
  <2>1. /\ barrier' = [barrier EXCEPT !.todo = @ \ {i},
                         !.ready = IF status = "success" THEN @ \cup {i} ELSE @,
                         !.pending = IF status = "pending" THEN @ \cup {i} ELSE @,
                         !.unknown = IF status = "unknown" THEN @ \cup {i} ELSE @]
        /\ UNCHANGED <<world, journal, history>>
    BY <1>5 DEF ObserveRun, status, i
  <2>2. /\ barrier' \in BarrierStates
        /\ barrier'.at = "runs" /\ barrier'.mode = barrier.mode
        /\ barrier'.answered = barrier.answered
        /\ barrier'.todo = barrier.todo \ {i}
        /\ barrier'.ready =
             (IF status = "success" THEN barrier.ready \cup {i} ELSE barrier.ready)
        /\ barrier'.pending =
             (IF status = "pending" THEN barrier.pending \cup {i} ELSE barrier.pending)
        /\ barrier'.unknown =
             (IF status = "unknown" THEN barrier.unknown \cup {i} ELSE barrier.unknown)
    <3>1. barrier \in BarrierStates
      BY DEF VerifyInd, VerifyTypes
    <3>. QED
      BY <1>1, <1>2, <2>1, <3>1 DEF BarrierStates
  <2>3. VerifyTypes'
    BY <2>1, <2>2 DEF VerifyInd, VerifyTypes
  <2>4. ModeFits' /\ HistoryCovers'
    BY <2>1, <2>2 DEF VerifyInd, ModeFits, HistoryCovers
  <2>5. \A a : RunStatus(a)' = RunStatus(a)
    BY <2>1, AnswersRest
  <2>6. RunsAccountedFor'
    <3>1. AdapterOf(i) \notin history.red
      BY <1>1, <1>3, <1>5 DEF VerifyInd, HistoryCovers
    <3>. QED
      BY <1>2, <1>3, <1>5, <2>1, <2>5, <3>1 DEF VerifyInd, RunsAccountedFor, status
  <2>7. ReadyWereGreen'
    <3>1. status = "success" => SeenGreen(i)
      BY <1>1, <1>3 DEF SeenGreen, VerifyInd, HistoryCovers, status
    <3>2. \A j : SeenGreen(j)' <=> SeenGreen(j)
      BY <2>1, <2>5 DEF SeenGreen
    <3>. QED
      BY <2>2, <3>1, <3>2 DEF VerifyInd, ReadyWereGreen, PastRuns
  <2>8. /\ NothingAnswered' /\ OutcomesAreObserved' /\ AnswersRemembered'
        /\ RecordingCounts' /\ LookIsEarned'
    BY <1>1, <2>2 DEF VerifyInd, NothingAnswered, OutcomesAreObserved,
       AnswersRemembered, RecordingCounts, LookIsEarned, PastRuns
  <2>. QED
    BY <2>1, <2>3, <2>4, <2>6, <2>7, <2>8, BarrierOnlyKeeps DEF VerifyInd
<1>. QED
  BY <1>4, <1>5

\* A round ends in failure, in another round, or with every workflow green.
LEMMA EndRunsRoundKeeps ==
  ASSUME VerifyInd, EndRunsRound
  PROVE  VerifyInd'
<1>1. /\ barrier.at = "runs" /\ barrier.todo = {}
      /\ barrier \in BarrierStates /\ history \in HistoryStates
      /\ RunOwners = barrier.ready \cup barrier.pending \cup barrier.unknown
  BY DEF EndRunsRound, VerifyInd, VerifyTypes, RunsAccountedFor
<1>2. RunOwners \subseteq Indices /\ RunOwners \in SUBSET Nat
  BY OwnersStandForAdapters, IndicesAreNaturals
<1>3. CASE barrier.unknown # {}
  <2>1. Min(barrier.unknown) \in barrier.unknown
    BY <1>1, <1>2, <1>3, LeastMember
  <2>2. history.quiet => RunStatus(AdapterOf(Min(barrier.unknown))) = "unknown"
    BY <1>1, <2>1 DEF VerifyInd, RunsAccountedFor
  <2>. QED
    BY <1>1, <2>1, <2>2, EndEarlyKeeps DEF EndRunsRound
<1>4. CASE barrier.unknown = {} /\ ~ RunsAreDone(barrier.ready) /\ Expired(barrier.window)
  <2>1. Min(barrier.pending) \in barrier.pending
    BY <1>1, <1>2, <1>4, LeastMember DEF RunsAreDone
  <2>2. history.quiet => RunStatus(AdapterOf(Min(barrier.pending))) = "pending"
    BY <1>1, <2>1 DEF VerifyInd, RunsAccountedFor
  <2>. QED
    BY <1>1, <1>4, <2>1, <2>2, EndEarlyKeeps DEF EndRunsRound
<1>5. CASE barrier.unknown = {} /\ ~ RunsAreDone(barrier.ready) /\ ~ Expired(barrier.window)
  <2>1. PICK window \in Slept(barrier.window) :
          barrier' = [barrier EXCEPT !.todo = RunOwners \ barrier.ready, !.pending = {},
                                     !.window = window]
    BY <1>5 DEF EndRunsRound
  <2>2. history' = [history EXCEPT !.red = Red(world)] /\ UNCHANGED <<world, journal>>
    BY <1>5 DEF EndRunsRound
  <2>3. /\ barrier' \in BarrierStates /\ barrier'.at = "runs" /\ barrier'.mode = barrier.mode
        /\ barrier'.ready = barrier.ready /\ barrier'.todo = RunOwners \ barrier.ready
        /\ barrier'.pending = {} /\ barrier'.unknown = {}
        /\ barrier'.answered = barrier.answered
    BY <1>1, <1>2, <1>5, <2>1, SleepIsCounted DEF BarrierStates, VerifyInd
  <2>4. /\ history' \in HistoryStates /\ history'.red = Red(world)
        /\ history'.green = history.green /\ history'.astray = history.astray
        /\ history'.matched = history.matched /\ history'.recorded = history.recorded
        /\ history'.quiet = history.quiet
    BY <1>1, <2>2 DEF HistoryStates, Red
  <2>5. VerifyTypes'
    BY <2>2, <2>3, <2>4 DEF VerifyInd, VerifyTypes
  <2>6. ModeFits' /\ HistoryCovers'
    BY <1>1, <2>2, <2>3 DEF VerifyInd, ModeFits, HistoryCovers
  <2>7. RunsAccountedFor'
    BY <1>1, <2>3 DEF RunsAccountedFor
  <2>8. /\ \A a : RunStatus(a)' = RunStatus(a)
        /\ \A j : Reported(j)' = Reported(j)
    BY <2>2, AnswersRest
  <2>9. ReadyWereGreen'
    BY <2>2, <2>3, <2>8 DEF VerifyInd, ReadyWereGreen, SeenGreen, PastRuns
  <2>10. /\ NothingAnswered' /\ OutcomesAreObserved' /\ AnswersRemembered'
         /\ RecordingCounts' /\ LookIsEarned'
    BY <1>1, <2>3 DEF VerifyInd, NothingAnswered, OutcomesAreObserved,
       AnswersRemembered, RecordingCounts, LookIsEarned, PastRuns
  <2>11. PassedWasChecked' /\ NoVerdictBeforeCI' /\ VerdictsAreObserved' /\ ReportsAgree'
    BY <2>2, <2>8 DEF VerifyInd, PassedWasChecked, NoVerdictBeforeCI,
       VerdictsAreObserved, ReportsAgree
  <2>. QED
    BY <2>5, <2>6, <2>7, <2>9, <2>10, <2>11 DEF VerifyInd
<1>6. CASE barrier.unknown = {} /\ RunsAreDone(barrier.ready)
  <2>1. /\ barrier' = [barrier EXCEPT !.at = "destinations",
                         !.todo = {i \in Indices : ~IsEngine(i) /\ journal.verified[i] # "matches"},
                         !.outcome = [i \in Indices |-> IF IsEngine(i) THEN Null ELSE "unknown"]]
        /\ UNCHANGED <<world, journal, history>>
    BY <1>6 DEF EndRunsRound
  <2>2. barrier' \in BarrierStates
    <3>1. [i \in Indices |-> IF IsEngine(i) THEN Null ELSE "unknown"] \in [Indices -> Outcomes]
      BY DEF Outcomes
    <3>. QED
      BY <1>1, <2>1, <3>1 DEF BarrierStates
  <2>3. /\ barrier'.at = "destinations" /\ barrier'.mode = barrier.mode
        /\ barrier'.ready = barrier.ready /\ barrier'.answered = barrier.answered
        /\ barrier'.todo = {i \in Delegated : journal.verified[i] # "matches"}
        /\ \A i \in Delegated : barrier'.outcome[i] = "unknown"
    BY <2>1 DEF Delegated
  <2>4. VerifyTypes'
    BY <2>1, <2>2 DEF VerifyInd, VerifyTypes
  <2>5. ModeFits' /\ HistoryCovers'
    BY <1>1, <2>1 DEF VerifyInd, ModeFits, HistoryCovers
  <2>6. RunsAccountedFor' /\ NothingAnswered' /\ RecordingCounts' /\ LookIsEarned'
    BY <2>3 DEF RunsAccountedFor, NothingAnswered, RecordingCounts, LookIsEarned
  <2>7. ReadyWereGreen'
    <3>1. \A a : RunStatus(a)' = RunStatus(a)
      BY <2>1, AnswersRest
    <3>. QED
      BY <1>6, <2>1, <3>1 DEF VerifyInd, ReadyWereGreen, SeenGreen, RunsAreDone
  <2>8. OutcomesAreObserved'
    BY <2>3, VerifyAssumption DEF OutcomesAreObserved
  <2>9. AnswersRemembered'
    BY <1>1, <2>1, <2>3 DEF VerifyInd, AnswersRemembered, NothingAnswered
  <2>. QED
    BY <2>1, <2>4, <2>5, <2>6, <2>7, <2>8, <2>9, BarrierOnlyKeeps DEF VerifyInd
<1>. QED
  BY <1>3, <1>4, <1>5, <1>6

-----------------------------------------------------------------------------
(* Waiting for the destinations.                                            *)

\* What a destination is seen to hold, it holds; an index that answered and had
\* the version is not asked again.
LEMMA ObserveDestinationKeeps ==
  ASSUME VerifyInd, ObserveDestination
  PROVE  VerifyInd'
<1>. DEFINE i == Min(barrier.todo)
            outcome == Destination(i, i \in barrier.answered)
<1>1. /\ barrier.at = "destinations" /\ barrier.todo # {}
      /\ UNCHANGED <<world, journal, history>>
      /\ barrier \in BarrierStates /\ history \in HistoryStates
  BY DEF ObserveDestination, VerifyInd, VerifyTypes
<1>2. i \in barrier.todo /\ i \in Indices /\ i \in Delegated /\ journal.verified[i] # "matches"
  BY <1>1, HeadOfTodo DEF VerifyInd, AnswersRemembered
<1>3. barrier' = [barrier EXCEPT !.todo = @ \ {i}, !.outcome[i] = outcome,
                    !.answered = IF world.up THEN @ \cup {i} ELSE @]
  BY DEF ObserveDestination
<1>4. /\ outcome \in {"matches", "missing", "conflicts", "unknown"}
      /\ outcome = "matches" => i \in Matched(world)
      /\ outcome = "missing"
           => i \notin Matched(world) \/ (~ world.up /\ i \in barrier.answered /\ HasIndex(i))
      /\ world.up \/ i \notin barrier.answered => outcome = Destination(i, FALSE)
      /\ HasIndex(i) /\ (world.up \/ i \in barrier.answered) => outcome \in {"matches", "missing"}
  <2>. DEFINE answered == i \in barrier.answered
  <2>1. answered \in BOOLEAN /\ VerifyTypes
    BY DEF VerifyInd
  <2>. HIDE DEF answered
  <2>2. /\ Destination(i, answered) \in {"matches", "missing", "conflicts", "unknown"}
        /\ Destination(i, answered) = "matches" => i \in Matched(world)
        /\ Destination(i, answered) = "missing"
             => i \notin Matched(world) \/ (~ world.up /\ answered /\ HasIndex(i))
        /\ world.up \/ ~ answered => Destination(i, answered) = Destination(i, FALSE)
        /\ HasIndex(i) /\ (world.up \/ answered)
             => Destination(i, answered) \in {"matches", "missing"}
    BY <1>2, <2>1, DestinationReads
  <2>. QED
    BY <2>2 DEF answered
<1>. HIDE DEF outcome, i
<1>5. barrier' \in BarrierStates
  BY <1>1, <1>2, <1>3, <1>4 DEF BarrierStates, Outcomes
<1>6. /\ barrier'.at = "destinations" /\ barrier'.mode = barrier.mode
      /\ barrier'.ready = barrier.ready
      /\ barrier'.todo = barrier.todo \ {i}
      /\ barrier'.answered = (IF world.up THEN barrier.answered \cup {i} ELSE barrier.answered)
      /\ barrier'.outcome[i] = outcome
      /\ \A j \in Indices \ {i} : barrier'.outcome[j] = barrier.outcome[j]
  BY <1>1, <1>2, <1>3 DEF BarrierStates
<1>7. /\ \A a : RunStatus(a)' = RunStatus(a)
      /\ \A j, b : Destination(j, b)' = Destination(j, b)
  BY <1>1, AnswersRest
<1>8. VerifyTypes' /\ ModeFits' /\ HistoryCovers'
  BY <1>1, <1>5, <1>6 DEF VerifyInd, VerifyTypes, ModeFits, HistoryCovers
<1>9. /\ RunsAccountedFor' /\ ReadyWereGreen' /\ NothingAnswered' /\ RecordingCounts'
      /\ LookIsEarned'
  BY <1>1, <1>6, <1>7 DEF VerifyInd, RunsAccountedFor, ReadyWereGreen, SeenGreen,
     PastRuns, NothingAnswered, RecordingCounts, LookIsEarned
<1>10. i \in barrier.answered /\ HasIndex(i) => i \in history.astray
  BY <1>1, <1>2 DEF VerifyInd, AnswersRemembered, OutcomesAreObserved, PastRuns
<1>11. OutcomesAreObserved'
  <2>1. outcome = "missing" => i \in history.astray
    BY <1>1, <1>2, <1>4, <1>10 DEF VerifyInd, HistoryCovers
  <2>2. outcome = "matches" => i \in history.matched
    BY <1>4 DEF VerifyInd, HistoryCovers
  <2>3. outcome # Null
    BY <1>4, VerifyAssumption
  <2>. QED
    BY <1>1, <1>6, <2>1, <2>2, <2>3 DEF VerifyInd, OutcomesAreObserved, PastRuns,
       Delegated
<1>12. AnswersRemembered'
  <2>1. history.quiet => outcome = Destination(i, FALSE)
    BY <1>1, <1>4 DEF VerifyInd, AnswersRemembered
  <2>2. \A j \in barrier'.answered :
          HasIndex(j) => /\ barrier'.outcome[j] \in {"missing", "matches"}
                         /\ j \in barrier'.todo => barrier'.outcome[j] = "missing"
    BY <1>1, <1>4, <1>6 DEF VerifyInd, AnswersRemembered, BarrierStates
  <2>. QED
    BY <1>1, <1>6, <1>7, <2>1, <2>2 DEF VerifyInd, AnswersRemembered, Delegated
<1>. QED
  BY <1>1, <1>8, <1>9, <1>11, <1>12, BarrierOnlyKeeps DEF VerifyInd

\* A round ends in another one over what is not settled, or in recording.
LEMMA EndDestinationsRoundKeeps ==
  ASSUME VerifyInd, EndDestinationsRound
  PROVE  VerifyInd'
<1>1. /\ barrier.at = "destinations" /\ barrier.todo = {} /\ barrier.mode = "completion"
      /\ UNCHANGED <<world, journal, history>>
      /\ barrier \in BarrierStates /\ history \in HistoryStates
  BY DEF EndDestinationsRound, VerifyInd, VerifyTypes, ModeFits, BarrierStates
<1>2. /\ \A a : RunStatus(a)' = RunStatus(a)
      /\ \A j, b : Destination(j, b)' = Destination(j, b)
  BY <1>1, AnswersRest
<1>3. CASE Unsettled = {} \/ Expired(barrier.window)
  <2>1. barrier' = [barrier EXCEPT !.at = "record",
                      !.todo = {i \in Indices : journal.verified[i] # "matches"}]
    BY <1>3 DEF EndDestinationsRound
  <2>2. /\ barrier' \in BarrierStates /\ barrier'.at = "record" /\ barrier'.mode = "completion"
        /\ barrier'.todo = {i \in Indices : journal.verified[i] # "matches"}
        /\ barrier'.ready = barrier.ready /\ barrier'.outcome = barrier.outcome
    BY <1>1, <2>1 DEF BarrierStates
  <2>3. VerifyTypes' /\ ModeFits' /\ HistoryCovers'
    BY <1>1, <2>2 DEF VerifyInd, VerifyTypes, ModeFits, HistoryCovers
  <2>4. /\ RunsAccountedFor' /\ ReadyWereGreen' /\ NothingAnswered' /\ OutcomesAreObserved'
        /\ AnswersRemembered' /\ LookIsEarned'
    BY <1>1, <1>2, <2>2 DEF VerifyInd, RunsAccountedFor, ReadyWereGreen, SeenGreen,
       PastRuns, NothingAnswered, OutcomesAreObserved, AnswersRemembered, LookIsEarned
  <2>5. RecordingCounts'
    BY <1>1, <1>2, <2>2 DEF VerifyInd, AnswersRemembered, RecordingCounts
  <2>. QED
    BY <1>1, <2>3, <2>4, <2>5, BarrierOnlyKeeps DEF VerifyInd
<1>4. CASE ~ (Unsettled = {} \/ Expired(barrier.window))
  <2>1. PICK window \in Slept(barrier.window) :
          barrier' = [barrier EXCEPT !.todo = Unsettled, !.window = window]
    BY <1>4 DEF EndDestinationsRound
  <2>2. Unsettled \subseteq {i \in Delegated : journal.verified[i] # "matches"
                                              /\ barrier.outcome[i] # "matches"}
    BY DEF Unsettled, Delegated, Settled
  <2>3. /\ barrier' \in BarrierStates /\ barrier'.at = "destinations"
        /\ barrier'.mode = barrier.mode /\ barrier'.todo = Unsettled
        /\ barrier'.ready = barrier.ready /\ barrier'.outcome = barrier.outcome
        /\ barrier'.answered = barrier.answered
    BY <1>1, <1>4, <2>1, <2>2, SleepIsCounted DEF BarrierStates, VerifyInd, Delegated
  <2>4. VerifyTypes' /\ ModeFits' /\ HistoryCovers'
    BY <1>1, <2>3 DEF VerifyInd, VerifyTypes, ModeFits, HistoryCovers
  <2>5. /\ RunsAccountedFor' /\ ReadyWereGreen' /\ NothingAnswered' /\ OutcomesAreObserved'
        /\ RecordingCounts' /\ LookIsEarned'
    BY <1>1, <1>2, <2>3 DEF VerifyInd, RunsAccountedFor, ReadyWereGreen, SeenGreen,
       PastRuns, NothingAnswered, OutcomesAreObserved, RecordingCounts, LookIsEarned
  <2>6. AnswersRemembered'
    BY <1>1, <1>2, <2>2, <2>3 DEF VerifyInd, AnswersRemembered
  <2>. QED
    BY <1>1, <2>4, <2>5, <2>6, BarrierOnlyKeeps DEF VerifyInd
<1>. QED
  BY <1>3, <1>4

-----------------------------------------------------------------------------
(* Recording.                                                               *)

\* One outcome goes on record, and it is what the attempt was entitled to say.
LEMMA RecordVerifiedKeeps ==
  ASSUME VerifyInd, barrier.at \in {"record", "look"},
         NEW i \in barrier.todo,
         NEW outcome \in {"matches", "missing", "conflicts", "unknown"},
         NEW failure \in {Null, "pending", "failed", "unknown"},
         RecordVerified(i, outcome, failure),
         outcome # "matches" => failure # Null,
         outcome = "matches" => i \in history.matched,
         outcome = "missing" => i \in history.astray,
         outcome \in {"missing", "conflicts"} /\ AdapterOf(i) \in Observable
           => AdapterOf(i) \in history.green,
         history.quiet => Reported(i) = outcome
  PROVE  VerifyInd'
<1>1. /\ barrier \in BarrierStates /\ history \in HistoryStates /\ journal \in JournalStates
      /\ journal' = [journal EXCEPT !.verified[i] = outcome]
      /\ barrier' = [barrier EXCEPT !.at = "record", !.todo = @ \ {i},
                       !.failure = IF @ = Null THEN failure ELSE @]
      /\ history' = [history EXCEPT !.recorded = @ \cup {i}]
      /\ UNCHANGED world
  BY DEF VerifyInd, VerifyTypes, RecordVerified
<1>2. i \in Indices
  BY <1>1 DEF BarrierStates
<1>3. /\ barrier' \in BarrierStates /\ barrier'.at = "record" /\ barrier'.mode = barrier.mode
      /\ barrier'.todo = barrier.todo \ {i} /\ barrier'.ready = barrier.ready
      /\ barrier'.outcome = barrier.outcome
      /\ barrier'.failure = (IF barrier.failure = Null THEN failure ELSE barrier.failure)
  BY <1>1 DEF BarrierStates
<1>4. /\ history' \in HistoryStates /\ history'.recorded = history.recorded \cup {i}
      /\ history'.green = history.green /\ history'.astray = history.astray
      /\ history'.matched = history.matched /\ history'.quiet = history.quiet
  BY <1>1, <1>2 DEF HistoryStates
<1>5. /\ journal' \in JournalStates /\ journal'.result = journal.result
      /\ journal'.verified[i] = outcome
      /\ \A j \in Indices \ {i} : journal'.verified[j] = journal.verified[j]
  BY <1>1, <1>2 DEF JournalStates, Outcomes
<1>6. /\ \A a : RunStatus(a)' = RunStatus(a)
      /\ \A j, b : Destination(j, b)' = Destination(j, b)
      /\ \A j : Reported(j)' = Reported(j)
  BY <1>1, AnswersRest
<1>7. VerifyTypes'
  BY <1>1, <1>3, <1>4, <1>5 DEF VerifyInd, VerifyTypes
<1>8. ModeFits' /\ HistoryCovers'
  BY <1>1 DEF VerifyInd, ModeFits, HistoryCovers
<1>9. /\ RunsAccountedFor' /\ NothingAnswered' /\ AnswersRemembered' /\ LookIsEarned'
  BY <1>3 DEF RunsAccountedFor, NothingAnswered, AnswersRemembered, LookIsEarned
<1>10. PastRuns' => PastRuns
  BY <1>3 DEF VerifyInd, ModeFits, PastRuns
<1>11. ReadyWereGreen' /\ OutcomesAreObserved'
  BY <1>1, <1>6, <1>10 DEF VerifyInd, ReadyWereGreen, SeenGreen, OutcomesAreObserved
<1>12. RecordingCounts'
  <2>1. SUFFICES ASSUME barrier.at = "record", barrier.mode = "completion"
                 PROVE  RecordingCounts'
    BY <1>3 DEF RecordingCounts, VerifyInd, ModeFits
  <2>2. history.quiet =>
          \A j \in barrier'.todo \cap Delegated : barrier'.outcome[j] = Destination(j, FALSE)'
    BY <1>3, <1>6, <2>1 DEF VerifyInd, RecordingCounts
  <2>3. barrier'.failure # Null
        \/ \A j \in Indices \ barrier'.todo : journal'.verified[j] = "matches"
    BY <1>3, <1>5, <2>1 DEF VerifyInd, RecordingCounts
  <2>. QED
    BY <1>4, <2>2, <2>3 DEF RecordingCounts
<1>13. PassedWasChecked'
  BY <1>5 DEF VerifyInd, ModeFits, PassedWasChecked
<1>14. NoVerdictBeforeCI'
  BY <1>1, <1>5 DEF VerifyInd, NoVerdictBeforeCI
<1>15. VerdictsAreObserved'
  BY <1>4, <1>5 DEF VerifyInd, VerdictsAreObserved
<1>16. ReportsAgree'
  BY <1>1, <1>5, <1>6 DEF VerifyInd, ReportsAgree
<1>. QED
  BY <1>7, <1>8, <1>9, <1>11, <1>12, <1>13, <1>14, <1>15, <1>16 DEF VerifyInd

\* The outcome of the engine's own target is asked for now, that of a delegated
\* one was observed before the phase got here.
LEMMA RecordOutcomeKeeps ==
  ASSUME VerifyInd, RecordOutcome
  PROVE  VerifyInd'
<1>. DEFINE i == Min(barrier.todo)
<1>1. /\ barrier.at = "record" /\ barrier.todo # {}
      /\ IsEngine(i) \/ barrier.mode = "completion"
  BY DEF RecordOutcome
<1>2. i \in barrier.todo /\ i \in Indices
  BY <1>1, HeadOfTodo DEF VerifyInd
<1>. HIDE DEF i
<1>3. CASE IsEngine(i)
  <2>. DEFINE outcome == RegistryOutcome(i, FALSE)
  <2>1. RecordVerified(i, outcome, FailureOf(outcome))
    BY <1>3 DEF RecordOutcome, i
  <2>2. /\ outcome \in {"matches", "missing", "unknown"}
        /\ outcome = "matches" => i \in Matched(world)
        /\ outcome = "missing" => i \notin Matched(world)
    BY <1>2 DEF RegistryOutcome, Matched
  <2>3. Reported(i) = outcome /\ AdapterOf(i) \notin Observable
    BY <1>3 DEF Reported, IsEngine, Observable
  <2>. HIDE DEF outcome
  <2>4. outcome = "matches" => i \in history.matched
    BY <2>2 DEF VerifyInd, HistoryCovers
  <2>5. outcome = "missing" => i \in history.astray
    BY <1>1, <1>2, <2>2 DEF VerifyInd, HistoryCovers
  <2>6. /\ FailureOf(outcome) \in {Null, "pending", "failed", "unknown"}
        /\ outcome # "matches" => FailureOf(outcome) # Null
    BY VerifyAssumption DEF FailureOf
  <2>. QED
    BY <1>1, <1>2, <2>1, <2>2, <2>3, <2>4, <2>5, <2>6, RecordVerifiedKeeps
<1>4. CASE ~ IsEngine(i)
  <2>. DEFINE outcome == barrier.outcome[i]
  <2>1. RecordVerified(i, outcome, FailureOf(outcome)) /\ barrier.mode = "completion"
    BY <1>4 DEF RecordOutcome, i
  <2>2. PastRuns /\ i \in Delegated
    BY <1>1, <1>2, <1>4 DEF PastRuns, Delegated
  <2>3. outcome \in {"matches", "missing", "conflicts", "unknown"}
    BY <1>2, <2>2 DEF VerifyInd, VerifyTypes, BarrierStates, Outcomes,
       OutcomesAreObserved
  <2>4. /\ outcome = "matches" => i \in history.matched
        /\ outcome = "missing" => i \in history.astray
    BY <2>2 DEF VerifyInd, OutcomesAreObserved
  <2>5. AdapterOf(i) \in Observable
          => /\ AdapterOf(i) \in history.green
             /\ history.quiet => RunStatus(AdapterOf(i)) = "success"
    BY <1>2, <2>2, OwnersStandForAdapters DEF VerifyInd, ReadyWereGreen, SeenGreen
  <2>6. history.quiet => Reported(i) = outcome
    BY <1>1, <1>2, <1>4, <2>2, <2>5 DEF VerifyInd, RecordingCounts, Reported
  <2>7. /\ FailureOf(outcome) \in {Null, "pending", "failed", "unknown"}
        /\ outcome # "matches" => FailureOf(outcome) # Null
    BY VerifyAssumption DEF FailureOf
  <2>. HIDE DEF outcome
  <2>. QED
    BY <1>1, <1>2, <2>1, <2>3, <2>4, <2>5, <2>6, <2>7, RecordVerifiedKeeps
<1>. QED
  BY <1>3, <1>4

\* A workflow that is not green earns its target no verdict; one that is allows
\* a look.
LEMMA PeekAtRunKeeps ==
  ASSUME VerifyInd, PeekAtRun
  PROVE  VerifyInd'
<1>. DEFINE i == Min(barrier.todo)
            status == IF AdapterOf(i) \in Observable THEN RunStatus(AdapterOf(i)) ELSE "success"
<1>1. /\ barrier.at = "record" /\ barrier.todo # {} /\ barrier.mode = "observation"
      /\ ~ IsEngine(i)
      /\ barrier \in BarrierStates
  BY DEF PeekAtRun, VerifyInd, VerifyTypes
<1>2. i \in barrier.todo /\ i \in Indices
  BY <1>1, HeadOfTodo DEF VerifyInd
<1>3. /\ status \in {"pending", "success", "failed", "unknown"}
      /\ status = "success" /\ AdapterOf(i) \in Observable => AdapterOf(i) \in history.green
  BY <1>1, StatusReads DEF VerifyInd, HistoryCovers
<1>4. CASE status # "success"
  <2>1. RecordVerified(i, "unknown", status)
    BY <1>4 DEF PeekAtRun
  <2>2. Reported(i) = "unknown"
    BY <1>1, <1>4 DEF Reported
  <2>. HIDE DEF i, status
  <2>3. status # Null /\ status \in {Null, "pending", "failed", "unknown"}
    BY <1>3, <1>4, VerifyAssumption
  <2>. QED
    BY <1>1, <1>2, <2>1, <2>2, <2>3, RecordVerifiedKeeps
<1>5. CASE status = "success"
  <2>1. barrier' = [barrier EXCEPT !.at = "look"] /\ UNCHANGED <<world, journal, history>>
    BY <1>5 DEF PeekAtRun
  <2>2. /\ barrier' \in BarrierStates /\ barrier'.at = "look" /\ barrier'.mode = "observation"
        /\ barrier'.todo = barrier.todo /\ barrier'.ready = barrier.ready
    BY <1>1, <2>1 DEF BarrierStates
  <2>3. \A a : RunStatus(a)' = RunStatus(a)
    BY <2>1, AnswersRest
  <2>4. VerifyTypes' /\ ModeFits' /\ HistoryCovers'
    BY <2>1, <2>2 DEF VerifyInd, VerifyTypes, ModeFits, HistoryCovers
  <2>5. /\ RunsAccountedFor' /\ ReadyWereGreen' /\ NothingAnswered' /\ OutcomesAreObserved'
        /\ AnswersRemembered' /\ RecordingCounts'
    BY <2>1, <2>3 DEF VerifyInd, RunsAccountedFor, ReadyWereGreen, SeenGreen, PastRuns,
       NothingAnswered, OutcomesAreObserved, AnswersRemembered, RecordingCounts
  <2>6. LookIsEarned'
    BY <1>1, <1>3, <1>5, <2>1, <2>3 DEF LookIsEarned
  <2>. QED
    BY <2>1, <2>4, <2>5, <2>6, BarrierOnlyKeeps DEF VerifyInd
<1>. QED
  BY <1>4, <1>5

\* The look records what it saw.
LEMMA PeekAtDestinationKeeps ==
  ASSUME VerifyInd, PeekAtDestination
  PROVE  VerifyInd'
<1>. DEFINE i == Min(barrier.todo)
            outcome == Destination(i, FALSE)
<1>1. barrier.at = "look" /\ RecordVerified(i, outcome, FailureOf(outcome))
  BY DEF PeekAtDestination
<1>2. /\ barrier.todo # {} /\ ~ IsEngine(i)
      /\ AdapterOf(i) \in Observable
           => /\ AdapterOf(i) \in history.green
              /\ history.quiet => RunStatus(AdapterOf(i)) = "success"
  BY <1>1 DEF VerifyInd, LookIsEarned
<1>3. i \in barrier.todo /\ i \in Indices
  BY <1>2, HeadOfTodo DEF VerifyInd
<1>4. /\ outcome \in {"matches", "missing", "conflicts", "unknown"}
      /\ outcome = "matches" => i \in Matched(world)
      /\ outcome = "missing" => i \notin Matched(world)
  BY <1>3, DestinationReads DEF VerifyInd
<1>5. /\ outcome = "matches" => i \in history.matched
      /\ outcome = "missing" => i \in history.astray
  BY <1>1, <1>3, <1>4 DEF VerifyInd, HistoryCovers
<1>6. history.quiet => Reported(i) = outcome
  BY <1>2 DEF Reported
<1>7. /\ FailureOf(outcome) \in {Null, "pending", "failed", "unknown"}
      /\ outcome # "matches" => FailureOf(outcome) # Null
  BY VerifyAssumption DEF FailureOf
<1>. HIDE DEF i, outcome
<1>. QED
  BY <1>1, <1>2, <1>3, <1>4, <1>5, <1>6, <1>7, RecordVerifiedKeeps

\* The phase passes only with a match on record for every target.
LEMMA EndVerifyKeeps ==
  ASSUME VerifyInd, EndVerify
  PROVE  VerifyInd'
<1>. DEFINE result == IF barrier.mode = "observation" THEN "failed"
                      ELSE IF barrier.failure = Null THEN "ok" ELSE barrier.failure
<1>1. /\ barrier.at = "record" /\ barrier.todo = {} /\ barrier' = AtRest
      /\ UNCHANGED <<world, history>> /\ journal' = [journal EXCEPT !.result = result]
  BY DEF EndVerify
<1>2. result \in {"ok", "pending", "failed", "unknown"}
  BY DEF VerifyInd, VerifyTypes, BarrierStates
<1>3. /\ journal' \in JournalStates /\ journal'.result = result
      /\ journal'.verified = journal.verified
  BY <1>1, <1>2 DEF VerifyInd, VerifyTypes, JournalStates
<1>4. VerifyTypes'
  BY <1>1, <1>3, RestIsEmpty DEF VerifyInd, VerifyTypes
<1>5. PassedWasChecked'
  <2>1. SUFFICES ASSUME result = "ok"
                 PROVE  /\ \A i \in Indices : journal.verified[i] = "matches"
                        /\ OwnedBy("cargo-publish-ci") # {}
                             => CargoPublishWorkflow(world.files) # Null
    BY <1>1 DEF PassedWasChecked
  <2>2. barrier.mode = "completion" /\ barrier.failure = Null
    BY <2>1 DEF VerifyInd, VerifyTypes, BarrierStates
  <2>3. \A i \in Indices : journal.verified[i] = "matches"
    BY <1>1, <2>2 DEF VerifyInd, RecordingCounts
  <2>4. ASSUME NEW i \in OwnedBy("cargo-publish-ci")
        PROVE  CargoPublishWorkflow(world.files) # Null
    <3>1. i \in Indices /\ AdapterOf(i) = "cargo-publish-ci" /\ AdapterOf(i) \in Observable
      BY DEF OwnedBy, Observable
    <3>2. PICK o \in RunOwners : AdapterOf(o) = AdapterOf(i)
      BY <3>1, OwnersStandForAdapters
    <3>. QED
      BY <1>1, <2>2, <3>1, <3>2 DEF VerifyInd, ReadyWereGreen, SeenGreen, PastRuns
  <2>. QED
    BY <2>3, <2>4
<1>6. \A j : Reported(j)' = Reported(j)
  BY <1>1, AnswersRest
<1>7. NoVerdictBeforeCI' /\ VerdictsAreObserved' /\ ReportsAgree'
  BY <1>1, <1>6 DEF VerifyInd, NoVerdictBeforeCI, VerdictsAreObserved, ReportsAgree
<1>. QED
  BY <1>1, <1>4, <1>5, <1>7, RestKeeps DEF VerifyInd, HistoryCovers

-----------------------------------------------------------------------------
(* What happens outside.                                                    *)

\* A change of the world is noted; no verdict that was earned is lost by it.
LEMMA HappensKeeps ==
  ASSUME VerifyInd, NEW w \in WorldStates, Happens(w), w.files = world.files
  PROVE  VerifyInd'
<1>1. /\ world' = [w EXCEPT !.changes = @ + 1] /\ journal.result # "ok"
      /\ UNCHANGED <<barrier, journal>> /\ history \in HistoryStates
  BY DEF Happens, VerifyInd, VerifyTypes
<1>2. /\ world' \in WorldStates /\ world'.files = world.files
      /\ Matched(world') = Matched(w) /\ Green(world') = Green(w) /\ Red(world') = Red(w)
      /\ Matched(w) \subseteq Indices /\ Green(w) \subseteq Observable
      /\ Red(w) \subseteq Observable
  <2>1. world' \in WorldStates /\ world'.files = w.files /\ world'.runs = w.runs
        /\ world'.shown = w.shown /\ world'.up = w.up
    BY <1>1 DEF WorldStates
  <2>. QED
    BY <2>1 DEF Matched, Green, Red, StatusIn
<1>3. CASE barrier.at = "rest"
  <2>1. history' = [green |-> {}, astray |-> {}, matched |-> history.matched \cup Matched(w),
                    red |-> {}, recorded |-> {}, quiet |-> FALSE]
    BY <1>3 DEF Happens, NoAttempt
  <2>2. VerifyTypes'
    BY <1>1, <1>2, <2>1 DEF VerifyInd, VerifyTypes, HistoryStates
  <2>3. ModeFits' /\ HistoryCovers'
    BY <1>1, <1>2, <1>3, <2>1 DEF VerifyInd, ModeFits, HistoryCovers
  <2>4. /\ RunsAccountedFor' /\ ReadyWereGreen' /\ NothingAnswered' /\ OutcomesAreObserved'
        /\ AnswersRemembered' /\ RecordingCounts' /\ LookIsEarned'
    BY <1>1, <1>3 DEF VerifyInd, ModeFits, RunsAccountedFor, ReadyWereGreen, PastRuns,
       NothingAnswered, OutcomesAreObserved, AnswersRemembered, RecordingCounts,
       LookIsEarned
  <2>5. PassedWasChecked' /\ NoVerdictBeforeCI' /\ VerdictsAreObserved' /\ ReportsAgree'
    BY <1>1, <2>1 DEF VerifyInd, PassedWasChecked, NoVerdictBeforeCI,
       VerdictsAreObserved, ReportsAgree
  <2>. QED
    BY <2>2, <2>3, <2>4, <2>5 DEF VerifyInd
<1>4. CASE barrier.at # "rest"
  <2>1. history' = [history EXCEPT !.green = @ \cup Green(w),
                      !.astray = @ \cup (Indices \ Matched(w)),
                      !.matched = @ \cup Matched(w), !.red = @ \cap Red(w), !.quiet = FALSE]
    BY <1>4 DEF Happens
  <2>2. /\ history' \in HistoryStates /\ ~ history'.quiet
        /\ history'.green = history.green \cup Green(w)
        /\ history'.astray = history.astray \cup (Indices \ Matched(w))
        /\ history'.matched = history.matched \cup Matched(w)
        /\ history'.red = history.red \cap Red(w) /\ history'.recorded = history.recorded
    BY <1>1, <1>2, <2>1 DEF HistoryStates
  <2>3. VerifyTypes'
    BY <1>1, <1>2, <2>2 DEF VerifyInd, VerifyTypes
  <2>4. ModeFits' /\ HistoryCovers'
    BY <1>1, <1>2, <2>2 DEF VerifyInd, ModeFits, HistoryCovers
  <2>5. RunsAccountedFor' /\ ReadyWereGreen'
    BY <1>1, <2>2 DEF VerifyInd, RunsAccountedFor, ReadyWereGreen, SeenGreen, PastRuns
  <2>6. /\ NothingAnswered' /\ OutcomesAreObserved' /\ AnswersRemembered' /\ RecordingCounts'
    BY <1>1, <2>2 DEF VerifyInd, NothingAnswered, OutcomesAreObserved,
       AnswersRemembered, RecordingCounts, PastRuns
  <2>7. LookIsEarned'
    BY <1>1, <2>2 DEF VerifyInd, LookIsEarned
  <2>8. PassedWasChecked' /\ NoVerdictBeforeCI' /\ VerdictsAreObserved' /\ ReportsAgree'
    BY <1>1, <2>2 DEF VerifyInd, PassedWasChecked, NoVerdictBeforeCI,
       VerdictsAreObserved, ReportsAgree
  <2>. QED
    BY <2>3, <2>4, <2>5, <2>6, <2>7, <2>8 DEF VerifyInd
<1>. QED
  BY <1>3, <1>4

\* A workflow, a destination or the network changes, and the tag stays.
LEMMA OutsideKeeps ==
  ASSUME VerifyInd, RunMoves \/ DestinationMoves \/ NetworkChanges
  PROVE  VerifyInd'
<1>. world \in WorldStates
  BY DEF VerifyInd, VerifyTypes
<1>1. CASE RunMoves
  <2>. DEFINE moves == [none |-> {"busy"}, busy |-> {"green", "red", "strange"},
                        green |-> {"busy", "two"}, red |-> {"busy", "two"},
                        strange |-> {"green"}, two |-> {}]
  <2>1. PICK a \in Observable : \E run \in moves[world.runs[a]] :
          Happens([world EXCEPT !.runs[a] = run])
    BY <1>1 DEF RunMoves
  <2>2. world.runs[a] \in CiRuns
    BY DEF WorldStates
  <2>3. moves[world.runs[a]] \subseteq CiRuns
    BY <2>2 DEF CiRuns
  <2>4. PICK run \in CiRuns : Happens([world EXCEPT !.runs[a] = run])
    BY <2>1, <2>3
  <2>5. /\ [world EXCEPT !.runs[a] = run] \in WorldStates
        /\ [world EXCEPT !.runs[a] = run].files = world.files
    BY DEF WorldStates
  <2>. QED
    BY <2>4, <2>5, HappensKeeps
<1>2. CASE DestinationMoves
  <2>1. PICK i \in Indices, shown \in {"match", "absent", "conflict"} :
          Happens([world EXCEPT !.shown[i] = shown])
    BY <1>2 DEF DestinationMoves
  <2>2. /\ [world EXCEPT !.shown[i] = shown] \in WorldStates
        /\ [world EXCEPT !.shown[i] = shown].files = world.files
    BY DEF WorldStates
  <2>. QED
    BY <2>1, <2>2, HappensKeeps
<1>3. CASE NetworkChanges
  <2>1. Happens([world EXCEPT !.up = ~ @])
    BY <1>3 DEF NetworkChanges
  <2>2. /\ [world EXCEPT !.up = ~ @] \in WorldStates
        /\ [world EXCEPT !.up = ~ @].files = world.files
    BY DEF WorldStates
  <2>. QED
    BY <2>1, <2>2, HappensKeeps
<1>. QED
  BY <1>1, <1>2, <1>3

-----------------------------------------------------------------------------
\* Every step of the barrier and of the world around it.
LEMMA VerifyStep == VerifyInd /\ [VerifyNext]_verifyVars => VerifyInd'
<1>. SUFFICES ASSUME VerifyInd, [VerifyNext]_verifyVars PROVE VerifyInd'
  OBVIOUS
<1>1. CASE VerifyNext
  BY <1>1, EnterVerifyKeeps, VerifyCrashKeeps, ObserveRunKeeps, EndRunsRoundKeeps,
     ObserveDestinationKeeps, EndDestinationsRoundKeeps, RecordOutcomeKeeps,
     PeekAtRunKeeps, PeekAtDestinationKeeps, EndVerifyKeeps, OutsideKeeps DEF VerifyNext
<1>2. CASE UNCHANGED verifyVars
  <2>1. UNCHANGED <<world, barrier, journal, history>>
    BY <1>2 DEF verifyVars
  <2>2. /\ \A a : RunStatus(a)' = RunStatus(a)
        /\ \A j, b : Destination(j, b)' = Destination(j, b)
    BY <2>1, AnswersRest
  <2>3. VerifyTypes' /\ ModeFits' /\ HistoryCovers'
    BY <2>1 DEF VerifyInd, VerifyTypes, ModeFits, HistoryCovers
  <2>4. /\ RunsAccountedFor' /\ ReadyWereGreen' /\ NothingAnswered' /\ OutcomesAreObserved'
        /\ AnswersRemembered' /\ RecordingCounts' /\ LookIsEarned'
    BY <2>1, <2>2 DEF VerifyInd, RunsAccountedFor, ReadyWereGreen, SeenGreen, PastRuns,
       NothingAnswered, OutcomesAreObserved, AnswersRemembered, RecordingCounts,
       LookIsEarned
  <2>. QED
    BY <2>1, <2>3, <2>4, BarrierOnlyKeeps DEF VerifyInd
<1>. QED
  BY <1>1, <1>2

\* The invariant holds in every state of the phase and between its attempts.
THEOREM VerifyInvariance == VerifySpec => []VerifyInd
<1>1. VerifySpec => VerifyInit /\ [][VerifyNext]_verifyVars
  BY DEF VerifySpec
<1>. QED
  BY <1>1, VerifyInitially, VerifyStep, PTL

\* VerifyInv: what verify_phase writes down of a target is what it was entitled
\* to say, for any targets, workflows and window.
THEOREM VerifyInvHolds == VerifySpec => []VerifyInv
<1>1. ASSUME VerifyInd PROVE VerifyInv
  <2>1. {journal.verified[i] : i \in Indices} \subseteq Outcomes
    BY <1>1 DEF VerifyInd, VerifyTypes, JournalStates
  <2>2. VerifyTypeOK
    BY <1>1 DEF VerifyInd, VerifyTypes, ModeFits, VerifyTypeOK, BarrierStates,
       JournalStates
  <2>. QED
    BY <1>1, <2>2 DEF VerifyInv, VerifyInd
<1>. QED
  BY <1>1, VerifyInvariance, PTL

\* PassedMeansDelivered: a verified run had every target at its destination, and
\* a single workflow in the tag that could have published the crates.
THEOREM PassedMeansDeliveredHolds == VerifySpec => []PassedMeansDelivered
<1>1. ASSUME VerifyInd PROVE PassedMeansDelivered
  <2>1. SUFFICES ASSUME journal.result = "ok" PROVE PassedMeansDelivered
    BY DEF PassedMeansDelivered
  <2>2. Indices \subseteq history.matched
    BY <1>1, <2>1 DEF VerifyInd, PassedWasChecked, VerdictsAreObserved
  <2>3. world.files \in TaggedTrees
    BY <1>1 DEF VerifyInd, VerifyTypes, WorldStates
  <2>. QED
    BY <1>1, <2>2, <2>3, OwnerIsUnique DEF PassedMeansDelivered, VerifyInd,
       PassedWasChecked
<1>. QED
  BY <1>1, VerifyInvariance, PTL

\* ReportsAgree: while nothing changes `release verify' and the barrier answer
\* alike, though they are two implementations.
THEOREM ReportsAgreeHolds == VerifySpec => []ReportsAgree
<1>1. VerifyInd => ReportsAgree
  BY DEF VerifyInd
<1>. QED
  BY <1>1, VerifyInvariance, PTL

\* FailureIsNotHidden: the barrier gives up waiting only when no workflow it
\* still waits for was red all through its last round.
THEOREM FailureIsNotHiddenHolds == VerifySpec => FailureIsNotHidden
<1>. DEFINE NotHidden ==
       (barrier.at = "runs" /\ history'.recorded # {} /\ journal'.result = "pending") =>
          \A i \in RunOwners \ barrier.ready : AdapterOf(i) \notin history.red
<1>1. ASSUME VerifyInd, [VerifyNext]_verifyVars PROVE NotHidden
  <2>1. SUFFICES ASSUME barrier.at = "runs", history'.recorded # {}, journal'.result = "pending"
                 PROVE  barrier.todo = {}
    BY <1>1 DEF VerifyInd, RunsAccountedFor
  <2>2. history.recorded = {}
    BY <1>1, <2>1 DEF VerifyInd, ModeFits
  <2>3. ~ \E w : Happens(w)
    BY <1>1, <2>1, <2>2 DEF Happens, VerifyInd, VerifyTypes, HistoryStates
  <2>4. ~ ObserveRun
    BY <1>1, <2>1, <2>2 DEF ObserveRun, EndEarly, VerifyInd, VerifyTypes, JournalStates
  <2>5. ~ (ObserveDestination \/ EndDestinationsRound \/ RecordOutcome \/ PeekAtRun)
    BY <2>1 DEF ObserveDestination, EndDestinationsRound, RecordOutcome, PeekAtRun
  <2>6. ~ (EnterVerify \/ PeekAtDestination \/ EndVerify)
    BY <2>1 DEF EnterVerify, PeekAtDestination, EndVerify
  <2>7. ~ VerifyCrash
    BY <2>1 DEF VerifyCrash, NoAttempt
  <2>8. ~ (RunMoves \/ DestinationMoves \/ NetworkChanges)
    BY <2>3 DEF RunMoves, DestinationMoves, NetworkChanges
  <2>9. ~ UNCHANGED verifyVars
    BY <2>1, <2>2 DEF verifyVars
  <2>10. EndRunsRound
    BY <1>1, <2>4, <2>5, <2>6, <2>7, <2>8, <2>9 DEF VerifyNext
  <2>. QED
    BY <2>10 DEF EndRunsRound
<1>2. VerifySpec => [][VerifyNext]_verifyVars
  BY DEF VerifySpec
<1>3. VerifyInd /\ [VerifyNext]_verifyVars => [NotHidden]_verifyVars
  BY <1>1
<1>. QED
  BY <1>2, <1>3, VerifyInvariance, PTL DEF FailureIsNotHidden
=============================================================================
