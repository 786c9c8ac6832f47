--------------------------- MODULE DelegatedVerify ---------------------------
(***************************************************************************)
(* The verify barrier's view of what CI delivers (shipshape-core           *)
(* release/coordinator.rs verify_phase and its polling window,             *)
(* release/delegated.rs, release/reconcile.rs).  First every workflow that *)
(* owns a target is awaited, then every destination, both within one       *)
(* window of time and of attempts; then one outcome per target is recorded.*)
(* Meanwhile CI runs, is run again, publishes and withdraws, networks fail *)
(* and the clock does what it likes.  A barrier that did not pass is       *)
(* entered again by a resume; `release verify' reports at any time.        *)
(***************************************************************************)
EXTENDS Naturals, Sequences, FiniteSets, FiniteSetsExt

CONSTANTS
  Null,
  Targets,     \* the plan's targets in order: [adapter, registry]
  TaggedTrees, \* the workflows the tag's commit may hold
  Window,      \* the seconds of a window, in units of the poll interval
  MaxSleeps,   \* its bound on polls, whatever the clock says
  MaxChanges   \* bound on what happens outside

ASSUME VerifyAssumption ==
  /\ Targets \in Seq([adapter : STRING, registry : STRING])
  /\ TaggedTrees \subseteq Seq([parses : BOOLEAN, onTag : BOOLEAN, direct : BOOLEAN,
                                helpers : SUBSET {"verified", "rejected"}])
  /\ Null \notin {"matches", "missing", "conflicts", "unknown", "pending", "failed", "ok"}
  /\ Window \in Nat /\ MaxSleeps \in Nat /\ MaxChanges \in Nat

VARIABLES
  world,   \* workflow runs, destinations, the network
  barrier, \* the verify phase of the running coordinator
  journal, \* the outcomes on record and how the last attempt ended
  history  \* what was the case since the attempt began

verifyVars == <<world, barrier, journal, history>>

Indices == DOMAIN Targets
AdapterOf(i) == Targets[i].adapter
IsEngine(i) == AdapterOf(i) = "engine"

\* observe_github_run: whose runs are on GitHub; another adapter's are not awaited.
Observable == {"cargo-dist", "cargo-publish-ci"}
OwnedBy(adapter) == {i \in Indices : AdapterOf(i) = adapter}

\* wait_for_delegated_runs: one target stands for the workflow of its adapter.
RunOwners == {Min(OwnedBy(a)) : a \in {a \in Observable : OwnedBy(a) # {}}}

-----------------------------------------------------------------------------
(* Which workflow publishes                                                 *)

\* A tagged workflow is [parses, onTag, direct, helpers]: does a step of it run
\* `cargo publish', and what of the scripts called `./... publish': "verified",
\* those with a recognizable command, "rejected", the rest and all paths that
\* are dynamic or leave the repository.
Rejected(file) == file.parses /\ file.onTag /\ "rejected" \in file.helpers

\* workflow_publish_evidence.
Publishes(file) ==
  file.parses /\ file.onTag /\ ~Rejected(file) /\ (file.direct \/ file.helpers # {})

\* Seeded fault: the first candidate is taken for the owner.
SomeWorkflow(files) ==
  LET candidates == {i \in DOMAIN files : Publishes(files[i])}
  IN IF candidates = {} THEN Null ELSE Min(candidates)

\* cargo_publish_workflow: the only one with evidence, and none that was rejected.
CargoPublishWorkflow(files) ==
  LET candidates == {i \in DOMAIN files : Publishes(files[i])}
  IN IF Cardinality(candidates) = 1 /\ \A i \in DOMAIN files : ~Rejected(files[i])
     THEN Min(candidates) ELSE Null

\* observe_workflow, classify_run: exactly one run of the workflow may match the
\* tag and its commit.
StatusIn(w, adapter) ==
  IF ~w.up \/ (adapter = "cargo-publish-ci" /\ CargoPublishWorkflow(w.files) = Null) THEN "unknown"
  ELSE [none |-> "pending", busy |-> "pending", green |-> "success", red |-> "failed",
        strange |-> "unknown", two |-> "unknown"][w.runs[adapter]]

RunStatus(adapter) == StatusIn(world, adapter)

-----------------------------------------------------------------------------
(* Destinations                                                             *)

\* What a registry's index tells: whether it has the version.  Once it has
\* answered an outage no longer makes the outcome unknown.
RegistryOutcome(i, answered) ==
  IF ~world.up THEN IF answered THEN "missing" ELSE "unknown"
  ELSE IF world.shown[i] = "match" THEN "matches" ELSE "missing"

\* What a GitHub release or a tap tells.
AssetOutcome(i) ==
  IF ~world.up THEN "unknown"
  ELSE [match |-> "matches", absent |-> "missing", conflict |-> "conflicts"][world.shown[i]]

HasIndex(i) == Targets[i].registry \in {"crates.io", "npm", "pypi"}

\* observe_delegated_destination_once.
Destination(i, answered) == IF HasIndex(i) THEN RegistryOutcome(i, answered) ELSE AssetOutcome(i)

\* A release whose manifest is another's will not change; a formula may.
Settled(i, outcome) ==
  outcome = "matches" \/ (Targets[i].registry = "gh-releases" /\ outcome = "conflicts")

-----------------------------------------------------------------------------
(* The polling window                                                       *)

Begun == [elapsed |-> 0, sleeps |-> 0]

\* Seeded fault: only the clock ends a window.
ExpiredByClock(window) == window.elapsed >= Window

Expired(window) == window.elapsed >= Window \/ window.sleeps >= MaxSleeps

\* The clock may stand still, jump or go back.
Slept(window) == {[elapsed |-> e, sleeps |-> Min({MaxSleeps, window.sleeps}) + 1] : e \in 0 .. Window}

-----------------------------------------------------------------------------
(* The barrier                                                              *)

NoVerdict == [i \in Indices |-> Null]

AtRest ==
  [at |-> "rest", mode |-> "completion", todo |-> {}, ready |-> {}, pending |-> {}, unknown |-> {},
   outcome |-> NoVerdict, answered |-> {}, failure |-> Null, window |-> Begun]

Matched(w) == {i \in Indices : w.shown[i] = "match"}

NoAttempt(matched) ==
  [green |-> {}, astray |-> {}, matched |-> matched, red |-> {}, recorded |-> {}, quiet |-> FALSE]

\* The phase may begin before CI began, or after it finished.
VerifyInit ==
  /\ \E files \in TaggedTrees, run \in {"none", "green"}, shown \in {"absent", "match"} :
       /\ run = "none" => shown = "absent"
       /\ world = [runs |-> [a \in Observable |-> run],
                   shown |-> [i \in Indices |-> IF IsEngine(i) THEN "match" ELSE shown],
                   up |-> TRUE, files |-> files, changes |-> 0]
  /\ barrier = AtRest
  /\ journal = [verified |-> NoVerdict, result |-> Null]
  /\ history = NoAttempt(Matched(world))

Green(w) == {a \in Observable : w.runs[a] = "green"}
Red(w) == {a \in Observable : StatusIn(w, a) = "failed"}

\* A crash forgets the attempt; a resume begins one, after the dist barrier or,
\* when that failed, only to look.
EnterVerify ==
  /\ barrier.at = "rest" /\ journal.result # "ok"
  /\ \E mode \in {"completion", "observation"} :
       barrier' = [AtRest EXCEPT !.at = IF mode = "observation" THEN "record" ELSE "runs", !.mode = mode,
                     !.todo = IF mode = "observation"
                              THEN {i \in Indices : journal.verified[i] # "matches"} ELSE RunOwners]
  /\ history' = [history EXCEPT !.green = Green(world), !.astray = Indices \ Matched(world),
                                !.red = Red(world), !.recorded = {}, !.quiet = TRUE]
  /\ UNCHANGED <<world, journal>>

VerifyCrash ==
  /\ barrier.at # "rest"
  /\ barrier' = AtRest
  /\ history' = NoAttempt(history.matched)
  /\ UNCHANGED <<world, journal>>

\* The attempt ends before any destination was looked at.
EndEarly(i, failure) ==
  /\ journal' = [journal EXCEPT !.verified[i] = "unknown", !.result = failure]
  /\ history' = [history EXCEPT !.recorded = {i}]
  /\ barrier' = AtRest
  /\ UNCHANGED world

\* Seeded fault: an attempt ends at the first workflow that is not done.
ObserveRunHastily ==
  /\ barrier.at = "runs" /\ barrier.todo # {}
  /\ LET i == Min(barrier.todo)
         status == RunStatus(AdapterOf(i))
     IN IF status = "success"
        THEN /\ barrier' = [barrier EXCEPT !.todo = @ \ {i}, !.ready = @ \cup {i}]
             /\ UNCHANGED <<world, journal, history>>
        ELSE EndEarly(i, status)

\* One workflow of a round; a failed one ends the barrier whatever others do.
ObserveRun ==
  /\ barrier.at = "runs" /\ barrier.todo # {}
  /\ LET i == Min(barrier.todo)
         status == RunStatus(AdapterOf(i))
     IN IF status = "failed" THEN EndEarly(i, "failed")
        ELSE /\ barrier' = [barrier EXCEPT !.todo = @ \ {i},
                              !.ready = IF status = "success" THEN @ \cup {i} ELSE @,
                              !.pending = IF status = "pending" THEN @ \cup {i} ELSE @,
                              !.unknown = IF status = "unknown" THEN @ \cup {i} ELSE @]
             /\ UNCHANGED <<world, journal, history>>

\* Seeded fault: destinations are polled whatever became of the workflows.
RunsAnyhow(ready) == TRUE

RunsAreDone(ready) == ready = RunOwners

EndRunsRound ==
  /\ barrier.at = "runs" /\ barrier.todo = {}
  /\ CASE barrier.unknown # {} -> EndEarly(Min(barrier.unknown), "unknown")
       [] barrier.unknown = {} /\ RunsAreDone(barrier.ready) ->
            /\ barrier' = [barrier EXCEPT !.at = "destinations",
                             !.todo = {i \in Indices : ~IsEngine(i) /\ journal.verified[i] # "matches"},
                             !.outcome = [i \in Indices |-> IF IsEngine(i) THEN Null ELSE "unknown"]]
            /\ UNCHANGED <<world, journal, history>>
       [] OTHER ->
            IF Expired(barrier.window) THEN EndEarly(Min(barrier.pending), "pending")
            ELSE /\ \E window \in Slept(barrier.window) :
                      barrier' = [barrier EXCEPT !.todo = RunOwners \ barrier.ready, !.pending = {},
                                                 !.window = window]
                 /\ history' = [history EXCEPT !.red = Red(world)]
                 /\ UNCHANGED <<world, journal>>

\* One destination of a round.
ObserveDestination ==
  /\ barrier.at = "destinations" /\ barrier.todo # {}
  /\ LET i == Min(barrier.todo)
     IN barrier' = [barrier EXCEPT !.todo = @ \ {i},
                      !.outcome[i] = Destination(i, i \in barrier.answered),
                      !.answered = IF world.up THEN @ \cup {i} ELSE @]
  /\ UNCHANGED <<world, journal, history>>

Unsettled ==
  {i \in Indices : /\ ~IsEngine(i) /\ journal.verified[i] # "matches"
                   /\ ~Settled(i, barrier.outcome[i])}

EndDestinationsRound ==
  /\ barrier.at = "destinations" /\ barrier.todo = {}
  /\ IF Unsettled = {} \/ Expired(barrier.window)
     THEN barrier' = [barrier EXCEPT !.at = "record",
                        !.todo = {i \in Indices : journal.verified[i] # "matches"}]
     ELSE \E window \in Slept(barrier.window) :
            barrier' = [barrier EXCEPT !.todo = Unsettled, !.window = window]
  /\ UNCHANGED <<world, journal, history>>

\* The outcome of one target goes to the journal.
RecordVerified(i, outcome, failure) ==
  /\ journal' = [journal EXCEPT !.verified[i] = outcome]
  /\ barrier' = [barrier EXCEPT !.at = "record", !.todo = @ \ {i}, !.failure = IF @ = Null THEN failure ELSE @]
  /\ history' = [history EXCEPT !.recorded = @ \cup {i}]
  /\ UNCHANGED world

FailureOf(outcome) == IF outcome = "matches" THEN Null ELSE "unknown"

\* What the engine published is asked for once, through its adapter.
RecordOutcome ==
  /\ barrier.at = "record" /\ barrier.todo # {}
  /\ LET i == Min(barrier.todo)
         outcome == IF IsEngine(i) THEN RegistryOutcome(i, FALSE) ELSE barrier.outcome[i]
     IN /\ IsEngine(i) \/ barrier.mode = "completion"
        /\ RecordVerified(i, outcome, FailureOf(outcome))

\* Observing only, a workflow that is not green has earned no verdict.
PeekAtRun ==
  /\ barrier.at = "record" /\ barrier.todo # {} /\ barrier.mode = "observation"
  /\ LET i == Min(barrier.todo)
         status == IF AdapterOf(i) \in Observable THEN RunStatus(AdapterOf(i)) ELSE "success"
     IN /\ ~IsEngine(i)
        /\ IF status # "success" THEN RecordVerified(i, "unknown", status)
           ELSE /\ barrier' = [barrier EXCEPT !.at = "look"]
                /\ UNCHANGED <<world, journal, history>>

PeekAtDestination ==
  /\ barrier.at = "look"
  /\ LET i == Min(barrier.todo)
         outcome == Destination(i, FALSE)
     IN RecordVerified(i, outcome, FailureOf(outcome))

\* After a failed dist barrier nothing completes the phase.
EndVerify ==
  /\ barrier.at = "record" /\ barrier.todo = {}
  /\ journal' = [journal EXCEPT !.result =
                   IF barrier.mode = "observation" THEN "failed"
                   ELSE IF barrier.failure = Null THEN "ok" ELSE barrier.failure]
  /\ barrier' = AtRest
  /\ UNCHANGED <<world, history>>

BarrierStep ==
  \/ ObserveRun \/ EndRunsRound \/ ObserveDestination \/ EndDestinationsRound
  \/ RecordOutcome \/ PeekAtRun \/ PeekAtDestination \/ EndVerify

-----------------------------------------------------------------------------
(* release verify                                                           *)

\* Seeded fault: the destination is asked though the workflow is not green.
ReportedRegardless(i) == Destination(i, FALSE)

\* reconcile_with_plan, classify_delegated: a second implementation of the same questions,
\* asked once and with nothing remembered.
Reported(i) ==
  CASE IsEngine(i) -> RegistryOutcome(i, FALSE)
    [] ~IsEngine(i) /\ AdapterOf(i) \in Observable /\ RunStatus(AdapterOf(i)) # "success" -> "unknown"
    [] OTHER -> Destination(i, FALSE)

-----------------------------------------------------------------------------
(* What happens outside                                                     *)

Happens(w) ==
  /\ world.changes < MaxChanges /\ journal.result # "ok"
  /\ world' = [w EXCEPT !.changes = @ + 1]
  /\ history' = IF barrier.at = "rest"
                THEN NoAttempt(history.matched \cup Matched(w))
                ELSE [history EXCEPT !.green = @ \cup Green(w), !.astray = @ \cup (Indices \ Matched(w)),
                                     !.matched = @ \cup Matched(w), !.red = @ \cap Red(w), !.quiet = FALSE]
  /\ UNCHANGED <<barrier, journal>>

\* A workflow starts, ends, is started again, or a second run matches the tag.
RunMoves ==
  \E a \in Observable :
    \E run \in [none |-> {"busy"}, busy |-> {"green", "red", "strange"}, green |-> {"busy", "two"},
                red |-> {"busy", "two"}, strange |-> {"green"}, two |-> {}][world.runs[a]] :
      Happens([world EXCEPT !.runs[a] = run])

\* Something appears at a destination, is replaced or withdrawn.
DestinationMoves ==
  \E i \in Indices :
    /\ AdapterOf(i) \in Observable => world.runs[AdapterOf(i)] # "none"
    /\ \E shown \in {"match", "absent", "conflict"} \ {world.shown[i]} :
         /\ shown = "conflict" => ~HasIndex(i)
         /\ Happens([world EXCEPT !.shown[i] = shown])

NetworkChanges == Happens([world EXCEPT !.up = ~@])

VerifyNext ==
  \/ EnterVerify \/ VerifyCrash
  \/ ObserveRun \/ EndRunsRound \/ ObserveDestination \/ EndDestinationsRound
  \/ RecordOutcome \/ PeekAtRun \/ PeekAtDestination \/ EndVerify
  \/ RunMoves \/ DestinationMoves \/ NetworkChanges

\* A coordinator that runs goes on; nothing is assumed of CI, the network, the
\* clock or the operator.
VerifyFairness == WF_verifyVars(BarrierStep)
VerifySpec == VerifyInit /\ [][VerifyNext]_verifyVars /\ VerifyFairness

-----------------------------------------------------------------------------
(* Properties                                                               *)

Outcomes == {Null, "matches", "missing", "conflicts", "unknown"}

\* The barrier is where its mode takes it, and no outcome is invented.
VerifyTypeOK ==
  /\ barrier.at \in {"rest", "runs", "destinations", "record", "look"}
  /\ barrier.mode = "observation" => barrier.at \in {"record", "look"}
  /\ barrier.todo \subseteq Indices /\ barrier.ready \subseteq RunOwners
  /\ barrier.window.sleeps \in 0 .. MaxSleeps
  /\ {journal.verified[i] : i \in Indices} \subseteq Outcomes
  /\ journal.result \in {Null, "ok", "pending", "failed", "unknown"}

\* coordinator.rs 2028: a workflow that is pending, failed or not to be observed
\* has not earned a destination a verdict.  Nothing is called missing or
\* conflicting before, in the same attempt, the workflow that delivers it was
\* green.
NoVerdictBeforeCI ==
  \A i \in history.recorded :
    (journal.verified[i] \in {"missing", "conflicts"} /\ AdapterOf(i) \in Observable)
      => AdapterOf(i) \in history.green

\* What is recorded as missing was not there at some moment of the attempt, and
\* what is recorded as matching was there at some moment.
VerdictsAreObserved ==
  \A i \in Indices :
    /\ (i \in history.recorded /\ journal.verified[i] = "missing") => i \in history.astray
    /\ journal.verified[i] = "matches" => i \in history.matched

\* A pending workflow never hides a failed one: the barrier gives up waiting only
\* if no workflow it still waited for was red from the beginning of its last
\* round on.
FailureIsNotHidden ==
  [][(barrier.at = "runs" /\ history'.recorded # {} /\ journal'.result = "pending") =>
       \A i \in RunOwners \ barrier.ready : AdapterOf(i) \notin history.red]_verifyVars

\* A run that is verified had every target at its destination, and no more than
\* one workflow in the tag that could have published the crates.
PassedMeansDelivered ==
  journal.result = "ok" =>
    /\ Indices \subseteq history.matched
    /\ OwnedBy("cargo-publish-ci") # {} =>
         \E i \in DOMAIN world.files :
           \A j \in DOMAIN world.files :
             LET file == world.files[j]
             IN (file.parses /\ file.onTag /\ (file.direct \/ file.helpers # {})) <=> j = i

\* The two implementations agree: while nothing changes, `release verify' says
\* of a target what the barrier just recorded of it.
ReportsAgree ==
  history.quiet => \A i \in history.recorded : Reported(i) = journal.verified[i]

\* Every attempt comes to an end, though CI hangs and the clock stands still.
BarrierEnds == barrier.at # "rest" ~> barrier.at = "rest"

\* What verify_phase writes down of a target is what it was entitled to say when
\* it said it: the workflow first, then the destination, and no silence as absence.
VerifyInv ==
  /\ VerifyTypeOK
  /\ NoVerdictBeforeCI
  /\ VerdictsAreObserved
=============================================================================
