---------------------------- MODULE CargoPublish ----------------------------
(***************************************************************************)
(* The cargo adapter (release/adapters/cargo.rs) under several cuts of one *)
(* plan.  `release cut` makes a run of its own each time it is called, and *)
(* two journal directories or two hosts have two locks, so cuts of one     *)
(* plan follow one another and overlap.  Each walks the plan's crates      *)
(* through dry-run, build and publish; the crates the contract delegates   *)
(* (`cargo-publish-ci`) are published by the workflow after the tag and    *)
(* only observed.                                                          *)
(*                                                                         *)
(* The registry answers from its index, which shows an upload late; it can *)
(* be out of reach at any query.  A stopped cut is not resumed here (see   *)
(* ReleaseCut): another cut of the plan follows it.                        *)
(***************************************************************************)
EXTENDS Naturals, Sequences, SequencesExt

CONSTANTS
  CargoCuts,     \* runs of the plan
  CrateOrder,    \* the crates of the plan, in publish order
  CrateDeps,     \* per crate: its publishable workspace dependencies
  Delegated,     \* the crates whose adapter is cargo-publish-ci
  Sources,       \* what a cut may package: the bytes of its release commit
  Stranger,      \* bytes of an artifact of somebody else
  PollWindow     \* polls until INDEX_WAIT_TIMEOUT_SECS have passed

Crates == ToSet(CrateOrder)
Unstored == "unstored"

ASSUME CratePlan ==
  /\ CrateOrder \in Seq(Crates) \ {<<>>} /\ IsInjective(CrateOrder)
  /\ CrateDeps \in [Crates -> Seq(Crates)]
  /\ \A i, j \in DOMAIN CrateOrder :
       CrateOrder[j] \in ToSet(CrateDeps[CrateOrder[i]]) => j < i
  /\ Delegated \subseteq Crates
  /\ Unstored \notin Sources \cup {Stranger}
  /\ PollWindow \in Nat

VARIABLES
  crateStore,    \* what the registry holds of each crate's version
  crateIndex,    \* the crates whose version the index shows
  registryUp,    \* whether a query reaches the registry
  cargoCut,      \* per run: where it stands
  crateReceipts, \* per run: crates with a receipt, and the delegated ones verified
  baseline,      \* history, per run: the index when it started
  heldAtStart,   \* history, per run: the crate polled for was visible from the start
  silentNoOps    \* history: the publishes that exited 0 without uploading

cargoVars == <<crateStore, crateIndex, registryUp, cargoCut, crateReceipts,
               baseline, heldAtStart, silentNoOps>>

\* A run's place: the phase, the crate it is at, the step of the adapter's
\* method, the crates still to be polled for, the polls made and whether one
\* of them was answered, and how the run stopped.
NotStarted == [phase |-> "none", at |-> 1, step |-> "enter", source |-> Unstored,
               left |-> <<>>, polls |-> 0, answered |-> FALSE, failure |-> "none"]

CargoInit ==
  /\ crateStore = [c \in Crates |-> Unstored]
  /\ crateIndex = {}
  /\ registryUp = TRUE
  /\ cargoCut = [r \in CargoCuts |-> NotStarted]
  /\ crateReceipts = [r \in CargoCuts |-> {}]
  /\ baseline = [r \in CargoCuts |-> {}]
  /\ heldAtStart = [r \in CargoCuts |-> FALSE]
  /\ silentNoOps = {}

CrateOf(r) == CrateOrder[cargoCut[r].at]
DepsOfCrate(c) == ToSet(CrateDeps[c])
AtStep(r, phases, step) == cargoCut[r].phase \in phases /\ cargoCut[r].step = step
Proceed(r, step) == cargoCut' = [cargoCut EXCEPT ![r].step = step]
StopWith(r, failure) ==
  cargoCut' = [cargoCut EXCEPT ![r] = [NotStarted EXCEPT !.phase = "stopped",
                                         !.source = cargoCut[r].source, !.failure = failure]]
RegistryUnchanged == UNCHANGED <<crateStore, crateIndex, registryUp>>
LedgersUnchanged == UNCHANGED <<crateReceipts, baseline, heldAtStart, silentNoOps>>

\* is_published: the index is the only witness, and no answer is no "absent".
IsPublished(c) ==
  IF ~ registryUp THEN "unreachable" ELSE IF c \in crateIndex THEN "yes" ELSE "no"

PhaseAfter == [dry_run |-> "build", build |-> "publish", publish |-> "observe",
               observe |-> "done"]

\* A crate is entered with nothing known of it but the cut's commit.
AtCrate(r, phase, i) == [NotStarted EXCEPT !.phase = phase, !.at = i,
                                           !.source = cargoCut[r].source]

\* The publish phase passes over the crates the workflow publishes.
NextCrate(r) ==
  LET phase == cargoCut[r].phase
      at    == cargoCut[r].at
  IN cargoCut' = [cargoCut EXCEPT ![r] =
       IF at < Len(CrateOrder) THEN AtCrate(r, phase, at + 1)
       ELSE AtCrate(r, PhaseAfter[phase], 1)]

StartCut(r) ==
  /\ cargoCut[r].phase = "none"
  /\ \E s \in Sources :
       cargoCut' = [cargoCut EXCEPT ![r].phase = "dry_run", ![r].source = s]
  /\ baseline' = [baseline EXCEPT ![r] = crateIndex]
  /\ RegistryUnchanged
  /\ UNCHANGED <<crateReceipts, heldAtStart, silentNoOps>>

-----------------------------------------------------------------------------
(* dry_run and build: the same gate.                                        *)

\* A delegated version that is already there, or cannot be shown to be absent,
\* refuses the cut: verify could not tell it from the workflow's publish.
BaselineRefuses(c) == c \in Delegated /\ IsPublished(c) # "no"

\* Seeded fault: only a dependency known to be absent defers.
DefersAbsent(c) == \E d \in DepsOfCrate(c) : IsPublished(d) = "no"

\* unpublished_workspace_deps: a dependency not known to be published defers.
DefersPackaging(c) == \E d \in DepsOfCrate(c) : IsPublished(d) # "yes"

EnterGate(r) ==
  /\ AtStep(r, {"dry_run", "build"}, "enter")
  /\ IF cargoCut[r].phase = "dry_run" /\ BaselineRefuses(CrateOf(r))
     THEN StopWith(r, "baseline")
     ELSE IF DefersPackaging(CrateOf(r)) THEN NextCrate(r) ELSE Proceed(r, "package")
  /\ RegistryUnchanged /\ LedgersUnchanged

\* `cargo package`: dependencies are resolved against the index.
PackageGate(r) ==
  /\ AtStep(r, {"dry_run", "build"}, "package")
  /\ IF registryUp /\ DepsOfCrate(CrateOf(r)) \subseteq crateIndex
     THEN NextCrate(r) ELSE StopWith(r, "package")
  /\ RegistryUnchanged /\ LedgersUnchanged

-----------------------------------------------------------------------------
(* publish.                                                                 *)

SkipDelegated(r) ==
  /\ AtStep(r, {"publish"}, "enter")
  /\ CrateOf(r) \in Delegated
  /\ NextCrate(r)
  /\ RegistryUnchanged /\ LedgersUnchanged

StartWindow(r, step, left) ==
  /\ cargoCut' = [cargoCut EXCEPT ![r].step = step, ![r].left = left,
                                  ![r].polls = 0, ![r].answered = FALSE]
  /\ heldAtStart' = [heldAtStart EXCEPT ![r] = left # <<>> /\ Head(left) \in crateIndex]

ProbeRegistry(r) ==
  /\ AtStep(r, {"publish"}, "enter")
  /\ CrateOf(r) \notin Delegated
  /\ LET c == CrateOf(r)
         answer == IsPublished(c)
     IN \/ /\ answer = "unreachable"
           /\ StopWith(r, "unreachable") /\ UNCHANGED heldAtStart
        \/ /\ answer = "yes"
           /\ Proceed(r, "package") /\ UNCHANGED heldAtStart
        \/ /\ answer = "no"
           /\ StartWindow(r, IF CrateDeps[c] = <<>> THEN "upload" ELSE "await", CrateDeps[c])
  /\ RegistryUnchanged
  /\ UNCHANGED <<crateReceipts, baseline, silentNoOps>>

\* intended_crate_digest: package again, to have the bytes to compare.
PackageSkip(r) ==
  /\ AtStep(r, {"publish"}, "package")
  /\ IF registryUp /\ DepsOfCrate(CrateOf(r)) \subseteq crateIndex
     THEN Proceed(r, "authenticate") ELSE StopWith(r, "package")
  /\ RegistryUnchanged /\ LedgersUnchanged

\* Seeded fault: name and version are enough.
AuthenticByName(r) == CrateOf(r) \in crateIndex

Authentic(r) == crateStore[CrateOf(r)] = cargoCut[r].source

\* authenticate_skip: the checksum of the index against the digest of the
\* package; only equal bytes are taken for this cut's publish.
Authenticate(r) ==
  /\ AtStep(r, {"publish"}, "authenticate")
  /\ \/ /\ ~ registryUp
        /\ StopWith(r, "unreachable") /\ UNCHANGED crateReceipts
     \/ /\ registryUp /\ ~ Authentic(r)
        /\ StopWith(r, "mismatch") /\ UNCHANGED crateReceipts
     \/ /\ registryUp /\ Authentic(r)
        /\ crateReceipts' = [crateReceipts EXCEPT ![r] = @ \cup {CrateOf(r)}]
        /\ NextCrate(r)
  /\ RegistryUnchanged
  /\ UNCHANGED <<baseline, heldAtStart, silentNoOps>>

\* A turn of the loop sleeps INDEX_POLL_INTERVAL of the window.
Waited(polls) == polls + 1

\* Seeded fault: an outage is reported as absence.
AlwaysAbsent(answered) == "absent"

\* What a window that ran out says: "absent" only if the registry answered.
WindowVerdict(answered) == IF answered THEN "absent" ELSE "unreachable"

\* One turn of poll_for_index, for the dependency awaited or the crate itself.
Poll(r) ==
  LET cut == cargoCut[r]
      found == registryUp /\ Head(cut.left) \in crateIndex
      answered == cut.answered \/ registryUp
  IN /\ AtStep(r, {"publish"}, "await") \/ AtStep(r, {"publish"}, "confirm")
     /\ \/ /\ found /\ Len(cut.left) > 1
           /\ StartWindow(r, "await", Tail(cut.left))
           /\ UNCHANGED crateReceipts
        \/ /\ found /\ Len(cut.left) = 1 /\ cut.step = "await"
           /\ StartWindow(r, "upload", <<>>)
           /\ UNCHANGED crateReceipts
        \/ /\ found /\ cut.step = "confirm"
           /\ crateReceipts' = [crateReceipts EXCEPT ![r] = @ \cup {CrateOf(r)}]
           /\ NextCrate(r)
           /\ heldAtStart' = [heldAtStart EXCEPT ![r] = FALSE]
        \/ /\ ~ found /\ cut.polls < PollWindow
           /\ cargoCut' = [cargoCut EXCEPT ![r].polls = Waited(@), ![r].answered = answered]
           /\ UNCHANGED <<crateReceipts, heldAtStart>>
        \/ /\ ~ found /\ cut.polls = PollWindow
           /\ StopWith(r, WindowVerdict(answered))
           /\ UNCHANGED <<crateReceipts, heldAtStart>>
     /\ RegistryUnchanged
     /\ UNCHANGED <<baseline, silentNoOps>>

RegistryTakes(c) == registryUp /\ crateStore[c] = Unstored /\ DepsOfCrate(c) \subseteq crateIndex
Stores(c, bytes) == crateStore' = [crateStore EXCEPT ![c] = bytes]

\* `cargo publish` exits 0 and the crate is there; or it is there and the
\* command failed all the same; or it is refused; or nothing was uploaded and
\* the exit code says otherwise.
Upload(r) ==
  LET c == CrateOf(r)
      confirm == StartWindow(r, "confirm", <<c>>)
      fails == StopWith(r, "command") /\ UNCHANGED heldAtStart
  IN /\ AtStep(r, {"publish"}, "upload")
     /\ \/ RegistryTakes(c) /\ Stores(c, cargoCut[r].source) /\ (confirm \/ fails)
           /\ UNCHANGED silentNoOps
        \/ ~ RegistryTakes(c) /\ fails /\ UNCHANGED <<crateStore, silentNoOps>>
        \/ confirm /\ silentNoOps' = silentNoOps \cup {<<r, c>>} /\ UNCHANGED crateStore
     /\ UNCHANGED <<crateIndex, registryUp, crateReceipts, baseline>>

\* The tag is out: the workflow publishes a delegated crate from the same commit.
CiPublish(r, c) ==
  /\ cargoCut[r].phase = "observe" /\ c \in Delegated
  /\ RegistryTakes(c)
  /\ Stores(c, cargoCut[r].source)
  /\ UNCHANGED <<crateIndex, registryUp, cargoCut>> /\ LedgersUnchanged

\* Verify sees the crate in the index, or gives up waiting for it.
Observe(r) ==
  LET c == CrateOf(r)
  IN /\ AtStep(r, {"observe"}, "enter")
     /\ \/ /\ IsPublished(c) = "yes"
           /\ crateReceipts' = [crateReceipts EXCEPT ![r] = @ \cup {c}]
           /\ NextCrate(r)
        \/ /\ IsPublished(c) # "yes"
           /\ StopWith(r, "unverified") /\ UNCHANGED crateReceipts
     /\ RegistryUnchanged
     /\ UNCHANGED <<baseline, heldAtStart, silentNoOps>>

Kill(r) ==
  /\ cargoCut[r].phase \in {"dry_run", "build", "publish", "observe"}
  /\ StopWith(r, "killed")
  /\ RegistryUnchanged /\ LedgersUnchanged

-----------------------------------------------------------------------------
(* The registry and the others.                                             *)

IndexShows(c) ==
  /\ crateStore[c] # Unstored /\ c \notin crateIndex
  /\ crateIndex' = crateIndex \cup {c}
  /\ UNCHANGED <<crateStore, registryUp, cargoCut>> /\ LedgersUnchanged

Reachability ==
  /\ registryUp' = ~ registryUp
  /\ UNCHANGED <<crateStore, crateIndex, cargoCut>> /\ LedgersUnchanged

StrangerPublishes(c) ==
  /\ RegistryTakes(c)
  /\ Stores(c, Stranger)
  /\ UNCHANGED <<crateIndex, registryUp, cargoCut>> /\ LedgersUnchanged

CargoStep(r) ==
  \/ EnterGate(r) \/ PackageGate(r)
  \/ SkipDelegated(r) \/ ProbeRegistry(r) \/ PackageSkip(r) \/ Authenticate(r)
  \/ Poll(r) \/ Upload(r) \/ Observe(r)

CargoWorld(c) == IndexShows(c) \/ StrangerPublishes(c) \/ \E r \in CargoCuts : CiPublish(r, c)

CargoNext ==
  \/ \E r \in CargoCuts : StartCut(r) \/ CargoStep(r) \/ Kill(r)
  \/ \E c \in Crates : CargoWorld(c)
  \/ Reachability

CargoSpec == CargoInit /\ [][CargoNext]_cargoVars

-----------------------------------------------------------------------------
CutState ==
  [phase : {"none", "dry_run", "build", "publish", "observe", "done", "stopped"},
   at : 1..Len(CrateOrder),
   step : {"enter", "package", "authenticate", "await", "upload", "confirm"},
   source : Sources \cup {Unstored}, left : Seq(Crates),
   polls : 0..PollWindow, answered : BOOLEAN,
   failure : {"none", "baseline", "package", "unreachable", "mismatch", "absent",
              "command", "unverified", "killed"}]

CargoTypeOK ==
  /\ crateStore \in [Crates -> Sources \cup {Stranger, Unstored}]
  /\ crateIndex \subseteq {c \in Crates : crateStore[c] # Unstored}
  /\ registryUp \in BOOLEAN
  /\ cargoCut \in [CargoCuts -> CutState]
  /\ crateReceipts \in [CargoCuts -> SUBSET Crates]
  /\ baseline \in [CargoCuts -> SUBSET Crates]
  /\ heldAtStart \in [CargoCuts -> BOOLEAN]
  /\ silentNoOps \subseteq CargoCuts \X Crates

\* cargo.rs:442, "the last `receipt without a fresh upload' path" is closed: in
\* whatever way the cuts of a plan and a stranger race for a version, a cut that
\* receipts a crate it publishes itself has its own bytes in the registry --
\* unless `cargo publish` exited 0 without doing anything, and even then the
\* crate exists.
ReceiptIsAuthentic ==
  \A r \in CargoCuts : \A c \in crateReceipts[r] :
    /\ c \in crateIndex
    /\ c \notin Delegated /\ <<r, c>> \notin silentNoOps
         => crateStore[c] = cargoCut[r].source

\* The deferral, the index wait and the digest: whenever cargo is asked to
\* package or to publish a crate, the dependencies it resolves are in the index,
\* so no cut dies of an order it chose itself.
ResolvesDependencies ==
  \A r \in CargoCuts :
    \/ AtStep(r, {"dry_run", "build", "publish"}, "package")
    \/ AtStep(r, {"publish"}, "upload")
    => DepsOfCrate(CrateOf(r)) \subseteq crateIndex

\* poll_for_index: "an outage, never a proven absence" -- a window never reports
\* a crate absent that the index showed from the window's start to its end.
AbsenceIsNotGuessed ==
  \A r \in CargoCuts : cargoCut[r].failure = "absent" => ~ heldAtStart[r]

\* The pre-tag baseline: what verify takes for the workflow's publish was not in
\* the index when the cut began, also when the registry was out of reach then.
VerifiedIsNew ==
  \A r \in CargoCuts : \A c \in crateReceipts[r] \cap Delegated : c \notin baseline[r]

\* What the receipts of a cut claim about the registry is true: of its own bytes
\* where it uploads, of a version that is new where CI does.
CargoInv ==
  /\ CargoTypeOK
  /\ ReceiptIsAuthentic
  /\ VerifiedIsNew
=============================================================================
