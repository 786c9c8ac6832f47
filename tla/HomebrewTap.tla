---------------------------- MODULE HomebrewTap -----------------------------
(***************************************************************************)
(* The Homebrew leg of the releases of one package (adapters/homebrew.rs,  *)
(* called by the dist barrier): the formula in the tap is created through  *)
(* a reviewed pull request or rewritten on the default branch.  Releases   *)
(* are interrupted and resumed in any order, the tap is shared with people *)
(* and with other packages, and what is served lags behind.                *)
(***************************************************************************)
EXTENDS Naturals, FiniteSets

CONSTANTS Version,    \* releases of the package, by version
          Absent,     \* the tap has no such formula
          Hand,       \* a hand-written formula without the ownership marker
          Claimed,    \* a hand-written formula its maintainer put the marker on
          OneHost,    \* do all releases share a journal lock (module CutLock)?
          MaxFaults,  \* bound on crashes and failed commands
          MaxEdits    \* bound on commits and closed proposals of other people

ASSUME VersionAssumption == Version \subseteq Nat
ASSUME ContentAssumption == /\ {Absent, Hand, Claimed} \cap Version = {}
                            /\ Cardinality({Absent, Hand, Claimed}) = 3
ASSUME BoundAssumption   == OneHost \in BOOLEAN /\ MaxFaults \in Nat /\ MaxEdits \in Nat

Attempts == 3   \* DIST_PUBLISH_ATTEMPTS

VARIABLES formula,   \* Formula/<name>.rb on the default branch; a version is generated
          rev,       \* the default branch: number of its commits
          author,    \* of the formula: "engine" or "human"
          served,    \* the formula the tap's raw URL answers with
          branch,    \* versions whose pull-request branch is on the tap
          proposal,  \* version -> its pull request
          opened,    \* version -> number of pull requests opened
          pc,        \* version -> where its dist barrier is
          clone,     \* version -> the commit its checkout is at
          attempt,   \* version -> attempts of its dist barrier
          receipt,   \* versions with a journaled receipt
          verified,  \* versions whose delivery was verified
          shipped,   \* versions the default branch has ever carried
          faults, edits

vars == <<formula, rev, author, served, branch, proposal, opened, pc, clone,
          attempt, receipt, verified, shipped, faults, edits>>
tap      == <<formula, rev, author, shipped>>
requests == <<branch, proposal, opened>>
journal  == <<receipt, verified>>
bounds   == <<faults, edits>>

\* The first line is the ownership marker.
Marked(f) == f \in Version \cup {Claimed}

Init == /\ formula \in {Absent, Hand} /\ served = formula
        /\ rev = 0 /\ author = "human"
        /\ branch = {}
        /\ proposal = [v \in Version |-> "none"]
        /\ opened   = [v \in Version |-> 0]
        /\ pc       = [v \in Version |-> "idle"]
        /\ clone    = [v \in Version |-> 0]
        /\ attempt  = [v \in Version |-> 1]
        /\ receipt = {} /\ verified = {} /\ shipped = {}
        /\ faults = 0 /\ edits = 0

Goto(v, label) == pc' = [pc EXCEPT ![v] = label]
Spend == faults < MaxFaults /\ faults' = faults + 1
Touch == edits < MaxEdits /\ edits' = edits + 1

\* A commit on the default branch that makes f its formula.
Commit(f, by) == /\ formula' = f /\ rev' = rev + 1 /\ author' = by
                 /\ shipped' = shipped \cup ({f} \cap Version)

-----------------------------------------------------------------------------
(* publish                                                                 *)

\* The dist barrier is entered, by a cut or any later resume of its run; runs of
\* one clone of the repository exclude each other, those of two do not.
Start(v) ==
  /\ pc[v] = "idle" /\ v \notin receipt
  /\ OneHost => \A u \in Version : pc[u] = "idle"
  /\ Goto(v, "probe")
  /\ attempt' = [attempt EXCEPT ![v] = 1]
  /\ UNCHANGED <<tap, served, requests, clone, journal, bounds>>

\* resolve_path: only a proven absence chooses the create path.
Probe(v) ==
  /\ pc[v] = "probe"
  /\ Goto(v, IF formula = Absent THEN "create" ELSE "update")
  /\ UNCHANGED <<tap, served, requests, clone, attempt, journal, bounds>>

\* A transient failure to clone is retried from the probe on, up to a bound.
CloneUnavailable(v) ==
  /\ pc[v] \in {"create", "update"}
  /\ Spend
  /\ IF attempt[v] < Attempts
     THEN Goto(v, "probe") /\ attempt' = [attempt EXCEPT ![v] = @ + 1]
     ELSE Goto(v, "idle") /\ UNCHANGED attempt
  /\ UNCHANGED <<tap, served, requests, clone, journal, edits>>

\* The checkout after a clone, which may be newer than the probe.
Clones(v) == clone' = [clone EXCEPT ![v] = rev]

\* run_create: the formula file must be new.
CloneForCreate(v) ==
  /\ pc[v] = "create"
  /\ Clones(v)
  /\ Goto(v, IF formula = Absent THEN "push_branch" ELSE "idle")
  /\ UNCHANGED <<tap, served, requests, attempt, journal, bounds>>

\* run_tap_write: the file must be there and carry the marker; when it is this
\* release's already there is nothing to push.
CloneForUpdate(v) ==
  /\ pc[v] = "update"
  /\ Clones(v)
  /\ Goto(v, IF ~Marked(formula) THEN "idle"
             ELSE IF formula = v THEN "record" ELSE "push")
  /\ UNCHANGED <<tap, served, requests, attempt, journal, bounds>>

\* Seeded fault: the rewrite is pushed over whatever the branch has.
PushForced(v) ==
  /\ pc[v] = "push"
  /\ Commit(v, "engine")
  /\ Goto(v, "record")
  /\ UNCHANGED <<served, requests, clone, attempt, journal, bounds>>

\* `git push origin HEAD': refused unless it is a fast-forward.
Push(v) ==
  /\ pc[v] = "push"
  /\ IF rev = clone[v]
     THEN Commit(v, "engine") /\ Goto(v, "record")
     ELSE Goto(v, "idle") /\ UNCHANGED tap
  /\ UNCHANGED <<served, requests, clone, attempt, journal, bounds>>

\* Seeded fault: a branch that is there already counts as pushed and proposed.
AdoptBranch(v) ==
  /\ pc[v] = "push_branch"
  /\ Goto(v, IF v \in branch THEN "record" ELSE "open_pr")
  /\ branch' = branch \cup {v}
  /\ UNCHANGED <<tap, served, proposal, opened, clone, attempt, journal, bounds>>

\* Seeded fault: the branch is pushed with --force.
OverwriteBranch(v) ==
  /\ pc[v] = "push_branch"
  /\ Goto(v, "open_pr")
  /\ branch' = branch \cup {v}
  /\ UNCHANGED <<tap, served, proposal, opened, clone, attempt, journal, bounds>>

\* The branch is named after the version, so a commit of an earlier attempt
\* refuses a later one.
PushBranch(v) ==
  /\ pc[v] = "push_branch"
  /\ Goto(v, IF v \in branch THEN "idle" ELSE "open_pr")
  /\ branch' = branch \cup {v}
  /\ UNCHANGED <<tap, served, proposal, opened, clone, attempt, journal, bounds>>

OpenPullRequest(v) ==
  /\ pc[v] = "open_pr"
  /\ v \in branch
  /\ proposal' = [proposal EXCEPT ![v] = "open"]
  /\ opened' = [opened EXCEPT ![v] = @ + 1]
  /\ Goto(v, "record")
  /\ UNCHANGED <<tap, served, branch, clone, attempt, journal, bounds>>

RecordReceipt(v) ==
  /\ pc[v] = "record"
  /\ receipt' = receipt \cup {v}
  /\ Goto(v, "idle")
  /\ UNCHANGED <<tap, served, requests, clone, attempt, verified, bounds>>

\* A command fails, or the process dies, between any two steps.
Interrupted(v) ==
  /\ pc[v] # "idle"
  /\ Spend
  /\ Goto(v, "idle")
  /\ UNCHANGED <<tap, served, requests, clone, attempt, journal, edits>>

\* verify_tap_formula: the served file has the marker, the version and exactly
\* the plan's platforms; anything else is not a match.
Verify(v) ==
  /\ pc[v] = "idle" /\ v \in receipt \ verified
  /\ served = v
  /\ verified' = verified \cup {v}
  /\ UNCHANGED <<tap, served, requests, pc, clone, attempt, receipt, bounds>>

-----------------------------------------------------------------------------
(* The tap and its people.                                                 *)

Serve ==
  /\ served # formula
  /\ served' = formula
  /\ UNCHANGED <<tap, requests, pc, clone, attempt, journal, bounds>>

\* The maintainer merges a proposal, resolving a conflict in its favour, and
\* may leave its branch behind.
Merge(v) ==
  /\ proposal[v] = "open" /\ v \in branch
  /\ proposal' = [proposal EXCEPT ![v] = "merged"]
  /\ branch' \in {branch, branch \ {v}}
  /\ Commit(v, "human")
  /\ UNCHANGED <<served, opened, pc, clone, attempt, journal, bounds>>

\* Deleting a proposal's branch closes the proposal.
DeleteBranch(v) ==
  /\ v \in branch
  /\ Touch
  /\ branch' = branch \ {v}
  /\ proposal' = IF proposal[v] = "open" THEN [proposal EXCEPT ![v] = "closed"]
                 ELSE proposal
  /\ UNCHANGED <<tap, served, opened, pc, clone, attempt, journal, faults>>

\* The maintainer writes the formula by hand, puts the marker on it, removes
\* it, or commits something else to the tap.
Edit ==
  /\ Touch
  /\ \E f \in {Absent, Hand, Claimed, formula} : Commit(f, IF f = formula THEN author ELSE "human")
  /\ UNCHANGED <<served, requests, pc, clone, attempt, journal, faults>>

Publish(v) == \/ Start(v) \/ Probe(v) \/ CloneUnavailable(v) \/ CloneForCreate(v)
              \/ CloneForUpdate(v) \/ Push(v) \/ PushBranch(v) \/ OpenPullRequest(v)
              \/ RecordReceipt(v) \/ Interrupted(v) \/ Verify(v)

Next == \/ \E v \in Version : Publish(v) \/ Merge(v) \/ DeleteBranch(v)
        \/ Serve \/ Edit

Spec == Init /\ [][Next]_vars

-----------------------------------------------------------------------------
Content == Version \cup {Absent, Hand, Claimed}

TypeOK ==
  /\ {formula, served} \subseteq Content
  /\ rev \in Nat /\ author \in {"engine", "human"}
  /\ branch \subseteq Version
  /\ proposal \in [Version -> {"none", "open", "merged", "closed"}]
  /\ opened \in [Version -> Nat]
  /\ pc \in [Version -> {"idle", "probe", "create", "update", "push", "push_branch",
                         "open_pr", "record"}]
  /\ clone \in [Version -> Nat]
  /\ attempt \in [Version -> 1..Attempts]
  /\ verified \subseteq receipt /\ receipt \subseteq Version /\ shipped \subseteq Version

\* run_tap_write: the engine "never blindly overwrites": what it replaces on the
\* default branch carries the marker at that moment, and is there, so that a
\* first formula always passes a review.  The marker was read from a clone.
OverwritesOnlyOwn ==
  [][\A v \in Version : pc[v] = "push" /\ pc'[v] = "record" => Marked(formula)]_vars

\* A receipt means that the formula is, or was, on the default branch or that
\* its proposal exists, whichever attempt made it.
ReceiptIsDelivered == \A v \in receipt : v \in shipped \/ proposal[v] # "none"

\* A release is only verified once its formula has been on the default branch;
\* an open proposal or a stale or foreign formula does not do.
VerifiedIsShipped == verified \subseteq shipped

\* Interrupted attempts never leave two open proposals for one version.
OneProposal ==
  [][\A v \in Version : opened'[v] > opened[v] => proposal[v] # "open"]_vars

\* What the engine puts on the default branch is the newest version that was
\* there: a release resumed late "fails closed" instead of replacing a newer.
NewestStays ==
  author = "engine" /\ formula \in Version => \A u \in shipped : u <= formula

\* What the receipts and the verified releases claim about the tap, which people
\* write too, is true: of a proposal for the one, of the branch for the other.
TapInv ==
  /\ TypeOK
  /\ ReceiptIsDelivered
  /\ VerifiedIsShipped
=============================================================================
