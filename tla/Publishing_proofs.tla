-------------------------- MODULE Publishing_proofs --------------------------
(***************************************************************************)
(* The two adapters the engine publishes with, proved: the Homebrew tap,   *)
(* then crates.io.                                                         *)
(***************************************************************************)
EXTENDS HomebrewTap, CargoPublish, TLAPS

-----------------------------------------------------------------------------
(***************************************************************************)
(* The Homebrew leg, proved for any set of releases, interrupted anywhere  *)
(* and overlapping, in a tap that people write too.                        *)
(***************************************************************************)

\* What the tap has, or still serves, of this package was on the default branch.
ServedWasShipped == {formula, served} \cap Version \subseteq shipped

\* A receipt is only about to be journaled for something that is out.
RecordsDelivered ==
  \A v \in Version : pc[v] = "record" => v \in shipped \/ proposal[v] # "none"

\* A checkout is never newer than the branch; while it is the branch's commit,
\* what was read from it is what the push replaces.
PushesOnOwn ==
  \A v \in Version : /\ clone[v] <= rev
                     /\ pc[v] = "push" /\ clone[v] = rev => Marked(formula)

\* An open proposal has its branch, which no second attempt can push.
ProposalHasBranch ==
  \A v \in Version : /\ proposal[v] = "open" => v \in branch
                     /\ pc[v] = "open_pr" => proposal[v] # "open"

TapInd ==
  /\ TypeOK
  /\ ServedWasShipped
  /\ RecordsDelivered
  /\ PushesOnOwn
  /\ ProposalHasBranch
  /\ ReceiptIsDelivered
  /\ VerifiedIsShipped

-----------------------------------------------------------------------------
\* Nothing was published when the first release starts.
LEMMA TapInitially == Init => TapInd
BY ContentAssumption DEF Init, TapInd, TypeOK, ServedWasShipped, RecordsDelivered,
   PushesOnOwn, ProposalHasBranch, ReceiptIsDelivered, VerifiedIsShipped, Content, Marked,
   Attempts

\* Entering the dist barrier touches nothing of the tap.
LEMMA StartKeeps ==
  ASSUME TapInd, NEW v \in Version, Start(v)
  PROVE  TapInd'
<1>1. TypeOK'
  BY DEF TapInd, TypeOK, Start, Goto, tap, requests, journal, Attempts
<1>2. ServedWasShipped'
  BY DEF TapInd, TypeOK, ServedWasShipped, Start, tap
<1>3. RecordsDelivered'
  BY DEF TapInd, TypeOK, RecordsDelivered, Start, Goto, tap, requests
<1>4. PushesOnOwn'
  BY DEF TapInd, TypeOK, PushesOnOwn, Start, Goto, tap
<1>5. ProposalHasBranch'
  BY DEF TapInd, TypeOK, ProposalHasBranch, Start, Goto, requests
<1>6. ReceiptIsDelivered'
  BY DEF TapInd, TypeOK, ReceiptIsDelivered, Start, tap, requests, journal
<1>7. VerifiedIsShipped'
  BY DEF TapInd, TypeOK, VerifiedIsShipped, Start, tap, journal
<1>. QED
  BY <1>1, <1>2, <1>3, <1>4, <1>5, <1>6, <1>7 DEF TapInd

\* The probe chooses a path and nothing else.
LEMMA ProbeKeeps ==
  ASSUME TapInd, NEW v \in Version, Probe(v)
  PROVE  TapInd'
<1>1. TypeOK'
  BY DEF TapInd, TypeOK, Probe, Goto, tap, requests, journal
<1>2. ServedWasShipped'
  BY DEF TapInd, TypeOK, ServedWasShipped, Probe, tap
<1>3. RecordsDelivered'
  BY DEF TapInd, TypeOK, RecordsDelivered, Probe, Goto, tap, requests
<1>4. PushesOnOwn'
  BY DEF TapInd, TypeOK, PushesOnOwn, Probe, Goto, tap
<1>5. ProposalHasBranch'
  BY DEF TapInd, TypeOK, ProposalHasBranch, Probe, Goto, requests
<1>6. ReceiptIsDelivered'
  BY DEF TapInd, TypeOK, ReceiptIsDelivered, Probe, tap, requests, journal
<1>7. VerifiedIsShipped'
  BY DEF TapInd, TypeOK, VerifiedIsShipped, Probe, tap, journal
<1>. QED
  BY <1>1, <1>2, <1>3, <1>4, <1>5, <1>6, <1>7 DEF TapInd

\* A clone that fails is retried from the probe on.
LEMMA CloneUnavailableKeeps ==
  ASSUME TapInd, NEW v \in Version, CloneUnavailable(v)
  PROVE  TapInd'
<1>1. TypeOK'
  BY DEF TapInd, TypeOK, CloneUnavailable, Goto, tap, requests, journal, Attempts
<1>2. ServedWasShipped'
  BY DEF TapInd, TypeOK, ServedWasShipped, CloneUnavailable, tap
<1>3. RecordsDelivered'
  BY DEF TapInd, TypeOK, RecordsDelivered, CloneUnavailable, Goto, tap, requests
<1>4. PushesOnOwn'
  BY DEF TapInd, TypeOK, PushesOnOwn, CloneUnavailable, Goto, tap
<1>5. ProposalHasBranch'
  BY DEF TapInd, TypeOK, ProposalHasBranch, CloneUnavailable, Goto, requests
<1>6. ReceiptIsDelivered'
  BY DEF TapInd, TypeOK, ReceiptIsDelivered, CloneUnavailable, tap, requests, journal
<1>7. VerifiedIsShipped'
  BY DEF TapInd, TypeOK, VerifiedIsShipped, CloneUnavailable, tap, journal
<1>. QED
  BY <1>1, <1>2, <1>3, <1>4, <1>5, <1>6, <1>7 DEF TapInd

\* A checkout for a new formula.
LEMMA CloneForCreateKeeps ==
  ASSUME TapInd, NEW v \in Version, CloneForCreate(v)
  PROVE  TapInd'
<1>1. TypeOK'
  BY DEF TapInd, TypeOK, CloneForCreate, Goto, tap, requests, journal, Clones
<1>2. ServedWasShipped'
  BY DEF TapInd, TypeOK, ServedWasShipped, CloneForCreate, tap
<1>3. RecordsDelivered'
  BY DEF TapInd, TypeOK, RecordsDelivered, CloneForCreate, Goto, tap, requests
<1>4. PushesOnOwn'
  BY DEF TapInd, TypeOK, PushesOnOwn, CloneForCreate, Goto, tap, Clones
<1>5. ProposalHasBranch'
  BY DEF TapInd, TypeOK, ProposalHasBranch, CloneForCreate, Goto, requests
<1>6. ReceiptIsDelivered'
  BY DEF TapInd, TypeOK, ReceiptIsDelivered, CloneForCreate, tap, requests, journal
<1>7. VerifiedIsShipped'
  BY DEF TapInd, TypeOK, VerifiedIsShipped, CloneForCreate, tap, journal
<1>. QED
  BY <1>1, <1>2, <1>3, <1>4, <1>5, <1>6, <1>7 DEF TapInd

\* A checkout of an owned formula; the version itself may be there already.
LEMMA CloneForUpdateKeeps ==
  ASSUME TapInd, NEW v \in Version, CloneForUpdate(v)
  PROVE  TapInd'
<1>1. TypeOK'
  BY DEF TapInd, TypeOK, CloneForUpdate, Goto, tap, requests, journal, Clones
<1>2. ServedWasShipped'
  BY DEF TapInd, TypeOK, ServedWasShipped, CloneForUpdate, tap
<1>3. RecordsDelivered'
  BY DEF TapInd, TypeOK, ServedWasShipped, RecordsDelivered, CloneForUpdate, Goto, tap,
     requests
<1>4. PushesOnOwn'
  BY DEF TapInd, TypeOK, PushesOnOwn, CloneForUpdate, Goto, tap, Clones
<1>5. ProposalHasBranch'
  BY DEF TapInd, TypeOK, ProposalHasBranch, CloneForUpdate, Goto, requests
<1>6. ReceiptIsDelivered'
  BY DEF TapInd, TypeOK, ReceiptIsDelivered, CloneForUpdate, tap, requests, journal
<1>7. VerifiedIsShipped'
  BY DEF TapInd, TypeOK, VerifiedIsShipped, CloneForUpdate, tap, journal
<1>. QED
  BY <1>1, <1>2, <1>3, <1>4, <1>5, <1>6, <1>7 DEF TapInd

\* The push replaces what the checkout was read from, or is refused.
LEMMA PushKeeps ==
  ASSUME TapInd, NEW v \in Version, Push(v)
  PROVE  TapInd'
<1>1. TypeOK'
  BY DEF TapInd, TypeOK, Push, Goto, tap, requests, journal, Content, Commit
<1>2. ServedWasShipped'
  BY DEF TapInd, TypeOK, ServedWasShipped, Push, tap, Commit
<1>3. RecordsDelivered'
  BY DEF TapInd, TypeOK, RecordsDelivered, Push, Goto, tap, requests, Commit
<1>4. PushesOnOwn'
  BY DEF TapInd, TypeOK, PushesOnOwn, Push, Goto, tap, Commit
<1>5. ProposalHasBranch'
  BY DEF TapInd, TypeOK, ProposalHasBranch, Push, Goto, requests
<1>6. ReceiptIsDelivered'
  BY DEF TapInd, TypeOK, ReceiptIsDelivered, Push, tap, requests, journal, Commit
<1>7. VerifiedIsShipped'
  BY DEF TapInd, TypeOK, VerifiedIsShipped, Push, tap, journal, Commit
<1>. QED
  BY <1>1, <1>2, <1>3, <1>4, <1>5, <1>6, <1>7 DEF TapInd

\* A branch that is there stops a second attempt.
LEMMA PushBranchKeeps ==
  ASSUME TapInd, NEW v \in Version, PushBranch(v)
  PROVE  TapInd'
<1>1. TypeOK'
  BY DEF TapInd, TypeOK, PushBranch, Goto, tap, journal
<1>2. ServedWasShipped'
  BY DEF TapInd, TypeOK, ServedWasShipped, PushBranch, tap
<1>3. RecordsDelivered'
  BY DEF TapInd, TypeOK, RecordsDelivered, PushBranch, Goto, tap
<1>4. PushesOnOwn'
  BY DEF TapInd, TypeOK, PushesOnOwn, PushBranch, Goto, tap
<1>5. ProposalHasBranch'
  BY DEF TapInd, TypeOK, ProposalHasBranch, PushBranch, Goto
<1>6. ReceiptIsDelivered'
  BY DEF TapInd, TypeOK, ReceiptIsDelivered, PushBranch, tap, journal
<1>7. VerifiedIsShipped'
  BY DEF TapInd, TypeOK, VerifiedIsShipped, PushBranch, tap, journal
<1>. QED
  BY <1>1, <1>2, <1>3, <1>4, <1>5, <1>6, <1>7 DEF TapInd

\* The proposal is opened once its branch is pushed.
LEMMA OpenPullRequestKeeps ==
  ASSUME TapInd, NEW v \in Version, OpenPullRequest(v)
  PROVE  TapInd'
<1>1. TypeOK'
  BY DEF TapInd, TypeOK, OpenPullRequest, Goto, tap, journal
<1>2. ServedWasShipped'
  BY DEF TapInd, TypeOK, ServedWasShipped, OpenPullRequest, tap
<1>3. RecordsDelivered'
  BY DEF TapInd, TypeOK, RecordsDelivered, OpenPullRequest, Goto, tap
<1>4. PushesOnOwn'
  BY DEF TapInd, TypeOK, PushesOnOwn, OpenPullRequest, Goto, tap
<1>5. ProposalHasBranch'
  BY DEF TapInd, TypeOK, ProposalHasBranch, OpenPullRequest, Goto
<1>6. ReceiptIsDelivered'
  BY DEF TapInd, TypeOK, ReceiptIsDelivered, OpenPullRequest, tap, journal
<1>7. VerifiedIsShipped'
  BY DEF TapInd, TypeOK, VerifiedIsShipped, OpenPullRequest, tap, journal
<1>. QED
  BY <1>1, <1>2, <1>3, <1>4, <1>5, <1>6, <1>7 DEF TapInd

\* The receipt is journaled for what is out.
LEMMA RecordReceiptKeeps ==
  ASSUME TapInd, NEW v \in Version, RecordReceipt(v)
  PROVE  TapInd'
<1>1. TypeOK'
  BY DEF TapInd, TypeOK, RecordReceipt, Goto, tap, requests
<1>2. ServedWasShipped'
  BY DEF TapInd, TypeOK, ServedWasShipped, RecordReceipt, tap
<1>3. RecordsDelivered'
  BY DEF TapInd, TypeOK, RecordsDelivered, RecordReceipt, Goto, tap, requests
<1>4. PushesOnOwn'
  BY DEF TapInd, TypeOK, PushesOnOwn, RecordReceipt, Goto, tap
<1>5. ProposalHasBranch'
  BY DEF TapInd, TypeOK, ProposalHasBranch, RecordReceipt, Goto, requests
<1>6. ReceiptIsDelivered'
  BY DEF TapInd, TypeOK, RecordsDelivered, ReceiptIsDelivered, RecordReceipt, tap,
     requests
<1>7. VerifiedIsShipped'
  BY DEF TapInd, TypeOK, VerifiedIsShipped, RecordReceipt, tap
<1>. QED
  BY <1>1, <1>2, <1>3, <1>4, <1>5, <1>6, <1>7 DEF TapInd

\* An interrupted attempt leaves what it pushed.
LEMMA InterruptedKeeps ==
  ASSUME TapInd, NEW v \in Version, Interrupted(v)
  PROVE  TapInd'
<1>1. TypeOK'
  BY DEF TapInd, TypeOK, Interrupted, Goto, tap, requests, journal
<1>2. ServedWasShipped'
  BY DEF TapInd, TypeOK, ServedWasShipped, Interrupted, tap
<1>3. RecordsDelivered'
  BY DEF TapInd, TypeOK, RecordsDelivered, Interrupted, Goto, tap, requests
<1>4. PushesOnOwn'
  BY DEF TapInd, TypeOK, PushesOnOwn, Interrupted, Goto, tap
<1>5. ProposalHasBranch'
  BY DEF TapInd, TypeOK, ProposalHasBranch, Interrupted, Goto, requests
<1>6. ReceiptIsDelivered'
  BY DEF TapInd, TypeOK, ReceiptIsDelivered, Interrupted, tap, requests, journal
<1>7. VerifiedIsShipped'
  BY DEF TapInd, TypeOK, VerifiedIsShipped, Interrupted, tap, journal
<1>. QED
  BY <1>1, <1>2, <1>3, <1>4, <1>5, <1>6, <1>7 DEF TapInd

\* What is served was on the default branch.
LEMMA VerifyKeeps ==
  ASSUME TapInd, NEW v \in Version, Verify(v)
  PROVE  TapInd'
<1>1. TypeOK'
  BY DEF TapInd, TypeOK, Verify, tap, requests
<1>2. ServedWasShipped'
  BY DEF TapInd, TypeOK, ServedWasShipped, Verify, tap
<1>3. RecordsDelivered'
  BY DEF TapInd, TypeOK, RecordsDelivered, Verify, tap, requests
<1>4. PushesOnOwn'
  BY DEF TapInd, TypeOK, PushesOnOwn, Verify, tap
<1>5. ProposalHasBranch'
  BY DEF TapInd, TypeOK, ProposalHasBranch, Verify, requests
<1>6. ReceiptIsDelivered'
  BY DEF TapInd, TypeOK, ReceiptIsDelivered, Verify, tap, requests
<1>7. VerifiedIsShipped'
  BY DEF TapInd, TypeOK, ServedWasShipped, VerifiedIsShipped, Verify, tap
<1>. QED
  BY <1>1, <1>2, <1>3, <1>4, <1>5, <1>6, <1>7 DEF TapInd

\* A merge puts the version on the default branch.
LEMMA MergeKeeps ==
  ASSUME TapInd, NEW v \in Version, Merge(v)
  PROVE  TapInd'
<1>1. TypeOK'
  BY DEF TapInd, TypeOK, Merge, journal, Content, Commit
<1>2. ServedWasShipped'
  BY DEF TapInd, TypeOK, ServedWasShipped, Merge, Commit
<1>3. RecordsDelivered'
  BY DEF TapInd, TypeOK, RecordsDelivered, Merge, Commit
<1>4. PushesOnOwn'
  BY DEF TapInd, TypeOK, PushesOnOwn, Merge, Commit
<1>5. ProposalHasBranch'
  BY DEF TapInd, TypeOK, ProposalHasBranch, Merge
<1>6. ReceiptIsDelivered'
  BY DEF TapInd, TypeOK, ReceiptIsDelivered, Merge, journal, Commit
<1>7. VerifiedIsShipped'
  BY DEF TapInd, TypeOK, VerifiedIsShipped, Merge, journal, Commit
<1>. QED
  BY <1>1, <1>2, <1>3, <1>4, <1>5, <1>6, <1>7 DEF TapInd

\* Deleting the branch closes the proposal.
LEMMA DeleteBranchKeeps ==
  ASSUME TapInd, NEW v \in Version, DeleteBranch(v)
  PROVE  TapInd'
<1>1. TypeOK'
  BY DEF TapInd, TypeOK, DeleteBranch, tap, journal
<1>2. ServedWasShipped'
  BY DEF TapInd, TypeOK, ServedWasShipped, DeleteBranch, tap
<1>3. RecordsDelivered'
  BY DEF TapInd, TypeOK, RecordsDelivered, DeleteBranch, tap
<1>4. PushesOnOwn'
  BY DEF TapInd, TypeOK, PushesOnOwn, DeleteBranch, tap
<1>5. ProposalHasBranch'
  BY DEF TapInd, TypeOK, ProposalHasBranch, DeleteBranch
<1>6. ReceiptIsDelivered'
  BY DEF TapInd, TypeOK, ReceiptIsDelivered, DeleteBranch, tap, journal
<1>7. VerifiedIsShipped'
  BY DEF TapInd, TypeOK, VerifiedIsShipped, DeleteBranch, tap, journal
<1>. QED
  BY <1>1, <1>2, <1>3, <1>4, <1>5, <1>6, <1>7 DEF TapInd

\* The raw URL catches up.
LEMMA ServeKeeps ==
  ASSUME TapInd, Serve
  PROVE  TapInd'
<1>1. TypeOK'
  BY DEF TapInd, TypeOK, Serve, tap, requests, journal
<1>2. ServedWasShipped'
  BY DEF TapInd, TypeOK, ServedWasShipped, Serve, tap
<1>3. RecordsDelivered'
  BY DEF TapInd, TypeOK, RecordsDelivered, Serve, tap, requests
<1>4. PushesOnOwn'
  BY DEF TapInd, TypeOK, PushesOnOwn, Serve, tap
<1>5. ProposalHasBranch'
  BY DEF TapInd, TypeOK, ProposalHasBranch, Serve, requests
<1>6. ReceiptIsDelivered'
  BY DEF TapInd, TypeOK, ReceiptIsDelivered, Serve, tap, requests, journal
<1>7. VerifiedIsShipped'
  BY DEF TapInd, TypeOK, VerifiedIsShipped, Serve, tap, journal
<1>. QED
  BY <1>1, <1>2, <1>3, <1>4, <1>5, <1>6, <1>7 DEF TapInd

\* Whatever the maintainer commits is a newer commit.
LEMMA EditKeeps ==
  ASSUME TapInd, Edit
  PROVE  TapInd'
<1>1. TypeOK'
  BY DEF TapInd, TypeOK, Edit, requests, journal, Content, Commit
<1>2. ServedWasShipped'
  BY DEF TapInd, TypeOK, ServedWasShipped, Edit, Commit
<1>3. RecordsDelivered'
  BY DEF TapInd, TypeOK, RecordsDelivered, Edit, requests, Commit
<1>4. PushesOnOwn'
  BY DEF TapInd, TypeOK, PushesOnOwn, Edit, Commit
<1>5. ProposalHasBranch'
  BY DEF TapInd, TypeOK, ProposalHasBranch, Edit, requests
<1>6. ReceiptIsDelivered'
  BY DEF TapInd, TypeOK, ReceiptIsDelivered, Edit, requests, journal, Commit
<1>7. VerifiedIsShipped'
  BY DEF TapInd, TypeOK, VerifiedIsShipped, Edit, journal, Commit
<1>. QED
  BY <1>1, <1>2, <1>3, <1>4, <1>5, <1>6, <1>7 DEF TapInd

-----------------------------------------------------------------------------
(* The theorems.                                                           *)

\* Every step of a release and of the tap's people keeps the invariant.
LEMMA TapStep ==
  ASSUME TapInd, [Next]_vars
  PROVE  TapInd'
<1>1. CASE Next
  BY <1>1, StartKeeps, ProbeKeeps, CloneUnavailableKeeps, CloneForCreateKeeps,
     CloneForUpdateKeeps, PushKeeps, PushBranchKeeps, OpenPullRequestKeeps,
     RecordReceiptKeeps, InterruptedKeeps, VerifyKeeps, MergeKeeps, DeleteBranchKeeps,
     ServeKeeps, EditKeeps DEF Next, Publish
<1>2. CASE UNCHANGED vars
  BY <1>2 DEF vars, TapInd, TypeOK, ServedWasShipped, RecordsDelivered, PushesOnOwn,
     ProposalHasBranch, ReceiptIsDelivered, VerifiedIsShipped
<1>. QED
  BY <1>1, <1>2

\* The inductive invariant: what an attempt read of the tap is still so when the
\* step that relies on it is taken, or the tap refuses that step.
THEOREM TapInvariance == Spec => []TapInd
<1>1. TapInd /\ [Next]_vars => TapInd'
  BY TapStep
<1>. QED
  BY TapInitially, <1>1, PTL DEF Spec

\* Receipts and verified releases tell the truth about a tap that people write
\* too (publish, verify_tap_formula).
THEOREM TapInvHolds == Spec => []TapInv
<1>1. TapInd => TapInv
  BY DEF TapInd, TapInv
<1>. QED
  BY TapInvariance, <1>1, PTL

\* A push replaces only a formula that carries the marker at that moment: the
\* marker was read from a checkout, but a push from an older one is refused
\* (run_tap_write).
LEMMA PushIsOwn ==
  ASSUME TapInd, [Next]_vars, NEW v \in Version, pc[v] = "push", pc'[v] = "record"
  PROVE  Marked(formula)
<1>1. Push(v)
  BY DEF TapInd, TypeOK, Next, Publish, vars, Goto, Start, Probe, CloneUnavailable,
     CloneForCreate, CloneForUpdate, Push, PushBranch, OpenPullRequest, RecordReceipt,
     Interrupted, Verify, Merge, DeleteBranch, Serve, Edit
<1>. QED
  BY <1>1 DEF TapInd, TypeOK, PushesOnOwn, Push, Goto

\* The engine never blindly overwrites a formula it does not own, nor creates
\* one on the default branch, however the tap changes under it.
THEOREM OverwritesOnlyOwnHolds == Spec => OverwritesOnlyOwn
<1>1. TapInd /\ [Next]_vars =>
        [\A v \in Version : pc[v] = "push" /\ pc'[v] = "record" => Marked(formula)]_vars
  BY PushIsOwn
<1>. QED
  BY TapInvariance, <1>1, PTL DEF Spec, OverwritesOnlyOwn

\* Only OpenPullRequest opens one, and its branch was not there before.
LEMMA OpensWhenNoneIsOpen ==
  ASSUME TapInd, [Next]_vars, NEW v \in Version, opened'[v] > opened[v]
  PROVE  proposal[v] # "open"
<1>1. opened' # opened
  BY DEF TapInd, TypeOK
<1>2. PICK u \in Version : OpenPullRequest(u)
  BY <1>1 DEF Next, Publish, vars, requests, Start, Probe, CloneUnavailable,
     CloneForCreate, CloneForUpdate, Push, PushBranch, RecordReceipt, Interrupted, Verify,
     Merge, DeleteBranch, Serve, Edit
<1>3. u = v
  BY <1>2 DEF TapInd, TypeOK, OpenPullRequest
<1>. QED
  BY <1>2, <1>3 DEF TapInd, ProposalHasBranch, OpenPullRequest

\* However often a release is interrupted and resumed, its version has at most
\* one open proposal (run_create).
THEOREM OneProposalHolds == Spec => OneProposal
<1>1. TapInd /\ [Next]_vars =>
        [\A v \in Version : opened'[v] > opened[v] => proposal[v] # "open"]_vars
  BY OpensWhenNoneIsOpen
<1>. QED
  BY TapInvariance, <1>1, PTL DEF Spec, OneProposal

-----------------------------------------------------------------------------
(***************************************************************************)
(* The cargo adapter, proved for any plan, any number of cuts of it, any   *)
(* length of the index wait, and a stranger who publishes too.             *)
(***************************************************************************)

\* The registry takes a crate only when its dependencies are in the index, and
\* the index forgets nothing.
StoredIsResolvable ==
  \A c \in Crates : crateStore[c] # Unstored => DepsOfCrate(c) \subseteq crateIndex

\* Each step of the adapter belongs to its phases, and a cut has its commit's
\* bytes from its start on.
StepFits(r) ==
  LET cut == cargoCut[r]
  IN /\ cut.step \in {"authenticate", "await", "upload", "confirm"} => cut.phase = "publish"
     /\ cut.step = "package" => cut.phase \in {"dry_run", "build", "publish"}
     /\ cut.phase = "none" => cut.at = 1 /\ crateReceipts[r] = {}
     /\ cut.phase # "none" => cut.source \in Sources
     /\ cut.phase # "stopped" => cut.failure = "none"

\* What the adapter has established of the crate it is at.
StepKnows(r) ==
  LET cut == cargoCut[r]
      c == CrateOf(r)
  IN /\ cut.phase = "publish" /\ cut.step # "enter" => c \notin Delegated
     /\ cut.phase = "publish" /\ cut.step \in {"package", "authenticate"} => c \in crateIndex
     /\ cut.step = "await" => /\ cut.left # <<>>
                              /\ DepsOfCrate(c) \subseteq crateIndex \cup ToSet(cut.left)
     /\ cut.step \in {"package", "upload"} => DepsOfCrate(c) \subseteq crateIndex
     /\ cut.step = "confirm" => /\ cut.left = <<c>>
                                /\ <<r, c>> \in silentNoOps \/ crateStore[c] = cut.source

\* A window that opened on a visible crate only ever failed to ask.
WindowKnows(r) ==
  LET cut == cargoCut[r]
  IN /\ cut.step \in {"await", "confirm"} /\ heldAtStart[r] =>
          ~ cut.answered /\ Head(cut.left) \in crateIndex
     /\ cut.failure = "absent" => ~ heldAtStart[r]

\* The crates before the one a cut is at, in a phase or in an earlier one.
Passed(r, phase, later) ==
  {CrateOrder[i] : i \in {j \in DOMAIN CrateOrder :
      cargoCut[r].phase \in later \/ (cargoCut[r].phase = phase /\ j < cargoCut[r].at)}}

\* What the phases left behind: the dry run no delegated crate that was there
\* before, the publish phase a receipt for each crate of its own.
PhasesDone(r) ==
  /\ baseline[r] \subseteq crateIndex
  /\ Passed(r, "dry_run", {"build", "publish", "observe", "done"}) \cap Delegated \cap baseline[r] = {}
  /\ Passed(r, "publish", {"observe", "done"}) \ Delegated \subseteq crateReceipts[r]
  /\ AtStep(r, {"dry_run"}, "package") => CrateOf(r) \notin Delegated \cap baseline[r]

\* What the receipts of one cut claim.
ReceiptsTrue(r) ==
  \A c \in crateReceipts[r] :
    /\ c \in crateIndex
    /\ c \notin Delegated => <<r, c>> \in silentNoOps \/ crateStore[c] = cargoCut[r].source
    /\ c \in Delegated => c \notin baseline[r]

CutInd(r) ==
  StepFits(r) /\ StepKnows(r) /\ WindowKnows(r) /\ PhasesDone(r) /\ ReceiptsTrue(r)

CargoInd ==
  /\ CargoTypeOK
  /\ StoredIsResolvable
  /\ \A r \in CargoCuts : CutInd(r)

-----------------------------------------------------------------------------
(* Sequences of crates.                                                    *)

\* A sequence with an element is not the empty one.
LEMMA LongIsNotEmpty ==
  ASSUME NEW s \in Seq(Crates), Len(s) > 0
  PROVE  s # <<>>
OBVIOUS

\* Nor is one with two the sequence of a single crate.
LEMMA LongIsNotOne ==
  ASSUME NEW s \in Seq(Crates), NEW c, Len(s) > 1
  PROVE  s # <<c>>
<1>. SUFFICES ASSUME s = <<c>> PROVE FALSE
  OBVIOUS
<1>1. DOMAIN s = 1..1 /\ DOMAIN s = 1..Len(s) /\ Len(s) \in Nat
  OBVIOUS
<1>2. 2 \in 1..Len(s) /\ 2 \notin 1..1
  BY <1>1
<1>. QED
  BY <1>1, <1>2

\* The crates of the rest of a sequence.
LEMMA HeadAndTail ==
  ASSUME NEW s \in Seq(Crates), s # <<>>
  PROVE  /\ Head(s) \in Crates /\ Tail(s) \in Seq(Crates) /\ Len(s) \in Nat \ {0}
         /\ ToSet(s) \subseteq {Head(s)} \cup ToSet(Tail(s))
         /\ Len(s) = 1 => ToSet(s) = {Head(s)}
         /\ Len(s) > 1 => Tail(s) # <<>>
<1>1. Head(s) \in Crates /\ Tail(s) \in Seq(Crates) /\ Len(s) \in Nat \ {0}
  OBVIOUS
<1>2. \A i \in DOMAIN s : s[i] \in {Head(s)} \cup ToSet(Tail(s))
  <2>. SUFFICES ASSUME NEW i \in DOMAIN s
                PROVE  s[i] \in {Head(s)} \cup ToSet(Tail(s))
    OBVIOUS
  <2>1. CASE i = 1
    BY <2>1
  <2>2. CASE i # 1
    <3>1. i - 1 \in DOMAIN Tail(s) /\ Tail(s)[i - 1] = s[i]
      BY <2>2
    <3>. QED
      BY <3>1 DEF ToSet
  <2>. QED
    BY <2>2
<1>3. Len(s) = 1 => ToSet(s) = {Head(s)}
  BY DEF ToSet
<1>4. ASSUME Len(s) > 1
      PROVE  Tail(s) # <<>>
  <2>1. Tail(s) \in Seq(Crates) /\ Len(Tail(s)) > 0
    BY <1>4
  <2>. QED
    BY <2>1, LongIsNotEmpty
<1>. QED
  BY <1>2 DEF ToSet

\* A cut is always at a crate of the plan, whose dependencies are crates.
LEMMA CutIsAtCrate ==
  ASSUME CargoTypeOK, NEW r \in CargoCuts
  PROVE  /\ CrateOf(r) \in Crates
         /\ CrateDeps[CrateOf(r)] \in Seq(Crates)
         /\ DepsOfCrate(CrateOf(r)) \subseteq Crates
<1>1. cargoCut[r].at \in DOMAIN CrateOrder
  BY DEF CargoTypeOK, CutState
<1>2. CrateOf(r) \in Crates
  BY <1>1 DEF CrateOf, Crates, ToSet
<1>3. CrateDeps[CrateOf(r)] \in Seq(Crates)
  BY <1>2, CratePlan
<1>. QED
  BY <1>2, <1>3 DEF DepsOfCrate, ToSet

-----------------------------------------------------------------------------
(* The moves of a cut.                                                     *)

\* The other cuts stay where they are.
Alone(r) == \A q \in CargoCuts \ {r} : cargoCut'[q] = cargoCut[q]

\* A step within a crate.
LEMMA Proceeds ==
  ASSUME CargoTypeOK, NEW r \in CargoCuts, NEW s \in {"package", "authenticate"}, Proceed(r, s)
  PROVE  /\ Alone(r) /\ cargoCut' \in [CargoCuts -> CutState]
         /\ cargoCut'[r] = [cargoCut[r] EXCEPT !.step = s]
<1>. USE DEF CargoTypeOK, Proceed, Alone
<1>1. cargoCut'[r] = [cargoCut[r] EXCEPT !.step = s]
  OBVIOUS
<1>2. cargoCut[r] \in CutState
  OBVIOUS
<1>3. [cargoCut[r] EXCEPT !.step = s] \in CutState
  BY <1>2 DEF CutState
<1>. QED
  BY <1>3

\* Where a cut starts.
LEMMA StartsAtFirst ==
  /\ NotStarted \in CutState
  /\ NotStarted.at = 1 /\ NotStarted.step = "enter" /\ NotStarted.phase = "none"
  /\ NotStarted.failure = "none" /\ NotStarted.source = Unstored
<1>1. 1 \in 1..Len(CrateOrder) /\ 0 \in 0..PollWindow
  BY CratePlan
<1>. QED
  BY <1>1 DEF NotStarted, CutState

\* How a cut stops.
LEMMA Stops ==
  ASSUME CargoTypeOK, NEW r \in CargoCuts, NEW f, StopWith(r, f),
         f \in {"baseline", "package", "unreachable", "mismatch", "absent", "command",
               "unverified", "killed"}
  PROVE  /\ Alone(r) /\ cargoCut' \in [CargoCuts -> CutState]
         /\ cargoCut'[r].phase = "stopped" /\ cargoCut'[r].step = "enter"
         /\ cargoCut'[r].source = cargoCut[r].source /\ cargoCut'[r].failure = f
<1>. USE DEF CargoTypeOK, StopWith, Alone
<1>1. cargoCut'[r] = [NotStarted EXCEPT !.phase = "stopped", !.source = cargoCut[r].source,
                                        !.failure = f]
  OBVIOUS
<1>2. cargoCut[r].source \in Sources \cup {Unstored}
  BY DEF CutState
<1>3. cargoCut'[r] \in CutState
  BY StartsAtFirst DEF CutState
<1>. QED
  BY <1>3, StartsAtFirst

\* A window opens for the crates left to wait for.
LEMMA OpensWindow ==
  ASSUME CargoTypeOK, NEW r \in CargoCuts, NEW s \in {"await", "upload", "confirm"},
         NEW left \in Seq(Crates), StartWindow(r, s, left)
  PROVE  /\ Alone(r) /\ cargoCut' \in [CargoCuts -> CutState]
         /\ cargoCut'[r] = [cargoCut[r] EXCEPT !.step = s, !.left = left, !.polls = 0,
                                               !.answered = FALSE]
         /\ heldAtStart' \in [CargoCuts -> BOOLEAN]
         /\ \A q \in CargoCuts \ {r} : heldAtStart'[q] = heldAtStart[q]
         /\ heldAtStart'[r] = (left # <<>> /\ Head(left) \in crateIndex)
<1>. USE DEF CargoTypeOK, StartWindow, Alone
<1>1. cargoCut'[r] = [cargoCut[r] EXCEPT !.step = s, !.left = left, !.polls = 0,
                                         !.answered = FALSE]
  OBVIOUS
<1>2. cargoCut[r] \in CutState /\ 0 \in 0..PollWindow
  BY CratePlan
<1>3. [cargoCut[r] EXCEPT !.step = s, !.left = left, !.polls = 0, !.answered = FALSE] \in CutState
  BY <1>2 DEF CutState
<1>. QED
  BY <1>3

\* The next crate of the phase, or the first of the next phase.
Advanced(r, phase, next) ==
  \/ /\ cargoCut[r].at < Len(CrateOrder)
     /\ cargoCut'[r].at = cargoCut[r].at + 1 /\ cargoCut'[r].phase = phase
  \/ /\ cargoCut[r].at = Len(CrateOrder)
     /\ cargoCut'[r].at = 1 /\ cargoCut'[r].phase = next

\* Going on to the next crate touches no other cut.
LEMMA Advances ==
  ASSUME CargoTypeOK, NEW r \in CargoCuts, NextCrate(r),
         cargoCut[r].phase \in {"dry_run", "build", "publish", "observe"}
  PROVE  /\ Alone(r) /\ cargoCut' \in [CargoCuts -> CutState]
         /\ cargoCut'[r].step = "enter" /\ cargoCut'[r].source = cargoCut[r].source
         /\ cargoCut'[r].failure = "none"
         /\ cargoCut[r].phase = "dry_run" => Advanced(r, "dry_run", "build")
         /\ cargoCut[r].phase = "build" => Advanced(r, "build", "publish")
         /\ cargoCut[r].phase = "publish" => Advanced(r, "publish", "observe")
         /\ cargoCut[r].phase = "observe" => Advanced(r, "observe", "done")
<1>. DEFINE next == IF cargoCut[r].at < Len(CrateOrder)
                   THEN AtCrate(r, cargoCut[r].phase, cargoCut[r].at + 1)
                   ELSE AtCrate(r, PhaseAfter[cargoCut[r].phase], 1)
<1>1. cargoCut[r] \in CutState /\ Len(CrateOrder) \in Nat \ {0}
  BY CratePlan DEF CargoTypeOK
<1>2. cargoCut' = [cargoCut EXCEPT ![r] = next]
  BY DEF NextCrate
<1>3. ASSUME NEW p \in {"dry_run", "build", "publish", "observe", "done"},
             NEW i \in 1..Len(CrateOrder)
      PROVE  /\ AtCrate(r, p, i) \in CutState
             /\ AtCrate(r, p, i).phase = p /\ AtCrate(r, p, i).at = i
             /\ AtCrate(r, p, i).step = "enter" /\ AtCrate(r, p, i).failure = "none"
             /\ AtCrate(r, p, i).source = cargoCut[r].source
  BY <1>1, StartsAtFirst DEF CutState, AtCrate
<1>4. CASE cargoCut[r].at < Len(CrateOrder)
  <2>1. cargoCut[r].at + 1 \in 1..Len(CrateOrder) /\ next = AtCrate(r, cargoCut[r].phase, cargoCut[r].at + 1)
    BY <1>1, <1>4 DEF CutState
  <2>. QED
    BY <1>2, <1>3, <1>4, <2>1 DEF CargoTypeOK, Alone, Advanced
<1>5. CASE cargoCut[r].at = Len(CrateOrder)
  <2>1. 1 \in 1..Len(CrateOrder) /\ next = AtCrate(r, PhaseAfter[cargoCut[r].phase], 1)
    BY <1>1, <1>5
  <2>2. PhaseAfter[cargoCut[r].phase] \in {"build", "publish", "observe", "done"}
    BY DEF PhaseAfter
  <2>. QED
    BY <1>2, <1>3, <1>5, <2>1 DEF CargoTypeOK, Alone, Advanced, PhaseAfter
<1>. QED
  BY <1>1, <1>4, <1>5 DEF CutState

-----------------------------------------------------------------------------
(* What the others do to a cut.                                            *)

\* The registry only grows: a stored version keeps its bytes, the index forgets
\* none.
RegistryGrows ==
  /\ crateStore' \in [Crates -> Sources \cup {Stranger, Unstored}]
  /\ \A c \in Crates : crateStore[c] # Unstored => crateStore'[c] = crateStore[c]
  /\ crateIndex \subseteq crateIndex'
  /\ silentNoOps \subseteq silentNoOps'

\* So the receipts of a cut stay true.
LEMMA ReceiptsStay ==
  ASSUME CargoTypeOK, NEW r \in CargoCuts, CutInd(r), RegistryGrows,
         crateReceipts'[r] = crateReceipts[r], baseline'[r] = baseline[r],
         cargoCut'[r].source = cargoCut[r].source
  PROVE  ReceiptsTrue(r)'
<1>1. crateReceipts[r] \subseteq Crates
  BY DEF CargoTypeOK
<1>2. crateReceipts[r] # {} => cargoCut[r].source # Unstored
  BY CratePlan DEF CutInd, StepFits
<1>. QED
  BY <1>1, <1>2 DEF CutInd, ReceiptsTrue, RegistryGrows

\* A cut that stands still is untouched by all the others do.
LEMMA RestingCutKeeps ==
  ASSUME CargoTypeOK, NEW q \in CargoCuts, CutInd(q), RegistryGrows,
         cargoCut'[q] = cargoCut[q], crateReceipts'[q] = crateReceipts[q],
         baseline'[q] = baseline[q], heldAtStart'[q] = heldAtStart[q]
  PROVE  CutInd(q)'
<1>. USE DEF CutInd, RegistryGrows
<1>1. StepFits(q)'
  BY DEF StepFits
<1>2. CrateOf(q)' = CrateOf(q)
  BY DEF CrateOf
<1>3. cargoCut[q].phase # "none" => cargoCut[q].source # Unstored
  BY CratePlan DEF StepFits
<1>4. \A c \in Crates : cargoCut[q].phase # "none" /\ crateStore[c] = cargoCut[q].source
                       => crateStore'[c] = cargoCut[q].source
  BY <1>3
<1>5. StepKnows(q)'
  <2>1. cargoCut[q].step = "confirm" => cargoCut[q].phase # "none"
    BY DEF StepFits
  <2>. QED
    BY <1>2, <1>4, <2>1, CutIsAtCrate DEF StepKnows
<1>6. WindowKnows(q)'
  BY DEF WindowKnows
<1>7. PhasesDone(q)'
  BY <1>2 DEF PhasesDone, Passed, AtStep
<1>8. ReceiptsTrue(q)'
  BY ReceiptsStay
<1>. QED
  BY <1>1, <1>5, <1>6, <1>7, <1>8
\* A move of one cut that writes only its own part of the ledgers.
OwnMove(r) ==
  /\ Alone(r) /\ cargoCut' \in [CargoCuts -> CutState]
  /\ crateReceipts' \in [CargoCuts -> SUBSET Crates]
  /\ heldAtStart' \in [CargoCuts -> BOOLEAN]
  /\ baseline' \in [CargoCuts -> SUBSET Crates]
  /\ \A q \in CargoCuts \ {r} : /\ crateReceipts'[q] = crateReceipts[q]
                               /\ heldAtStart'[q] = heldAtStart[q]
                               /\ baseline'[q] = baseline[q]

\* What the registry does: it takes an upload or shows one, and is reached or not.
RegistryStep ==
  /\ RegistryGrows /\ StoredIsResolvable'
  /\ crateIndex' \subseteq {c \in Crates : crateStore'[c] # Unstored}
  /\ registryUp' \in BOOLEAN
  /\ silentNoOps' \subseteq CargoCuts \X Crates

\* A registry that is left alone makes such a step.
LEMMA RegistryRests ==
  ASSUME CargoInd, RegistryUnchanged, UNCHANGED silentNoOps
  PROVE  RegistryStep
BY DEF CargoInd, CargoTypeOK, StoredIsResolvable, RegistryStep, RegistryGrows,
   RegistryUnchanged

\* So does one that takes an upload.
LEMMA RegistryStores ==
  ASSUME CargoInd, NEW c \in Crates, NEW bytes \in Sources \cup {Stranger},
         RegistryTakes(c), Stores(c, bytes), UNCHANGED <<crateIndex, registryUp, silentNoOps>>
  PROVE  RegistryStep
<1>1. crateStore' = [crateStore EXCEPT ![c] = bytes] /\ crateStore[c] = Unstored
  BY DEF Stores, RegistryTakes
<1>2. bytes # Unstored
  BY CratePlan
<1>. QED
  BY <1>1 DEF CargoInd, CargoTypeOK, StoredIsResolvable, RegistryStep, RegistryGrows,
     RegistryTakes

\* A move of one cut has only its own cut to answer for.
LEMMA MoveKeeps ==
  ASSUME CargoInd, NEW r \in CargoCuts, OwnMove(r), RegistryStep, CutInd(r)'
  PROVE  CargoInd'
<1>1. CargoTypeOK'
  BY DEF CargoTypeOK, OwnMove, RegistryStep, RegistryGrows
<1>2. \A q \in CargoCuts \ {r} : CutInd(q)'
  BY RestingCutKeeps DEF CargoInd, OwnMove, Alone, RegistryStep
<1>. QED
  BY <1>1, <1>2 DEF CargoInd, RegistryStep

\* A cut that stops claims no more than it did, and no absence it guessed.
LEMMA StopKeeps ==
  ASSUME CargoInd, NEW r \in CargoCuts, NEW f, StopWith(r, f),
         f \in {"baseline", "package", "unreachable", "mismatch", "absent", "command",
               "unverified", "killed"},
         f = "absent" => ~ heldAtStart[r],
         cargoCut[r].phase # "none",
         RegistryStep, UNCHANGED <<crateReceipts, baseline, heldAtStart>>
  PROVE  CargoInd'
<1>1. /\ Alone(r) /\ cargoCut' \in [CargoCuts -> CutState]
      /\ cargoCut'[r].phase = "stopped" /\ cargoCut'[r].step = "enter"
      /\ cargoCut'[r].source = cargoCut[r].source /\ cargoCut'[r].failure = f
  BY Stops DEF CargoInd
<1>2. OwnMove(r)
  BY <1>1 DEF OwnMove, CargoInd, CargoTypeOK
<1>3. CargoTypeOK /\ CutInd(r) /\ RegistryGrows
  BY DEF CargoInd, RegistryStep
<1>4. StepFits(r)'
  BY <1>1, <1>3 DEF CutInd, StepFits
<1>5. StepKnows(r)'
  BY <1>1 DEF StepKnows
<1>6. WindowKnows(r)'
  BY <1>1 DEF WindowKnows
<1>7. PhasesDone(r)'
  BY <1>1, <1>3 DEF CutInd, PhasesDone, Passed, AtStep, RegistryGrows
<1>8. ReceiptsTrue(r)'
  BY <1>1, <1>3, ReceiptsStay
<1>. QED
  BY <1>2, <1>4, <1>5, <1>6, <1>7, <1>8, MoveKeeps DEF CutInd

\* A cut that starts to package, or has packaged.
LEMMA ProceedKeeps ==
  ASSUME CargoInd, NEW r \in CargoCuts, NEW s \in {"package", "authenticate"}, Proceed(r, s),
         cargoCut[r].phase \in (IF s = "package" THEN {"dry_run", "build", "publish"}
                                ELSE {"publish"}),
         DepsOfCrate(CrateOf(r)) \subseteq crateIndex,
         cargoCut[r].phase = "dry_run" => CrateOf(r) \notin Delegated \cap baseline[r],
         cargoCut[r].phase = "publish" => CrateOf(r) \in crateIndex \ Delegated,
         RegistryUnchanged, LedgersUnchanged
  PROVE  CargoInd'
<1>1. /\ Alone(r) /\ cargoCut' \in [CargoCuts -> CutState]
      /\ cargoCut'[r] = [cargoCut[r] EXCEPT !.step = s]
  BY Proceeds DEF CargoInd
<1>2. /\ cargoCut'[r].phase = cargoCut[r].phase /\ cargoCut'[r].at = cargoCut[r].at
      /\ cargoCut'[r].source = cargoCut[r].source /\ cargoCut'[r].failure = cargoCut[r].failure
      /\ cargoCut'[r].step = s
  BY <1>1 DEF CargoInd
<1>3. OwnMove(r)
  BY <1>1 DEF OwnMove, CargoInd, CargoTypeOK, LedgersUnchanged
<1>4. CargoTypeOK /\ CutInd(r) /\ CrateOf(r)' = CrateOf(r)
  BY <1>2 DEF CargoInd, CrateOf
<1>5. RegistryStep /\ RegistryGrows
  BY RegistryRests DEF LedgersUnchanged, RegistryStep
<1>6. StepFits(r)'
  BY <1>2, <1>4 DEF CutInd, StepFits
<1>7. StepKnows(r)'
  BY <1>2, <1>4 DEF StepKnows, RegistryUnchanged
<1>8. WindowKnows(r)'
  BY <1>2, <1>4 DEF CutInd, WindowKnows, LedgersUnchanged
<1>9. PhasesDone(r)'
  BY <1>2, <1>4 DEF CutInd, PhasesDone, Passed, AtStep, RegistryUnchanged,
     LedgersUnchanged
<1>10. ReceiptsTrue(r)'
  BY <1>2, <1>4, <1>5, ReceiptsStay DEF LedgersUnchanged
<1>. QED
  BY <1>3, <1>5, <1>6, <1>7, <1>8, <1>9, <1>10, MoveKeeps DEF CutInd

\* A cut that opens a window, or is past the last one.
LEMMA WindowKeeps ==
  ASSUME CargoInd, NEW r \in CargoCuts, NEW s \in {"await", "upload", "confirm"},
         NEW left \in Seq(Crates), StartWindow(r, s, left),
         cargoCut[r].phase = "publish", CrateOf(r) \notin Delegated,
         s = "await" => left # <<>> /\ DepsOfCrate(CrateOf(r)) \subseteq crateIndex \cup ToSet(left),
         s = "upload" => DepsOfCrate(CrateOf(r)) \subseteq crateIndex,
         s = "confirm" => /\ left = <<CrateOf(r)>>
                          /\ \/ <<r, CrateOf(r)>> \in silentNoOps'
                             \/ crateStore'[CrateOf(r)] = cargoCut[r].source,
         RegistryStep, UNCHANGED <<crateReceipts, baseline>>
  PROVE  CargoInd'
<1>1. /\ Alone(r) /\ cargoCut' \in [CargoCuts -> CutState]
      /\ cargoCut'[r] = [cargoCut[r] EXCEPT !.step = s, !.left = left, !.polls = 0,
                                            !.answered = FALSE]
      /\ heldAtStart' \in [CargoCuts -> BOOLEAN]
      /\ \A q \in CargoCuts \ {r} : heldAtStart'[q] = heldAtStart[q]
      /\ heldAtStart'[r] = (left # <<>> /\ Head(left) \in crateIndex)
  BY OpensWindow DEF CargoInd
<1>2. /\ cargoCut'[r].phase = "publish" /\ cargoCut'[r].at = cargoCut[r].at
      /\ cargoCut'[r].source = cargoCut[r].source /\ cargoCut'[r].failure = cargoCut[r].failure
      /\ cargoCut'[r].step = s /\ cargoCut'[r].left = left /\ cargoCut'[r].answered = FALSE
  BY <1>1 DEF CargoInd
<1>3. OwnMove(r)
  BY <1>1 DEF OwnMove, CargoInd, CargoTypeOK
<1>4. CargoTypeOK /\ CutInd(r) /\ RegistryGrows /\ CrateOf(r)' = CrateOf(r)
  BY <1>2 DEF CargoInd, CrateOf, RegistryStep
<1>5. StepFits(r)'
  BY <1>2, <1>4 DEF CutInd, StepFits
<1>6. StepKnows(r)'
  BY <1>2, <1>4 DEF StepKnows, RegistryGrows
<1>7. WindowKnows(r)'
  <2>1. cargoCut'[r].failure = "none"
    BY <1>2, <1>4 DEF CutInd, StepFits
  <2>. QED
    BY <1>1, <1>4, <2>1 DEF WindowKnows, RegistryGrows
<1>8. PhasesDone(r)'
  BY <1>2, <1>4 DEF CutInd, PhasesDone, Passed, RegistryGrows
<1>9. ReceiptsTrue(r)'
  BY <1>2, <1>4, ReceiptsStay
<1>. QED
  BY <1>3, <1>5, <1>6, <1>7, <1>8, <1>9, MoveKeeps DEF CutInd

\* What a cut has passed when it goes on to the next crate.
LEMMA PassesCrate ==
  ASSUME CargoTypeOK, NEW r \in CargoCuts, NextCrate(r),
         cargoCut[r].phase \in {"dry_run", "build", "publish", "observe"},
         NEW dry, dry = {"build", "publish", "observe", "done"},
         NEW pub, pub = {"observe", "done"}
  PROVE  /\ Passed(r, "dry_run", dry)' \subseteq
              Passed(r, "dry_run", dry) \cup (IF cargoCut[r].phase = "dry_run" THEN {CrateOf(r)} ELSE {})
         /\ Passed(r, "publish", pub)' \subseteq
              Passed(r, "publish", pub) \cup (IF cargoCut[r].phase = "publish" THEN {CrateOf(r)} ELSE {})
<1>1. /\ cargoCut[r].at \in DOMAIN CrateOrder /\ Len(CrateOrder) \in Nat
      /\ DOMAIN CrateOrder = 1..Len(CrateOrder)
  BY DEF CargoTypeOK, CutState
<1>2. CASE cargoCut[r].phase = "dry_run"
  BY <1>1, Advances DEF Advanced, Passed, CrateOf
<1>3. CASE cargoCut[r].phase = "build"
  BY <1>3, Advances DEF Advanced, Passed
<1>4. CASE cargoCut[r].phase = "publish"
  BY <1>1, Advances DEF Advanced, Passed, CrateOf
<1>5. CASE cargoCut[r].phase = "observe"
  BY <1>5 DEF Passed
<1>. QED
  BY <1>2, <1>3, <1>4, <1>5

\* A cut goes on once its crate is settled in the phase it is in.
LEMMA NextKeeps ==
  ASSUME CargoInd, NEW r \in CargoCuts, NextCrate(r),
         cargoCut[r].phase \in {"dry_run", "build", "publish", "observe"},
         cargoCut[r].phase = "dry_run" => CrateOf(r) \notin Delegated \cap baseline[r],
         cargoCut[r].phase = "publish" => CrateOf(r) \in Delegated \cup crateReceipts'[r],
         crateReceipts' \in [CargoCuts -> SUBSET Crates],
         heldAtStart' \in [CargoCuts -> BOOLEAN],
         \A q \in CargoCuts \ {r} : /\ crateReceipts'[q] = crateReceipts[q]
                                 /\ heldAtStart'[q] = heldAtStart[q],
         crateReceipts[r] \subseteq crateReceipts'[r],
         \A c \in crateReceipts'[r] \ crateReceipts[r] :
            /\ c \in crateIndex
            /\ c \notin Delegated => <<r, c>> \in silentNoOps \/ crateStore[c] = cargoCut[r].source
            /\ c \in Delegated => c \notin baseline[r],
         RegistryUnchanged, UNCHANGED <<baseline, silentNoOps>>
  PROVE  CargoInd'
<1>1. /\ Alone(r) /\ cargoCut' \in [CargoCuts -> CutState]
      /\ cargoCut'[r].step = "enter" /\ cargoCut'[r].source = cargoCut[r].source
      /\ cargoCut'[r].failure = "none"
      /\ cargoCut'[r].phase \in {"dry_run", "build", "publish", "observe", "done"}
  BY Advances DEF CargoInd, Advanced
<1>2. OwnMove(r)
  BY <1>1 DEF OwnMove, CargoInd, CargoTypeOK
<1>3. CutInd(r)
  BY DEF CargoInd
<1>4. StepFits(r)'
  BY <1>1, <1>3 DEF CutInd, StepFits
<1>5. StepKnows(r)'
  BY <1>1 DEF StepKnows
<1>6. WindowKnows(r)'
  BY <1>1 DEF WindowKnows
<1>7. PhasesDone(r)'
  <2>. DEFINE dry == {"build", "publish", "observe", "done"}
              pub == {"observe", "done"}
              settled(phase) == IF cargoCut[r].phase = phase THEN {CrateOf(r)} ELSE {}
  <2>1. /\ Passed(r, "dry_run", dry)' \subseteq Passed(r, "dry_run", dry) \cup settled("dry_run")
        /\ Passed(r, "publish", pub)' \subseteq Passed(r, "publish", pub) \cup settled("publish")
    BY PassesCrate DEF CargoInd
  <2>2. /\ baseline[r] \subseteq crateIndex
        /\ Passed(r, "dry_run", dry) \cap Delegated \cap baseline[r] = {}
        /\ Passed(r, "publish", pub) \ Delegated \subseteq crateReceipts[r]
    BY <1>3 DEF CutInd, PhasesDone
  <2>3. settled("dry_run") \cap Delegated \cap baseline[r] = {}
    OBVIOUS
  <2>4. settled("publish") \ Delegated \subseteq crateReceipts'[r]
    OBVIOUS
  <2>. HIDE DEF settled
  <2>5. /\ baseline'[r] \subseteq crateIndex'
        /\ Passed(r, "dry_run", dry)' \cap Delegated \cap baseline'[r] = {}
        /\ Passed(r, "publish", pub)' \ Delegated \subseteq crateReceipts'[r]
    BY <2>1, <2>2, <2>3, <2>4 DEF RegistryUnchanged
  <2>. QED
    BY <1>1, <2>5 DEF PhasesDone, AtStep
<1>8. ReceiptsTrue(r)'
  BY <1>1, <1>3 DEF CutInd, ReceiptsTrue, RegistryUnchanged
<1>. QED
  BY <1>2, <1>4, <1>5, <1>6, <1>7, <1>8, RegistryRests, MoveKeeps DEF CutInd

-----------------------------------------------------------------------------
(* The steps.                                                              *)

\* What holds of a cut at a step of the adapter.
LEMMA AtItsCrate ==
  ASSUME CargoInd, NEW r \in CargoCuts
  PROVE  /\ CargoTypeOK /\ CutInd(r) /\ CrateOf(r) \in Crates
         /\ CrateDeps[CrateOf(r)] \in Seq(Crates)
BY CutIsAtCrate DEF CargoInd

\* A cut begins with its commit's bytes and the index as it is.
LEMMA StartCutKeeps ==
  ASSUME CargoInd, NEW r \in CargoCuts, StartCut(r)
  PROVE  CargoInd'
<1>1. PICK s \in Sources : cargoCut' = [cargoCut EXCEPT ![r].phase = "dry_run", ![r].source = s]
  BY DEF StartCut
<1>2. CargoTypeOK /\ CutInd(r) /\ cargoCut[r].phase = "none" /\ cargoCut[r] \in CutState
  BY DEF CargoInd, CargoTypeOK, StartCut
<1>3. cargoCut'[r] = [cargoCut[r] EXCEPT !.phase = "dry_run", !.source = s]
  BY <1>1, <1>2 DEF CargoTypeOK
<1>4. [cargoCut[r] EXCEPT !.phase = "dry_run", !.source = s] \in CutState
  BY <1>2 DEF CutState
<1>5. /\ cargoCut'[r].phase = "dry_run" /\ cargoCut'[r].source = s
      /\ cargoCut'[r].at = cargoCut[r].at /\ cargoCut'[r].step = cargoCut[r].step
      /\ cargoCut'[r].failure = cargoCut[r].failure
  BY <1>3
<1>6. OwnMove(r)
  BY <1>3, <1>4 DEF OwnMove, Alone, StartCut, CargoInd, CargoTypeOK
<1>7. RegistryStep /\ RegistryGrows
  BY RegistryRests DEF StartCut, RegistryStep
<1>8. StepFits(r)'
  BY <1>2, <1>5 DEF CutInd, StepFits
<1>9. StepKnows(r)'
  BY <1>2, <1>5 DEF CutInd, StepFits, StepKnows
<1>10. WindowKnows(r)'
  BY <1>2, <1>5 DEF CutInd, StepFits, WindowKnows
<1>11. PhasesDone(r)'
  <2>1. baseline'[r] = crateIndex /\ crateIndex' = crateIndex /\ cargoCut'[r].at = 1
    BY <1>2 DEF StartCut, RegistryUnchanged, CargoTypeOK, CutInd, StepFits
  <2>2. DOMAIN CrateOrder \subseteq Nat \ {0} /\ cargoCut'[r].step # "package"
    BY <1>2, <1>5, CratePlan DEF CutInd, StepFits
  <2>. QED
    BY <1>5, <2>1, <2>2 DEF PhasesDone, Passed, AtStep
<1>12. ReceiptsTrue(r)'
  BY <1>2 DEF CutInd, StepFits, ReceiptsTrue, StartCut
<1>. QED
  BY <1>6, <1>7, <1>8, <1>9, <1>10, <1>11, <1>12, MoveKeeps DEF CutInd

\* The gate: a delegated crate that goes on was seen to be absent, and a crate is
\* packaged only when its dependencies were seen to be there.
LEMMA EnterGateKeeps ==
  ASSUME CargoInd, NEW r \in CargoCuts, EnterGate(r)
  PROVE  CargoInd'
<1>. DEFINE c == CrateOf(r)
<1>1. /\ CargoTypeOK /\ CutInd(r) /\ c \in Crates
      /\ cargoCut[r].phase \in {"dry_run", "build"} /\ cargoCut[r].step = "enter"
      /\ RegistryUnchanged /\ LedgersUnchanged /\ RegistryStep
  BY AtItsCrate, RegistryRests DEF EnterGate, AtStep, LedgersUnchanged
<1>2. CASE cargoCut[r].phase = "dry_run" /\ BaselineRefuses(c)
  BY <1>1, <1>2, StopKeeps DEF EnterGate, LedgersUnchanged
<1>3. CASE ~ (cargoCut[r].phase = "dry_run" /\ BaselineRefuses(c))
  <2>1. cargoCut[r].phase = "dry_run" => c \notin Delegated \cap baseline[r]
    BY <1>1, <1>3 DEF BaselineRefuses, IsPublished, CutInd, PhasesDone
  <2>2. CASE DefersPackaging(c)
    <3>1. NextCrate(r)
      BY <1>3, <2>2 DEF EnterGate
    <3>. QED
      BY <1>1, <2>1, <3>1, NextKeeps DEF LedgersUnchanged, CargoTypeOK
  <2>3. CASE ~ DefersPackaging(c)
    <3>1. Proceed(r, "package")
      BY <1>3, <2>3 DEF EnterGate
    <3>2. DepsOfCrate(c) \subseteq crateIndex
      BY <2>3 DEF DefersPackaging, IsPublished
    <3>. QED
      BY <1>1, <2>1, <3>1, <3>2, ProceedKeeps
  <2>. QED
    BY <2>2, <2>3
<1>. QED
  BY <1>2, <1>3

\* `cargo package' passes or stops the cut.
LEMMA PackageGateKeeps ==
  ASSUME CargoInd, NEW r \in CargoCuts, PackageGate(r)
  PROVE  CargoInd'
<1>1. /\ CargoTypeOK /\ CutInd(r)
      /\ cargoCut[r].phase \in {"dry_run", "build"} /\ cargoCut[r].step = "package"
      /\ RegistryUnchanged /\ LedgersUnchanged /\ RegistryStep
  BY AtItsCrate, RegistryRests DEF PackageGate, AtStep, LedgersUnchanged
<1>2. CASE NextCrate(r)
  <2>1. cargoCut[r].phase = "dry_run" => CrateOf(r) \notin Delegated \cap baseline[r]
    BY <1>1 DEF CutInd, PhasesDone, AtStep
  <2>. QED
    BY <1>1, <1>2, <2>1, NextKeeps DEF LedgersUnchanged, CargoTypeOK
<1>3. CASE StopWith(r, "package")
  BY <1>1, <1>3, StopKeeps DEF LedgersUnchanged
<1>. QED
  BY <1>2, <1>3 DEF PackageGate

\* The publish phase passes over a delegated crate.
LEMMA SkipDelegatedKeeps ==
  ASSUME CargoInd, NEW r \in CargoCuts, SkipDelegated(r)
  PROVE  CargoInd'
<1>1. /\ CargoTypeOK /\ NextCrate(r) /\ cargoCut[r].phase = "publish" /\ CrateOf(r) \in Delegated
      /\ RegistryUnchanged /\ LedgersUnchanged
  BY AtItsCrate DEF SkipDelegated, AtStep
<1>. QED
  BY <1>1, NextKeeps DEF LedgersUnchanged, CargoTypeOK

\* The probe: a crate that is there has its dependencies there, too.
LEMMA ProbeRegistryKeeps ==
  ASSUME CargoInd, NEW r \in CargoCuts, ProbeRegistry(r)
  PROVE  CargoInd'
<1>. DEFINE c == CrateOf(r)
<1>1. /\ CargoTypeOK /\ c \in Crates \ Delegated /\ CrateDeps[c] \in Seq(Crates)
      /\ cargoCut[r].phase = "publish" /\ RegistryUnchanged /\ RegistryStep
      /\ UNCHANGED <<crateReceipts, baseline, silentNoOps>>
  BY AtItsCrate, RegistryRests DEF ProbeRegistry, AtStep
<1>2. CASE StopWith(r, "unreachable") /\ UNCHANGED heldAtStart
  BY <1>1, <1>2, StopKeeps
<1>3. CASE IsPublished(c) = "yes" /\ Proceed(r, "package") /\ UNCHANGED heldAtStart
  <2>1. c \in crateIndex
    BY <1>3 DEF IsPublished
  <2>2. DepsOfCrate(c) \subseteq crateIndex
    BY <2>1 DEF CargoInd, CargoTypeOK, StoredIsResolvable
  <2>. QED
    BY <1>1, <1>3, <2>1, <2>2, ProceedKeeps DEF LedgersUnchanged
<1>4. CASE StartWindow(r, IF CrateDeps[c] = <<>> THEN "upload" ELSE "await", CrateDeps[c])
  <2>1. CASE CrateDeps[c] = <<>>
    <3>1. DepsOfCrate(c) = {}
      BY <2>1 DEF DepsOfCrate, ToSet
    <3>. QED
      BY <1>1, <1>4, <3>1, WindowKeeps
  <2>2. CASE CrateDeps[c] # <<>>
    BY <1>1, <1>4, <2>2, WindowKeeps DEF DepsOfCrate
  <2>. QED
    BY <2>1, <2>2
<1>. QED
  BY <1>2, <1>3, <1>4 DEF ProbeRegistry
\* The crate that is there is packaged again, for its digest.
LEMMA PackageSkipKeeps ==
  ASSUME CargoInd, NEW r \in CargoCuts, PackageSkip(r)
  PROVE  CargoInd'
<1>1. /\ CutInd(r) /\ cargoCut[r].phase = "publish" /\ cargoCut[r].step = "package"
      /\ RegistryUnchanged /\ LedgersUnchanged /\ RegistryStep
  BY AtItsCrate, RegistryRests DEF PackageSkip, AtStep, LedgersUnchanged
<1>2. CASE Proceed(r, "authenticate")
  <2>1. DepsOfCrate(CrateOf(r)) \subseteq crateIndex /\ CrateOf(r) \in crateIndex \ Delegated
    BY <1>1 DEF CutInd, StepKnows
  <2>. QED
    BY <1>1, <1>2, <2>1, ProceedKeeps
<1>3. CASE StopWith(r, "package")
  BY <1>1, <1>3, StopKeeps DEF LedgersUnchanged
<1>. QED
  BY <1>2, <1>3 DEF PackageSkip

\* The receipts of a cut after it got one for the crate it is at.
LEMMA ReceiptAdded ==
  ASSUME CargoTypeOK, NEW r \in CargoCuts,
         crateReceipts' = [crateReceipts EXCEPT ![r] = @ \cup {CrateOf(r)}]
  PROVE  /\ crateReceipts' \in [CargoCuts -> SUBSET Crates]
         /\ crateReceipts'[r] = crateReceipts[r] \cup {CrateOf(r)}
         /\ \A q \in CargoCuts \ {r} : crateReceipts'[q] = crateReceipts[q]
BY CutIsAtCrate DEF CargoTypeOK

\* A version that is there is receipted for its bytes alone.
LEMMA AuthenticateKeeps ==
  ASSUME CargoInd, NEW r \in CargoCuts, Authenticate(r)
  PROVE  CargoInd'
<1>1. /\ CargoTypeOK /\ CutInd(r) /\ cargoCut[r].phase = "publish"
      /\ cargoCut[r].step = "authenticate" /\ RegistryUnchanged /\ RegistryStep
      /\ UNCHANGED <<baseline, heldAtStart, silentNoOps>>
  BY AtItsCrate, RegistryRests DEF Authenticate, AtStep
<1>2. CASE (StopWith(r, "unreachable") \/ StopWith(r, "mismatch")) /\ UNCHANGED crateReceipts
  BY <1>1, <1>2, StopKeeps
<1>3. CASE /\ Authentic(r) /\ NextCrate(r)
           /\ crateReceipts' = [crateReceipts EXCEPT ![r] = @ \cup {CrateOf(r)}]
  <2>1. CrateOf(r) \in crateIndex \ Delegated
    BY <1>1 DEF CutInd, StepKnows
  <2>2. crateStore[CrateOf(r)] = cargoCut[r].source
    BY <1>3 DEF Authentic
  <2>. QED
    BY <1>1, <1>3, <2>1, <2>2, NextKeeps DEF CargoTypeOK
<1>. QED
  BY <1>2, <1>3 DEF Authenticate

\* One turn of the index wait.  While the window's crate was visible from its
\* start, a turn that does not find it got no answer.
LEMMA PollKeeps ==
  ASSUME CargoInd, NEW r \in CargoCuts, Poll(r)
  PROVE  CargoInd'
<1>. DEFINE cut == cargoCut[r]
            found == registryUp /\ Head(cut.left) \in crateIndex
            answered == cut.answered \/ registryUp
<1>1. /\ CargoTypeOK /\ CutInd(r) /\ cut.phase = "publish" /\ cut.step \in {"await", "confirm"}
      /\ RegistryUnchanged /\ RegistryStep /\ UNCHANGED <<baseline, silentNoOps>>
      /\ CrateOf(r) \in Crates \ Delegated
  BY AtItsCrate, RegistryRests DEF Poll, AtStep, CutInd, StepKnows
<1>2. cut \in CutState /\ cut.left \in Seq(Crates) /\ cut.left # <<>>
  <2>1. cut \in CutState /\ cut.left \in Seq(Crates)
    BY <1>1 DEF CargoTypeOK, CutState
  <2>2. cut.left # <<>> \/ (cut.left = <<CrateOf(r)>> /\ Len(<<CrateOf(r)>>) > 0)
    BY <1>1 DEF CutInd, StepKnows
  <2>. QED
    BY <2>1, <2>2
<1>3. CASE found /\ Len(cut.left) > 1 /\ StartWindow(r, "await", Tail(cut.left)) /\ UNCHANGED crateReceipts
  <2>1. cut.step = "await"
    <3>1. cut.step # "confirm" \/ cut.left = <<CrateOf(r)>>
      BY <1>1 DEF CutInd, StepKnows
    <3>. QED
      BY <1>1, <1>2, <1>3, <3>1, LongIsNotOne
  <2>2. /\ Tail(cut.left) \in Seq(Crates) /\ Tail(cut.left) # <<>>
        /\ ToSet(cut.left) \subseteq {Head(cut.left)} \cup ToSet(Tail(cut.left))
    BY <1>2, <1>3, HeadAndTail
  <2>3. DepsOfCrate(CrateOf(r)) \subseteq crateIndex \cup ToSet(Tail(cut.left))
    BY <1>1, <1>3, <2>1, <2>2 DEF CutInd, StepKnows
  <2>. QED
    BY <1>1, <1>3, <2>2, <2>3, WindowKeeps
<1>4. CASE /\ found /\ Len(cut.left) = 1 /\ cut.step = "await"
           /\ StartWindow(r, "upload", <<>>) /\ UNCHANGED crateReceipts
  <2>1. ToSet(cut.left) = {Head(cut.left)}
    BY <1>2, <1>4, HeadAndTail
  <2>2. DepsOfCrate(CrateOf(r)) \subseteq crateIndex
    BY <1>1, <1>4, <2>1 DEF CutInd, StepKnows
  <2>3. <<>> \in Seq(Crates)
    OBVIOUS
  <2>. QED
    BY <1>1, <1>4, <2>2, <2>3, WindowKeeps
<1>5. CASE /\ found /\ cut.step = "confirm" /\ NextCrate(r)
           /\ crateReceipts' = [crateReceipts EXCEPT ![r] = @ \cup {CrateOf(r)}]
           /\ heldAtStart' = [heldAtStart EXCEPT ![r] = FALSE]
  <2>1. CrateOf(r) \in crateIndex
    BY <1>1, <1>5 DEF CutInd, StepKnows
  <2>2. <<r, CrateOf(r)>> \in silentNoOps \/ crateStore[CrateOf(r)] = cut.source
    BY <1>1, <1>5 DEF CutInd, StepKnows
  <2>3. /\ heldAtStart' \in [CargoCuts -> BOOLEAN]
        /\ \A q \in CargoCuts \ {r} : heldAtStart'[q] = heldAtStart[q]
    BY <1>1, <1>5 DEF CargoTypeOK
  <2>. QED
    BY <1>1, <1>5, <2>1, <2>2, <2>3, ReceiptAdded, NextKeeps
<1>6. CASE /\ ~ found /\ cut.polls < PollWindow
           /\ cargoCut' = [cargoCut EXCEPT ![r].polls = Waited(@), ![r].answered = answered]
           /\ UNCHANGED <<crateReceipts, heldAtStart>>
  <2>1. cargoCut'[r] = [cut EXCEPT !.polls = cut.polls + 1, !.answered = answered]
    BY <1>1, <1>6 DEF CargoTypeOK, Waited
  <2>2. answered \in BOOLEAN /\ cut.polls + 1 \in 0..PollWindow
    BY <1>1, <1>2, <1>6, CratePlan DEF CutState, CargoTypeOK
  <2>3. [cut EXCEPT !.polls = cut.polls + 1, !.answered = answered] \in CutState
    BY <1>2, <2>2 DEF CutState
  <2>4. /\ cargoCut'[r].phase = cut.phase /\ cargoCut'[r].at = cut.at
        /\ cargoCut'[r].step = cut.step /\ cargoCut'[r].source = cut.source
        /\ cargoCut'[r].left = cut.left /\ cargoCut'[r].failure = cut.failure
        /\ cargoCut'[r].answered = answered
    BY <2>1
  <2>5. OwnMove(r)
    BY <1>1, <1>6, <2>1, <2>3 DEF OwnMove, Alone, CargoTypeOK
  <2>6. CrateOf(r)' = CrateOf(r) /\ RegistryGrows
    BY <1>1, <2>4 DEF CrateOf, RegistryStep
  <2>7. StepFits(r)'
    BY <1>1, <2>4 DEF CutInd, StepFits
  <2>8. StepKnows(r)'
    BY <1>1, <2>4, <2>6 DEF CutInd, StepKnows, RegistryUnchanged
  <2>9. WindowKnows(r)'
    <3>1. heldAtStart[r] => ~ answered /\ Head(cut.left) \in crateIndex
      BY <1>1, <1>6 DEF CutInd, WindowKnows
    <3>2. cut.failure = "absent" => ~ heldAtStart[r]
      BY <1>1 DEF CutInd, WindowKnows
    <3>3. heldAtStart'[r] = heldAtStart[r] /\ crateIndex' = crateIndex
      BY <1>1, <1>6 DEF RegistryUnchanged
    <3>. QED
      BY <2>4, <3>1, <3>2, <3>3 DEF WindowKnows
  <2>10. PhasesDone(r)'
    BY <1>1, <1>6, <2>4 DEF CutInd, PhasesDone, Passed, AtStep, RegistryUnchanged
  <2>11. ReceiptsTrue(r)'
    BY <1>1, <1>6, <2>4, <2>6, ReceiptsStay
  <2>. QED
    BY <1>1, <2>5, <2>7, <2>8, <2>9, <2>10, <2>11, MoveKeeps DEF CutInd
<1>7. CASE ~ found /\ StopWith(r, WindowVerdict(answered)) /\ UNCHANGED <<crateReceipts, heldAtStart>>
  <2>1. WindowVerdict(answered) = "absent" => ~ heldAtStart[r]
    BY <1>1, <1>7 DEF CutInd, WindowKnows, WindowVerdict
  <2>2. WindowVerdict(answered) \in {"absent", "unreachable"}
    BY DEF WindowVerdict
  <2>. QED
    BY <1>1, <1>7, <2>1, <2>2, StopKeeps
<1>. QED
  BY <1>3, <1>4, <1>5, <1>6, <1>7 DEF Poll

\* The upload: what the registry takes are this cut's bytes, and what it does not
\* take although the command says so is on record.
LEMMA UploadKeeps ==
  ASSUME CargoInd, NEW r \in CargoCuts, Upload(r)
  PROVE  CargoInd'
<1>. DEFINE c == CrateOf(r)
<1>1. /\ CargoTypeOK /\ CutInd(r) /\ c \in Crates \ Delegated
      /\ cargoCut[r].phase = "publish" /\ cargoCut[r].step = "upload"
      /\ cargoCut[r].source \in Sources
      /\ UNCHANGED <<crateIndex, registryUp, crateReceipts, baseline>>
  BY AtItsCrate DEF Upload, AtStep, CutInd, StepKnows, StepFits
<1>2. ASSUME RegistryStep, StopWith(r, "command"), UNCHANGED heldAtStart
      PROVE  CargoInd'
  BY <1>1, <1>2, StopKeeps
<1>3. ASSUME RegistryStep, StartWindow(r, "confirm", <<c>>),
             <<r, c>> \in silentNoOps' \/ crateStore'[c] = cargoCut[r].source
      PROVE  CargoInd'
  <2>1. <<c>> \in Seq(Crates)
    BY <1>1
  <2>. QED
    BY <1>1, <1>3, <2>1, WindowKeeps
<1>4. CASE /\ RegistryTakes(c) /\ Stores(c, cargoCut[r].source) /\ UNCHANGED silentNoOps
           /\ \/ StartWindow(r, "confirm", <<c>>)
              \/ StopWith(r, "command") /\ UNCHANGED heldAtStart
  <2>1. RegistryStep
    BY <1>1, <1>4, RegistryStores
  <2>2. crateStore'[c] = cargoCut[r].source
    BY <1>1, <1>4 DEF Stores, CargoTypeOK
  <2>. QED
    BY <1>2, <1>3, <1>4, <2>1, <2>2
<1>5. CASE /\ StopWith(r, "command") /\ UNCHANGED heldAtStart
           /\ UNCHANGED <<crateStore, silentNoOps>>
  BY <1>1, <1>2, <1>5, RegistryRests DEF RegistryUnchanged
<1>6. CASE /\ StartWindow(r, "confirm", <<c>>) /\ silentNoOps' = silentNoOps \cup {<<r, c>>}
           /\ UNCHANGED crateStore
  <2>1. RegistryStep
    BY <1>1, <1>6 DEF CargoInd, CargoTypeOK, StoredIsResolvable, RegistryStep,
       RegistryGrows
  <2>. QED
    BY <1>3, <1>6, <2>1
<1>. QED
  BY <1>4, <1>5, <1>6 DEF Upload

\* Verification: a delegated crate was absent when the cut began, one of the cut's
\* own has its receipt already.
LEMMA ObserveKeeps ==
  ASSUME CargoInd, NEW r \in CargoCuts, Observe(r)
  PROVE  CargoInd'
<1>. DEFINE c == CrateOf(r)
<1>1. /\ CargoTypeOK /\ CutInd(r) /\ cargoCut[r].phase = "observe"
      /\ RegistryUnchanged /\ RegistryStep /\ UNCHANGED <<baseline, heldAtStart, silentNoOps>>
  BY AtItsCrate, RegistryRests DEF Observe, AtStep
<1>2. CASE StopWith(r, "unverified") /\ UNCHANGED crateReceipts
  BY <1>1, <1>2, StopKeeps
<1>3. CASE /\ IsPublished(c) = "yes" /\ NextCrate(r)
           /\ crateReceipts' = [crateReceipts EXCEPT ![r] = @ \cup {c}]
  <2>1. c \in crateIndex
    BY <1>3 DEF IsPublished
  <2>2. cargoCut[r].at \in DOMAIN CrateOrder
    BY <1>1 DEF CargoTypeOK, CutState
  <2>3. /\ c \in Passed(r, "dry_run", {"build", "publish", "observe", "done"})
        /\ c \in Passed(r, "publish", {"observe", "done"})
    BY <1>1, <2>2 DEF Passed, CrateOf
  <2>4. c \in Delegated => c \notin baseline[r]
    BY <1>1, <2>3 DEF CutInd, PhasesDone
  <2>5. c \notin Delegated => c \in crateReceipts[r]
    BY <1>1, <2>3 DEF CutInd, PhasesDone
  <2>. QED
    BY <1>1, <1>3, <2>1, <2>4, <2>5, NextKeeps DEF CargoTypeOK
<1>. QED
  BY <1>2, <1>3 DEF Observe

\* A killed cut leaves what it published.
LEMMA KillKeeps ==
  ASSUME CargoInd, NEW r \in CargoCuts, Kill(r)
  PROVE  CargoInd'
<1>1. RegistryStep
  BY RegistryRests DEF Kill, LedgersUnchanged
<1>. QED
  BY <1>1, StopKeeps DEF Kill, LedgersUnchanged

\* While no cut moves, the registry and its other users disturb none.
LEMMA WorldKeeps ==
  ASSUME CargoInd, RegistryStep, UNCHANGED <<cargoCut, crateReceipts, baseline, heldAtStart>>
  PROVE  CargoInd'
<1>1. CargoTypeOK'
  BY DEF CargoInd, CargoTypeOK, RegistryStep, RegistryGrows
<1>2. \A q \in CargoCuts : CutInd(q)'
  BY RestingCutKeeps DEF CargoInd, RegistryStep
<1>. QED
  BY <1>1, <1>2 DEF CargoInd, RegistryStep

\* The index shows an upload, whose dependencies it shows already.
LEMMA IndexShowsKeeps ==
  ASSUME CargoInd, NEW c \in Crates, IndexShows(c)
  PROVE  CargoInd'
<1>1. RegistryStep
  BY DEF CargoInd, CargoTypeOK, StoredIsResolvable, RegistryStep, RegistryGrows,
     IndexShows, LedgersUnchanged
<1>. QED
  BY <1>1, WorldKeeps DEF IndexShows, LedgersUnchanged

\* The registry is reached or not.
LEMMA ReachabilityKeeps ==
  ASSUME CargoInd, Reachability
  PROVE  CargoInd'
<1>1. RegistryStep
  BY DEF CargoInd, CargoTypeOK, StoredIsResolvable, RegistryStep, RegistryGrows,
     Reachability, LedgersUnchanged
<1>. QED
  BY <1>1, WorldKeeps DEF Reachability, LedgersUnchanged

\* Somebody else's upload takes a name nobody had.
LEMMA StrangerPublishesKeeps ==
  ASSUME CargoInd, NEW c \in Crates, StrangerPublishes(c)
  PROVE  CargoInd'
<1>1. RegistryStep
  BY RegistryStores DEF StrangerPublishes, LedgersUnchanged
<1>. QED
  BY <1>1, WorldKeeps DEF StrangerPublishes, LedgersUnchanged

\* So does the workflow's.
LEMMA CiPublishKeeps ==
  ASSUME CargoInd, NEW c \in Crates, NEW r \in CargoCuts, CiPublish(r, c)
  PROVE  CargoInd'
<1>1. cargoCut[r].source \in Sources
  BY DEF CargoInd, CutInd, StepFits, CiPublish
<1>2. RegistryStep
  BY <1>1, RegistryStores DEF CiPublish, LedgersUnchanged
<1>. QED
  BY <1>2, WorldKeeps DEF CiPublish, LedgersUnchanged

-----------------------------------------------------------------------------
(* The theorems.                                                           *)

\* The invariant holds before the first cut.
LEMMA CargoInitially == CargoInit => CargoInd
<1>. SUFFICES ASSUME CargoInit
              PROVE  CargoInd
  OBVIOUS
<1>1. CargoTypeOK /\ StoredIsResolvable
  BY StartsAtFirst DEF CargoInit, CargoTypeOK, StoredIsResolvable
<1>2. ASSUME NEW r \in CargoCuts
      PROVE  CutInd(r)
  <2>1. cargoCut[r] = NotStarted /\ crateReceipts[r] = {} /\ baseline[r] = {} /\ ~ heldAtStart[r]
    BY DEF CargoInit
  <2>. QED
    BY <2>1, StartsAtFirst DEF CutInd, StepFits, StepKnows, WindowKnows, PhasesDone,
       Passed, ReceiptsTrue
<1>. QED
  BY <1>1, <1>2 DEF CargoInd

\* Every step of every cut and of the registry keeps it.
LEMMA CargoInductive ==
  ASSUME CargoInd, [CargoNext]_cargoVars
  PROVE  CargoInd'
<1>1. CASE CargoNext
  BY <1>1, StartCutKeeps, EnterGateKeeps, PackageGateKeeps, SkipDelegatedKeeps,
     ProbeRegistryKeeps, PackageSkipKeeps, AuthenticateKeeps, PollKeeps, UploadKeeps,
     ObserveKeeps, KillKeeps, IndexShowsKeeps, StrangerPublishesKeeps, CiPublishKeeps,
     ReachabilityKeeps DEF CargoNext, CargoStep, CargoWorld
<1>2. CASE UNCHANGED cargoVars
  <2>1. RegistryStep
    BY <1>2, RegistryRests DEF cargoVars, RegistryUnchanged
  <2>. QED
    BY <1>2, <2>1, WorldKeeps DEF cargoVars
<1>. QED
  BY <1>1, <1>2

\* The inductive invariant: what each step of the adapter has established of its
\* crate stays so, because the registry only grows.
THEOREM CargoInvariance == CargoSpec => []CargoInd
<1>1. CargoInd /\ [CargoNext]_cargoVars => CargoInd'
  BY CargoInductive
<1>. QED
  BY CargoInitially, <1>1, PTL DEF CargoSpec

\* A receipt of a cut stands for its own bytes where it uploads, unless `cargo
\* publish' exited 0 without uploading, and for a version that was not there at
\* the cut's start where CI uploads (authenticate_skip, the pre-tag baseline).
THEOREM CargoInvHolds == CargoSpec => []CargoInv
<1>1. CargoInd => CargoInv
  BY DEF CargoInd, CutInd, ReceiptsTrue, CargoInv, ReceiptIsAuthentic, VerifiedIsNew
<1>. QED
  BY CargoInvariance, <1>1, PTL

\* cargo is never asked to package or publish a crate whose dependencies the index
\* does not show (unpublished_workspace_deps, poll_for_index).
THEOREM ResolvesDependenciesHolds == CargoSpec => []ResolvesDependencies
<1>1. CargoInd => ResolvesDependencies
  BY DEF CargoInd, CutInd, StepKnows, ResolvesDependencies, AtStep
<1>. QED
  BY CargoInvariance, <1>1, PTL

\* A window never reports absent a crate that was visible from its start: it says
\* so only of a registry that answered (poll_for_index).
THEOREM AbsenceIsNotGuessedHolds == CargoSpec => []AbsenceIsNotGuessed
<1>1. CargoInd => AbsenceIsNotGuessed
  BY DEF CargoInd, CutInd, WindowKnows, AbsenceIsNotGuessed
<1>. QED
  BY CargoInvariance, <1>1, PTL
=============================================================================
