--------------------------- MODULE Commands_proofs ---------------------------
(***************************************************************************)
(* What the commands keep on the disk, proved: the journal of a run, the   *)
(* plan store, and the installed skills.                                   *)
(***************************************************************************)
EXTENDS RunJournal, PlanStore, SkillInstall, RunState_proofs, FiniteSetTheorems, WellFoundedInduction, TLAPS

-----------------------------------------------------------------------------
(***************************************************************************)
(* The journal of a run, proved for any events, any number of lines torn   *)
(* anywhere, and power losses between any two writes: what was             *)
(* acknowledged is read again, and the manifest is never ahead of the log. *)
(***************************************************************************)

\* Every set of naturals that is not empty has a least member.
LEMMA LeastOf ==
  ASSUME NEW S \in SUBSET Nat, S # {}
  PROVE  \E x \in S : \A y \in S : x <= y
<1>. DEFINE R == OpToRel(<, Nat)
<1>1. IsWellFoundedOn(R, Nat)
  BY NatLessThanWellFounded
<1>2. \A x, y \in Nat : y < x => <<y, x>> \in R
  BY DEF OpToRel
<1>. HIDE DEF R
<1>3. PICK x \in S : \A y \in S : ~ (<<y, x>> \in R)
  BY <1>1, WFMin
<1>4. ASSUME NEW y \in S PROVE x <= y
  <2>1. ~ (y < x)
    BY <1>2, <1>3, Zenon
  <2>. QED
    BY <2>1
<1>. QED
  BY <1>4

-----------------------------------------------------------------------------
(* The reducer.                                                             *)

Projections == [applied : Nat, state : RunState]

\* What may be appended is an event of RunState.
LEMMA AppendableEvents == Appendable \subseteq Event
<1>. DEFINE EventSets ==
       { {BumpApplied(c) : c \in Nat \cup {NoCommit}},
         {DefaultBranchAdvanced(c) : c \in Nat},
         {PhaseEntered(p) : p \in Phase},
         {PhaseCompleted(p, o) : p \in Phase, o \in {"ok", "failed"}},
         {TargetDryRun(t) : t \in Target}, {TargetBuilt(t) : t \in Target},
         {TargetPublished(t) : t \in Target}, {TargetDelegated(t) : t \in Target},
         {TargetVerified(t, m) : t \in Target, m \in BOOLEAN},
         {TagCreatedLocal, TagPushedRemote, GithubReleaseCreated,
          GithubReleaseDelegated, DefaultBranchSelected, RunAbandoned} }
<1>1. \A e \in [kind : {"bump_applied"}, commit : Nat \cup {NoCommit}] :
        e = BumpApplied(e.commit) /\ e.commit \in Nat \cup {NoCommit}
  BY DEF BumpApplied
<1>2. \A e \in [kind : {"default_branch_advanced"}, commit : Nat] :
        e = DefaultBranchAdvanced(e.commit) /\ e.commit \in Nat
  BY DEF DefaultBranchAdvanced
<1>3. \A e \in [kind : {"phase_entered"}, phase : Phase] :
        e = PhaseEntered(e.phase) /\ e.phase \in Phase
  BY DEF PhaseEntered
<1>4. \A e \in [kind : {"phase_completed"}, phase : Phase, outcome : {"ok", "failed"}] :
        e = PhaseCompleted(e.phase, e.outcome) /\ e.phase \in Phase /\ e.outcome \in {"ok", "failed"}
  BY DEF PhaseCompleted
<1>5. \A e \in [kind : {"target_dry_run", "target_built", "target_published", "target_delegated"},
                target : Target] :
        e.target \in Target /\ e \in {TargetDryRun(e.target), TargetBuilt(e.target),
                                      TargetPublished(e.target), TargetDelegated(e.target)}
  BY DEF TargetDryRun, TargetBuilt, TargetPublished, TargetDelegated
<1>6. \A e \in [kind : {"target_verified"}, target : Target, matches : BOOLEAN] :
        e = TargetVerified(e.target, e.matches) /\ e.target \in Target /\ e.matches \in BOOLEAN
  BY DEF TargetVerified
<1>7. SUFFICES ASSUME NEW e \in Appendable PROVE \E S \in EventSets : e \in S
  BY DEF Event, EventSets
<1>8. CASE e \in [kind : {"bump_applied"}, commit : Nat \cup {NoCommit}]
  <2>1. e \in {BumpApplied(c) : c \in Nat \cup {NoCommit}}
    BY <1>1, <1>8
  <2>. QED
    BY <2>1 DEF EventSets
<1>9. CASE e \in [kind : {"default_branch_advanced"}, commit : Nat]
  BY <1>2, <1>9 DEF EventSets
<1>10. CASE e \in [kind : {"phase_entered"}, phase : Phase]
  BY <1>3, <1>10 DEF EventSets
<1>11. CASE e \in [kind : {"phase_completed"}, phase : Phase, outcome : {"ok", "failed"}]
  BY <1>4, <1>11 DEF EventSets
<1>12. CASE e \in [kind : {"target_dry_run", "target_built", "target_published", "target_delegated"},
                   target : Target]
  BY <1>5, <1>12 DEF EventSets
<1>13. CASE e \in [kind : {"target_verified"}, target : Target, matches : BOOLEAN]
  BY <1>6, <1>13 DEF EventSets
<1>14. CASE e \in {TagCreatedLocal, TagPushedRemote, GithubReleaseCreated, GithubReleaseDelegated,
                   DefaultBranchSelected, RunAbandoned}
  BY <1>14 DEF EventSets
<1>. QED
  BY <1>8, <1>9, <1>10, <1>11, <1>12, <1>13 DEF Appendable

\* An event on file makes a projection of a projection and, when it is the next
\* one, moves the watermark to itself.
LEMMA ApplySeqType ==
  ASSUME NEW m \in Projections, NEW e \in Entry
  PROVE  /\ ApplySeq(m, e) \in Projections
         /\ e.seq = m.applied + 1 => ApplySeq(m, e).applied = e.seq
<1>1. Apply(m.state, e.event) \in RunState
  <2>1. CASE e.event \in Events
    BY <2>1, EventsAssumption, AppendableEvents, ApplyType DEF Projections
  <2>2. CASE e.event = RunCreated
    <3>1. Effect(m.state, RunCreated) = CreatedRun
      BY DEF Effect, RunCreated
    <3>2. CreatedRun \in RunState
      BY DEF CreatedRun, RunState
    <3>. QED
      BY <2>2, <3>1, <3>2 DEF Apply, Projections
  <2>. QED
    BY <2>1, <2>2 DEF Entry
<1>2. e.seq \in Nat
  BY DEF Entry
<1>. QED
  BY <1>1, <1>2 DEF ApplySeq, Projections

\* after is the projections that a fold of the events goes through.
IsFold(after, events, n) ==
  after = [k \in 0..n |-> IF k = 0 THEN NoRun ELSE ApplySeq(after[k - 1], events[k])]

\* The events can be folded.
LEMMA FoldExists ==
  ASSUME NEW events, NEW n \in Nat
  PROVE  \E after : IsFold(after, events, n)
<1>. DEFINE Bad == {k \in Nat : ~ \E after : IsFold(after, events, k)}
<1>1. SUFFICES ASSUME Bad # {} PROVE FALSE
  OBVIOUS
<1>2. PICK k \in Bad : \A j \in Bad : k <= j
  BY <1>1, LeastOf
<1>3. k \in Nat
  OBVIOUS
<1>4. CASE k = 0
  <2>. DEFINE f == [j \in 0..0 |-> NoRun]
  <2>1. IsFold(f, events, 0)
    BY DEF IsFold
  <2>. QED
    BY <1>4, <2>1
<1>5. CASE k # 0
  <2>1. k - 1 \in Nat /\ k - 1 \notin Bad
    BY <1>2, <1>5
  <2>2. PICK g : IsFold(g, events, k - 1)
    BY <2>1
  <2>. DEFINE f == [j \in 0..k |-> IF j = k THEN ApplySeq(g[k - 1], events[k]) ELSE g[j]]
  <2>3. \A j \in 0..(k - 1) : g[j] = IF j = 0 THEN NoRun ELSE ApplySeq(g[j - 1], events[j])
    BY <2>2 DEF IsFold
  <2>4. \A j \in 0..k : f[j] = IF j = 0 THEN NoRun ELSE ApplySeq(f[j - 1], events[j])
    <3>. TAKE j \in 0..k
    <3>1. CASE j = k
      BY <3>1, <1>5
    <3>2. CASE j # k
      <4>1. j \in 0..(k - 1) /\ (j # 0 => j - 1 \in 0..(k - 1))
        BY <3>2
      <4>2. f[j] = g[j] /\ (j # 0 => f[j - 1] = g[j - 1])
        BY <3>2
      <4>. QED
        BY <4>1, <2>3
    <3>. QED
      BY <3>1, <3>2
  <2>5. IsFold(f, events, k)
    BY <2>4 DEF IsFold
  <2>. QED
    BY <2>5
<1>. QED
  BY <1>4, <1>5

\* Folds of the same events agree.
LEMMA FoldsAgree ==
  ASSUME NEW f, NEW g, NEW n \in Nat, NEW m \in Nat, NEW events, NEW more,
         n <= m, IsFold(f, events, n), IsFold(g, more, m),
         \A k \in 1..n : events[k] = more[k]
  PROVE  \A k \in 0..n : f[k] = g[k]
<1>. DEFINE Bad == {k \in 0..n : f[k] # g[k]}
<1>1. SUFFICES ASSUME Bad # {} PROVE FALSE
  OBVIOUS
<1>. Bad \in SUBSET Nat
  OBVIOUS
<1>2. PICK k \in Bad : \A j \in Bad : k <= j
  BY <1>1, LeastOf
<1>3. /\ f[k] = IF k = 0 THEN NoRun ELSE ApplySeq(f[k - 1], events[k])
      /\ g[k] = IF k = 0 THEN NoRun ELSE ApplySeq(g[k - 1], more[k])
  BY DEF IsFold
<1>4. k # 0
  BY <1>3
<1>5. k - 1 \in 0..n /\ k - 1 \notin Bad
  BY <1>2, <1>4
<1>. QED
  BY <1>3, <1>5

\* Events that hold their positions are in order already.
Counted(events) == \A i \in DOMAIN events : events[i] \in Entry /\ events[i].seq = i

\* Sorting moves none of them.
LEMMA SortingRests ==
  ASSUME NEW S, NEW events \in Seq(S), Counted(events)
  PROVE  BySeq(events) = events
<1>. DEFINE n == Len(events)
<1>1. n \in Nat /\ DOMAIN events = 1..n
  OBVIOUS
<1>2. ASSUME NEW i \in 1..n PROVE Rank(events, i) = i
  <2>1. {j \in DOMAIN events : \/ events[j].seq < events[i].seq
                               \/ (events[j].seq = events[i].seq /\ j <= i)} = 1..i
    BY DEF Counted
  <2>2. Cardinality(1..i) = i
    BY FS_Interval
  <2>. QED
    BY <2>1, <2>2 DEF Rank
<1>3. ASSUME NEW k \in 1..n PROVE (CHOOSE i \in DOMAIN events : Rank(events, i) = k) = k
  BY <1>2
<1>4. \A k \in 1..n : events[CHOOSE i \in DOMAIN events : Rank(events, i) = k] = events[k]
  BY <1>3
<1>5. BySeq(events) = [k \in 1..n |-> events[k]]
  BY <1>1, <1>4, Zenon DEF BySeq
<1>. QED
  BY <1>5

\* What a reader makes of them is where their fold ends.
LEMMA ReduceIsFold ==
  ASSUME NEW S, NEW events \in Seq(S), Counted(events),
         NEW after, IsFold(after, events, Len(events))
  PROVE  Reduce(events) = after[Len(events)]
<1>. DEFINE n == Len(events)
<1>1. n \in Nat
  OBVIOUS
<1>. DEFINE Chosen == CHOOSE f : IsFold(f, events, n)
<1>2. IsFold(Chosen, events, n)
  BY Zenon
<1>. HIDE DEF Chosen
<1>3. \A k \in 0..n : Chosen[k] = after[k]
  BY <1>2, FoldsAgree
<1>4. Reduce(events) = Chosen[n]
  BY SortingRests DEF Reduce, Chosen, IsFold
<1>. QED
  BY <1>3, <1>4

\* A log that counts makes a projection whose watermark is its length.
LEMMA ReduceType ==
  ASSUME NEW events \in Seq(Entry), Counted(events)
  PROVE  Reduce(events) \in Projections /\ Reduce(events).applied = Len(events)
<1>. DEFINE n == Len(events)
<1>1. n \in Nat /\ DOMAIN events = 1..n
  OBVIOUS
<1>2. PICK after : IsFold(after, events, n)
  BY <1>1, FoldExists
<1>. DEFINE Bad == {k \in 0..n : ~ (after[k] \in Projections /\ after[k].applied = k)}
<1>3. Bad = {}
  <2>1. SUFFICES ASSUME Bad # {} PROVE FALSE
    OBVIOUS
  <2>2. Bad \in SUBSET Nat
    OBVIOUS
  <2>3. PICK k \in Bad : \A j \in Bad : k <= j
    BY <2>1, <2>2, LeastOf
  <2>4. after[k] = IF k = 0 THEN NoRun ELSE ApplySeq(after[k - 1], events[k])
    BY <1>2 DEF IsFold
  <2>5. CASE k = 0
    <3>1. NoRun \in Projections /\ NoRun.applied = 0
      BY DEF NoRun, Projections, CreatedRun, RunState
    <3>. QED
      BY <2>4, <2>5, <3>1
  <2>6. CASE k # 0
    <3>1. k - 1 \in 0..n /\ k \in 1..n
      BY <2>6
    <3>2. k - 1 \notin Bad
      BY <2>3
    <3>3. after[k - 1] \in Projections /\ after[k - 1].applied = k - 1
      BY <3>1, <3>2
    <3>4. events[k] \in Entry /\ events[k].seq = k
      BY <3>1 DEF Counted
    <3>5. events[k].seq = after[k - 1].applied + 1
      BY <3>3, <3>4
    <3>6. after[k] \in Projections /\ after[k].applied = k
      BY <2>4, <2>6, <3>3, <3>4, <3>5, ApplySeqType
    <3>. QED
      BY <3>6
  <2>. QED
    BY <2>5, <2>6
<1>4. Reduce(events) = after[n]
  BY <1>2, ReduceIsFold
<1>. QED
  BY <1>3, <1>4

\* Nothing makes the empty state.
LEMMA ReduceNothing == Reduce(<<>>) = NoRun
<1>. DEFINE after == [k \in 0..0 |-> NoRun]
<1>1. IsFold(after, <<>>, 0)
  BY DEF IsFold
<1>2. Len(<<>>) = 0 /\ Counted(<<>>) /\ <<>> \in Seq(Entry)
  BY DEF Counted
<1>3. Reduce(<<>>) = after[0]
  BY <1>1
<1>. QED
  BY <1>3

\* The next event is applied to what the others made.
LEMMA ReduceOneMore ==
  ASSUME NEW events \in Seq(Entry), Counted(events),
         NEW more \in Seq(Entry), Counted(more), Len(more) = Len(events) + 1,
         \A k \in 1..Len(events) : more[k] = events[k]
  PROVE  Reduce(more) = ApplySeq(Reduce(events), more[Len(more)])
<1>. DEFINE n == Len(events)
<1>1. n \in Nat
  OBVIOUS
<1>2. PICK f : IsFold(f, events, n)
  BY <1>1, FoldExists
<1>. DEFINE m == Len(more)
<1>3. m \in Nat /\ n <= m /\ m - 1 = n /\ m # 0
  OBVIOUS
<1>4. PICK g : IsFold(g, more, m)
  BY <1>3, FoldExists
<1>5. f[n] = g[n]
  <2>1. \A k \in 1..n : events[k] = more[k]
    OBVIOUS
  <2>. HIDE DEF n, m
  <2>2. \A k \in 0..n : f[k] = g[k]
    <3>1. IsFold(f, events, n) /\ IsFold(g, more, m) /\ m \in Nat /\ n <= m
      BY <1>2, <1>3, <1>4
    <3>. QED
      BY <1>1, <2>1, <3>1, FoldsAgree
  <2>. QED
    BY <1>1, <2>2
<1>6. g[m] = ApplySeq(g[m - 1], more[m])
  <2>. HIDE DEF m
  <2>. QED
    BY <1>3, <1>4 DEF IsFold
<1>7. Reduce(events) = f[n] /\ Reduce(more) = g[m]
  BY <1>2, <1>4, ReduceIsFold
<1>. QED
  BY <1>5, <1>6, <1>7

-----------------------------------------------------------------------------
(* The inductive invariant.                                                 *)

JournalTypes ==
  /\ log \in Seq(Seq(Entry \cup {Torn}) \ {<<>>})
  /\ ended \in BOOLEAN /\ synced \in 0..Len(log)
  /\ manifest \in Projections /\ mem \in Projections
  /\ pc \in {"closed", "open", "append", "newline", "sync", "apply", "manifest"}
  /\ event \in Entry \cup {Torn}
  /\ acked \subseteq Entry /\ crashes \in 0..MaxCrashes
  /\ machine \in Machines

\* Does the last line miss its newline, and what may be missing after it?
EndOfFile ==
  /\ ~ended => synced < Len(log)
  /\ pc = "newline" => ~ended
  /\ pc \in {"sync", "apply", "manifest"} => ended
  /\ pc \in {"open", "append"} /\ ~Readable(log) => ended
  /\ pc \in {"apply", "manifest"} => synced = Len(log)

\* An event that was written after a line without its newline made both
\* unreadable: the handle counts two where the file has one line.
Glued == IF Readable(log) THEN 0 ELSE 1

WatermarkCounts ==
  /\ pc \in {"open", "append", "manifest"} => mem.applied = Len(log) + Glued
  /\ pc \in {"newline", "sync", "apply"} => mem.applied + 1 = Len(log) + Glued
  /\ pc \in {"append", "newline", "sync", "apply"} => event \in Entry /\ event.seq = mem.applied + 1
  /\ pc = "manifest" => event \in Entry

\* What is written is not yet applied, and then it is.
HandleFollows ==
  Readable(log) =>
    /\ pc \in {"open", "append", "manifest"} => mem = Replay
    /\ pc \in {"newline", "sync", "apply"} => ApplySeq(mem, event) = Replay
    /\ pc \in {"newline", "sync", "apply", "manifest"} => log # <<>> /\ log[Len(log)] = <<event>>

\* The first lines count, as far as they can be read.
WholeTo(lines, k) == \A i \in 1..k : Parses(lines[i])

LinesCount == \A k \in DOMAIN log : WholeTo(log, k) => log[k][1].seq = k

\* Whose append returned is among the lines that no power loss takes.
AcknowledgedIsSynced ==
  WholeTo(log, synced) => \A e \in acked : \E i \in 1..synced : log[i][1] = e

JournalInd ==
  /\ JournalTypes /\ EndOfFile /\ WatermarkCounts /\ HandleFollows
  /\ LinesCount /\ AcknowledgedIsSynced /\ ManifestIsPrefix

-----------------------------------------------------------------------------
(* The file.                                                                *)

Lines == Seq(Seq(Entry \cup {Torn}) \ {<<>>})

\* Torn is no event.
LEMMA TornIsNoEntry == Torn \notin Entry
<1>1. Entry \subseteq [seq : Nat, event : Events \cup {RunCreated}]
  BY DEF Entry
<1>. QED
  BY <1>1, TornAssumption

\* What can be read of lines that count is a sequence of events that count.
LEMMA ReadableCounts ==
  ASSUME NEW lines \in Lines, Readable(lines), \A k \in DOMAIN lines : lines[k][1].seq = k
  PROVE  /\ EventsOf(lines) \in Seq(Entry) /\ Counted(EventsOf(lines))
         /\ Len(EventsOf(lines)) = Len(lines)
         /\ Reduce(EventsOf(lines)) \in Projections
         /\ Reduce(EventsOf(lines)).applied = Len(lines)
<1>1. Len(lines) \in Nat /\ DOMAIN lines = 1..Len(lines)
  BY DEF Lines
<1>2. ASSUME NEW i \in 1..Len(lines) PROVE lines[i][1] \in Entry
  <2>1. lines[i] \in Seq(Entry \cup {Torn}) /\ Len(lines[i]) = 1 /\ lines[i][1] # Torn
    BY DEF Lines, Readable, Parses
  <2>2. lines[i][1] \in Entry \cup {Torn}
    BY <2>1
  <2>. QED
    BY <2>1
<1>3. EventsOf(lines) = [i \in 1..Len(lines) |-> lines[i][1]]
  BY DEF EventsOf
<1>4. EventsOf(lines) \in Seq(Entry) /\ Len(EventsOf(lines)) = Len(lines)
  BY <1>2, <1>3
<1>5. Counted(EventsOf(lines))
  BY <1>2, <1>3 DEF Counted
<1>. QED
  BY <1>4, <1>5, ReduceType

\* The log of a journal that can be read.
LEMMA ReadableLog ==
  ASSUME JournalInd, Readable(log)
  PROVE  /\ \A k \in DOMAIN log : log[k][1].seq = k
         /\ EventsOf(log) \in Seq(Entry) /\ Counted(EventsOf(log))
         /\ Len(EventsOf(log)) = Len(log)
         /\ Replay \in Projections /\ Replay.applied = Len(log)
<1>1. log \in Lines
  BY DEF JournalInd, JournalTypes, Lines
<1>2. ASSUME NEW k \in DOMAIN log PROVE log[k][1].seq = k
  <2>1. WholeTo(log, k)
    BY <1>1 DEF WholeTo, Readable, Lines
  <2>. QED
    BY <2>1 DEF JournalInd, LinesCount
<1>. QED
  BY <1>1, <1>2, ReadableCounts DEF Replay

\* A write to a file that ends with a newline makes a line of its own.
LEMMA WrittenLine ==
  ASSUME JournalInd, ended, NEW content \in Entry \cup {Torn}
  PROVE  LET lines == Written(content) IN
         /\ lines \in Lines /\ Len(lines) = Len(log) + 1
         /\ \A k \in 1..Len(log) : lines[k] = log[k]
         /\ lines[Len(log) + 1] = <<content>>
         /\ Readable(lines) <=> Readable(log) /\ content # Torn
<1>1. log \in Lines /\ Len(log) \in Nat /\ DOMAIN log = 1..Len(log)
  BY DEF JournalInd, JournalTypes, Lines
<1>2. Written(content) = Append(log, <<content>>)
  BY DEF Written
<1>3. <<content>> \in Seq(Entry \cup {Torn}) \ {<<>>} /\ Len(<<content>>) = 1 /\ <<content>>[1] = content
  OBVIOUS
<1>. DEFINE lines == Append(log, <<content>>)
<1>4. /\ lines \in Lines /\ Len(lines) = Len(log) + 1
      /\ \A k \in 1..Len(log) : lines[k] = log[k]
      /\ lines[Len(log) + 1] = <<content>>
  BY <1>1 DEF Lines
<1>5. DOMAIN lines = 1..(Len(log) + 1)
  BY DEF Lines
<1>. HIDE DEF lines
<1>6. Parses(<<content>>) <=> content # Torn
  BY DEF Parses
<1>7. Readable(lines) <=> Readable(log) /\ content # Torn
  <2>1. \A k \in 1..(Len(log) + 1) : k \in 1..Len(log) \/ k = Len(log) + 1
    OBVIOUS
  <2>2. 1..Len(log) \subseteq 1..(Len(log) + 1) /\ Len(log) + 1 \in 1..(Len(log) + 1)
    OBVIOUS
  <2>. QED
    BY <1>4, <1>6 DEF Readable
<1>. QED
  BY <1>2, <1>4, <1>7 DEF lines

\* Otherwise it spoils the last one, which was not synced.
LEMMA WrittenGlued ==
  ASSUME JournalInd, ~ended, NEW content \in Entry \cup {Torn}
  PROVE  LET lines == Written(content) IN
         /\ lines \in Lines /\ Len(lines) = Len(log) /\ synced < Len(log)
         /\ \A k \in 1..(Len(log) - 1) : lines[k] = log[k]
         /\ ~Parses(lines[Len(log)])
         /\ ~Readable(lines)
<1>1. log \in Lines /\ Len(log) \in Nat /\ DOMAIN log = 1..Len(log)
  BY DEF JournalInd, JournalTypes, Lines
<1>2. synced < Len(log) /\ synced \in Nat
  <2>1. synced < Len(log)
    BY DEF JournalInd, EndOfFile
  <2>2. synced \in 0..Len(log)
    BY DEF JournalInd, JournalTypes
  <2>. QED
    BY <2>1, <2>2
<1>3. Len(log) \in 1..Len(log)
  BY <1>2
<1>4. PICK glued : glued = Append(log[Len(log)], content)
  OBVIOUS
<1>5. glued \in Seq(Entry \cup {Torn}) \ {<<>>} /\ Len(glued) # 1
  <2>1. PICK last \in Seq(Entry \cup {Torn}) \ {<<>>} : last = log[Len(log)]
    BY <1>1, <1>3 DEF Lines
  <2>2. Len(last) \in Nat /\ Len(last) # 0
    OBVIOUS
  <2>3. glued = Append(last, content)
    BY <1>4, <2>1
  <2>. QED
    BY <2>3
<1>. DEFINE lines == [log EXCEPT ![Len(log)] = glued]
<1>6. Written(content) = lines
  BY <1>4 DEF Written
<1>7. /\ lines \in Lines /\ Len(lines) = Len(log)
      /\ \A k \in 1..(Len(log) - 1) : lines[k] = log[k]
      /\ lines[Len(log)] = glued /\ DOMAIN lines = 1..Len(log)
  <2>. DEFINE Line == Seq(Entry \cup {Torn}) \ {<<>>}
  <2>1. log \in Seq(Line) /\ glued \in Line
    BY <1>1, <1>5 DEF Lines
  <2>. HIDE DEF Line
  <2>2. lines \in Seq(Line) /\ Len(lines) = Len(log)
    BY <1>3, <2>1
  <2>3. DOMAIN lines = 1..Len(log)
    OBVIOUS
  <2>4. lines[Len(log)] = glued
    BY <1>3
  <2>5. ASSUME NEW k \in 1..(Len(log) - 1) PROVE lines[k] = log[k]
    <3>1. k \in 1..Len(log) /\ k # Len(log)
      <4>1. \A n \in Nat : \A j \in 1..(n - 1) : j \in 1..n /\ j # n
        OBVIOUS
      <4>. QED
        OBVIOUS
    <3>. QED
      OBVIOUS
  <2>. QED
    BY <2>2, <2>3, <2>4, <2>5 DEF Lines, Line
<1>8. ~Parses(lines[Len(log)])
  BY <1>5, <1>7 DEF Parses
<1>9. ~Readable(lines)
  BY <1>3, <1>8 DEF Readable
<1>. QED
  BY <1>2, <1>6, <1>7, <1>8, <1>9

\* While the log rests so does what can be read of it.
LEMMA LogRests ==
  ASSUME JournalInd, UNCHANGED log
  PROVE  /\ Readable(log') <=> Readable(log)
         /\ Replay' = Replay /\ Glued' = Glued /\ LinesCount'
<1>1. LinesCount
  BY DEF JournalInd
<1>. QED
  BY <1>1 DEF Replay, Glued, LinesCount

\* While nothing is recorded no acknowledged event is lost.
LEMMA AcknowledgedRests ==
  ASSUME JournalInd, UNCHANGED <<log, synced, acked>>
  PROVE  AcknowledgedIsSynced'
BY DEF JournalInd, AcknowledgedIsSynced

\* While the manifest and the log rest, one is the projection of the other's prefix.
LEMMA ManifestRests ==
  ASSUME JournalInd, UNCHANGED <<log, manifest, machine>>
  PROVE  ManifestIsPrefix'
BY DEF JournalInd, ManifestIsPrefix

\* Lines that are lost or spoilt at the end leave those that were synced.
LEMMA FirstLinesStay ==
  ASSUME JournalInd, log' \in Lines, NEW n \in synced..Len(log), n <= Len(log'),
         \A k \in 1..n : log'[k] = log[k],
         \A k \in 1..Len(log') : k > n => ~Parses(log'[k]),
         UNCHANGED <<synced, acked>>
  PROVE  LinesCount' /\ AcknowledgedIsSynced'
<1>1. /\ log \in Lines /\ Len(log) \in Nat /\ DOMAIN log = 1..Len(log)
      /\ Len(log') \in Nat /\ DOMAIN log' = 1..Len(log')
      /\ synced \in Nat /\ n \in Nat /\ synced <= n /\ n <= Len(log)
  <2>1. log \in Lines /\ synced \in 0..Len(log)
    BY DEF JournalInd, JournalTypes, Lines
  <2>2. Len(log) \in Nat /\ DOMAIN log = 1..Len(log) /\ Len(log') \in Nat /\ DOMAIN log' = 1..Len(log')
    BY DEF Lines
  <2>. QED
    BY <2>1
<1>2. ASSUME NEW k \in DOMAIN log', WholeTo(log', k) PROVE log'[k][1].seq = k
  <2>1. k \in 1..n
    <3>1. k \in 1..k
      OBVIOUS
    <3>2. Parses(log'[k])
      BY <1>2 DEF WholeTo
    <3>. QED
      BY <3>2
  <2>2. k \in DOMAIN log /\ \A j \in 1..k : j \in 1..n
    BY <2>1
  <2>3. WholeTo(log, k)
    BY <1>2 DEF WholeTo
  <2>. QED
    BY <2>2, <2>3 DEF JournalInd, LinesCount
<1>3. LinesCount'
  BY <1>2 DEF LinesCount
<1>4. \A k \in 1..synced : log'[k] = log[k]
  BY <1>1
<1>5. AcknowledgedIsSynced
  BY DEF JournalInd
<1>6. AcknowledgedIsSynced'
  BY <1>4, <1>5 DEF AcknowledgedIsSynced, WholeTo
<1>. QED
  BY <1>3, <1>6

-----------------------------------------------------------------------------
(* The initial state and the steps.                                         *)

\* No run has begun.
LEMMA JournalInitially == JournalInit => JournalInd
<1>. SUFFICES ASSUME JournalInit PROVE JournalInd
  OBVIOUS
<1>1. NoRun \in Projections
  BY DEF NoRun, Projections, CreatedRun, RunState
<1>2. JournalTypes
  BY <1>1, BoundsAssumption DEF JournalInit, JournalTypes
<1>3. Readable(log) /\ Len(log) = 0 /\ log = <<>>
  BY DEF JournalInit, Readable
<1>4. EndOfFile /\ WatermarkCounts /\ LinesCount /\ AcknowledgedIsSynced
  BY DEF JournalInit, EndOfFile, WatermarkCounts, LinesCount, AcknowledgedIsSynced
<1>5. HandleFollows
  BY DEF JournalInit, HandleFollows
<1>6. ManifestIsPrefix
  <2>1. EventsOf(SubSeq(log, 1, 0)) = <<>>
    BY DEF EventsOf
  <2>. QED
    BY <2>1, ReduceNothing DEF ManifestIsPrefix, JournalInit
<1>. QED
  BY <1>2, <1>4, <1>5, <1>6 DEF JournalInd

\* Journal::create: run_created is the first event.
LEMMA CreateKeeps == JournalInd /\ Create => JournalInd'
<1>. SUFFICES ASSUME JournalInd, Create PROVE JournalInd'
  OBVIOUS
<1>1. log = <<>> /\ Len(log) = 0 /\ Readable(log) /\ UNCHANGED <<log, ended, synced, manifest, acked, machine>>
  BY DEF Create, Readable
<1>2. event' \in Entry /\ event'.seq = 1 /\ mem' = NoRun /\ mem'.applied = 0 /\ pc' = "append"
  BY BoundsAssumption DEF Create, Entry, NoRun
<1>3. NoRun \in Projections
  BY DEF NoRun, Projections, CreatedRun, RunState
<1>4. JournalTypes'
  BY <1>2, <1>3 DEF Create, JournalInd, JournalTypes
<1>5. EndOfFile' /\ WatermarkCounts'
  BY <1>1, <1>2 DEF JournalInd, EndOfFile, WatermarkCounts, Glued
<1>6. HandleFollows'
  <2>1. EventsOf(log) = <<>>
    BY <1>1 DEF EventsOf
  <2>2. Replay = NoRun
    BY <2>1, ReduceNothing DEF Replay
  <2>. QED
    BY <1>1, <1>2, <2>2, LogRests DEF HandleFollows
<1>. QED
  BY <1>1, <1>4, <1>5, <1>6, LogRests, AcknowledgedRests, ManifestRests DEF JournalInd

\* Journal::open: the projection is what the log makes.
LEMMA OpenKeeps == JournalInd /\ Open => JournalInd'
<1>. SUFFICES ASSUME JournalInd, Open PROVE JournalInd'
  OBVIOUS
<1>1. /\ Readable(log) /\ mem' = Replay /\ pc' = "open" /\ manifest' \in {manifest, Replay}
      /\ UNCHANGED <<log, ended, synced, event, acked, crashes, machine>>
  BY DEF Open
<1>2. JournalTypes'
  BY <1>1, ReadableLog DEF JournalInd, JournalTypes
<1>3. EndOfFile' /\ WatermarkCounts' /\ HandleFollows'
  BY <1>1, LogRests, ReadableLog DEF JournalInd, EndOfFile, WatermarkCounts,
     HandleFollows, Glued
<1>4. ManifestIsPrefix'
  <2>1. CASE manifest' = manifest
    BY <1>1, <2>1, ManifestRests
  <2>2. CASE manifest' = Replay
    <3>1. Len(log) \in 0..Len(log) /\ SubSeq(log, 1, Len(log)) = log
      BY DEF JournalInd, JournalTypes
    <3>. QED
      BY <1>1, <2>2, <3>1 DEF ManifestIsPrefix, Replay
  <2>. QED
    BY <1>1, <2>1, <2>2
<1>. QED
  BY <1>1, <1>2, <1>3, <1>4, LogRests, AcknowledgedRests DEF JournalInd

\* Journal::append takes the next number.
LEMMA BeginAppendKeeps == \A e \in Events : JournalInd /\ BeginAppend(e) => JournalInd'
<1>. SUFFICES ASSUME NEW e \in Events, JournalInd, BeginAppend(e) PROVE JournalInd'
  OBVIOUS
<1>1. /\ pc = "open" /\ Len(log) < MaxEvents /\ pc' = "append"
      /\ event' = [seq |-> mem.applied + 1, event |-> e]
      /\ UNCHANGED <<log, ended, synced, manifest, mem, acked, crashes, machine>>
  BY DEF BeginAppend
<1>2. Len(log) \in Nat /\ mem.applied = Len(log) + Glued /\ Glued \in {0, 1}
  BY <1>1 DEF JournalInd, WatermarkCounts, Glued
<1>3. event' \in Entry /\ event'.seq = mem.applied + 1
  BY <1>1, <1>2, BoundsAssumption DEF Entry
<1>4. JournalTypes'
  BY <1>1, <1>3 DEF JournalInd, JournalTypes
<1>5. EndOfFile' /\ WatermarkCounts' /\ HandleFollows'
  BY <1>1, <1>3, LogRests DEF JournalInd, EndOfFile, WatermarkCounts, HandleFollows
<1>. QED
  BY <1>1, <1>4, <1>5, LogRests, AcknowledgedRests, ManifestRests DEF JournalInd

\* The event reaches the file.
LEMMA WriteLineKeeps == JournalInd /\ WriteLine => JournalInd'
<1>. SUFFICES ASSUME JournalInd, WriteLine PROVE JournalInd'
  OBVIOUS
<1>1. /\ pc = "append" /\ log' = Written(event)
      /\ ended' \in BOOLEAN /\ pc' = IF ended' THEN "sync" ELSE "newline"
      /\ UNCHANGED <<synced, manifest, mem, event, acked, crashes, machine>>
  BY DEF WriteLine
<1>2. /\ event \in Entry /\ event # Torn /\ event.seq = mem.applied + 1
      /\ mem.applied = Len(log) + Glued /\ Glued \in {0, 1}
  BY <1>1, TornIsNoEntry DEF JournalInd, WatermarkCounts, Glued
<1>3. log \in Lines /\ Len(log) \in Nat /\ synced \in 0..Len(log)
  BY DEF JournalInd, JournalTypes, Lines
<1>4. CASE ended
  <2>1. /\ log' \in Lines /\ Len(log') = Len(log) + 1
        /\ \A k \in 1..Len(log) : log'[k] = log[k]
        /\ log'[Len(log) + 1] = <<event>>
        /\ Readable(log') <=> Readable(log)
    BY <1>1, <1>2, <1>4, WrittenLine
  <2>2. JournalTypes'
    BY <1>1, <2>1 DEF JournalInd, JournalTypes, Lines
  <2>3. EndOfFile'
    BY <1>1, <1>3, <2>1 DEF EndOfFile
  <2>4. WatermarkCounts'
    BY <1>1, <1>2, <2>1 DEF WatermarkCounts, Glued
  <2>5. LinesCount'
    <3>1. ASSUME NEW k \in 1..(Len(log) + 1), WholeTo(log', k) PROVE log'[k][1].seq = k
      <4>1. CASE k = Len(log) + 1
        <5>1. \A j \in DOMAIN log' : Parses(log'[j])
          BY <2>1, <3>1, <4>1 DEF WholeTo
        <5>2. Glued = 0
          BY <2>1, <5>1 DEF Glued, Readable
        <5>. QED
          BY <1>2, <2>1, <4>1, <5>2
      <4>2. CASE k # Len(log) + 1
        <5>1. k \in DOMAIN log /\ k \in 1..Len(log) /\ \A j \in 1..k : j \in 1..Len(log)
          BY <4>2
        <5>2. WholeTo(log, k)
          BY <2>1, <3>1, <5>1 DEF WholeTo
        <5>. QED
          BY <2>1, <5>1, <5>2 DEF JournalInd, LinesCount
      <4>. QED
        BY <4>1, <4>2
    <3>2. DOMAIN log' = 1..(Len(log) + 1)
      BY <2>1
    <3>. QED
      BY <3>1, <3>2 DEF LinesCount
  <2>6. HandleFollows'
    <3>1. SUFFICES ASSUME Readable(log') PROVE ApplySeq(mem, event) = Replay'
      BY <1>1, <2>1 DEF HandleFollows
    <3>2. Readable(log) /\ mem = Replay
      BY <1>1, <2>1, <3>1 DEF JournalInd, HandleFollows
    <3>3. \A k \in DOMAIN log' : log'[k][1].seq = k
      <4>1. DOMAIN log' = 1..(Len(log) + 1)
        BY <2>1
      <4>2. \A k \in DOMAIN log' : WholeTo(log', k)
        BY <3>1, <4>1 DEF WholeTo, Readable
      <4>. QED
        BY <2>5, <4>2 DEF LinesCount
    <3>4. EventsOf(log') \in Seq(Entry) /\ Counted(EventsOf(log')) /\ Len(EventsOf(log')) = Len(log) + 1
      BY <2>1, <3>1, <3>3, ReadableCounts
    <3>5. \A k \in 1..Len(log) : EventsOf(log')[k] = EventsOf(log)[k]
      BY <2>1 DEF EventsOf
    <3>6. EventsOf(log')[Len(log) + 1] = event
      BY <2>1 DEF EventsOf
    <3>7. Reduce(EventsOf(log')) = ApplySeq(Reduce(EventsOf(log)), event)
      BY <3>2, <3>4, <3>5, <3>6, ReadableLog, ReduceOneMore
    <3>. QED
      BY <3>2, <3>7 DEF Replay
  <2>7. AcknowledgedIsSynced'
    <3>1. \A k \in 1..synced : log'[k] = log[k]
      BY <1>3, <2>1
    <3>2. AcknowledgedIsSynced
      BY DEF JournalInd
    <3>. QED
      BY <1>1, <3>1, <3>2 DEF AcknowledgedIsSynced, WholeTo
  <2>8. ManifestIsPrefix'
    <3>1. SUFFICES ASSUME Readable(log), ~machine.powerFails
                   PROVE  \E k \in 0..Len(log') : manifest = Reduce(EventsOf(SubSeq(log', 1, k)))
      BY <1>1, <2>1 DEF ManifestIsPrefix
    <3>2. PICK k \in 0..Len(log) : manifest = Reduce(EventsOf(SubSeq(log, 1, k)))
      BY <3>1 DEF JournalInd, ManifestIsPrefix
    <3>3. SubSeq(log', 1, k) = SubSeq(log, 1, k) /\ k \in 0..Len(log')
      BY <2>1
    <3>. QED
      BY <3>2, <3>3
  <2>. QED
    BY <2>2, <2>3, <2>4, <2>5, <2>6, <2>7, <2>8 DEF JournalInd
<1>5. CASE ~ended
  <2>1. /\ log' \in Lines /\ Len(log') = Len(log) /\ synced < Len(log)
        /\ \A k \in 1..(Len(log) - 1) : log'[k] = log[k]
        /\ ~Parses(log'[Len(log)]) /\ ~Readable(log')
    BY <1>1, <1>2, <1>5, WrittenGlued
  <2>2. JournalTypes'
    BY <1>1, <2>1 DEF JournalInd, JournalTypes, Lines
  <2>3. EndOfFile'
    BY <1>1, <2>1 DEF EndOfFile
  <2>4. Glued = 0
    BY <1>1, <1>5 DEF JournalInd, EndOfFile, Glued
  <2>5. WatermarkCounts'
    BY <1>1, <1>2, <2>1, <2>4 DEF WatermarkCounts, Glued
  <2>6. LinesCount' /\ AcknowledgedIsSynced'
    <3>. DEFINE n == Len(log) - 1
    <3>1. n \in synced..Len(log) /\ n <= Len(log')
      BY <1>3, <2>1
    <3>2. \A k \in 1..Len(log') : k > n => ~Parses(log'[k])
      BY <2>1
    <3>. HIDE DEF n
    <3>3. \A k \in 1..n : log'[k] = log[k]
      BY <2>1 DEF n
    <3>. QED
      BY <1>1, <2>1, <3>1, <3>2, <3>3, FirstLinesStay
  <2>7. HandleFollows' /\ ManifestIsPrefix'
    BY <2>1 DEF HandleFollows, ManifestIsPrefix
  <2>. QED
    BY <2>2, <2>3, <2>5, <2>6, <2>7 DEF JournalInd
<1>6. ended \in BOOLEAN
  BY DEF JournalInd, JournalTypes
<1>. QED
  BY <1>4, <1>5

\* The newline reaches the file.
LEMMA WriteNewlineKeeps == JournalInd /\ WriteNewline => JournalInd'
<1>. SUFFICES ASSUME JournalInd, WriteNewline PROVE JournalInd'
  OBVIOUS
<1>1. /\ pc = "newline" /\ ended' = TRUE /\ pc' = "sync"
      /\ UNCHANGED <<log, synced, manifest, mem, event, acked, crashes, machine>>
  BY DEF WriteNewline
<1>2. JournalTypes' /\ EndOfFile' /\ WatermarkCounts' /\ HandleFollows'
  BY <1>1, LogRests DEF JournalInd, JournalTypes, EndOfFile, WatermarkCounts,
     HandleFollows
<1>. QED
  BY <1>1, <1>2, LogRests, AcknowledgedRests, ManifestRests DEF JournalInd

\* fsync: every line on file is there to stay.
LEMMA SyncKeeps == JournalInd /\ Sync => JournalInd'
<1>. SUFFICES ASSUME JournalInd, Sync PROVE JournalInd'
  OBVIOUS
<1>1. /\ pc = "sync" /\ synced' = Len(log) /\ pc' = "apply"
      /\ UNCHANGED <<log, ended, manifest, mem, event, acked, crashes, machine>>
  BY DEF Sync
<1>2. Len(log) \in Nat /\ synced \in 0..Len(log)
  BY DEF JournalInd, JournalTypes
<1>3. JournalTypes' /\ EndOfFile' /\ WatermarkCounts' /\ HandleFollows'
  BY <1>1, LogRests DEF JournalInd, JournalTypes, EndOfFile, WatermarkCounts,
     HandleFollows
<1>4. AcknowledgedIsSynced'
  <2>1. 1..synced \subseteq 1..Len(log)
    BY <1>2
  <2>. QED
    BY <1>1, <2>1 DEF JournalInd, AcknowledgedIsSynced, WholeTo
<1>. QED
  BY <1>1, <1>3, <1>4, LogRests, ManifestRests DEF JournalInd

\* apply: the handle holds the projection of the log again.
LEMMA ApplyEventKeeps == JournalInd /\ ApplyEvent => JournalInd'
<1>. SUFFICES ASSUME JournalInd, ApplyEvent PROVE JournalInd'
  OBVIOUS
<1>1. /\ pc = "apply" /\ mem' = ApplySeq(mem, event) /\ pc' = "manifest"
      /\ UNCHANGED <<log, ended, synced, manifest, event, acked, crashes, machine>>
  BY DEF ApplyEvent
<1>2. event \in Entry /\ event.seq = mem.applied + 1 /\ mem.applied + 1 = Len(log) + Glued
  BY <1>1 DEF JournalInd, WatermarkCounts
<1>3. mem' \in Projections /\ mem'.applied = Len(log) + Glued
  BY <1>1, <1>2, ApplySeqType DEF JournalInd, JournalTypes
<1>4. JournalTypes' /\ EndOfFile' /\ WatermarkCounts' /\ HandleFollows'
  BY <1>1, <1>3, LogRests DEF JournalInd, JournalTypes, EndOfFile, WatermarkCounts,
     HandleFollows
<1>. QED
  BY <1>1, <1>4, LogRests, AcknowledgedRests, ManifestRests DEF JournalInd

\* persist_manifest: the cache holds what the handle holds, and the append
\* returns for an event that was synced.
LEMMA PersistManifestKeeps == JournalInd /\ PersistManifest => JournalInd'
<1>. SUFFICES ASSUME JournalInd, PersistManifest PROVE JournalInd'
  OBVIOUS
<1>1. /\ pc = "manifest" /\ manifest' \in {manifest, mem} /\ acked' = acked \cup {event} /\ pc' = "open"
      /\ UNCHANGED <<log, ended, synced, mem, event, crashes, machine>>
  BY DEF PersistManifest
<1>2. Len(log) \in Nat /\ DOMAIN log = 1..Len(log) /\ synced = Len(log) /\ event \in Entry
  BY <1>1 DEF JournalInd, EndOfFile, WatermarkCounts
<1>3. JournalTypes' /\ EndOfFile' /\ WatermarkCounts' /\ HandleFollows'
  BY <1>1, LogRests DEF JournalInd, JournalTypes, EndOfFile, WatermarkCounts,
     HandleFollows
<1>4. AcknowledgedIsSynced'
  <2>1. SUFFICES ASSUME WholeTo(log, synced) PROVE \E i \in 1..synced : log[i][1] = event
    BY <1>1 DEF JournalInd, AcknowledgedIsSynced
  <2>2. Readable(log)
    BY <1>2, <2>1 DEF WholeTo, Readable
  <2>3. log # <<>> /\ log[Len(log)] = <<event>>
    BY <1>1, <2>2 DEF JournalInd, HandleFollows
  <2>4. Len(log) \in 1..synced
    BY <1>2, <2>3 DEF JournalInd
  <2>. QED
    BY <2>3, <2>4
<1>5. ManifestIsPrefix'
  <2>1. CASE manifest' = manifest
    BY <1>1, <2>1, ManifestRests
  <2>2. CASE manifest' = mem
    <3>1. Len(log) \in 0..Len(log) /\ SubSeq(log, 1, Len(log)) = log
      BY DEF JournalInd, JournalTypes
    <3>2. Readable(log) => mem = Replay
      BY <1>1 DEF JournalInd, HandleFollows
    <3>. QED
      BY <1>1, <2>2, <3>1, <3>2 DEF ManifestIsPrefix, Replay
  <2>. QED
    BY <1>1, <2>1, <2>2
<1>. QED
  BY <1>1, <1>3, <1>4, <1>5, LogRests DEF JournalInd

\* What every end of the process does to what it held.
LEMMA ClosedHolds ==
  ASSUME JournalInd, Close, log' \in Lines, ended' \in BOOLEAN,
         synced' = synced, synced <= Len(log'), ~ended' => synced < Len(log')
  PROVE  JournalTypes' /\ EndOfFile' /\ WatermarkCounts' /\ HandleFollows'
<1>1. /\ crashes < MaxCrashes /\ crashes' = crashes + 1
      /\ pc' = "closed" /\ mem' = NoRun /\ event' = Torn
      /\ UNCHANGED <<manifest, acked, machine>>
  BY DEF Close
<1>2. NoRun \in Projections
  BY DEF NoRun, Projections, CreatedRun, RunState
<1>3. Len(log) \in Nat /\ Len(log') \in Nat /\ synced' \in 0..Len(log')
  BY DEF JournalInd, JournalTypes, Lines
<1>4. crashes' \in 0..MaxCrashes
  BY <1>1, BoundsAssumption DEF JournalInd, JournalTypes
<1>5. JournalTypes'
  BY <1>1, <1>2, <1>4 DEF JournalInd, JournalTypes, Lines
<1>. QED
  BY <1>1, <1>5 DEF EndOfFile, WatermarkCounts, HandleFollows

\* A kill or an error: what was written stays.
LEMMA StopKeeps == JournalInd /\ Stop => JournalInd'
<1>. SUFFICES ASSUME JournalInd, Stop PROVE JournalInd'
  OBVIOUS
<1>1. Close /\ UNCHANGED synced /\ UNCHANGED <<manifest, acked, machine>>
  BY DEF Stop, Close
<1>2. log \in Lines /\ Len(log) \in Nat /\ synced \in 0..Len(log) /\ ended \in BOOLEAN
      /\ (~ended => synced < Len(log))
  BY DEF JournalInd, JournalTypes, Lines, EndOfFile
<1>3. CASE UNCHANGED <<log, ended>>
  <2>1. JournalTypes' /\ EndOfFile' /\ WatermarkCounts' /\ HandleFollows'
    BY <1>1, <1>2, <1>3, ClosedHolds
  <2>. QED
    BY <1>1, <1>3, <2>1, LogRests, AcknowledgedRests, ManifestRests DEF JournalInd
<1>4. CASE log' = Written(Torn) /\ ended' = FALSE
  <2>. DEFINE n == IF ended THEN Len(log) ELSE Len(log) - 1
  <2>1. /\ log' \in Lines /\ ~Readable(log') /\ Len(log') \in Nat
        /\ n \in synced..Len(log) /\ n <= Len(log') /\ synced < Len(log')
        /\ \A k \in 1..n : log'[k] = log[k]
        /\ \A k \in 1..Len(log') : k > n => ~Parses(log'[k])
    <3>1. CASE ended
      <4>1. /\ log' \in Lines /\ Len(log') = Len(log) + 1 /\ ~Readable(log')
            /\ \A k \in 1..Len(log) : log'[k] = log[k]
            /\ log'[Len(log) + 1] = <<Torn>>
        BY <1>4, <3>1, WrittenLine
      <4>2. ~Parses(<<Torn>>)
        BY DEF Parses
      <4>. QED
        BY <1>2, <3>1, <4>1, <4>2
    <3>2. CASE ~ended
      <4>1. /\ log' \in Lines /\ Len(log') = Len(log) /\ ~Readable(log')
            /\ \A k \in 1..(Len(log) - 1) : log'[k] = log[k]
            /\ ~Parses(log'[Len(log)])
        BY <1>4, <3>2, WrittenGlued
      <4>. QED
        BY <1>2, <3>2, <4>1
    <3>. QED
      BY <3>1, <3>2
  <2>. HIDE DEF n
  <2>2. LinesCount' /\ AcknowledgedIsSynced'
    BY <1>1, <2>1, FirstLinesStay
  <2>3. JournalTypes' /\ EndOfFile' /\ WatermarkCounts' /\ HandleFollows'
    <3>1. synced' = synced /\ synced <= Len(log')
      BY <1>1, <1>2, <2>1
    <3>2. ended' \in BOOLEAN
      BY <1>4
    <3>. QED
      BY <1>1, <2>1, <3>1, <3>2, ClosedHolds
  <2>. QED
    BY <2>1, <2>2, <2>3 DEF JournalInd, ManifestIsPrefix
<1>. QED
  BY <1>3, <1>4 DEF Stop

\* A power loss: what was synced stays.
LEMMA PowerLossKeeps == JournalInd /\ PowerLoss => JournalInd'
<1>. SUFFICES ASSUME JournalInd, PowerLoss PROVE JournalInd'
  OBVIOUS
<1>1. Close /\ UNCHANGED synced /\ UNCHANGED <<manifest, acked, machine>> /\ machine.powerFails
  BY DEF PowerLoss, Close
<1>2. log \in Lines /\ Len(log) \in Nat /\ synced \in 0..Len(log) /\ ended \in BOOLEAN
      /\ (~ended => synced < Len(log))
  BY DEF JournalInd, JournalTypes, Lines, EndOfFile
<1>3. PICK kept \in synced..Len(log) :
        \/ log' = SubSeq(log, 1, kept) /\ ended' = (kept < Len(log) \/ ended)
        \/ /\ kept > synced
           /\ log' = Append(SubSeq(log, 1, kept - 1), <<Torn>>)
           /\ ended' = FALSE
  BY DEF PowerLoss
<1>4. kept \in Nat /\ synced \in Nat /\ kept <= Len(log) /\ synced <= kept
  BY <1>2
<1>5. ASSUME NEW m \in 0..Len(log)
      PROVE  /\ SubSeq(log, 1, m) \in Lines /\ Len(SubSeq(log, 1, m)) = m
             /\ \A k \in 1..m : SubSeq(log, 1, m)[k] = log[k]
  BY <1>2 DEF Lines
<1>6. ManifestIsPrefix'
  BY <1>1 DEF ManifestIsPrefix
<1>7. CASE log' = SubSeq(log, 1, kept) /\ ended' = (kept < Len(log) \/ ended)
  <2>1. /\ log' \in Lines /\ Len(log') = kept
        /\ \A k \in 1..kept : log'[k] = log[k]
    BY <1>4, <1>5, <1>7
  <2>2. ended' \in BOOLEAN /\ (~ended' => synced < Len(log'))
    <3>1. CASE kept < Len(log)
      <4>1. ended' = TRUE
        BY <1>7, <3>1
      <4>. QED
        BY <4>1
    <3>2. CASE ~ (kept < Len(log))
      <4>1. (kept < Len(log) \/ ended) <=> ended
        BY <3>2
      <4>2. ended' = ended /\ Len(log') = Len(log)
        BY <1>2, <1>7, <3>2
      <4>. QED
        BY <1>2, <4>2
    <3>. QED
      BY <3>1, <3>2
  <2>3. LinesCount' /\ AcknowledgedIsSynced'
    <3>1. \A k \in 1..Len(log') : k > kept => ~Parses(log'[k])
      BY <2>1
    <3>2. kept <= Len(log')
      BY <2>1
    <3>. QED
      BY <1>1, <2>1, FirstLinesStay
  <2>4. JournalTypes' /\ EndOfFile' /\ WatermarkCounts' /\ HandleFollows'
    BY <1>1, <2>1, <2>2, ClosedHolds
  <2>. QED
    BY <1>6, <2>3, <2>4 DEF JournalInd
<1>8. CASE /\ kept > synced
           /\ log' = Append(SubSeq(log, 1, kept - 1), <<Torn>>)
           /\ ended' = FALSE
  <2>. DEFINE n == kept - 1
              front == SubSeq(log, 1, n)
  <2>1. n \in Nat /\ n \in synced..Len(log) /\ n + 1 = kept
    BY <1>4, <1>8
  <2>2. front \in Lines /\ Len(front) = n /\ \A k \in 1..n : front[k] = log[k]
    BY <1>5, <2>1
  <2>3. <<Torn>> \in Seq(Entry \cup {Torn}) \ {<<>>} /\ ~Parses(<<Torn>>)
    BY DEF Parses
  <2>4. log' = Append(front, <<Torn>>)
    BY <1>8
  <2>. HIDE DEF n, front
  <2>5. /\ log' \in Lines /\ Len(log') = n + 1
        /\ \A k \in 1..n : log'[k] = log[k]
        /\ log'[n + 1] = <<Torn>>
    BY <2>2, <2>4 DEF Lines
  <2>6. LinesCount' /\ AcknowledgedIsSynced'
    <3>1. \A k \in 1..Len(log') : k > n => ~Parses(log'[k])
      BY <2>1, <2>3, <2>5
    <3>2. n <= Len(log')
      BY <2>1, <2>5
    <3>. QED
      BY <1>1, <2>1, <2>5, <3>1, FirstLinesStay
  <2>7. synced < Len(log') /\ synced <= Len(log')
    BY <1>4, <2>1, <2>5
  <2>8. JournalTypes' /\ EndOfFile' /\ WatermarkCounts' /\ HandleFollows'
    BY <1>1, <1>8, <2>5, <2>7, ClosedHolds
  <2>. QED
    BY <1>6, <2>6, <2>8 DEF JournalInd
<1>. QED
  BY <1>3, <1>7, <1>8

\* Every step of the journal.
LEMMA JournalStep == JournalInd /\ [JournalNext]_journalVars => JournalInd'
<1>. SUFFICES ASSUME JournalInd, [JournalNext]_journalVars PROVE JournalInd'
  OBVIOUS
<1>1. CASE JournalNext
  BY <1>1, CreateKeeps, OpenKeeps, BeginAppendKeeps, WriteLineKeeps, WriteNewlineKeeps,
     SyncKeeps, ApplyEventKeeps, PersistManifestKeeps, StopKeeps, PowerLossKeeps DEF
     JournalNext
<1>2. CASE UNCHANGED journalVars
  <2>1. UNCHANGED <<log, ended, synced, manifest, mem, pc, event, acked, crashes, machine>>
    BY <1>2 DEF journalVars
  <2>2. JournalTypes' /\ EndOfFile' /\ WatermarkCounts' /\ HandleFollows'
    BY <2>1, LogRests DEF JournalInd, JournalTypes, EndOfFile, WatermarkCounts,
       HandleFollows
  <2>. QED
    BY <2>1, <2>2, LogRests, AcknowledgedRests, ManifestRests DEF JournalInd
<1>. QED
  BY <1>1, <1>2

\* The invariant holds across all kills, power losses and restarts.
THEOREM JournalInvariance == JournalSpec => []JournalInd
<1>. QED
  BY JournalInitially, JournalStep, PTL DEF JournalSpec

\* JournalInv: what RunJournal holds besides the log is derived from the log,
\* for any events, any length and any number of failures.
THEOREM JournalInvHolds == JournalSpec => []JournalInv
<1>1. ASSUME JournalInd PROVE JournalInv
  <2>1. JournalTypeOK
    <3>1. \A i \in DOMAIN log : log[i] \in Seq(Entry \cup {Torn})
      BY <1>1 DEF JournalInd, JournalTypes
    <3>2. \A i \in DOMAIN log : \A j \in DOMAIN log[i] : log[i][j] \in Entry \cup {Torn}
      BY <3>1
    <3>. QED
      BY <1>1 DEF JournalInd, JournalTypes, JournalTypeOK, Projections
  <2>2. MemoryIsReplay
    BY <1>1 DEF JournalInd, HandleFollows, MemoryIsReplay
  <2>3. SeqIsPosition
    BY <1>1, ReadableLog DEF SeqIsPosition
  <2>. QED
    BY <1>1, <2>1, <2>2, <2>3 DEF JournalInd, JournalInv
<1>. QED
  BY <1>1, JournalInvariance, PTL

\* AcknowledgedIsKept: an event whose append returned is in every later reading
\* of the log.
THEOREM AcknowledgedIsKeptHolds == JournalSpec => []AcknowledgedIsKept
<1>1. ASSUME JournalInd PROVE AcknowledgedIsKept
  <2>1. SUFFICES ASSUME Readable(log), NEW e \in acked
                 PROVE  \E i \in DOMAIN log : i <= synced /\ log[i][1] = e
    BY DEF AcknowledgedIsKept
  <2>2. DOMAIN log = 1..Len(log) /\ Len(log) \in Nat /\ synced \in 0..Len(log)
    BY <1>1 DEF JournalInd, JournalTypes
  <2>3. WholeTo(log, synced)
    BY <2>1, <2>2 DEF WholeTo, Readable
  <2>4. PICK i \in 1..synced : log[i][1] = e
    BY <1>1, <2>3 DEF JournalInd, AcknowledgedIsSynced
  <2>. QED
    BY <2>2, <2>4
<1>. QED
  BY <1>1, JournalInvariance, PTL

-----------------------------------------------------------------------------
(***************************************************************************)
(* The durable plan store and the commands that meet there, proved for any *)
(* number of plans, cuts, resumes and abandons, killed anywhere: an address *)
(* tells what became of its plan, a started run keeps its plan, and a run  *)
(* that ended stays as it ended.                                           *)
(***************************************************************************)

\* Between taking the lock and giving it up.
Locked == {"read", "link", "clear", "reload", "create", "open", "execute", "scan",
           "abandon", "load", "mark", "remove", "unlock"}

\* Whoever works on the store has its name in the lock.
LockIsHeld == \A p \in Process : step[p] \in Locked => lock = p

\* Which command takes which step.
StepsByCommand ==
  \A p \in Process :
    /\ step[p] \in {"read", "link", "clear"} => p \in Plans
    /\ step[p] \in {"lock", "reload", "create"} => p \in Cuts
    /\ step[p] = "open" => p \in Resumes
    /\ step[p] = "execute" => p \in Cuts \cup Resumes
    /\ step[p] \in {"scan", "reopen", "abandon", "load", "mark", "remove"} => p \in Abandons

\* What a command found out under the lock still holds when it acts on it.
FindingsHold ==
  \A p \in Process :
    /\ step[p] \in {"clear", "create"} => plan
    /\ step[p] \in {"load", "mark", "remove"} => Runs = {}
    /\ step[p] = "remove" => marker
    /\ step[p] \in {"execute", "reopen", "abandon"} => subject[p] \in Runs
    /\ step[p] = "execute" => run[subject[p]] = "in_progress"

\* A cut makes its run once.
RunIsNew == \A c \in Cuts : step[c] \in {"start", "lock", "reload", "create"} => run[c] = "none"

StoreInd ==
  /\ StoreTypeOK
  /\ LockIsHeld
  /\ StepsByCommand
  /\ FindingsHold
  /\ RunIsNew
  /\ StartedRunHasPlan
  /\ DisposalIsRemembered
  /\ ReapprovalIsComplete

-----------------------------------------------------------------------------
\* No plan was saved and no run was cut when the first command starts.
LEMMA StoreInitially == StoreInit => StoreInd
BY DEF StoreInit, StoreInd, StoreTypeOK, LockIsHeld, StepsByCommand, FindingsHold,
   RunIsNew, StartedRunHasPlan, DisposalIsRemembered, ReapprovalIsComplete, Locked, Runs,
   Process

\* Taking the lock, from nobody or from a process that was killed.
LEMMA LocksKeeps ==
  ASSUME StoreInd, NEW p \in Process, Locks(p)
  PROVE  StoreInd'
<1>1. StoreTypeOK'
  BY DEF StoreInd, StoreTypeOK, Locks, Goto, files, Process, FirstStep
<1>2. LockIsHeld'
  BY CommandsAssumption DEF StoreInd, StoreTypeOK, LockIsHeld, Locks, Goto, Locked,
     Process, Stale
<1>3. StepsByCommand'
  BY DEF StoreInd, StoreTypeOK, StepsByCommand, Locks, Goto, Process, FirstStep
<1>4. FindingsHold'
  BY DEF StoreInd, StoreTypeOK, FindingsHold, Locks, Goto, files, Runs, Process,
     FirstStep
<1>5. RunIsNew'
  BY DEF StoreInd, StoreTypeOK, RunIsNew, Locks, Goto, Process
<1>6. StartedRunHasPlan'
  BY DEF StoreInd, StoreTypeOK, StartedRunHasPlan, Locks, files, Runs, Process
<1>7. DisposalIsRemembered'
  BY DEF StoreInd, StoreTypeOK, DisposalIsRemembered, Locks, files, Process
<1>8. ReapprovalIsComplete'
  BY DEF StoreInd, StoreTypeOK, ReapprovalIsComplete, Locks, Goto, files, Process,
     FirstStep
<1>. QED
  BY <1>1, <1>2, <1>3, <1>4, <1>5, <1>6, <1>7, <1>8 DEF StoreInd

\* A refused command leaves everything as it is.
LEMMA RefusedKeeps ==
  ASSUME StoreInd, NEW p \in Process, Refused(p)
  PROVE  StoreInd'
<1>1. StoreTypeOK'
  BY DEF StoreInd, StoreTypeOK, Refused, Goto, files, Process
<1>2. LockIsHeld'
  BY DEF StoreInd, StoreTypeOK, LockIsHeld, Refused, Goto, Locked, Process
<1>3. StepsByCommand'
  BY DEF StoreInd, StoreTypeOK, StepsByCommand, Refused, Goto, Process
<1>4. FindingsHold'
  BY DEF StoreInd, StoreTypeOK, FindingsHold, Refused, Goto, files, Runs, Process
<1>5. RunIsNew'
  BY DEF StoreInd, StoreTypeOK, RunIsNew, Refused, Goto, Process
<1>6. StartedRunHasPlan'
  BY DEF StoreInd, StoreTypeOK, StartedRunHasPlan, Refused, files, Runs, Process
<1>7. DisposalIsRemembered'
  BY DEF StoreInd, StoreTypeOK, DisposalIsRemembered, Refused, files, Process
<1>8. ReapprovalIsComplete'
  BY DEF StoreInd, StoreTypeOK, ReapprovalIsComplete, Refused, Goto, files, Process
<1>. QED
  BY <1>1, <1>2, <1>3, <1>4, <1>5, <1>6, <1>7, <1>8 DEF StoreInd

\* The guard's drop.
LEMMA UnlockKeeps ==
  ASSUME StoreInd, NEW p \in Process, Unlock(p)
  PROVE  StoreInd'
<1>1. StoreTypeOK'
  BY DEF StoreInd, StoreTypeOK, Unlock, Goto, files, Process
<1>2. LockIsHeld'
  BY DEF StoreInd, StoreTypeOK, LockIsHeld, Unlock, Goto, Locked, Process
<1>3. StepsByCommand'
  BY DEF StoreInd, StoreTypeOK, StepsByCommand, Unlock, Goto, Process
<1>4. FindingsHold'
  BY DEF StoreInd, StoreTypeOK, FindingsHold, Unlock, Goto, files, Runs, Process
<1>5. RunIsNew'
  BY DEF StoreInd, StoreTypeOK, RunIsNew, Unlock, Goto, Process
<1>6. StartedRunHasPlan'
  BY DEF StoreInd, StoreTypeOK, StartedRunHasPlan, Unlock, files, Runs, Process
<1>7. DisposalIsRemembered'
  BY DEF StoreInd, StoreTypeOK, DisposalIsRemembered, Unlock, files, Process
<1>8. ReapprovalIsComplete'
  BY DEF StoreInd, StoreTypeOK, ReapprovalIsComplete, Unlock, Goto, files, Process
<1>. QED
  BY <1>1, <1>2, <1>3, <1>4, <1>5, <1>6, <1>7, <1>8 DEF StoreInd

\* A failing command drops its guard and leaves its files.
LEMMA FailsKeeps ==
  ASSUME StoreInd, NEW p \in Process, Fails(p)
  PROVE  StoreInd'
<1>1. StoreTypeOK'
  BY DEF StoreInd, StoreTypeOK, Fails, Goto, files, Process
<1>2. LockIsHeld'
  BY DEF StoreInd, StoreTypeOK, LockIsHeld, Fails, Goto, Locked, Process
<1>3. StepsByCommand'
  BY DEF StoreInd, StoreTypeOK, StepsByCommand, Fails, Goto, Process
<1>4. FindingsHold'
  BY DEF StoreInd, StoreTypeOK, FindingsHold, Fails, Goto, files, Runs, Process
<1>5. RunIsNew'
  BY DEF StoreInd, StoreTypeOK, RunIsNew, Fails, Goto, Process
<1>6. StartedRunHasPlan'
  BY DEF StoreInd, StoreTypeOK, StartedRunHasPlan, Fails, files, Runs, Process
<1>7. DisposalIsRemembered'
  BY DEF StoreInd, StoreTypeOK, DisposalIsRemembered, Fails, files, Process
<1>8. ReapprovalIsComplete'
  BY DEF StoreInd, StoreTypeOK, ReapprovalIsComplete, Fails, Goto, files, Process
<1>. QED
  BY <1>1, <1>2, <1>3, <1>4, <1>5, <1>6, <1>7, <1>8 DEF StoreInd

\* A killed command leaves its lock behind, and it is nobody's then.
LEMMA CrashKeeps ==
  ASSUME StoreInd, NEW p \in Process, Crash(p)
  PROVE  StoreInd'
<1>1. StoreTypeOK'
  BY DEF StoreInd, StoreTypeOK, Crash, Goto, files, Process
<1>2. LockIsHeld'
  BY DEF StoreInd, StoreTypeOK, LockIsHeld, Crash, Goto, Locked, Process
<1>3. StepsByCommand'
  BY DEF StoreInd, StoreTypeOK, StepsByCommand, Crash, Goto, Process
<1>4. FindingsHold'
  BY DEF StoreInd, StoreTypeOK, FindingsHold, Crash, Goto, files, Runs, Process
<1>5. RunIsNew'
  BY DEF StoreInd, StoreTypeOK, RunIsNew, Crash, Goto, Process
<1>6. StartedRunHasPlan'
  BY DEF StoreInd, StoreTypeOK, StartedRunHasPlan, Crash, files, Runs, Process
<1>7. DisposalIsRemembered'
  BY DEF StoreInd, StoreTypeOK, DisposalIsRemembered, Crash, files, Process
<1>8. ReapprovalIsComplete'
  BY DEF StoreInd, StoreTypeOK, ReapprovalIsComplete, Crash, Goto, files, Process
<1>. QED
  BY <1>1, <1>2, <1>3, <1>4, <1>5, <1>6, <1>7, <1>8 DEF StoreInd

\* A save finds the same bytes there or not.
LEMMA SaveReadsKeeps ==
  ASSUME StoreInd, NEW p \in Process, SaveReads(p)
  PROVE  StoreInd'
<1>1. StoreTypeOK'
  BY DEF StoreInd, StoreTypeOK, SaveReads, Goto, files, Process
<1>2. LockIsHeld'
  BY DEF StoreInd, StoreTypeOK, LockIsHeld, SaveReads, Goto, Locked, Process
<1>3. StepsByCommand'
  BY DEF StoreInd, StoreTypeOK, StepsByCommand, SaveReads, Goto, Process
<1>4. FindingsHold'
  BY DEF StoreInd, StoreTypeOK, FindingsHold, SaveReads, Goto, files, Runs, Process
<1>5. RunIsNew'
  BY DEF StoreInd, StoreTypeOK, RunIsNew, SaveReads, Goto, Process
<1>6. StartedRunHasPlan'
  BY DEF StoreInd, StoreTypeOK, StartedRunHasPlan, SaveReads, files, Runs, Process
<1>7. DisposalIsRemembered'
  BY DEF StoreInd, StoreTypeOK, DisposalIsRemembered, SaveReads, files, Process
<1>8. ReapprovalIsComplete'
  BY DEF StoreInd, StoreTypeOK, ReapprovalIsComplete, SaveReads, Goto, files, Process
<1>. QED
  BY <1>1, <1>2, <1>3, <1>4, <1>5, <1>6, <1>7, <1>8 DEF StoreInd

\* The document is linked in.
LEMMA SaveLinksKeeps ==
  ASSUME StoreInd, NEW p \in Process, SaveLinks(p)
  PROVE  StoreInd'
<1>1. StoreTypeOK'
  BY DEF StoreInd, StoreTypeOK, SaveLinks, Goto, Process
<1>2. LockIsHeld'
  BY DEF StoreInd, StoreTypeOK, LockIsHeld, SaveLinks, Goto, Locked, Process
<1>3. StepsByCommand'
  BY DEF StoreInd, StoreTypeOK, StepsByCommand, SaveLinks, Goto, Process
<1>4. FindingsHold'
  BY DEF StoreInd, StoreTypeOK, FindingsHold, SaveLinks, Goto, Runs, Process
<1>5. RunIsNew'
  BY DEF StoreInd, StoreTypeOK, RunIsNew, SaveLinks, Goto, Process
<1>6. StartedRunHasPlan'
  BY DEF StoreInd, StoreTypeOK, StartedRunHasPlan, SaveLinks, Process
<1>7. DisposalIsRemembered'
  BY DEF StoreInd, StoreTypeOK, DisposalIsRemembered, SaveLinks, Process
<1>8. ReapprovalIsComplete'
  BY DEF StoreInd, StoreTypeOK, ReapprovalIsComplete, SaveLinks, Goto, Process
<1>. QED
  BY <1>1, <1>2, <1>3, <1>4, <1>5, <1>6, <1>7, <1>8 DEF StoreInd

\* A save clears the marker of an earlier disposal.
LEMMA SaveClearsKeeps ==
  ASSUME StoreInd, NEW p \in Process, SaveClears(p)
  PROVE  StoreInd'
<1>1. StoreTypeOK'
  BY DEF StoreInd, StoreTypeOK, SaveClears, Goto, Process
<1>2. LockIsHeld'
  BY DEF StoreInd, StoreTypeOK, LockIsHeld, SaveClears, Goto, Locked, Process
<1>3. StepsByCommand'
  BY DEF StoreInd, StoreTypeOK, StepsByCommand, SaveClears, Goto, Process
<1>4. FindingsHold'
  BY DEF StoreInd, StoreTypeOK, LockIsHeld, FindingsHold, SaveClears, Goto, Locked,
     Runs, Process
<1>5. RunIsNew'
  BY DEF StoreInd, StoreTypeOK, RunIsNew, SaveClears, Goto, Process
<1>6. StartedRunHasPlan'
  BY DEF StoreInd, StoreTypeOK, FindingsHold, StartedRunHasPlan, SaveClears, Process
<1>7. DisposalIsRemembered'
  BY DEF StoreInd, StoreTypeOK, FindingsHold, DisposalIsRemembered, SaveClears, Process
<1>8. ReapprovalIsComplete'
  BY DEF StoreInd, StoreTypeOK, FindingsHold, ReapprovalIsComplete, SaveClears, Process
<1>. QED
  BY <1>1, <1>2, <1>3, <1>4, <1>5, <1>6, <1>7, <1>8 DEF StoreInd

\* The load before the lock promises nothing.
LEMMA CutLoadsKeeps ==
  ASSUME StoreInd, NEW p \in Process, CutLoads(p)
  PROVE  StoreInd'
<1>1. StoreTypeOK'
  BY DEF StoreInd, StoreTypeOK, CutLoads, Goto, files, Process
<1>2. LockIsHeld'
  BY DEF StoreInd, StoreTypeOK, LockIsHeld, CutLoads, Goto, Locked, Process
<1>3. StepsByCommand'
  BY DEF StoreInd, StoreTypeOK, StepsByCommand, CutLoads, Goto, Process
<1>4. FindingsHold'
  BY DEF StoreInd, StoreTypeOK, FindingsHold, CutLoads, Goto, files, Runs, Process
<1>5. RunIsNew'
  BY DEF StoreInd, StoreTypeOK, RunIsNew, CutLoads, Goto, Process
<1>6. StartedRunHasPlan'
  BY DEF StoreInd, StoreTypeOK, StartedRunHasPlan, CutLoads, files, Runs, Process
<1>7. DisposalIsRemembered'
  BY DEF StoreInd, StoreTypeOK, DisposalIsRemembered, CutLoads, files, Process
<1>8. ReapprovalIsComplete'
  BY DEF StoreInd, StoreTypeOK, ReapprovalIsComplete, CutLoads, Goto, files, Process
<1>. QED
  BY <1>1, <1>2, <1>3, <1>4, <1>5, <1>6, <1>7, <1>8 DEF StoreInd

\* Under the lock the plan is there or it is not.
LEMMA CutReloadsKeeps ==
  ASSUME StoreInd, NEW p \in Process, CutReloads(p)
  PROVE  StoreInd'
<1>1. StoreTypeOK'
  BY DEF StoreInd, StoreTypeOK, CutReloads, Goto, files, Process
<1>2. LockIsHeld'
  BY DEF StoreInd, StoreTypeOK, LockIsHeld, CutReloads, Goto, Locked, Process
<1>3. StepsByCommand'
  BY DEF StoreInd, StoreTypeOK, StepsByCommand, CutReloads, Goto, Process
<1>4. FindingsHold'
  BY DEF StoreInd, StoreTypeOK, FindingsHold, CutReloads, Goto, files, Runs, Process
<1>5. RunIsNew'
  BY DEF StoreInd, StoreTypeOK, RunIsNew, CutReloads, Goto, Process
<1>6. StartedRunHasPlan'
  BY DEF StoreInd, StoreTypeOK, StartedRunHasPlan, CutReloads, files, Runs, Process
<1>7. DisposalIsRemembered'
  BY DEF StoreInd, StoreTypeOK, DisposalIsRemembered, CutReloads, files, Process
<1>8. ReapprovalIsComplete'
  BY CommandsAssumption DEF StoreInd, StoreTypeOK, StepsByCommand, ReapprovalIsComplete,
     CutReloads, Goto, files, Process
<1>. QED
  BY <1>1, <1>2, <1>3, <1>4, <1>5, <1>6, <1>7, <1>8 DEF StoreInd

\* The run is journaled while the plan is there.
LEMMA CutCreatesRunKeeps ==
  ASSUME StoreInd, NEW p \in Process, CutCreatesRun(p)
  PROVE  StoreInd'
<1>1. StoreTypeOK'
  BY DEF StoreInd, StoreTypeOK, StepsByCommand, CutCreatesRun, Goto, files, Process
<1>2. LockIsHeld'
  BY DEF StoreInd, StoreTypeOK, LockIsHeld, CutCreatesRun, Goto, Locked, Process
<1>3. StepsByCommand'
  BY DEF StoreInd, StoreTypeOK, StepsByCommand, CutCreatesRun, Goto, Process
<1>4. FindingsHold'
  BY DEF StoreInd, StoreTypeOK, LockIsHeld, StepsByCommand, FindingsHold, CutCreatesRun,
     Goto, Locked, Runs, Process
<1>5. RunIsNew'
  BY DEF StoreInd, StoreTypeOK, RunIsNew, CutCreatesRun, Goto, Process
<1>6. StartedRunHasPlan'
  BY DEF StoreInd, StoreTypeOK, FindingsHold, StartedRunHasPlan, CutCreatesRun, files,
     Process
<1>7. DisposalIsRemembered'
  BY DEF StoreInd, StoreTypeOK, DisposalIsRemembered, CutCreatesRun, files, Process
<1>8. ReapprovalIsComplete'
  BY CommandsAssumption DEF StoreInd, StoreTypeOK, StepsByCommand, ReapprovalIsComplete,
     CutCreatesRun, Goto, files, Process
<1>. QED
  BY <1>1, <1>2, <1>3, <1>4, <1>5, <1>6, <1>7, <1>8 DEF StoreInd

\* Only a run in progress is resumed.
LEMMA ResumeOpensKeeps ==
  ASSUME StoreInd, NEW p \in Process, ResumeOpens(p)
  PROVE  StoreInd'
<1>1. StoreTypeOK'
  BY DEF StoreInd, StoreTypeOK, ResumeOpens, Goto, files, Runs, Process
<1>2. LockIsHeld'
  BY DEF StoreInd, StoreTypeOK, LockIsHeld, ResumeOpens, Goto, Locked, Process
<1>3. StepsByCommand'
  BY DEF StoreInd, StoreTypeOK, StepsByCommand, ResumeOpens, Goto, Process
<1>4. FindingsHold'
  BY DEF StoreInd, StoreTypeOK, FindingsHold, ResumeOpens, Goto, files, Runs, Process
<1>5. RunIsNew'
  BY DEF StoreInd, StoreTypeOK, RunIsNew, ResumeOpens, Goto, Process
<1>6. StartedRunHasPlan'
  BY DEF StoreInd, StoreTypeOK, StartedRunHasPlan, ResumeOpens, files, Runs, Process
<1>7. DisposalIsRemembered'
  BY DEF StoreInd, StoreTypeOK, DisposalIsRemembered, ResumeOpens, files, Process
<1>8. ReapprovalIsComplete'
  BY CommandsAssumption DEF StoreInd, StoreTypeOK, StepsByCommand, ReapprovalIsComplete,
     ResumeOpens, Goto, files, Process
<1>. QED
  BY <1>1, <1>2, <1>3, <1>4, <1>5, <1>6, <1>7, <1>8 DEF StoreInd

\* The coordinator ends its own run.
LEMMA ExecuteKeeps ==
  ASSUME StoreInd, NEW p \in Process, Execute(p)
  PROVE  StoreInd'
<1>1. StoreTypeOK'
  BY DEF StoreInd, StoreTypeOK, Execute, Goto, files, Process
<1>2. LockIsHeld'
  BY DEF StoreInd, StoreTypeOK, LockIsHeld, Execute, Goto, Locked, Process
<1>3. StepsByCommand'
  BY DEF StoreInd, StoreTypeOK, StepsByCommand, Execute, Goto, Process
<1>4. FindingsHold'
  BY DEF StoreInd, StoreTypeOK, LockIsHeld, FindingsHold, Execute, Goto, Locked, Runs,
     Process
<1>5. RunIsNew'
  BY DEF StoreInd, StoreTypeOK, FindingsHold, RunIsNew, Execute, Goto, Process
<1>6. StartedRunHasPlan'
  BY DEF StoreInd, StoreTypeOK, FindingsHold, StartedRunHasPlan, Execute, files, Process
<1>7. DisposalIsRemembered'
  BY DEF StoreInd, StoreTypeOK, DisposalIsRemembered, Execute, files, Process
<1>8. ReapprovalIsComplete'
  BY CommandsAssumption DEF StoreInd, StoreTypeOK, StepsByCommand, ReapprovalIsComplete,
     Execute, Goto, files, Process
<1>. QED
  BY <1>1, <1>2, <1>3, <1>4, <1>5, <1>6, <1>7, <1>8 DEF StoreInd

\* A plan that backs one run gives way to a run there is.
LEMMA ScannedRun ==
  ASSUME Cardinality(Runs) = 1
  PROVE  (CHOOSE c \in Runs : TRUE) \in Runs
<1>1. Runs # {}
  BY FS_EmptySet
<1>. QED
  BY <1>1

\* What the abandon of a plan finds decides where it goes on.
LEMMA ScanKeeps ==
  ASSUME StoreInd, NEW p \in Process, Scan(p)
  PROVE  StoreInd'
<1>0. Runs \subseteq Cuts /\ subject' \in [Process -> Cuts \cup {Nobody}]
  BY ScannedRun DEF StoreInd, StoreTypeOK, Scan, Runs
<1>1. StoreTypeOK'
  BY <1>0 DEF StoreInd, StoreTypeOK, Scan, Goto, files, Runs, Process
<1>2. LockIsHeld'
  BY DEF StoreInd, StoreTypeOK, LockIsHeld, Scan, Goto, Locked, Runs, Process
<1>3. StepsByCommand'
  BY DEF StoreInd, StoreTypeOK, StepsByCommand, Scan, Goto, Runs, Process
<1>4. FindingsHold'
  <2>1. CASE Cardinality(Runs) = 1
    <3>1. subject' = [subject EXCEPT ![p] = CHOOSE c \in Runs : TRUE] /\ step' = [step EXCEPT ![p] = "reopen"]
      BY <2>1 DEF Scan, Goto
    <3>2. subject'[p] \in Runs
      BY <2>1, <3>1, ScannedRun DEF StoreInd, StoreTypeOK
    <3>. QED
      BY <3>1, <3>2 DEF StoreInd, FindingsHold, Scan, files, Runs, Process
  <2>2. CASE Cardinality(Runs) # 1
    BY <2>2 DEF StoreInd, StoreTypeOK, FindingsHold, Scan, Goto, files, Runs, Process
  <2>. QED
    BY <2>1, <2>2
<1>5. RunIsNew'
  BY DEF StoreInd, StoreTypeOK, RunIsNew, Scan, Goto, Runs, Process
<1>6. StartedRunHasPlan'
  BY DEF StoreInd, StartedRunHasPlan, Scan, files, Runs, Process
<1>7. DisposalIsRemembered'
  BY DEF StoreInd, DisposalIsRemembered, Scan, files, Runs, Process
<1>8. ReapprovalIsComplete'
  BY CommandsAssumption DEF StoreInd, StoreTypeOK, StepsByCommand, ReapprovalIsComplete,
     Scan, Goto, files, Runs, Process
<1>. QED
  BY <1>1, <1>2, <1>3, <1>4, <1>5, <1>6, <1>7, <1>8 DEF StoreInd

\* An abandon that names a run.
LEMMA AbandonNamesKeeps ==
  ASSUME StoreInd, NEW p \in Process, AbandonNames(p)
  PROVE  StoreInd'
<1>1. StoreTypeOK'
  BY DEF StoreInd, StoreTypeOK, AbandonNames, Goto, files, Runs, Process
<1>2. LockIsHeld'
  BY DEF StoreInd, StoreTypeOK, LockIsHeld, AbandonNames, Goto, Locked, Process
<1>3. StepsByCommand'
  BY DEF StoreInd, StoreTypeOK, StepsByCommand, AbandonNames, Goto, Process
<1>4. FindingsHold'
  BY DEF StoreInd, StoreTypeOK, FindingsHold, AbandonNames, Goto, files, Runs, Process
<1>5. RunIsNew'
  BY DEF StoreInd, StoreTypeOK, RunIsNew, AbandonNames, Goto, Process
<1>6. StartedRunHasPlan'
  BY DEF StoreInd, StoreTypeOK, StartedRunHasPlan, AbandonNames, files, Process
<1>7. DisposalIsRemembered'
  BY DEF StoreInd, StoreTypeOK, DisposalIsRemembered, AbandonNames, files, Process
<1>8. ReapprovalIsComplete'
  BY DEF StoreInd, StoreTypeOK, ReapprovalIsComplete, AbandonNames, Goto, files, Process
<1>. QED
  BY <1>1, <1>2, <1>3, <1>4, <1>5, <1>6, <1>7, <1>8 DEF StoreInd

\* The run's journal is opened under the lock taken anew.
LEMMA AbandonReopensKeeps ==
  ASSUME StoreInd, NEW p \in Process, AbandonReopens(p)
  PROVE  StoreInd'
<1>1. StoreTypeOK'
  BY DEF StoreInd, StoreTypeOK, AbandonReopens, Goto, files, Process
<1>2. LockIsHeld'
  BY CommandsAssumption DEF StoreInd, StoreTypeOK, LockIsHeld, AbandonReopens, Goto,
     Locked, Process, Stale
<1>3. StepsByCommand'
  BY DEF StoreInd, StoreTypeOK, StepsByCommand, AbandonReopens, Goto, Process
<1>4. FindingsHold'
  BY DEF StoreInd, StoreTypeOK, FindingsHold, AbandonReopens, Goto, files, Runs, Process
<1>5. RunIsNew'
  BY DEF StoreInd, StoreTypeOK, RunIsNew, AbandonReopens, Goto, Process
<1>6. StartedRunHasPlan'
  BY DEF StoreInd, StoreTypeOK, FindingsHold, StartedRunHasPlan, AbandonReopens, files,
     Process
<1>7. DisposalIsRemembered'
  BY DEF StoreInd, StoreTypeOK, DisposalIsRemembered, AbandonReopens, files, Process
<1>8. ReapprovalIsComplete'
  BY DEF StoreInd, StoreTypeOK, ReapprovalIsComplete, AbandonReopens, Goto, files,
     Process
<1>. QED
  BY <1>1, <1>2, <1>3, <1>4, <1>5, <1>6, <1>7, <1>8 DEF StoreInd

\* Only a run in progress is abandoned.
LEMMA AbandonRunKeeps ==
  ASSUME StoreInd, NEW p \in Process, AbandonRun(p)
  PROVE  StoreInd'
<1>1. StoreTypeOK'
  BY DEF StoreInd, StoreTypeOK, AbandonRun, Goto, files, Process
<1>2. LockIsHeld'
  BY DEF StoreInd, StoreTypeOK, LockIsHeld, AbandonRun, Goto, Locked, Process
<1>3. StepsByCommand'
  BY DEF StoreInd, StoreTypeOK, StepsByCommand, AbandonRun, Goto, Process
<1>4. FindingsHold'
  BY DEF StoreInd, StoreTypeOK, LockIsHeld, FindingsHold, AbandonRun, Goto, Locked,
     Runs, Process
<1>5. RunIsNew'
  BY DEF StoreInd, StoreTypeOK, RunIsNew, AbandonRun, Goto, Process
<1>6. StartedRunHasPlan'
  BY DEF StoreInd, StoreTypeOK, FindingsHold, StartedRunHasPlan, AbandonRun, files,
     Process
<1>7. DisposalIsRemembered'
  BY DEF StoreInd, StoreTypeOK, DisposalIsRemembered, AbandonRun, files, Process
<1>8. ReapprovalIsComplete'
  BY CommandsAssumption DEF StoreInd, StoreTypeOK, StepsByCommand, ReapprovalIsComplete,
     AbandonRun, Goto, files, Process
<1>. QED
  BY <1>1, <1>2, <1>3, <1>4, <1>5, <1>6, <1>7, <1>8 DEF StoreInd

\* A plan no run was cut from may be disposed of.
LEMMA DiscardLoadsKeeps ==
  ASSUME StoreInd, NEW p \in Process, DiscardLoads(p)
  PROVE  StoreInd'
<1>1. StoreTypeOK'
  BY DEF StoreInd, StoreTypeOK, DiscardLoads, Goto, files, Process
<1>2. LockIsHeld'
  BY DEF StoreInd, StoreTypeOK, LockIsHeld, DiscardLoads, Goto, Locked, Process
<1>3. StepsByCommand'
  BY DEF StoreInd, StoreTypeOK, StepsByCommand, DiscardLoads, Goto, Process
<1>4. FindingsHold'
  BY DEF StoreInd, StoreTypeOK, FindingsHold, DiscardLoads, Goto, files, Runs, Process
<1>5. RunIsNew'
  BY DEF StoreInd, StoreTypeOK, RunIsNew, DiscardLoads, Goto, Process
<1>6. StartedRunHasPlan'
  BY DEF StoreInd, StoreTypeOK, FindingsHold, StartedRunHasPlan, DiscardLoads, Runs,
     Process
<1>7. DisposalIsRemembered'
  BY DEF StoreInd, StoreTypeOK, DisposalIsRemembered, DiscardLoads, files, Process
<1>8. ReapprovalIsComplete'
  BY CommandsAssumption DEF StoreInd, StoreTypeOK, StepsByCommand, ReapprovalIsComplete,
     DiscardLoads, Goto, files, Process
<1>. QED
  BY <1>1, <1>2, <1>3, <1>4, <1>5, <1>6, <1>7, <1>8 DEF StoreInd

\* The marker comes first.
LEMMA DiscardMarksKeeps ==
  ASSUME StoreInd, NEW p \in Process, DiscardMarks(p)
  PROVE  StoreInd'
<1>1. StoreTypeOK'
  BY DEF StoreInd, StoreTypeOK, DiscardMarks, Goto, Process
<1>2. LockIsHeld'
  BY DEF StoreInd, StoreTypeOK, LockIsHeld, DiscardMarks, Goto, Locked, Process
<1>3. StepsByCommand'
  BY DEF StoreInd, StoreTypeOK, StepsByCommand, DiscardMarks, Goto, Process
<1>4. FindingsHold'
  BY DEF StoreInd, StoreTypeOK, FindingsHold, DiscardMarks, Goto, Runs, Process
<1>5. RunIsNew'
  BY DEF StoreInd, StoreTypeOK, RunIsNew, DiscardMarks, Goto, Process
<1>6. StartedRunHasPlan'
  BY DEF StoreInd, StoreTypeOK, StartedRunHasPlan, DiscardMarks, Runs, Process
<1>7. DisposalIsRemembered'
  BY DEF StoreInd, StoreTypeOK, DisposalIsRemembered, DiscardMarks, Process
<1>8. ReapprovalIsComplete'
  BY DEF StoreInd, StoreTypeOK, LockIsHeld, ReapprovalIsComplete, DiscardMarks, Goto,
     Locked, Process
<1>. QED
  BY <1>1, <1>2, <1>3, <1>4, <1>5, <1>6, <1>7, <1>8 DEF StoreInd

\* The document goes only after the marker.
LEMMA DiscardRemovesKeeps ==
  ASSUME StoreInd, NEW p \in Process, DiscardRemoves(p)
  PROVE  StoreInd'
<1>1. StoreTypeOK'
  BY DEF StoreInd, StoreTypeOK, DiscardRemoves, Goto, Process
<1>2. LockIsHeld'
  BY DEF StoreInd, StoreTypeOK, LockIsHeld, DiscardRemoves, Goto, Locked, Process
<1>3. StepsByCommand'
  BY DEF StoreInd, StoreTypeOK, StepsByCommand, DiscardRemoves, Goto, Process
<1>4. FindingsHold'
  BY DEF StoreInd, StoreTypeOK, LockIsHeld, FindingsHold, DiscardRemoves, Goto, Locked,
     Process
<1>5. RunIsNew'
  BY DEF StoreInd, StoreTypeOK, RunIsNew, DiscardRemoves, Goto, Process
<1>6. StartedRunHasPlan'
  BY DEF StoreInd, StoreTypeOK, FindingsHold, StartedRunHasPlan, DiscardRemoves, Runs,
     Process
<1>7. DisposalIsRemembered'
  BY DEF StoreInd, StoreTypeOK, FindingsHold, DisposalIsRemembered, DiscardRemoves,
     Process
<1>8. ReapprovalIsComplete'
  BY CommandsAssumption DEF StoreInd, StoreTypeOK, StepsByCommand, FindingsHold,
     ReapprovalIsComplete, DiscardRemoves, Goto, Process
<1>. QED
  BY <1>1, <1>2, <1>3, <1>4, <1>5, <1>6, <1>7, <1>8 DEF StoreInd

-----------------------------------------------------------------------------
(* The theorems.                                                           *)

\* Every step of every command keeps the invariant.
LEMMA StoreStep ==
  ASSUME StoreInd, [StoreNext]_storeVars
  PROVE  StoreInd'
<1>1. CASE StoreNext
  BY <1>1, LocksKeeps, RefusedKeeps, UnlockKeeps, FailsKeeps, CrashKeeps,
     SaveReadsKeeps, SaveLinksKeeps, SaveClearsKeeps, CutLoadsKeeps, CutReloadsKeeps,
     CutCreatesRunKeeps, ResumeOpensKeeps, ExecuteKeeps, ScanKeeps, AbandonNamesKeeps,
     AbandonReopensKeeps, AbandonRunKeeps, DiscardLoadsKeeps, DiscardMarksKeeps,
     DiscardRemovesKeeps DEF StoreNext
<1>2. CASE UNCHANGED storeVars
  BY <1>2 DEF storeVars, StoreInd, StoreTypeOK, LockIsHeld, StepsByCommand,
     FindingsHold, RunIsNew, StartedRunHasPlan, DisposalIsRemembered, ReapprovalIsComplete,
     Runs
<1>. QED
  BY <1>1, <1>2
\* The inductive invariant: who works on the store holds the lock, and what it
\* found there under the lock is still so when it acts on it.
THEOREM StoreInvariance == StoreSpec => []StoreInd
<1>1. StoreInd /\ [StoreNext]_storeVars => StoreInd'
  BY StoreStep
<1>. QED
  BY StoreInitially, <1>1, PTL DEF StoreSpec

\* An address that ever held a plan holds it or the marker of its disposal, and
\* saving it again leaves no marker, whichever save or discard was killed before
\* (save, discard, clear_discard_marker).
THEOREM StoreInvHolds == StoreSpec => []StoreInv
<1>1. StoreInd => StoreInv
  BY DEF StoreInd, StoreInv
<1>. QED
  BY StoreInvariance, <1>1, PTL

\* A run that was journaled keeps its sealed plan: no abandon deletes it between
\* the scan for runs and the removal (cut, abandon_plan_or_matching_run).
THEOREM StartedRunHasPlanHolds == StoreSpec => []StartedRunHasPlan
<1>1. StoreInd => StartedRunHasPlan
  BY DEF StoreInd
<1>. QED
  BY StoreInvariance, <1>1, PTL

\* No step changes how a run ended: neither the cut that would create it, nor
\* the coordinator, nor an abandon that opened the run before it ended.
LEMMA EndedRunStays ==
  ASSUME StoreInd, [StoreNext]_storeVars,
         NEW c \in Cuts, run[c] \in {"completed", "abandoned"}
  PROVE  run'[c] = run[c]
<1>. SUFFICES ASSUME NEW p \in Process,
                     CutCreatesRun(p) \/ Execute(p) \/ AbandonRun(p)
              PROVE  run'[c] = run[c]
  BY DEF StoreNext, storeVars, Locks, Refused, Unlock, Fails, Crash, SaveReads,
     SaveLinks, SaveClears, CutLoads, CutReloads, ResumeOpens, Scan, AbandonNames,
     AbandonReopens, DiscardLoads, DiscardMarks, DiscardRemoves
<1>1. CASE CutCreatesRun(p)
  BY <1>1 DEF StoreInd, StoreTypeOK, RunIsNew, CutCreatesRun
<1>2. CASE Execute(p)
  BY <1>2 DEF StoreInd, StoreTypeOK, FindingsHold, Execute
<1>3. CASE AbandonRun(p)
  BY <1>3 DEF StoreInd, AbandonRun
<1>. QED
  BY <1>1, <1>2, <1>3

\* A completed run is never abandoned and an abandoned one never completed,
\* though commands drop and retake the lock between looking and acting.
THEOREM OutcomeIsFinalHolds == StoreSpec => OutcomeIsFinal
<1>1. StoreInd /\ [StoreNext]_storeVars =>
        [\A c \in Cuts : run[c] \in {"completed", "abandoned"} => run'[c] = run[c]]_storeVars
  BY EndedRunStays
<1>. QED
  BY StoreInvariance, <1>1, PTL DEF StoreSpec, OutcomeIsFinal

-----------------------------------------------------------------------------
(***************************************************************************)
(* The skill installation, proved for any number of installers of any      *)
(* versions over the same destinations, killed anywhere, while people edit *)
(* what is there.                                                          *)
(***************************************************************************)

\* A run is of some version; outside a run nothing is held of the plan.
HoldsNothing(i) ==
  IF installer[i].stage \in {"none", "refused", "failed"}
  THEN /\ installer[i].plan = <<>> /\ installer[i].verdict = <<>>
       /\ installer[i].seen = 0 /\ installer[i].done = 0
  ELSE installer[i].version \in SkillVersions

\* The whole plan is inspected before the first write, and a success is
\* reported after the last.
LooksFirst(i) ==
  /\ installer[i].seen \in 0..Len(installer[i].plan)
  /\ installer[i].done \in 0..installer[i].seen
  /\ installer[i].dryRun \/ ~ ReadyToWrite(i) \/ installer[i].stage \in {"none", "refused"}
     => installer[i].done = 0 /\ skillWrites[i] = {}
  /\ Stage(i, "done") => /\ ReadyToWrite(i)
                         /\ installer[i].dryRun \/ installer[i].done = Len(installer[i].plan)

\* There is a verdict on exactly the paths of the inspected entries.
InspectsItsPlan(i) ==
  Inspected(i) = {installer[i].plan[k] : k \in 1..installer[i].seen}

\* Some entry of the plan that is dealt with stands at this path.
Settled(i, p) == \E k \in 1..installer[i].done : installer[i].plan[k] = p

\* What the verdict said still holds where nobody else interfered; where this
\* installer is done, its version is in place.
VerdictStands(i, p) ==
  IF Settled(i, p) THEN skillAt[p] = Managed(installer[i].version)
  ELSE \/ installer[i].verdict[p] = "install" /\ skillAt[p] = Nothing
       \/ /\ installer[i].verdict[p] = "upgrade"
          /\ IsManaged(skillAt[p]) /\ skillAt[p].managed < installer[i].version
       \/ installer[i].verdict[p] = "unchanged" /\ skillAt[p] = Managed(installer[i].version)
       \/ installer[i].verdict[p] = "overwrite" /\ installer[i].force

VerdictsStand(i) == \A p \in Inspected(i) \ disturbed[i] : VerdictStands(i, p)

\* A running installer's temporary file is for the entry it has come to.
TempIsNext(i) ==
  i \in temps => /\ ~ Stage(i, "none")
                 /\ Stage(i, "running") => Writing(i) /\ ~ Needless(i, NextPath(i))

Sound(i) ==
  HoldsNothing(i) /\ LooksFirst(i) /\ InspectsItsPlan(i) /\ VerdictsStand(i) /\ TempIsNext(i)

SkillInd == SkillTypeOK /\ NeverTorn /\ \A i \in Installers : Sound(i)

-----------------------------------------------------------------------------
(* Types                                                                    *)

\* An empty sequence is an empty map of verdicts.
LEMMA NoVerdicts == <<>> \in Verdicts /\ DOMAIN <<>> = {} /\ Len(<<>>) = 0
<1>1. DOMAIN <<>> = {} /\ Len(<<>>) = 0
  OBVIOUS
<1>2. <<>> \in [{} -> {"install", "upgrade", "unchanged", "overwrite"}]
  BY <1>1
<1>. QED
  BY <1>1, <1>2 DEF Verdicts

\* A verdict that is recorded is added to the others.
LEMMA Judged ==
  ASSUME NEW verdicts \in Verdicts, NEW path \in SkillPaths,
         NEW verdict \in {"install", "upgrade", "unchanged", "overwrite"}
  PROVE  [p \in DOMAIN verdicts \cup {path} |->
            IF p = path THEN verdict ELSE verdicts[p]] \in Verdicts
<1>. DEFINE next == [p \in DOMAIN verdicts \cup {path} |->
                      IF p = path THEN verdict ELSE verdicts[p]]
<1>1. PICK ps \in SUBSET SkillPaths :
        verdicts \in [ps -> {"install", "upgrade", "unchanged", "overwrite"}]
  BY DEF Verdicts
<1>2. next \in [ps \cup {path} -> {"install", "upgrade", "unchanged", "overwrite"}]
  BY <1>1
<1>. QED
  BY <1>2 DEF Verdicts

\* An invocation that is over is one, and holds nothing.
LEMMA OverHoldsNothing ==
  ASSUME SkillTypeOK, NEW i \in Installers, NEW stage \in {"refused", "failed"}
  PROVE  /\ Over(i, stage) \in Invocation
         /\ Over(i, stage).stage = stage /\ Over(i, stage).dryRun = installer[i].dryRun
         /\ Over(i, stage).plan = <<>> /\ Over(i, stage).verdict = <<>>
         /\ Over(i, stage).seen = 0 /\ Over(i, stage).done = 0
<1>1. installer[i].force \in BOOLEAN /\ installer[i].dryRun \in BOOLEAN
  BY DEF SkillTypeOK, Invocation
<1>2. Uninvoked \in Invocation
  BY NoVerdicts DEF Uninvoked, Invocation
<1>3. Over(i, stage) \in Invocation
  BY <1>1, <1>2 DEF Over, Invocation
<1>. QED
  BY <1>3 DEF Over, Uninvoked

\* Nobody was invoked yet.
LEMMA SkillInitially == SkillInit => SkillInd
<1>. SUFFICES ASSUME SkillInit PROVE SkillInd
  OBVIOUS
<1>. /\ Uninvoked.plan = <<>> /\ Uninvoked.verdict = <<>> /\ Uninvoked.stage = "none"
     /\ Uninvoked.seen = 0 /\ Uninvoked.done = 0 /\ ~ Uninvoked.dryRun
     /\ \A i \in Installers : installer[i] = Uninvoked /\ skillWrites[i] = {}
  BY DEF SkillInit, Uninvoked
<1>0. Uninvoked \in Invocation
  BY NoVerdicts DEF Uninvoked, Invocation
<1>1. SkillTypeOK
  BY <1>0, SkillAssumption DEF SkillInit, SkillTypeOK, Uninvoked
<1>2. NeverTorn
  BY DEF SkillInit, NeverTorn, Nothing, HalfWritten
<1>3. SUFFICES ASSUME NEW i \in Installers PROVE Sound(i)
  BY <1>1, <1>2 DEF SkillInd
<1>4. HoldsNothing(i)
  BY DEF HoldsNothing
<1>5. LooksFirst(i)
  <2>1. 0 \in 0..Len(<<>>) /\ 0 \in 0..0
    BY NoVerdicts
  <2>. QED
    BY <2>1, NoVerdicts DEF LooksFirst, Stage
<1>6. InspectsItsPlan(i)
  <2>1. {<<>>[k] : k \in 1..0} = {}
    OBVIOUS
  <2>. QED
    BY <2>1, NoVerdicts DEF InspectsItsPlan, Inspected
<1>7. VerdictsStand(i)
  BY NoVerdicts DEF VerdictsStand, Inspected
<1>8. TempIsNext(i)
  BY DEF SkillInit, TempIsNext
<1>. QED
  BY <1>4, <1>5, <1>6, <1>7, <1>8 DEF Sound

-----------------------------------------------------------------------------
(* One installer's step is another's disturbance at most.                   *)

\* An installer stays sound when nothing of its own changes and every change at
\* a path it inspected is a disturbance.
LEMMA BystanderStaysSound ==
  ASSUME NEW j \in Installers, Sound(j),
         installer'[j] = installer[j], skillWrites'[j] = skillWrites[j],
         j \in temps' => j \in temps,
         \A p \in Inspected(j) \ disturbed'[j] :
           p \notin disturbed[j] /\ skillAt'[p] = skillAt[p]
  PROVE  Sound(j)'
<1>1. HoldsNothing(j)' /\ LooksFirst(j)' /\ InspectsItsPlan(j)'
  BY DEF Sound, HoldsNothing, LooksFirst, InspectsItsPlan, ReadyToWrite, Stage, Inspected
<1>2. VerdictsStand(j)'
  BY DEF Sound, VerdictsStand, VerdictStands, Settled, Inspected
<1>3. TempIsNext(j)'
  BY DEF Sound, TempIsNext, Stage, Writing, Needless, NextPath, ReadyToWrite
<1>. QED
  BY <1>1, <1>2, <1>3 DEF Sound

\* A step in which an installer changes its own record only.
LEMMA OwnStep ==
  ASSUME SkillInd, NEW i \in Installers, NEW next \in Invocation,
         installer' = [installer EXCEPT ![i] = next],
         UNCHANGED <<skillAt, edits, skillWrites, disturbed>>,
         temps' \subseteq temps \cup {i}, i \in temps' => ~ next.dryRun,
         Sound(i)'
  PROVE  SkillInd'
<1>1. /\ installer'[i] = next
      /\ \A j \in Installers \ {i} : installer'[j] = installer[j]
  BY DEF SkillInd, SkillTypeOK
<1>2. SkillTypeOK'
  BY <1>1 DEF SkillInd, SkillTypeOK
<1>3. NeverTorn'
  BY DEF SkillInd, NeverTorn
<1>4. ASSUME NEW j \in Installers PROVE Sound(j)'
  <2>1. CASE j = i
    BY <2>1
  <2>2. CASE j # i
    BY <1>1, <2>2, BystanderStaysSound DEF SkillInd
  <2>. QED
    BY <2>1, <2>2
<1>. QED
  BY <1>2, <1>3, <1>4 DEF SkillInd

\* An invocation that ends early leaves nothing to be sound about, unless it
\* wrote before a refusal.
LEMMA EndsEarly ==
  ASSUME SkillInd, NEW i \in Installers, NEW stage \in {"refused", "failed"},
         installer'[i] = Over(i, stage),
         skillWrites'[i] = skillWrites[i],
         stage = "refused" => skillWrites[i] = {}
  PROVE  Sound(i)'
<1>1. /\ installer'[i].stage = stage /\ installer'[i].dryRun = installer[i].dryRun
      /\ installer'[i].plan = <<>> /\ installer'[i].verdict = <<>>
      /\ installer'[i].seen = 0 /\ installer'[i].done = 0
  BY OverHoldsNothing DEF SkillInd
<1>2. HoldsNothing(i)'
  BY <1>1 DEF HoldsNothing
<1>3. LooksFirst(i)'
  <2>1. 0 \in 0..Len(<<>>) /\ 0 \in 0..0
    BY NoVerdicts
  <2>. QED
    BY <1>1, <2>1, NoVerdicts DEF LooksFirst, Stage, ReadyToWrite, SkillInd, Sound
<1>4. InspectsItsPlan(i)'
  <2>1. {<<>>[k] : k \in 1..0} = {}
    OBVIOUS
  <2>. QED
    BY <1>1, <2>1, NoVerdicts DEF InspectsItsPlan, Inspected
<1>5. VerdictsStand(i)'
  BY <1>1, NoVerdicts DEF VerdictsStand, Inspected
<1>6. TempIsNext(i)'
  BY <1>1 DEF TempIsNext, Stage
<1>. QED
  BY <1>2, <1>3, <1>4, <1>5, <1>6 DEF Sound

\* A plan is resolved before anything is inspected.
LEMMA InvokeKeeps ==
  ASSUME SkillInd, NEW i \in Installers, Invoke(i)
  PROVE  SkillInd'
<1>1. PICK paths \in SkillPlans, v \in SkillVersions, f \in BOOLEAN, d \in BOOLEAN :
        installer' = [installer EXCEPT ![i] =
          [Uninvoked EXCEPT !.stage = "running", !.plan = paths, !.version = v,
                            !.force = f, !.dryRun = d]]
  BY DEF Invoke
<1>. DEFINE next == [Uninvoked EXCEPT !.stage = "running", !.plan = paths, !.version = v,
                                      !.force = f, !.dryRun = d]
<1>2. Uninvoked \in Invocation
  BY NoVerdicts DEF Uninvoked, Invocation
<1>3. /\ next \in Invocation
      /\ next.stage = "running" /\ next.plan = paths /\ next.dryRun = d
      /\ next.seen = 0 /\ next.done = 0 /\ next.verdict = <<>>
  BY <1>2, SkillAssumption DEF Uninvoked, Invocation
<1>4. installer'[i] = next
  BY <1>1 DEF SkillInd, SkillTypeOK
<1>5. paths \in Seq(SkillPaths) /\ Len(paths) \in Nat \ {0}
  BY SkillAssumption
<1>6. skillWrites[i] = {} /\ i \notin temps
  BY DEF SkillInd, Sound, LooksFirst, TempIsNext, Invoke, Stage
<1>7. skillWrites'[i] = {} /\ i \notin temps'
  BY <1>6 DEF Invoke, HistoryUnchanged
<1>8. HoldsNothing(i)' /\ LooksFirst(i)' /\ TempIsNext(i)'
  BY <1>3, <1>4, <1>5, <1>7 DEF HoldsNothing, LooksFirst, TempIsNext, ReadyToWrite, Stage
<1>9. InspectsItsPlan(i)' /\ VerdictsStand(i)'
  <2>1. {paths[k] : k \in 1..0} = {}
    OBVIOUS
  <2>. QED
    BY <1>3, <1>4, <2>1, NoVerdicts DEF InspectsItsPlan, VerdictsStand, Inspected
<1>. QED
  BY <1>1, <1>3, <1>7, <1>8, <1>9, OwnStep DEF Sound, Invoke, HistoryUnchanged

\* What a verdict says of the destination it was given for.
LEMMA DriftReads ==
  ASSUME SkillTypeOK, NEW p \in SkillPaths, NEW version, NEW force,
         Drift(skillAt[p], version, force) # "refuse"
  PROVE  LET verdict == Drift(skillAt[p], version, force)
         IN /\ verdict \in {"install", "upgrade", "unchanged", "overwrite"}
            /\ verdict = "install" => skillAt[p] = Nothing
            /\ verdict = "upgrade" => IsManaged(skillAt[p]) /\ skillAt[p].managed < version
            /\ verdict = "unchanged" => skillAt[p] = Managed(version)
            /\ verdict = "overwrite" => force
<1>. DEFINE content == skillAt[p]
<1>1. IsManaged(content) => content = Managed(content.managed)
  BY DEF SkillTypeOK, Destination, Managed, IsManaged, Nothing, HalfWritten
<1>. QED
  BY <1>1 DEF Drift

\* The first inspection of a path records what it found; a second entry with the
\* same path adds nothing; a refusal ends the run before any write.
LEMMA InspectKeeps ==
  ASSUME SkillInd, NEW i \in Installers, Inspect(i)
  PROVE  SkillInd'
<1>. DEFINE me == installer[i]
            path == me.plan[me.seen + 1]
            verdict == Drift(skillAt[path], me.version, me.force)
<1>1. /\ me \in Invocation /\ me.plan \in Seq(SkillPaths) /\ me.stage = "running"
      /\ me.seen \in 0..Len(me.plan) /\ me.seen < Len(me.plan)
      /\ me.done = 0 /\ skillWrites[i] = {} /\ i \notin temps
  <2>1. me \in Invocation /\ me.stage = "running" /\ me.seen < Len(me.plan)
    BY DEF SkillInd, SkillTypeOK, Inspect, Stage
  <2>2. me.plan \in Seq(SkillPaths)
    BY <2>1, SkillAssumption DEF Invocation
  <2>. QED
    BY <2>1, <2>2 DEF SkillInd, Sound, LooksFirst, TempIsNext, Writing, ReadyToWrite, Stage
<1>2. path \in SkillPaths /\ me.verdict \in Verdicts
  BY <1>1 DEF Invocation
<1>3. skillWrites'[i] = {} /\ i \notin temps'
  BY <1>1 DEF Inspect, HistoryUnchanged
<1>4. \A k \in 1..(me.seen + 1) : k = me.seen + 1 \/ k \in 1..me.seen
  BY <1>1
<1>5. CASE verdict = "refuse" /\ path \notin Inspected(i)
  <2>1. installer' = [installer EXCEPT ![i] = Over(i, "refused")]
    BY <1>5 DEF Inspect
  <2>2. Over(i, "refused") \in Invocation
    BY OverHoldsNothing DEF SkillInd
  <2>3. Sound(i)'
    BY <1>1, <1>3, <2>1, EndsEarly DEF SkillInd, SkillTypeOK
  <2>. QED
    BY <1>3, <2>1, <2>2, <2>3, OwnStep DEF Inspect, HistoryUnchanged
<1>6. ASSUME NEW verdicts \in Verdicts,
             installer' = [installer EXCEPT ![i].seen = @ + 1, ![i].verdict = verdicts],
             DOMAIN verdicts = Inspected(i) \cup {path},
             \A p \in Inspected(i) : verdicts[p] = me.verdict[p],
             path \notin Inspected(i) => verdicts[path] = verdict /\ verdict # "refuse"
      PROVE  SkillInd'
  <2>. DEFINE next == [me EXCEPT !.seen = @ + 1, !.verdict = verdicts]
  <2>0. me.seen + 1 \in Nat
    BY <1>1
  <2>a. next \in Invocation
    BY <1>1, <2>0 DEF Invocation
  <2>1. /\ next \in Invocation
        /\ next.stage = "running" /\ next.plan = me.plan /\ next.version = me.version
        /\ next.force = me.force /\ next.dryRun = me.dryRun /\ next.done = 0
        /\ next.seen = me.seen + 1 /\ next.verdict = verdicts
    BY <1>1, <2>a DEF Invocation
  <2>2. installer' = [installer EXCEPT ![i] = next] /\ installer'[i] = next
    BY <1>6 DEF SkillInd, SkillTypeOK
  <2>b. HoldsNothing(i)'
    BY <1>1, <2>1, <2>2 DEF SkillInd, Sound, HoldsNothing
  <2>3. LooksFirst(i)' /\ TempIsNext(i)'
    BY <1>1, <1>3, <2>1, <2>2 DEF HoldsNothing, LooksFirst, TempIsNext, ReadyToWrite, Stage
  <2>4. InspectsItsPlan(i)'
    <3>1. Inspected(i) = {me.plan[k] : k \in 1..me.seen}
      BY DEF SkillInd, Sound, InspectsItsPlan
    <3>2. 1..(me.seen + 1) = (1..me.seen) \cup {me.seen + 1}
      BY <1>1
    <3>3. Inspected(i) \cup {path} = {me.plan[k] : k \in 1..(me.seen + 1)}
      BY <3>1, <3>2
    <3>4. /\ DOMAIN installer'[i].verdict = Inspected(i) \cup {path}
          /\ installer'[i].plan = me.plan /\ installer'[i].seen = me.seen + 1
      BY <1>6, <2>1, <2>2
    <3>. HIDE DEF me, path
    <3>. QED
      BY <3>3, <3>4 DEF InspectsItsPlan, Inspected
  <2>5. VerdictsStand(i)'
    <3>0. Inspected(i)' = Inspected(i) \cup {path} /\ disturbed' = disturbed
      <4>1. Inspected(i)' = DOMAIN verdicts
        BY <2>1, <2>2 DEF Inspected
      <4>. QED
        BY <1>6, <4>1 DEF Inspect, HistoryUnchanged
    <3>1. SUFFICES ASSUME NEW p \in Inspected(i) \cup {path}, p \notin disturbed[i]
                   PROVE  VerdictStands(i, p)'
      BY <3>0 DEF VerdictsStand
    <3>2. skillAt' = skillAt /\ ~ Settled(i, p) /\ ~ Settled(i, p)'
      <4>1. me.done = 0 /\ installer'[i].done = 0
        BY <1>1, <2>1, <2>2
      <4>2. 1..0 = {}
        OBVIOUS
      <4>. HIDE DEF next
      <4>. QED
        BY <4>1, <4>2 DEF Settled, Inspect
    <3>a. /\ installer'[i].verdict = verdicts
          /\ installer'[i].version = me.version /\ installer'[i].force = me.force
      BY <2>1, <2>2
    <3>3. CASE p \in Inspected(i)
      <4>1. VerdictStands(i, p)
        BY <3>1, <3>3 DEF SkillInd, Sound, VerdictsStand
      <4>. QED
        BY <1>6, <3>2, <3>3, <3>a, <4>1 DEF VerdictStands
    <3>4. CASE p = path /\ p \notin Inspected(i)
      <4>1. /\ verdict \in {"install", "upgrade", "unchanged", "overwrite"}
            /\ verdict = "install" => skillAt[p] = Nothing
            /\ verdict = "upgrade" => IsManaged(skillAt[p]) /\ skillAt[p].managed < me.version
            /\ verdict = "unchanged" => skillAt[p] = Managed(me.version)
            /\ verdict = "overwrite" => me.force
        <5>1. SkillTypeOK /\ p \in SkillPaths /\ verdict = Drift(skillAt[p], me.version, me.force)
          BY <1>2, <3>4 DEF SkillInd
        <5>2. Drift(skillAt[p], me.version, me.force) # "refuse"
          BY <1>6, <3>4, <5>1
        <5>. QED
          BY <5>1, <5>2, DriftReads
      <4>2. installer'[i].verdict[p] = verdict
        BY <1>6, <3>4, <3>a
      <4>. HIDE DEF verdict, me
      <4>. QED
        BY <3>2, <3>a, <4>1, <4>2 DEF VerdictStands
    <3>. QED
      BY <3>1, <3>3, <3>4
  <2>. QED
    BY <1>3, <2>1, <2>2, <2>b, <2>3, <2>4, <2>5, OwnStep DEF Sound, Inspect, HistoryUnchanged
<1>7. CASE path \in Inspected(i)
  <2>1. installer' = [installer EXCEPT ![i].seen = @ + 1]
    BY <1>7 DEF Inspect
  <2>2. installer' = [installer EXCEPT ![i].seen = @ + 1, ![i].verdict = me.verdict]
    BY <2>1 DEF SkillInd, SkillTypeOK, Invocation
  <2>. QED
    BY <1>2, <1>6, <1>7, <2>2 DEF Inspected
<1>8. CASE path \notin Inspected(i) /\ verdict # "refuse"
  <2>. DEFINE verdicts == [p \in Inspected(i) \cup {path} |->
                            IF p = path THEN verdict ELSE me.verdict[p]]
  <2>1. installer' = [installer EXCEPT ![i].seen = @ + 1, ![i].verdict = verdicts]
    BY <1>8 DEF Inspect
  <2>2. verdict \in {"install", "upgrade", "unchanged", "overwrite"}
    BY <1>2, <1>8, DriftReads DEF SkillInd
  <2>3. verdicts \in Verdicts
    <3>1. verdicts = [p \in DOMAIN me.verdict \cup {path} |->
                        IF p = path THEN verdict ELSE me.verdict[p]]
      BY DEF Inspected
    <3>. HIDE DEF verdict, verdicts, path, me
    <3>2. [p \in DOMAIN me.verdict \cup {path} |->
             IF p = path THEN verdict ELSE me.verdict[p]] \in Verdicts
      BY <1>2, <2>2, Judged
    <3>. QED
      BY <3>1, <3>2
  <2>. QED
    BY <1>6, <1>8, <2>1, <2>3
<1>. QED
  BY <1>5, <1>7, <1>8 DEF Inspect

\* A needless entry is passed over: its path holds this version already.
LEMMA PassOverKeeps ==
  ASSUME SkillInd, NEW i \in Installers, PassOver(i)
  PROVE  SkillInd'
<1>. DEFINE me == installer[i]
            next == [me EXCEPT !.done = @ + 1]
<1>1. /\ me \in Invocation /\ me.plan \in Seq(SkillPaths) /\ me.stage = "running"
      /\ me.seen = Len(me.plan) /\ me.done \in Nat /\ me.done < Len(me.plan)
      /\ ~ me.dryRun
  <2>1. me \in Invocation /\ me.stage = "running" /\ ~ me.dryRun
        /\ me.seen = Len(me.plan) /\ me.done \in Nat /\ me.done < Len(me.plan)
    BY DEF SkillInd, SkillTypeOK, Invocation, PassOver, Writing, ReadyToWrite, Stage
  <2>. QED
    BY <2>1, SkillAssumption DEF Invocation
<1>2. /\ next \in Invocation
      /\ next.stage = "running" /\ next.plan = me.plan /\ next.version = me.version
      /\ next.force = me.force /\ ~ next.dryRun /\ next.done = me.done + 1
      /\ next.seen = me.seen /\ next.verdict = me.verdict
  <2>1. me.done + 1 \in Nat
    BY <1>1
  <2>2. next \in Invocation
    BY <1>1, <2>1 DEF Invocation
  <2>. QED
    BY <1>1, <2>2 DEF Invocation
<1>3. installer' = [installer EXCEPT ![i] = next] /\ installer'[i] = next
  BY DEF PassOver, SkillInd, SkillTypeOK
<1>4. UNCHANGED <<skillAt, temps, skillWrites, disturbed>> /\ i \notin temps
  BY DEF PassOver, HistoryUnchanged, SkillInd, Sound, TempIsNext, Writing
<1>b. HoldsNothing(i)'
  BY <1>1, <1>2, <1>3 DEF SkillInd, Sound, HoldsNothing
<1>5. LooksFirst(i)' /\ TempIsNext(i)'
  BY <1>1, <1>2, <1>3, <1>4 DEF HoldsNothing, LooksFirst, TempIsNext, ReadyToWrite, Stage
<1>6. InspectsItsPlan(i)'
  BY <1>2, <1>3 DEF SkillInd, Sound, InspectsItsPlan, Inspected
<1>7. VerdictsStand(i)'
  <2>1. SUFFICES ASSUME NEW p \in Inspected(i), p \notin disturbed[i]
                 PROVE  VerdictStands(i, p)'
    BY <1>2, <1>3, <1>4 DEF VerdictsStand, Inspected
  <2>2. VerdictStands(i, p)
    BY <2>1 DEF SkillInd, Sound, VerdictsStand
  <2>3. Settled(i, p)' <=> Settled(i, p) \/ p = NextPath(i)
    <3>1. 1..(me.done + 1) = (1..me.done) \cup {me.done + 1}
      BY <1>1
    <3>. QED
      BY <1>2, <1>3, <3>1 DEF Settled, NextPath
  <2>4. CASE p = NextPath(i) /\ ~ Settled(i, p)
    BY <1>2, <1>3, <1>4, <2>2, <2>3, <2>4 DEF VerdictStands, PassOver, Needless, Settled
  <2>5. CASE p # NextPath(i) \/ Settled(i, p)
    BY <1>2, <1>3, <1>4, <2>2, <2>3, <2>5 DEF VerdictStands
  <2>. QED
    BY <2>4, <2>5
<1>. QED
  BY <1>2, <1>3, <1>4, <1>b, <1>5, <1>6, <1>7, OwnStep DEF Sound, PassOver, HistoryUnchanged

\* The temporary file is made for the entry the installer has come to.
LEMMA TempKeeps ==
  ASSUME SkillInd, NEW i \in Installers, Temp(i)
  PROVE  SkillInd'
<1>1. installer' = [installer EXCEPT ![i] = installer[i]] /\ installer' = installer
      /\ installer[i] \in Invocation /\ ~ installer[i].dryRun
  BY DEF Temp, Writing, SkillInd, SkillTypeOK
<1>2. HoldsNothing(i)' /\ LooksFirst(i)' /\ InspectsItsPlan(i)'
  BY <1>1 DEF Temp, HistoryUnchanged, SkillInd, Sound, HoldsNothing, LooksFirst,
              InspectsItsPlan, ReadyToWrite, Stage, Inspected
<1>3. VerdictsStand(i)'
  BY <1>1 DEF Temp, HistoryUnchanged, SkillInd, Sound, VerdictsStand, VerdictStands, Settled,
              Inspected
<1>4. TempIsNext(i)'
  BY <1>1 DEF Temp, TempIsNext, Writing, Needless, NextPath, ReadyToWrite, Stage
<1>. QED
  BY <1>1, <1>2, <1>3, <1>4, OwnStep DEF Sound, Temp, HistoryUnchanged

\* A report changes where the installer stands and nothing it says.
LEMMA ReportKeeps ==
  ASSUME SkillInd, NEW i \in Installers, Report(i)
  PROVE  SkillInd'
<1>. DEFINE me == installer[i]
            next == [me EXCEPT !.stage = "done"]
<1>1. me \in Invocation /\ me.stage = "running"
  BY DEF SkillInd, SkillTypeOK, Report, Stage
<1>2. /\ next \in Invocation
      /\ next.stage = "done" /\ next.plan = me.plan /\ next.version = me.version
      /\ next.force = me.force /\ next.dryRun = me.dryRun /\ next.done = me.done
      /\ next.seen = me.seen /\ next.verdict = me.verdict
  BY <1>1 DEF Invocation
<1>3. installer' = [installer EXCEPT ![i] = next] /\ installer'[i] = next
  BY DEF Report, SkillInd, SkillTypeOK
<1>4. UNCHANGED <<skillAt, temps, skillWrites, disturbed>>
  BY DEF Report, HistoryUnchanged
<1>a. /\ me.seen \in 0..Len(me.plan) /\ me.done \in 0..me.seen
      /\ me.dryRun => me.done = 0 /\ skillWrites[i] = {}
      /\ ReadyToWrite(i) /\ (me.dryRun \/ me.done = Len(me.plan))
      /\ i \in temps => Writing(i)
  BY <1>1 DEF Report, SkillInd, Sound, LooksFirst, TempIsNext, Stage
<1>b. HoldsNothing(i)'
  BY <1>1, <1>2, <1>3 DEF SkillInd, Sound, HoldsNothing
<1>5. LooksFirst(i)' /\ TempIsNext(i)'
  BY <1>2, <1>3, <1>4, <1>a DEF HoldsNothing, LooksFirst, TempIsNext, ReadyToWrite, Stage
<1>6. InspectsItsPlan(i)' /\ VerdictsStand(i)'
  BY <1>2, <1>3, <1>4 DEF SkillInd, Sound, InspectsItsPlan, VerdictsStand, VerdictStands, Settled,
                          Inspected
<1>7. i \in temps => ~ next.dryRun
  BY <1>2 DEF SkillInd, SkillTypeOK
<1>. QED
  BY <1>2, <1>3, <1>4, <1>b, <1>5, <1>6, <1>7, OwnStep DEF Sound, Report, HistoryUnchanged

\* A killed installer leaves its temporary file and what it wrote.
LEMMA KillInstallerKeeps ==
  ASSUME SkillInd, NEW i \in Installers, KillInstaller(i)
  PROVE  SkillInd'
<1>1. /\ Over(i, "failed") \in Invocation
      /\ Over(i, "failed").dryRun = installer[i].dryRun
  BY OverHoldsNothing DEF SkillInd
<1>2. /\ installer' = [installer EXCEPT ![i] = Over(i, "failed")]
      /\ installer'[i] = Over(i, "failed")
      /\ UNCHANGED <<skillAt, temps, edits, skillWrites, disturbed>>
  BY DEF KillInstaller, HistoryUnchanged, SkillInd, SkillTypeOK
<1>3. Sound(i)'
  BY <1>2, EndsEarly
<1>4. i \in temps => ~ installer[i].dryRun
  BY DEF SkillInd, SkillTypeOK
<1>. QED
  BY <1>1, <1>2, <1>3, <1>4, OwnStep

\* What is known of the destination of a rename: it was inspected, and if nobody
\* disturbed it, its verdict was to write.
LEMMA RenameTarget ==
  ASSUME SkillInd, NEW i \in Installers, Rename(i)
  PROVE  /\ installer[i] \in Invocation /\ installer[i].plan \in Seq(SkillPaths)
         /\ installer[i].stage = "running" /\ ~ installer[i].dryRun /\ i \in temps
         /\ installer[i].seen = Len(installer[i].plan)
         /\ installer[i].done \in Nat /\ installer[i].done < Len(installer[i].plan)
         /\ NextPath(i) \in Inspected(i) /\ NextPath(i) \in SkillPaths
         /\ ~ Settled(i, NextPath(i)) /\ installer[i].verdict[NextPath(i)] # "unchanged"
<1>1. /\ installer[i] \in Invocation /\ installer[i].stage = "running"
      /\ ~ installer[i].dryRun /\ i \in temps
      /\ installer[i].seen = Len(installer[i].plan)
      /\ installer[i].done \in Nat /\ installer[i].done < Len(installer[i].plan)
  BY DEF SkillInd, SkillTypeOK, Invocation, Rename, Writing, ReadyToWrite, Stage
<1>2. installer[i].plan \in Seq(SkillPaths)
  BY <1>1, SkillAssumption DEF Invocation
<1>3. NextPath(i) \in Inspected(i) /\ NextPath(i) \in SkillPaths
  BY <1>1, <1>2 DEF NextPath, SkillInd, Sound, InspectsItsPlan
<1>4. ~ Needless(i, NextPath(i))
  BY <1>1 DEF SkillInd, Sound, TempIsNext, Stage
<1>. QED
  BY <1>1, <1>2, <1>3, <1>4 DEF Needless, Settled

\* A rename puts the version in place and disturbs those who inspected the path;
\* one that fails ends the run.
LEMMA RenameKeeps ==
  ASSUME SkillInd, NEW i \in Installers, Rename(i)
  PROVE  SkillInd'
<1>. DEFINE me == installer[i]
            path == NextPath(i)
            fails == skillAt[path] = [kind |-> "directory"]
<1>1. /\ me \in Invocation /\ me.plan \in Seq(SkillPaths) /\ me.stage = "running"
      /\ ~ me.dryRun /\ i \in temps /\ me.seen = Len(me.plan)
      /\ me.done \in Nat /\ me.done < Len(me.plan)
      /\ path \in Inspected(i) /\ path \in SkillPaths /\ ~ Settled(i, path)
  BY RenameTarget
<1>2. temps' = temps \ {i} /\ edits' = edits
  BY DEF Rename
<1>3. ASSUME NEW j \in Installers \ {i}, installer'[j] = installer[j],
             \/ UNCHANGED <<skillAt, disturbed>>
             \/ /\ \A p \in SkillPaths \ {path} : skillAt'[p] = skillAt[p]
                /\ disturbed'[j] =
                     IF path \in Inspected(j) THEN disturbed[j] \cup {path} ELSE disturbed[j],
             skillWrites'[j] = skillWrites[j]
      PROVE  Sound(j)'
  <2>1. Inspected(j) \subseteq SkillPaths
    BY DEF SkillInd, SkillTypeOK, Invocation, Verdicts, Inspected
  <2>. QED
    BY <1>2, <1>3, <2>1, BystanderStaysSound DEF SkillInd
<1>4. CASE fails
  <2>1. UNCHANGED <<skillAt, skillWrites, disturbed>>
    BY <1>4 DEF Rename, SkillInd, SkillTypeOK
  <2>2. installer' = [installer EXCEPT ![i] = Over(i, "failed")]
    BY <1>4 DEF Rename
  <2>3. /\ Over(i, "failed") \in Invocation
        /\ Over(i, "failed").dryRun = me.dryRun
    BY OverHoldsNothing DEF SkillInd
  <2>4. Sound(i)'
    BY <2>1, <2>2, EndsEarly DEF SkillInd, SkillTypeOK
  <2>. QED
    BY <1>1, <1>2, <2>1, <2>2, <2>3, <2>4, OwnStep
<1>5. CASE ~ fails
  <2>. DEFINE next == [me EXCEPT !.done = @ + 1]
  <2>1. /\ next \in Invocation
        /\ next.stage = "running" /\ next.plan = me.plan /\ next.version = me.version
        /\ next.force = me.force /\ ~ next.dryRun /\ next.done = me.done + 1
        /\ next.seen = me.seen /\ next.verdict = me.verdict
    <3>1. me.done + 1 \in Nat
      BY <1>1
    <3>2. next \in Invocation
      BY <1>1, <3>1 DEF Invocation
    <3>. QED
      BY <1>1, <3>2 DEF Invocation
  <2>2. /\ installer' = [installer EXCEPT ![i] = next] /\ installer'[i] = next
        /\ \A j \in Installers \ {i} : installer'[j] = installer[j]
    <3>0. installer' = [installer EXCEPT ![i] =
                         IF fails THEN Over(i, "failed") ELSE [me EXCEPT !.done = @ + 1]]
      BY DEF Rename
    <3>a. (IF fails THEN Over(i, "failed") ELSE [me EXCEPT !.done = @ + 1]) = next
      BY <1>5
    <3>. HIDE DEF next, fails
    <3>1. installer' = [installer EXCEPT ![i] = next]
      BY <3>0, <3>a
    <3>. QED
      BY <3>1 DEF SkillInd, SkillTypeOK
  <2>3. /\ skillAt' = [skillAt EXCEPT ![path] = Managed(me.version)]
        /\ skillWrites' = [skillWrites EXCEPT ![i] = @ \cup {path}]
        /\ disturbed' = [j \in Installers |->
             IF j # i /\ path \in Inspected(j) THEN disturbed[j] \cup {path} ELSE disturbed[j]]
    BY <1>5 DEF Rename, SkillInd, SkillTypeOK
  <2>4. me.version \in SkillVersions
    BY <1>1 DEF SkillInd, Sound, HoldsNothing
  <2>5. SkillTypeOK'
    <3>1. installer' \in [Installers -> Invocation]
      BY <2>1, <2>2 DEF SkillInd, SkillTypeOK
    <3>2. temps' \subseteq {j \in Installers : ~ installer'[j].dryRun}
      BY <1>2, <2>1, <2>2 DEF SkillInd, SkillTypeOK
    <3>3. skillAt' \in [SkillPaths -> Destination \cup {Nothing, HalfWritten}]
      BY <2>3, <2>4 DEF Destination, SkillInd, SkillTypeOK
    <3>4. /\ skillWrites' \in [Installers -> SUBSET SkillPaths]
          /\ disturbed' \in [Installers -> SUBSET SkillPaths]
      BY <1>1, <2>3 DEF SkillInd, SkillTypeOK
    <3>. QED
      BY <1>2, <3>1, <3>2, <3>3, <3>4 DEF SkillInd, SkillTypeOK
  <2>6. NeverTorn'
    BY <2>3 DEF SkillInd, SkillTypeOK, NeverTorn, Managed, HalfWritten
  <2>a. HoldsNothing(i)'
    BY <2>1, <2>2, <2>4 DEF HoldsNothing
  <2>7. LooksFirst(i)' /\ TempIsNext(i)'
    BY <1>1, <1>2, <2>1, <2>2 DEF HoldsNothing, LooksFirst, TempIsNext, ReadyToWrite, Stage
  <2>8. InspectsItsPlan(i)'
    BY <2>1, <2>2 DEF SkillInd, Sound, InspectsItsPlan, Inspected
  <2>9. VerdictsStand(i)'
    <3>1. SUFFICES ASSUME NEW p \in Inspected(i), p \notin disturbed[i]
                   PROVE  VerdictStands(i, p)'
      BY <2>1, <2>2, <2>3 DEF VerdictsStand, Inspected
    <3>2. VerdictStands(i, p)
      BY <3>1 DEF SkillInd, Sound, VerdictsStand
    <3>3. Settled(i, p)' <=> Settled(i, p) \/ p = path
      <4>1. 1..(me.done + 1) = (1..me.done) \cup {me.done + 1}
        BY <1>1
      <4>2. installer'[i].plan = me.plan /\ installer'[i].done = me.done + 1
        BY <2>1, <2>2
      <4>. HIDE DEF next
      <4>. QED
        BY <4>1, <4>2 DEF Settled, NextPath
    <3>4. CASE p = path
      BY <1>1, <2>1, <2>2, <2>3, <3>3, <3>4 DEF VerdictStands, SkillInd, SkillTypeOK
    <3>5. CASE p # path
      BY <2>1, <2>2, <2>3, <3>2, <3>3, <3>5 DEF VerdictStands, SkillInd, SkillTypeOK
    <3>. QED
      BY <3>4, <3>5
  <2>10. ASSUME NEW j \in Installers \ {i} PROVE Sound(j)'
    BY <1>3, <2>2, <2>3 DEF SkillInd, SkillTypeOK
  <2>. QED
    BY <2>5, <2>6, <2>a, <2>7, <2>8, <2>9, <2>10 DEF SkillInd, Sound
<1>. QED
  BY <1>4, <1>5

\* People disturb whoever inspected what they change.
LEMMA EditKeeps ==
  ASSUME SkillInd, NEW p \in SkillPaths, Edit(p)
  PROVE  SkillInd'
<1>1. PICK content \in Destination \cup {Nothing} : skillAt' = [skillAt EXCEPT ![p] = content]
  BY DEF Edit
<1>2. disturbed' = [j \in Installers |->
        IF p \in Inspected(j) THEN disturbed[j] \cup {p} ELSE disturbed[j]]
  BY DEF Edit
<1>3. UNCHANGED <<temps, installer, skillWrites>>
  BY DEF Edit
<1>4. SkillTypeOK'
  <2>1. edits' \in 0..MaxEdits
    BY SkillAssumption DEF Edit, SkillInd, SkillTypeOK
  <2>2. skillAt' \in [SkillPaths -> Destination \cup {Nothing, HalfWritten}]
    BY <1>1 DEF SkillInd, SkillTypeOK
  <2>3. disturbed' \in [Installers -> SUBSET SkillPaths]
    BY <1>2 DEF SkillInd, SkillTypeOK
  <2>. QED
    BY <1>3, <2>1, <2>2, <2>3 DEF SkillInd, SkillTypeOK
<1>5. content # HalfWritten
  BY SkillAssumption DEF Destination, Managed, Nothing, HalfWritten
<1>6. NeverTorn'
  BY <1>1, <1>5 DEF SkillInd, SkillTypeOK, NeverTorn
<1>7. ASSUME NEW j \in Installers PROVE Sound(j)'
  <2>1. Inspected(j) \subseteq SkillPaths
    BY DEF SkillInd, SkillTypeOK, Invocation, Verdicts, Inspected
  <2>2. \A q \in Inspected(j) \ disturbed'[j] : q \notin disturbed[j] /\ skillAt'[q] = skillAt[q]
    BY <1>1, <1>2, <2>1 DEF SkillInd, SkillTypeOK
  <2>. QED
    BY <1>3, <2>2, BystanderStaysSound DEF SkillInd
<1>. QED
  BY <1>4, <1>6, <1>7 DEF SkillInd

-----------------------------------------------------------------------------
\* One step of any installer or of anybody else keeps the installations whole.
LEMMA SkillStep == SkillInd /\ [SkillNext]_skillVars => SkillInd'
<1>. SUFFICES ASSUME SkillInd, [SkillNext]_skillVars PROVE SkillInd'
  OBVIOUS
<1>1. ASSUME NEW i \in Installers, InstallerStep(i) PROVE SkillInd'
  BY <1>1, InvokeKeeps, InspectKeeps, PassOverKeeps, TempKeeps, RenameKeeps, ReportKeeps,
     KillInstallerKeeps DEF InstallerStep
<1>2. ASSUME NEW p \in SkillPaths, Edit(p) PROVE SkillInd'
  BY <1>2, EditKeeps
<1>3. CASE UNCHANGED skillVars
  <2>1. SkillTypeOK' /\ NeverTorn'
    BY <1>3 DEF skillVars, SkillInd, SkillTypeOK, NeverTorn
  <2>2. ASSUME NEW j \in Installers PROVE Sound(j)'
    BY <1>3, BystanderStaysSound DEF skillVars, SkillInd
  <2>. QED
    BY <2>1, <2>2 DEF SkillInd
<1>. QED
  BY <1>1, <1>2, <1>3 DEF SkillNext

\* The installations are sound in every state.
THEOREM SkillInvariance == SkillSpec => []SkillInd
BY SkillInitially, SkillStep, PTL DEF SkillSpec

\* A sound installation is whole where it reported success and absent where it
\* was refused: SkillInv, for any number of installers, versions and plans.
THEOREM SkillInvHolds == SkillSpec => []SkillInv
<1>1. ASSUME SkillInd PROVE SkillInv
  <2>1. RefusalWritesNothing
    BY <1>1 DEF RefusalWritesNothing, SkillInd, Sound, LooksFirst, Stage
  <2>2. InstalledEverywhere
    <3>1. SUFFICES ASSUME NEW i \in Installers, Stage(i, "done"), ~ installer[i].dryRun,
                          NEW k \in DOMAIN installer[i].plan,
                          installer[i].plan[k] \notin disturbed[i]
                   PROVE  skillAt[installer[i].plan[k]] = Managed(installer[i].version)
      BY DEF InstalledEverywhere
    <3>2. /\ installer[i].done = Len(installer[i].plan)
          /\ installer[i].seen = Len(installer[i].plan)
      BY <1>1, <3>1 DEF SkillInd, Sound, LooksFirst, ReadyToWrite
    <3>3. k \in 1..Len(installer[i].plan)
      BY <1>1, SkillAssumption DEF SkillInd, SkillTypeOK, Invocation
    <3>4. Settled(i, installer[i].plan[k]) /\ installer[i].plan[k] \in Inspected(i)
      BY <1>1, <3>2, <3>3 DEF SkillInd, Sound, InspectsItsPlan, Settled
    <3>. QED
      BY <1>1, <3>1, <3>4 DEF SkillInd, Sound, VerdictsStand, VerdictStands
  <2>. QED
    BY <1>1, <2>1, <2>2 DEF SkillInv, SkillInd
<1>. QED
  BY <1>1, SkillInvariance, PTL

\* NeverClobbers: without --force a step writes a destination nobody disturbed
\* only when it is empty or holds an older managed version.
THEOREM NeverClobbersHolds == SkillSpec => NeverClobbers
<1>. DEFINE Clobbering ==
       \A i \in Installers, p \in SkillPaths :
         /\ p \in skillWrites'[i] /\ p \notin skillWrites[i]
         /\ ~ installer[i].force /\ p \notin disturbed[i]
         => \/ skillAt[p] = Nothing
            \/ IsManaged(skillAt[p]) /\ skillAt[p].managed < installer[i].version
<1>1. ASSUME SkillInd, SkillNext PROVE Clobbering
  <2>1. SUFFICES ASSUME NEW i \in Installers, NEW p \in SkillPaths,
                        p \in skillWrites'[i], p \notin skillWrites[i],
                        ~ installer[i].force, p \notin disturbed[i]
                 PROVE  \/ skillAt[p] = Nothing
                        \/ IsManaged(skillAt[p]) /\ skillAt[p].managed < installer[i].version
    OBVIOUS
  <2>2. Rename(i) /\ p = NextPath(i)
    <3>1. PICK j \in Installers : Rename(j)
      BY <1>1, <2>1 DEF SkillNext, InstallerStep, Invoke, Inspect, PassOver, Temp, Report,
                        KillInstaller, Edit, HistoryUnchanged
    <3>2. skillWrites' = [skillWrites EXCEPT ![j] =
            IF skillAt[NextPath(j)] = [kind |-> "directory"] THEN @ ELSE @ \cup {NextPath(j)}]
      BY <3>1 DEF Rename
    <3>. QED
      BY <1>1, <2>1, <3>1, <3>2 DEF SkillInd, SkillTypeOK
  <2>3. /\ p \in Inspected(i) /\ ~ Settled(i, p) /\ installer[i].verdict[p] # "unchanged"
    BY <1>1, <2>2, RenameTarget
  <2>4. VerdictStands(i, p)
    BY <1>1, <2>1, <2>3 DEF SkillInd, Sound, VerdictsStand
  <2>. QED
    BY <2>1, <2>3, <2>4 DEF VerdictStands
<1>2. ASSUME SkillInd, UNCHANGED skillVars PROVE Clobbering
  BY <1>2 DEF skillVars
<1>3. SkillInd /\ [SkillNext]_skillVars => [Clobbering]_skillVars
  BY <1>1
<1>. QED
  BY <1>3, SkillInvariance, PTL DEF SkillSpec, NeverClobbers
=============================================================================
