--------------------------- MODULE CutLock_proofs ----------------------------
(***************************************************************************)
(* The single-active-cut lock, proved for any invocations, hosts and       *)
(* crashes, and for operators who do as they please.  The path may stop    *)
(* naming the holder in one way only, the removal of a lock that was not   *)
(* read; from there on drops pass the damage on, one lock at a time.  So   *)
(* the invariant counts: there are no more displaced than there have been  *)
(* such removals.                                                          *)
(***************************************************************************)
EXTENDS CutLock, FiniteSetTheorems, TLAPS

Owns(p) == lock # None /\ lock.owner = p

\* Who is writing its name into a lock, or holds a guard, while the path names
\* another or nobody.
Displaced == {p \in Invocations : pc[p] \in {"writing", "holding"} /\ ~Owns(p)}

\* At most one for every removal of a lock that was not read.
DisplacedAreCounted ==
  /\ IsFiniteSet(Displaced) /\ IsFiniteSet(mistaken)
  /\ Cardinality(Displaced) <= Cardinality(mistaken)

\* The operating system forgets exactly the processes that ended.
KilledIsGone == \A p \in Invocations : p \in killed <=> pc[p] = "killed"

\* Only `release abandon' goes on past a lock it found held.
OnlyAbandonsBreak ==
  \A p \in Invocations : pc[p] \in {"inspect", "probe", "break", "retry"} => p \in Abandons

\* What is probed was written by a process of the same host.
ProbesItsHost ==
  \A p \in Invocations : pc[p] \in {"probe", "break"} =>
    read[p] \in Invocations /\ (read[p] \in Remote <=> p \in Remote)

\* What is about to be removed was read of a process that ended.
ReadOfTheDead == \A p \in Invocations : pc[p] = "break" => read[p] \in killed

\* An abandon removes a lock once.
MistakenOnce == \A p \in mistaken : pc[p] \notin {"start", "inspect", "probe", "break"}

LockInd ==
  /\ LockTypeOK
  /\ DisplacedAreCounted
  /\ KilledIsGone
  /\ OnlyAbandonsBreak
  /\ ProbesItsHost
  /\ ReadOfTheDead
  /\ MistakenOnce

-----------------------------------------------------------------------------
(* Who is displaced.                                                       *)

\* Where nobody is displaced who was not, the count stands.
LEMMA NoMoreDisplaced ==
  ASSUME DisplacedAreCounted, Displaced' \subseteq Displaced, UNCHANGED mistaken
  PROVE  DisplacedAreCounted'
<1>1. IsFiniteSet(Displaced') /\ Cardinality(Displaced') <= Cardinality(Displaced)
      /\ Cardinality(Displaced') \in Nat /\ Cardinality(Displaced) \in Nat
  BY FS_Subset, FS_CardinalityType DEF DisplacedAreCounted
<1>2. Cardinality(mistaken) \in Nat
  BY FS_CardinalityType DEF DisplacedAreCounted
<1>. QED
  BY <1>1, <1>2 DEF DisplacedAreCounted

\* One takes another's place.
LEMMA OneForAnother ==
  ASSUME DisplacedAreCounted, UNCHANGED mistaken,
         NEW p \in Displaced, NEW q, Displaced' \subseteq (Displaced \ {p}) \cup {q}
  PROVE  DisplacedAreCounted'
<1>. DEFINE S == Displaced
            T == (S \ {p}) \cup {q}
<1>1. IsFiniteSet(S) /\ IsFiniteSet(mistaken) /\ Cardinality(S) <= Cardinality(mistaken) /\ p \in S
  BY DEF DisplacedAreCounted
<1>2. Displaced' \subseteq T
  OBVIOUS
<1>. HIDE DEF S
<1>3. IsFiniteSet(S \ {p}) /\ Cardinality(S \ {p}) = Cardinality(S) - 1
  BY <1>1, FS_RemoveElement
<1>4. IsFiniteSet(T) /\ (Cardinality(T) = Cardinality(S \ {p}) \/ Cardinality(T) = Cardinality(S \ {p}) + 1)
  BY <1>3, FS_AddElement
<1>. HIDE DEF T
<1>5. IsFiniteSet(Displaced') /\ Cardinality(Displaced') <= Cardinality(T)
  BY <1>2, <1>4, FS_Subset
<1>6. /\ Cardinality(S) \in Nat /\ Cardinality(mistaken) \in Nat
      /\ Cardinality(T) \in Nat /\ Cardinality(Displaced') \in Nat
  BY <1>1, <1>4, <1>5, FS_CardinalityType
<1>7. Cardinality(Displaced') <= Cardinality(mistaken)
  BY <1>1, <1>3, <1>4, <1>5, <1>6
<1>. QED
  BY <1>1, <1>5, <1>7 DEF DisplacedAreCounted

\* One more, by one mistake more.
LEMMA OneForAMistake ==
  ASSUME DisplacedAreCounted, NEW p, p \notin mistaken, mistaken' = mistaken \cup {p},
         NEW q, Displaced' \subseteq Displaced \cup {q}
  PROVE  DisplacedAreCounted'
<1>. DEFINE S == Displaced
            T == S \cup {q}
<1>1. IsFiniteSet(S) /\ IsFiniteSet(mistaken) /\ Cardinality(S) <= Cardinality(mistaken)
  BY DEF DisplacedAreCounted
<1>2. Displaced' \subseteq T
  OBVIOUS
<1>. HIDE DEF S
<1>3. IsFiniteSet(T) /\ (Cardinality(T) = Cardinality(S) \/ Cardinality(T) = Cardinality(S) + 1)
  BY <1>1, FS_AddElement
<1>4. IsFiniteSet(mistaken') /\ Cardinality(mistaken') = Cardinality(mistaken) + 1
  BY <1>1, FS_AddElement
<1>. HIDE DEF T
<1>5. IsFiniteSet(Displaced') /\ Cardinality(Displaced') <= Cardinality(T)
  BY <1>2, <1>3, FS_Subset
<1>6. /\ Cardinality(S) \in Nat /\ Cardinality(mistaken) \in Nat
      /\ Cardinality(T) \in Nat /\ Cardinality(Displaced') \in Nat
  BY <1>1, <1>3, <1>5, FS_CardinalityType
<1>7. Cardinality(Displaced') <= Cardinality(mistaken')
  BY <1>1, <1>3, <1>4, <1>5, <1>6
<1>. QED
  BY <1>4, <1>5, <1>7 DEF DisplacedAreCounted

\* Writing the identity keeps the file, and whose it is.
LEMMA IdentifiedKeeps ==
  ASSUME LockTypeOK, NEW p \in Invocations
  PROVE  /\ Identified(p) \in LockFile \cup {None}
         /\ lock = None => Identified(p) = None
         /\ lock # None => Identified(p) # None /\ Identified(p).owner = lock.owner
<1>1. CASE lock # None /\ lock.owner = p
  <2>1. lock \in LockFile
    BY <1>1 DEF LockTypeOK
  <2>2. [lock EXCEPT !.written = TRUE] \in LockFile /\ [lock EXCEPT !.written = TRUE].owner = lock.owner
    BY <2>1 DEF LockFile
  <2>. QED
    BY <1>1, <2>2, InvocationsAssumption DEF Identified
<1>2. CASE ~ (lock # None /\ lock.owner = p)
  BY <1>2 DEF Identified, LockTypeOK
<1>. QED
  BY <1>1, <1>2

-----------------------------------------------------------------------------
(* The steps.                                                              *)

\* Nothing is held and nothing was read when the first invocation starts.
LEMMA LockInitially == LockInit => LockInd
<1>. SUFFICES ASSUME LockInit PROVE LockInd
  OBVIOUS
<1>1. LockTypeOK
  BY DEF LockInit, LockTypeOK
<1>2. Displaced = {} /\ mistaken = {}
  BY DEF LockInit, Displaced
<1>3. DisplacedAreCounted
  BY <1>2, FS_EmptySet DEF DisplacedAreCounted
<1>4. KilledIsGone /\ OnlyAbandonsBreak /\ ProbesItsHost /\ ReadOfTheDead /\ MistakenOnce
  BY DEF LockInit, KilledIsGone, OnlyAbandonsBreak, ProbesItsHost, ReadOfTheDead, MistakenOnce
<1>. QED
  BY <1>1, <1>3, <1>4 DEF LockInd

\* The exclusive create: the path names its creator, so no more are displaced.
LEMMA CreateKeeps ==
  ASSUME LockInd, NEW p \in Invocations, Create(p)
  PROVE  LockInd'
<1>1. LockTypeOK'
  BY DEF LockInd, LockTypeOK, Create, Goto, LockFile
<1>2. DisplacedAreCounted'
  <2>1. lock' # None /\ lock'.owner = p
    <3>1. lock' \in LockFile /\ lock'.owner = p
      BY DEF Create, LockFile
    <3>. QED
      BY <3>1, InvocationsAssumption
  <2>2. Displaced' \subseteq Displaced
    BY <2>1 DEF LockInd, LockTypeOK, Displaced, Owns, Create, Goto
  <2>. QED
    BY <2>2, NoMoreDisplaced DEF LockInd, Create
<1>3. KilledIsGone'
  BY DEF LockInd, LockTypeOK, KilledIsGone, Create, Goto, Trying
<1>4. OnlyAbandonsBreak'
  BY DEF LockInd, LockTypeOK, OnlyAbandonsBreak, Create, Goto
<1>5. ProbesItsHost'
  BY DEF LockInd, LockTypeOK, ProbesItsHost, Create, Goto
<1>6. ReadOfTheDead'
  BY DEF LockInd, LockTypeOK, ReadOfTheDead, Create, Goto
<1>7. MistakenOnce'
  BY DEF LockInd, LockTypeOK, MistakenOnce, Create, Goto, Trying
<1>. QED
  BY <1>1, <1>2, <1>3, <1>4, <1>5, <1>6, <1>7 DEF LockInd

\* Who finds the lock held leaves it as it is.
LEMMA WouldBlockKeeps ==
  ASSUME LockInd, NEW p \in Invocations, WouldBlock(p)
  PROVE  LockInd'
<1>1. LockTypeOK'
  BY DEF LockInd, LockTypeOK, WouldBlock, Goto
<1>2. DisplacedAreCounted'
  <2>1. Displaced' \subseteq Displaced
    BY DEF LockInd, LockTypeOK, Displaced, Owns, WouldBlock, Goto
  <2>. QED
    BY <2>1, NoMoreDisplaced DEF LockInd, WouldBlock
<1>3. KilledIsGone'
  BY DEF LockInd, LockTypeOK, KilledIsGone, WouldBlock, Goto, Trying
<1>4. OnlyAbandonsBreak'
  BY DEF LockInd, LockTypeOK, OnlyAbandonsBreak, WouldBlock, Goto
<1>5. ProbesItsHost'
  BY DEF LockInd, LockTypeOK, ProbesItsHost, WouldBlock, Goto
<1>6. ReadOfTheDead'
  BY DEF LockInd, LockTypeOK, ReadOfTheDead, WouldBlock, Goto
<1>7. MistakenOnce'
  BY DEF LockInd, LockTypeOK, MistakenOnce, WouldBlock, Goto
<1>. QED
  BY <1>1, <1>2, <1>3, <1>4, <1>5, <1>6, <1>7 DEF LockInd

\* The identity goes into the creator's own file, if that is still there.
LEMMA WriteHolderKeeps ==
  ASSUME LockInd, NEW p \in Invocations, WriteHolder(p)
  PROVE  LockInd'
<1>1. LockTypeOK'
  BY IdentifiedKeeps DEF LockInd, LockTypeOK, WriteHolder, Goto
<1>2. DisplacedAreCounted'
  <2>1. Displaced' \subseteq Displaced
    BY IdentifiedKeeps DEF LockInd, LockTypeOK, Displaced, Owns, WriteHolder, Goto
  <2>. QED
    BY <2>1, NoMoreDisplaced DEF LockInd, WriteHolder
<1>3. KilledIsGone'
  BY DEF LockInd, LockTypeOK, KilledIsGone, WriteHolder, Goto
<1>4. OnlyAbandonsBreak'
  BY DEF LockInd, LockTypeOK, OnlyAbandonsBreak, WriteHolder, Goto
<1>5. ProbesItsHost'
  BY DEF LockInd, LockTypeOK, ProbesItsHost, WriteHolder, Goto
<1>6. ReadOfTheDead'
  BY DEF LockInd, LockTypeOK, ReadOfTheDead, WriteHolder, Goto
<1>7. MistakenOnce'
  BY DEF LockInd, LockTypeOK, MistakenOnce, WriteHolder, Goto
<1>. QED
  BY <1>1, <1>2, <1>3, <1>4, <1>5, <1>6, <1>7 DEF LockInd

\* A failed write leaves the file to whoever breaks it.
LEMMA WriteFailsKeeps ==
  ASSUME LockInd, NEW p \in Invocations, WriteFails(p)
  PROVE  LockInd'
<1>1. LockTypeOK'
  BY IdentifiedKeeps DEF LockInd, LockTypeOK, WriteFails, Goto
<1>2. DisplacedAreCounted'
  <2>1. Displaced' \subseteq Displaced
    BY IdentifiedKeeps DEF LockInd, LockTypeOK, Displaced, Owns, WriteFails, Goto
  <2>. QED
    BY <2>1, NoMoreDisplaced DEF LockInd, WriteFails
<1>3. KilledIsGone'
  BY DEF LockInd, LockTypeOK, KilledIsGone, WriteFails, Goto
<1>4. OnlyAbandonsBreak'
  BY DEF LockInd, LockTypeOK, OnlyAbandonsBreak, WriteFails, Goto
<1>5. ProbesItsHost'
  BY DEF LockInd, LockTypeOK, ProbesItsHost, WriteFails, Goto
<1>6. ReadOfTheDead'
  BY DEF LockInd, LockTypeOK, ReadOfTheDead, WriteFails, Goto
<1>7. MistakenOnce'
  BY DEF LockInd, LockTypeOK, MistakenOnce, WriteFails, Goto
<1>. QED
  BY <1>1, <1>2, <1>3, <1>4, <1>5, <1>6, <1>7 DEF LockInd

\* The drop removes whatever is at the path: its own file, or, of one who is
\* displaced, that of another, who is displaced in its place.
LEMMA ReleaseKeeps ==
  ASSUME LockInd, NEW p \in Invocations, Release(p)
  PROVE  LockInd'
<1>1. LockTypeOK'
  BY DEF LockInd, LockTypeOK, Release, Goto
<1>2. DisplacedAreCounted'
  <2>1. lock' = None /\ pc' = [pc EXCEPT ![p] = "done"] /\ UNCHANGED mistaken
    BY DEF Release, Goto
  <2>2. CASE lock = None \/ lock.owner = p
    <3>1. Displaced' \subseteq Displaced
      BY <2>1, <2>2 DEF LockInd, LockTypeOK, Displaced, Owns
    <3>. QED
      BY <2>1, <3>1, NoMoreDisplaced DEF LockInd
  <2>3. CASE lock # None /\ lock.owner # p
    <3>1. p \in Displaced
      BY <2>3 DEF Displaced, Owns, Release
    <3>2. Displaced' \subseteq (Displaced \ {p}) \cup {lock.owner}
      BY <2>1, <2>3 DEF LockInd, LockTypeOK, Displaced, Owns
    <3>. QED
      BY <2>1, <3>1, <3>2, OneForAnother DEF LockInd
  <2>. QED
    BY <2>2, <2>3
<1>3. KilledIsGone'
  BY DEF LockInd, LockTypeOK, KilledIsGone, Release, Goto
<1>4. OnlyAbandonsBreak'
  BY DEF LockInd, LockTypeOK, OnlyAbandonsBreak, Release, Goto
<1>5. ProbesItsHost'
  BY DEF LockInd, LockTypeOK, ProbesItsHost, Release, Goto
<1>6. ReadOfTheDead'
  BY DEF LockInd, LockTypeOK, ReadOfTheDead, Release, Goto
<1>7. MistakenOnce'
  BY DEF LockInd, LockTypeOK, MistakenOnce, Release, Goto
<1>. QED
  BY <1>1, <1>2, <1>3, <1>4, <1>5, <1>6, <1>7 DEF LockInd

\* An abandon remembers the lock it is about to break, of a process of its host.
LEMMA InspectKeeps ==
  ASSUME LockInd, NEW p \in Invocations, Inspect(p)
  PROVE  LockInd'
<1>1. LockTypeOK'
  BY DEF LockInd, LockTypeOK, Inspect, Goto, LockFile
<1>2. DisplacedAreCounted'
  <2>1. Displaced' \subseteq Displaced
    BY DEF LockInd, LockTypeOK, Displaced, Owns, Inspect, Goto
  <2>. QED
    BY <2>1, NoMoreDisplaced DEF LockInd, Inspect
<1>3. KilledIsGone'
  BY DEF LockInd, LockTypeOK, KilledIsGone, Inspect, Goto
<1>4. OnlyAbandonsBreak'
  BY DEF LockInd, LockTypeOK, OnlyAbandonsBreak, Inspect, Goto
<1>5. ProbesItsHost'
  BY DEF LockInd, LockTypeOK, ProbesItsHost, Inspect, Goto, LockFile
<1>6. ReadOfTheDead'
  BY DEF LockInd, LockTypeOK, ReadOfTheDead, Inspect, Goto
<1>7. MistakenOnce'
  BY DEF LockInd, LockTypeOK, MistakenOnce, Inspect, Goto, Invocations
<1>. QED
  BY <1>1, <1>2, <1>3, <1>4, <1>5, <1>6, <1>7 DEF LockInd

\* The pid of the lock it read is asked for, of a process of the same host: who is
\* not known there has ended.
LEMMA ProbeKeeps ==
  ASSUME LockInd, NEW p \in Invocations, Probe(p)
  PROVE  LockInd'
<1>1. LockTypeOK'
  BY DEF LockInd, LockTypeOK, Probe, Goto
<1>2. DisplacedAreCounted'
  <2>1. Displaced' \subseteq Displaced
    BY DEF LockInd, LockTypeOK, Displaced, Owns, Probe, Goto
  <2>. QED
    BY <2>1, NoMoreDisplaced DEF LockInd, Probe
<1>3. KilledIsGone'
  BY DEF LockInd, LockTypeOK, KilledIsGone, Probe, Goto
<1>4. OnlyAbandonsBreak'
  BY DEF LockInd, LockTypeOK, OnlyAbandonsBreak, Probe, Goto
<1>5. ProbesItsHost'
  BY DEF LockInd, LockTypeOK, ProbesItsHost, Probe, Goto
<1>6. ReadOfTheDead'
  BY DEF LockInd, LockTypeOK, ReadOfTheDead, Probe, Goto, ProbesItsHost, ReportedDead
<1>7. MistakenOnce'
  BY DEF LockInd, LockTypeOK, MistakenOnce, Probe, Goto
<1>. QED
  BY <1>1, <1>2, <1>3, <1>4, <1>5, <1>6, <1>7 DEF LockInd

\* The breaker removes the file of a process that ended, or finds none, or makes
\* the mistake: its first and last, since it removes nothing again.
LEMMA BreakKeeps ==
  ASSUME LockInd, NEW p \in Invocations, Break(p)
  PROVE  LockInd'
<1>1. LockTypeOK'
  BY DEF LockInd, LockTypeOK, OnlyAbandonsBreak, Break, Goto
<1>2. DisplacedAreCounted'
  <2>1. /\ lock' = None /\ pc' = [pc EXCEPT ![p] = IF lock = None THEN "done" ELSE "retry"]
        /\ pc[p] = "break" /\ read[p] \in killed
    BY DEF LockInd, ReadOfTheDead, Break, Goto
  <2>2. CASE lock = None \/ lock.owner = read[p]
    <3>1. lock # None => pc[lock.owner] = "killed" /\ lock.owner \in Invocations
      BY <2>1, <2>2 DEF LockInd, LockTypeOK, KilledIsGone
    <3>2. Displaced' \subseteq Displaced
      BY <2>1, <3>1 DEF LockInd, LockTypeOK, Displaced, Owns
    <3>3. UNCHANGED mistaken
      BY <2>2 DEF Break
    <3>. QED
      BY <3>2, <3>3, NoMoreDisplaced DEF LockInd
  <2>3. CASE lock # None /\ lock.owner # read[p]
    <3>1. mistaken' = mistaken \cup {p} /\ p \notin mistaken
      BY <2>1, <2>3 DEF LockInd, MistakenOnce, Break
    <3>2. Displaced' \subseteq Displaced \cup {lock.owner}
      BY <2>1 DEF LockInd, LockTypeOK, Displaced, Owns
    <3>. QED
      BY <3>1, <3>2, OneForAMistake DEF LockInd
  <2>. QED
    BY <2>2, <2>3
<1>3. KilledIsGone'
  BY DEF LockInd, LockTypeOK, KilledIsGone, Break, Goto
<1>4. OnlyAbandonsBreak'
  BY DEF LockInd, LockTypeOK, OnlyAbandonsBreak, Break, Goto
<1>5. ProbesItsHost'
  BY DEF LockInd, LockTypeOK, ProbesItsHost, Break, Goto
<1>6. ReadOfTheDead'
  BY DEF LockInd, LockTypeOK, ReadOfTheDead, Break, Goto
<1>7. MistakenOnce'
  BY DEF LockInd, LockTypeOK, MistakenOnce, Break, Goto
<1>. QED
  BY <1>1, <1>2, <1>3, <1>4, <1>5, <1>6, <1>7 DEF LockInd

\* A killed invocation is in nobody's way but by its file.
LEMMA KillKeeps ==
  ASSUME LockInd, NEW p \in Invocations, Kill(p)
  PROVE  LockInd'
<1>1. LockTypeOK'
  BY DEF LockInd, LockTypeOK, Kill, Goto
<1>2. DisplacedAreCounted'
  <2>1. Displaced' \subseteq Displaced
    BY DEF LockInd, LockTypeOK, Displaced, Owns, Kill, Goto
  <2>. QED
    BY <2>1, NoMoreDisplaced DEF LockInd, Kill
<1>3. KilledIsGone'
  BY DEF LockInd, LockTypeOK, KilledIsGone, Kill, Goto
<1>4. OnlyAbandonsBreak'
  BY DEF LockInd, LockTypeOK, OnlyAbandonsBreak, Kill, Goto
<1>5. ProbesItsHost'
  BY DEF LockInd, LockTypeOK, ProbesItsHost, Kill, Goto
<1>6. ReadOfTheDead'
  BY DEF LockInd, LockTypeOK, ReadOfTheDead, Kill, Goto
<1>7. MistakenOnce'
  BY DEF LockInd, LockTypeOK, MistakenOnce, Kill, Goto
<1>. QED
  BY <1>1, <1>2, <1>3, <1>4, <1>5, <1>6, <1>7 DEF LockInd

\* A finished invocation's pid is free.
LEMMA ExitKeeps ==
  ASSUME LockInd, NEW p \in Invocations, Exit(p)
  PROVE  LockInd'
<1>1. LockTypeOK'
  BY DEF LockInd, LockTypeOK, Exit, Goto
<1>2. DisplacedAreCounted'
  <2>1. Displaced' \subseteq Displaced
    BY DEF LockInd, LockTypeOK, Displaced, Owns, Exit, Goto
  <2>. QED
    BY <2>1, NoMoreDisplaced DEF LockInd, Exit
<1>3. KilledIsGone'
  BY DEF LockInd, LockTypeOK, KilledIsGone, Exit, Goto
<1>4. OnlyAbandonsBreak'
  BY DEF LockInd, LockTypeOK, OnlyAbandonsBreak, Exit, Goto
<1>5. ProbesItsHost'
  BY DEF LockInd, LockTypeOK, ProbesItsHost, Exit, Goto
<1>6. ReadOfTheDead'
  BY DEF LockInd, LockTypeOK, ReadOfTheDead, Exit, Goto
<1>7. MistakenOnce'
  BY DEF LockInd, LockTypeOK, MistakenOnce, Exit, Goto
<1>. QED
  BY <1>1, <1>2, <1>3, <1>4, <1>5, <1>6, <1>7 DEF LockInd

-----------------------------------------------------------------------------
(* The theorems.                                                           *)

\* Every step of every invocation, killed or not, keeps the invariant.
LEMMA LockStep ==
  ASSUME LockInd, [LockNext]_lockVars
  PROVE  LockInd'
<1>1. CASE LockNext
  BY <1>1, CreateKeeps, WouldBlockKeeps, WriteHolderKeeps, WriteFailsKeeps,
     ReleaseKeeps, InspectKeeps, ProbeKeeps, BreakKeeps, KillKeeps, ExitKeeps DEF LockNext,
     Step
<1>2. CASE UNCHANGED lockVars
  BY <1>2 DEF lockVars, LockInd, LockTypeOK, DisplacedAreCounted, Displaced, Owns, KilledIsGone,
     OnlyAbandonsBreak, ProbesItsHost, ReadOfTheDead, MistakenOnce
<1>. QED
  BY <1>1, <1>2

\* The inductive invariant: nobody loses its lock but to a removal of what was
\* not read, or to the drop of one who lost its own that way (lock_exclusive,
\* break_stale_lock and LockGuard's drop).
THEOREM LockInvariance == LockSpec => []LockInd
<1>1. LockInd /\ [LockNext]_lockVars => LockInd'
  BY LockStep
<1>. QED
  BY LockInitially, <1>1, PTL DEF LockSpec

\* LockGuard's drop removes no lock but its own and break_stale_lock's verdict
\* stands until it acts; whatever invocations run, and wherever they are killed.
THEOREM LockInvHolds == LockSpec => []LockInv
<1>1. LockInd => LockInv
  <2>. SUFFICES ASSUME LockInd PROVE LockInv
    OBVIOUS
  <2>1. HolderOwnsLock
    <3>. SUFFICES ASSUME mistaken = {}, NEW p \in Holders PROVE Owns(p)
      BY DEF HolderOwnsLock, Owns
    <3>1. IsFiniteSet(Displaced) /\ Cardinality(Displaced) <= 0
      BY FS_EmptySet DEF LockInd, DisplacedAreCounted
    <3>2. Displaced = {}
      <4>1. Cardinality(Displaced) \in Nat
        BY <3>1, FS_CardinalityType
      <4>2. Cardinality(Displaced) = 0
        BY <3>1, <4>1
      <4>. QED
        BY <3>1, <4>2, FS_EmptySet
    <3>. QED
      BY <3>2 DEF Displaced, Holders
  <2>2. BreaksTheDead
    BY DEF LockInd, BreaksTheDead, ReadOfTheDead, ProbesItsHost, Invocations
  <2>. QED
    BY <2>1, <2>2 DEF LockInd, LockInv
<1>. QED
  BY LockInvariance, <1>1, PTL

\* However many invocations run, on whatever hosts, and wherever they are killed,
\* there is one guard at a time, and one more for every removal by
\* break_stale_lock of a lock that it did not read.
THEOREM OneMorePerMistakeHolds == LockSpec => []OneMorePerMistake
<1>1. LockInd => OneMorePerMistake
  <2>. SUFFICES ASSUME LockInd PROVE OneMorePerMistake
    OBVIOUS
  <2>. DEFINE S == Displaced
              T == S \cup {lock.owner}
  <2>1. Holders \subseteq T
    BY DEF Holders, Displaced, Owns
  <2>2. IsFiniteSet(S) /\ IsFiniteSet(mistaken) /\ Cardinality(S) <= Cardinality(mistaken)
    BY DEF LockInd, DisplacedAreCounted
  <2>. HIDE DEF S
  <2>3. IsFiniteSet(T) /\ (Cardinality(T) = Cardinality(S) \/ Cardinality(T) = Cardinality(S) + 1)
    BY <2>2, FS_AddElement
  <2>. HIDE DEF T
  <2>4. IsFiniteSet(Holders) /\ Cardinality(Holders) <= Cardinality(T)
    BY <2>1, <2>3, FS_Subset
  <2>5. /\ Cardinality(S) \in Nat /\ Cardinality(mistaken) \in Nat
        /\ Cardinality(T) \in Nat /\ Cardinality(Holders) \in Nat
    BY <2>2, <2>3, <2>4, FS_CardinalityType
  <2>. QED
    BY <2>2, <2>3, <2>4, <2>5 DEF OneMorePerMistake
<1>. QED
  BY LockInvariance, <1>1, PTL
=============================================================================
