----------------------------- MODULE Bump_proofs -----------------------------
(***************************************************************************)
(* The facts a release is planned from and the bump that is made of them,  *)
(* proved for any repository that Cargo accepts, any notes, and any number *)
(* of interrupted attempts.                                                *)
(***************************************************************************)
EXTENDS Bump, Planning_proofs

-----------------------------------------------------------------------------
(* The crates of a tree.                                                    *)

\* A directory has its crate, and a crate its directory.
LEMMA CrateOfDir ==
  ASSUME NEW t, \A i, j \in DOMAIN t.crates : t.crates[i].dir = t.crates[j].dir => i = j
  PROVE  /\ \A i \in DOMAIN t.crates : t.crates[i].dir \in Dirs(t) /\ CrateAt(t, t.crates[i].dir) = t.crates[i]
         /\ \A dir \in Dirs(t) : \E i \in DOMAIN t.crates :
              CrateAt(t, dir) = t.crates[i] /\ t.crates[i].dir = dir
<1>1. ASSUME NEW i \in DOMAIN t.crates
      PROVE  CrateAt(t, t.crates[i].dir) = t.crates[i]
  <2>. DEFINE at == CHOOSE j \in DOMAIN t.crates : t.crates[j].dir = t.crates[i].dir
  <2>1. at \in DOMAIN t.crates /\ t.crates[at].dir = t.crates[i].dir
    <3>. HIDE DEF CrateAt
    <3>. QED
      OBVIOUS
  <2>2. at = i
    BY <2>1
  <2>. QED
    BY <2>2 DEF CrateAt
<1>. QED
  BY <1>1 DEF Dirs

\* f is what Listed goes through.
Listing(f, lists, allowed) ==
  f = [n \in 0 .. Len(lists) |->
         IF n = 0 THEN <<>> ELSE f[n - 1] \o Keep(lists[n], allowed \ ToSet(f[n - 1]))]

\* What is listed is allowed.
LEMMA ListedAreAllowed ==
  ASSUME NEW T, NEW lists, Len(lists) \in Nat, \A n \in 1..Len(lists) : lists[n] \in Seq(T), NEW allowed
  PROVE  /\ Listed(lists, allowed) \in Seq(T)
         /\ ToSet(Listed(lists, allowed)) \subseteq allowed
<1>. DEFINE m == Len(lists)
            Fine == {x \in Seq(T) : ToSet(x) \subseteq allowed}
            next == [k \in 1..m |-> [x \in Fine |-> x \o Keep(lists[k], allowed \ ToSet(x))]]
<1>1. \A k \in 1..m : \A x \in Fine :
        /\ next[k][x] = x \o Keep(lists[k], allowed \ ToSet(x))
        /\ next[k][x] \in Fine
  <2>. TAKE k \in 1..m
  <2>. TAKE x \in Fine
  <2>. DEFINE more == Keep(lists[k], allowed \ ToSet(x))
  <2>1. next[k][x] = x \o more
    OBVIOUS
  <2>2. more \in Seq(T) /\ ToSet(more) \subseteq allowed
    BY KeepType
  <2>. HIDE DEF more
  <2>3. x \in Seq(T) /\ ToSet(x) \subseteq allowed
    OBVIOUS
  <2>4. x \o more \in Seq(T) /\ Len(x \o more) = Len(x) + Len(more)
    BY <2>2, <2>3
  <2>5. ASSUME NEW i \in 1..(Len(x) + Len(more))
        PROVE  (x \o more)[i] \in allowed
    <3>1. CASE i <= Len(x)
      <4>1. (x \o more)[i] = x[i] /\ i \in DOMAIN x
        BY <2>2, <2>3, <3>1
      <4>. QED
        BY <4>1, <2>3 DEF ToSet
    <3>2. CASE i > Len(x)
      <4>1. (x \o more)[i] = more[i - Len(x)] /\ i - Len(x) \in DOMAIN more
        BY <2>2, <2>3, <3>2
      <4>. QED
        BY <4>1, <2>2 DEF ToSet
    <3>. QED
      BY <3>1, <3>2, <2>2, <2>3
  <2>6. ToSet(x \o more) \subseteq allowed
    <3>1. DOMAIN (x \o more) = 1..(Len(x) + Len(more))
      BY <2>4
    <3>. QED
      BY <3>1, <2>5 DEF ToSet
  <2>. QED
    BY <2>1, <2>4, <2>6
<1>2. <<>> \in Fine
  BY DEF ToSet
<1>. HIDE DEF next, Fine
<1>3. PICK f : Stages(f, m, <<>>, next)
  BY Recursion
<1>4. \A k \in 0..m : f[k] = IF k = 0 THEN <<>> ELSE next[k][f[k - 1]]
  BY <1>3 DEF Stages
<1>. DEFINE Bad == {k \in 0..m : f[k] \notin Fine}
<1>5. Bad = {}
  <2>1. SUFFICES ASSUME Bad # {} PROVE FALSE
    OBVIOUS
  <2>2. PICK k \in Bad : \A j \in Bad : k <= j
    <3>1. Bad \in SUBSET Nat
      OBVIOUS
    <3>. QED
      BY <2>1, <3>1, LeastMember
  <2>3. k # 0 /\ k \in Nat
    BY <1>2, <1>4, <2>2
  <2>4. k - 1 \in 0..m /\ k - 1 \notin Bad /\ k \in 1..m
    BY <2>2, <2>3
  <2>. QED
    BY <1>1, <1>4, <2>2, <2>3, <2>4
<1>6. \A k \in 0..m : f[k] = IF k = 0 THEN <<>> ELSE f[k - 1] \o Keep(lists[k], allowed \ ToSet(f[k - 1]))
  <2>. TAKE k \in 0..m
  <2>1. CASE k = 0
    BY <1>4, <2>1
  <2>2. CASE k # 0
    <3>1. k - 1 \in 0..m /\ k \in 1..m
      BY <2>2
    <3>. QED
      BY <1>1, <1>4, <1>5, <2>2, <3>1
  <2>. QED
    BY <2>1, <2>2
<1>7. Listing(f, lists, allowed)
  <2>1. f = [k \in 0..m |-> f[k]]
    BY <1>3 DEF Stages
  <2>. QED
    BY <1>6, <2>1 DEF Listing
<1>. DEFINE chosen == CHOOSE g : Listing(g, lists, allowed)
<1>8. Listing(chosen, lists, allowed)
  BY <1>7, Zenon
<1>9. Listed(lists, allowed) = chosen[m]
  BY DEF Listed, Listing
<1>. HIDE DEF chosen
<1>10. \A k \in 0..m : chosen[k] = f[k]
  <2>. DEFINE Off == {k \in 0..m : chosen[k] # f[k]}
  <2>1. SUFFICES ASSUME Off # {} PROVE FALSE
    OBVIOUS
  <2>2. PICK k \in Off : \A j \in Off : k <= j
    <3>1. Off \in SUBSET Nat
      OBVIOUS
    <3>. QED
      BY <2>1, <3>1, LeastMember
  <2>3. \A j \in 0..m : chosen[j] = IF j = 0 THEN <<>>
                                   ELSE chosen[j - 1] \o Keep(lists[j], allowed \ ToSet(chosen[j - 1]))
    BY <1>8 DEF Listing
  <2>4. k # 0
    BY <1>6, <2>2, <2>3
  <2>5. k - 1 \in 0..m /\ k - 1 \notin Off
    BY <2>2, <2>4
  <2>. QED
    BY <1>6, <2>2, <2>3, <2>4, <2>5
<1>11. chosen[m] \in Fine
  BY <1>5, <1>10
<1>. QED
  BY <1>9, <1>11 DEF Fine

\* The members are crates that exist.
LEMMA MembersExist ==
  ASSUME NEW t, ProjectTypeOK(t)
  PROVE  /\ MemberDirs(t) \in Seq(PathType) /\ ToSet(MemberDirs(t)) \subseteq Dirs(t)
         /\ MemberManifests(t) \in Seq(ToSet(MemberManifests(t)))
         /\ ToSet(MemberManifests(t)) = {CrateAt(t, dir) : dir \in ToSet(MemberDirs(t))}
<1>1. MemberDirs(t) \in Seq(PathType) /\ ToSet(MemberDirs(t)) \subseteq Dirs(t)
  <2>1. CASE t.root = Null \/ t.root.workspace = Null
    <3>1. MemberDirs(t) = <<>>
      BY <2>1 DEF MemberDirs
    <3>. QED
      BY <3>1 DEF ToSet
  <2>2. CASE ~(t.root = Null \/ t.root.workspace = Null)
    <3>. DEFINE entries == t.root.workspace.members
                lists == [i \in DOMAIN entries |-> Named(t, entries[i])]
                allowed == Dirs(t) \ t.root.workspace.exclude
    <3>1. entries \in Seq([form : {"dir", "glob", "other"}, path : PathType])
      BY <2>2 DEF ProjectTypeOK, Maybe, RootType, WorkspaceType
    <3>2. t.crates \in Seq(CrateType) /\ \A c \in CrateType : c.dir \in PathType
      BY DEF ProjectTypeOK, CrateType
    <3>3. \A prefix : Below(t, prefix) \in Seq(PathType)
      <4>. TAKE prefix
      <4>1. [i \in DOMAIN t.crates |-> t.crates[i].dir] \in Seq(PathType)
        BY <3>2
      <4>. QED
        BY <4>1, KeepType DEF Below
    <3>4. \A n \in 1..Len(lists) : lists[n] \in Seq(PathType)
      <4>. TAKE n \in 1..Len(lists)
      <4>. DEFINE Entry == [form : {"dir", "glob", "other"}, path : PathType]
      <4>. HIDE DEF Entry
      <4>0. entries \in Seq(Entry) /\ DOMAIN entries = 1..Len(entries) /\ Len(lists) = Len(entries)
        BY <3>1 DEF Entry
      <4>1. n \in DOMAIN entries /\ entries[n].form \in {"dir", "glob", "other"} /\ entries[n].path \in PathType
        <5>1. n \in DOMAIN entries /\ entries[n] \in Entry
          BY <4>0
        <5>. QED
          BY <5>1 DEF Entry
      <4>2. lists[n] = Named(t, entries[n])
        BY <4>1
      <4>. HIDE DEF entries, lists
      <4>3. Named(t, entries[n]) \in Seq(PathType)
        BY <3>3, <4>1 DEF Named
      <4>. QED
        BY <4>2, <4>3
    <3>5. Len(lists) \in Nat
      BY <3>1
    <3>6. MemberDirs(t) = Listed(lists, allowed)
      BY <2>2 DEF MemberDirs
    <3>. HIDE DEF entries, lists
    <3>7. Listed(lists, allowed) \in Seq(PathType) /\ ToSet(Listed(lists, allowed)) \subseteq allowed
      BY <3>4, <3>5, ListedAreAllowed
    <3>. QED
      BY <3>6, <3>7
  <2>. QED
    BY <2>1, <2>2
<1>. DEFINE dirs == MemberDirs(t)
<1>2. DOMAIN dirs = 1..Len(dirs) /\ Len(dirs) \in Nat
  BY <1>1
<1>3. MemberManifests(t) = [i \in 1..Len(dirs) |-> CrateAt(t, dirs[i])]
  BY <1>2 DEF MemberManifests
<1>. HIDE DEF dirs
<1>4. ToSet(MemberManifests(t)) = {CrateAt(t, dir) : dir \in ToSet(dirs)}
  BY <1>2, <1>3 DEF ToSet
<1>5. MemberManifests(t) \in Seq(ToSet(MemberManifests(t)))
  <2>. DEFINE T == ToSet(MemberManifests(t))
  <2>1. \A i \in 1..Len(dirs) : CrateAt(t, dirs[i]) \in T
    BY <1>2, <1>3 DEF ToSet
  <2>. HIDE DEF T
  <2>2. [i \in 1..Len(dirs) |-> CrateAt(t, dirs[i])] \in Seq(T)
    BY <1>2, <2>1
  <2>. QED
    BY <1>3, <2>2 DEF T
<1>. QED
  BY <1>1, <1>4, <1>5 DEF dirs

-----------------------------------------------------------------------------
(* The pins that are sealed.                                                *)

\* The graph's crates are the members that may be published.
LEMMA GraphOf ==
  ASSUME NEW t, ProjectTypeOK(t), WorkspaceIn(t) # Null
  PROVE  /\ PackageNames(WorkspaceIn(t).members) = PublishableNames(t)
         /\ WorkspaceIn(t).pins = PinsIn(t)
         /\ \A i \in DOMAIN WorkspaceIn(t).members :
              \E m \in NamedMembers(t) : Publishable(m) /\ WorkspaceIn(t).members[i] = GraphMember(t, m)
<1>. DEFINE S == {m \in NamedMembers(t) : Publishable(m)}
            kept == Keep(MemberManifests(t), S)
<1>1. MemberManifests(t) \in Seq(ToSet(MemberManifests(t)))
  BY MembersExist
<1>2. ToSet(kept) = ToSet(MemberManifests(t)) \cap S
  BY <1>1, KeepType
<1>3. ToSet(kept) = S
  BY <1>2 DEF NamedMembers
<1>4. kept # <<>> /\ WorkspaceIn(t) = [members |-> [i \in DOMAIN kept |-> GraphMember(t, kept[i])], pins |-> PinsIn(t)]
  BY DEF WorkspaceIn
<1>. HIDE DEF kept
<1>5. \A i \in DOMAIN kept : kept[i] \in S
  BY <1>3 DEF ToSet
<1>6. \A m \in S : \E i \in DOMAIN kept : kept[i] = m
  BY <1>3 DEF ToSet
<1>. DEFINE members == [i \in DOMAIN kept |-> GraphMember(t, kept[i])]
<1>7. WorkspaceIn(t).members = members /\ DOMAIN members = DOMAIN kept
      /\ \A i \in DOMAIN kept : members[i] = GraphMember(t, kept[i])
  BY <1>4
<1>. HIDE DEF members
<1>8. \A m : GraphMember(t, m).package = MemberName(m)
  BY DEF GraphMember
<1>9. PackageNames(members) = {MemberName(m) : m \in S}
  BY <1>5, <1>6, <1>7, <1>8 DEF PackageNames
<1>. QED
  BY <1>4, <1>5, <1>7, <1>9 DEF PublishableNames

\* All that one owner asks of a crate, in so many words, is the version from.
Lockstep(declarations, dep, from) ==
  /\ \E p \in declarations : p.package = dep /\ p.req = Exact(from)
  /\ \A p \in declarations : p.package = dep => p.req \in {Null, Exact(from)}

\* Every group of pins is somebody's.
LEMMA GroupHas ==
  ASSUME NEW owner, NEW declarations, NEW names, NEW g \in PinGroups(owner, declarations, names), NEW from,
         Rewritable(g, from)
  PROVE  /\ g.owner = owner /\ g.dep \in names \ {owner}
         /\ Lockstep(declarations, g.dep, from) /\ Exact(from) # Null
<1>1. PICK dep \in ({p.package : p \in declarations} \cap names) \ {owner} :
        g = [owner |-> owner, dep |-> dep, reqs |-> {p.req : p \in {p \in declarations : p.package = dep}}]
  BY DEF PinGroups
<1>. DEFINE reqs == {p.req : p \in {p \in declarations : p.package = dep}}
<1>2. g.owner = owner /\ g.dep = dep /\ g.reqs = reqs
  BY <1>1
<1>3. reqs \ {Null} = {Exact(from)}
  BY <1>2 DEF Rewritable, Explicit
<1>4. Exact(from) # Null
  BY <1>3
<1>5. Exact(from) \in reqs /\ \A r \in reqs : r \in {Null, Exact(from)}
  BY <1>3
<1>. QED
  BY <1>1, <1>2, <1>4, <1>5 DEF Lockstep

\* A declaration of a known crate is in a group.
LEMMA HasGroup ==
  ASSUME NEW owner, NEW declarations, NEW names, NEW p \in declarations, p.package \in names \ {owner}
  PROVE  \E g \in PinGroups(owner, declarations, names) :
           g.owner = owner /\ g.dep = p.package /\ p.req \in g.reqs
<1>. DEFINE g == [owner |-> owner, dep |-> p.package,
                  reqs |-> {q.req : q \in {q \in declarations : q.package = p.package}}]
<1>1. g \in PinGroups(owner, declarations, names)
  BY DEF PinGroups
<1>2. p.req \in g.reqs
  OBVIOUS
<1>. QED
  BY <1>1, <1>2

\* An exact pin that could be sealed requires the version from, and is.
LEMMA ExactIsSealed ==
  ASSUME NEW t, ProjectTypeOK(t), WorkspaceIn(t) # Null, NEW facts, facts.workspace = WorkspaceIn(t),
         NEW from, PinsAreSealable(facts, from), NEW g \in PinsIn(t), g.dep \in PublishableNames(t),
         NEW r \in g.reqs, IsExact(r)
  PROVE  r = Exact(from) /\ [owner |-> g.owner, dep |-> g.dep] \in PinRewrites(facts, from)
<1>1. g \in MemberGroups(facts.workspace)
  BY GraphOf DEF MemberGroups
<1>2. ~ Refused(g, from)
  BY <1>1 DEF PinsAreSealable
<1>3. r \in Explicit(g)
  BY DEF Explicit, IsExact
<1>4. Rewritable(g, from)
  BY <1>2, <1>3 DEF Refused
<1>5. r = Exact(from)
  BY <1>3, <1>4 DEF Rewritable
<1>. QED
  BY <1>1, <1>4, <1>5 DEF PinRewrites

\* What is sealed is an exact pin on another member, of the root's table or of
\* a member that has a name, and agrees with all that its owner says.
LEMMA SealedIsExact ==
  ASSUME NEW t, IsProject(t), NEW facts, facts.workspace = WorkspaceIn(t),
         NEW from, NEW pin \in PinRewrites(facts, from)
  PROVE  /\ WorkspaceIn(t) # Null /\ pin.dep \in PublishableNames(t) \ {pin.owner} /\ Exact(from) # Null
         /\ pin = [owner |-> pin.owner, dep |-> pin.dep]
         /\ pin.owner = WorkspaceRoot =>
              Lockstep(WorkspacePinDeclarations(t.root.workspace.dependencies), pin.dep, from)
         /\ pin.owner # WorkspaceRoot =>
              \E m \in NamedMembers(t) :
                pin.owner = MemberName(m) /\ Lockstep(PinDeclarations(m.deps), pin.dep, from)
<1>0. ProjectTypeOK(t) /\ CargoAccepts(t)
  BY DEF IsProject
<1>1. WorkspaceIn(t) # Null
  BY DEF PinRewrites
<1>2. PICK g \in MemberGroups(facts.workspace) :
        Rewritable(g, from) /\ pin = [owner |-> g.owner, dep |-> g.dep]
  BY <1>1 DEF PinRewrites
<1>3. g \in PinsIn(t) /\ pin.owner = g.owner /\ pin.dep = g.dep
  BY <1>0, <1>1, <1>2, GraphOf DEF MemberGroups
<1>4. \A m \in NamedMembers(t) : MemberName(m) # WorkspaceRoot
  BY <1>0, MembersExist DEF CargoAccepts, NamedMembers
<1>5. \/ g \in PinGroups(WorkspaceRoot, WorkspacePinDeclarations(t.root.workspace.dependencies),
                        PublishableNames(t))
      \/ \E m \in NamedMembers(t) : g \in PinGroups(MemberName(m), PinDeclarations(m.deps), PublishableNames(t))
  BY <1>3 DEF PinsIn
<1>. QED
  BY <1>1, <1>2, <1>3, <1>4, <1>5, GroupHas

\* Two members of one name are one.
LEMMA NamesAreTheirOwn ==
  ASSUME NEW t, IsProject(t), NEW m \in NamedMembers(t)
  PROVE  /\ m.dir \in ToSet(MemberDirs(t)) /\ CrateAt(t, m.dir) = m
         /\ \E i \in DOMAIN t.crates : m = t.crates[i]
         /\ \A dir \in ToSet(MemberDirs(t)) : MemberName(CrateAt(t, dir)) = MemberName(m) => dir = m.dir
<1>0. ProjectTypeOK(t) /\ CargoAccepts(t)
      /\ \A i, j \in DOMAIN t.crates : t.crates[i].dir = t.crates[j].dir => i = j
  BY DEF IsProject
<1>1. PICK dir \in ToSet(MemberDirs(t)) : m = CrateAt(t, dir)
  BY <1>0, MembersExist DEF NamedMembers
<1>2. dir \in Dirs(t)
  BY <1>0, MembersExist
<1>3. m.dir = dir /\ \E i \in DOMAIN t.crates : m = t.crates[i]
  BY <1>0, <1>1, <1>2, CrateOfDir
<1>4. MemberName(m) # Null
  BY DEF NamedMembers
<1>. QED
  BY <1>0, <1>1, <1>3, <1>4 DEF CargoAccepts

-----------------------------------------------------------------------------
(* The inductive invariant.                                                 *)

\* The pins that the attempt has rewritten.
RewrittenPins ==
  CASE step = "version" -> {}
    [] step = "pins" -> sealed.bump.pins \ todo
    [] OTHER -> sealed.bump.pins

\* The manifests that make up the sealed workspace.
IsMember(crate) == crate.dir \in ToSet(MemberDirs(sealed.tree))

OwnPins(crate, pins) ==
  IF IsMember(crate) THEN {pin \in pins : pin.owner = MemberName(crate)} ELSE {}

RootPins(pins) == {pin \in pins : pin.owner = WorkspaceRoot}

\* Declarations after the pins that bear on them have been rewritten.
Follows(deps, j, pins) == deps[j].req = Exact(From) /\ \E pin \in pins : j \in Declarations(deps, pin)
After(deps, pins) ==
  [j \in DOMAIN deps |-> IF Follows(deps, j, pins) THEN [deps[j] EXCEPT !.req = Exact(To)] ELSE deps[j]]

\* What no step but the hook's edits out of sight changes: where manifests are,
\* whose they are, and which of them make up the workspace.
SameProject(t, s) ==
  /\ DOMAIN t = DOMAIN s /\ t.root \in RootType
  /\ t.crates \in Seq(CrateType) /\ Len(t.crates) = Len(s.crates)
  /\ \A i \in DOMAIN s.crates : t.crates[i].dir = s.crates[i].dir /\ t.crates[i].package = s.crates[i].package
  /\ t.root.workspace = Null <=> s.root.workspace = Null
  /\ s.root.workspace # Null =>
       /\ t.root.workspace.members = s.root.workspace.members
       /\ t.root.workspace.exclude = s.root.workspace.exclude
  /\ VersionSource(t) = VersionSource(s)

\* What was approved.
IsSealed ==
  /\ sealed.tree \in BumpTrees /\ sealed.notebook \in Notebooks
  /\ From # Null /\ To = BumpVersion("patch", From)
  /\ PinsAreSealable(FactsForPlan(sealed.tree), From)
  /\ sealed.bump.pins = PinRewrites(FactsForPlan(sealed.tree), From)

\* The manifests are the sealed ones with what has been rewritten.
PinsSoFar ==
  /\ WorkspaceIn(sealed.tree) # Null =>
       checkout.tree.root.workspace.dependencies =
         After(sealed.tree.root.workspace.dependencies, RootPins(RewrittenPins))
  /\ \A i \in DOMAIN sealed.tree.crates :
       SameManifest(MemberName(sealed.tree.crates[i])) =>
         checkout.tree.crates[i].deps =
           After(sealed.tree.crates[i].deps, OwnPins(sealed.tree.crates[i], RewrittenPins))

\* The notes as they are once the changelog has been finalised, while fragments
\* remain to be removed.
NotesWritten ==
  LET before == sealed.notebook
      now == checkout.notebook
      fragments == CompiledFragments(sealed.changelog.mode, before)
  IN /\ before.changelog # Null
     /\ sealed.changelog.mode = "fragment" => FragmentsReadable(before)
     /\ todo \subseteq fragments
     /\ now.fragments = before.fragments \ (fragments \ todo)
     /\ \E issues \in {{}, {"issue"}} :
          /\ ~FinalizeFails(before.changelog, To, NotesOf(fragments) \cup issues)
          /\ now.changelog = Finalized(before.changelog, To, NotesOf(fragments) \cup issues)

NotesSoFar ==
  /\ DOMAIN checkout.notebook = {"changelog", "directory", "fragments"}
  /\ step \in {"version", "pins", "notes"} => checkout.notebook = sealed.notebook
  /\ step = "fragments" => sealed.bump.finalizes
  /\ step \in {"fragments", "hook", "commit", "done"} /\ sealed.bump.finalizes => NotesWritten

AtWork == step \notin {"none", "failed"}

BumpInd ==
  /\ BumpTypeOK
  /\ step # "none" => sealed # Null
  /\ sealed # Null => IsSealed
  /\ AtWork => SameProject(checkout.tree, sealed.tree) /\ PinsSoFar /\ NotesSoFar /\ checkout.reason = Null
  /\ AtWork /\ step # "version" => From \in VersionType /\ RootVersion(checkout.tree) = To
  /\ PinsApply


-----------------------------------------------------------------------------
(* What rewriting leaves as it is.                                          *)

\* The directories that the executor reads are crates' as well.
LEMMA ExecutorsExist ==
  ASSUME NEW t, t.crates \in Seq(CrateType)
  PROVE  DirsOfTheExecutor(t) \subseteq Dirs(t)
<1>1. \A prefix : ToSet(Below(t, prefix)) \subseteq Dirs(t)
  <2>. TAKE prefix
  <2>. DEFINE dirs == [i \in DOMAIN t.crates |-> t.crates[i].dir]
  <2>1. \A c \in CrateType : c.dir \in PathType
    BY DEF CrateType
  <2>2. dirs \in Seq(PathType)
    BY <2>1
  <2>. HIDE DEF dirs
  <2>3. ToSet(Keep(dirs, {dir \in Dirs(t) : IsBelow(dir, prefix)}))
          = ToSet(dirs) \cap {dir \in Dirs(t) : IsBelow(dir, prefix)}
    BY <2>2, KeepType
  <2>. QED
    BY <2>3 DEF Below, dirs
<1>. QED
  BY <1>1 DEF DirsOfTheExecutor

\* Trees that are of one project have the same members.
LEMMA SameMembers ==
  ASSUME NEW s, ProjectTypeOK(s), s.root # Null, NEW t, SameProject(t, s),
         \A i, j \in DOMAIN s.crates : s.crates[i].dir = s.crates[j].dir => i = j
  PROVE  /\ DOMAIN t.crates = DOMAIN s.crates
         /\ \A i, j \in DOMAIN t.crates : t.crates[i].dir = t.crates[j].dir => i = j
         /\ Dirs(t) = Dirs(s) /\ MemberDirs(t) = MemberDirs(s)
         /\ \A dir \in Dirs(s) : CrateAt(t, dir).package = CrateAt(s, dir).package
         /\ \A package : Manifests(t, package) = Manifests(s, package)
<1>1. t.crates \in Seq(CrateType) /\ s.crates \in Seq(CrateType) /\ Len(t.crates) = Len(s.crates)
  BY DEF SameProject, ProjectTypeOK
<1>2. DOMAIN t.crates = DOMAIN s.crates
  BY <1>1
<1>3. \A i \in DOMAIN s.crates : t.crates[i].dir = s.crates[i].dir /\ t.crates[i].package = s.crates[i].package
  BY DEF SameProject
<1>4. \A i, j \in DOMAIN t.crates : t.crates[i].dir = t.crates[j].dir => i = j
  BY <1>2, <1>3
<1>5. Dirs(t) = Dirs(s)
  BY <1>2, <1>3 DEF Dirs
<1>6. \A prefix : Below(t, prefix) = Below(s, prefix)
  <2>1. [i \in DOMAIN t.crates |-> t.crates[i].dir] = [i \in DOMAIN s.crates |-> s.crates[i].dir]
    BY <1>2, <1>3
  <2>. QED
    BY <1>5, <2>1 DEF Below
<1>7. \A dir \in Dirs(s) : CrateAt(t, dir).package = CrateAt(s, dir).package
  <2>. TAKE dir \in Dirs(s)
  <2>1. PICK i \in DOMAIN s.crates : CrateAt(s, dir) = s.crates[i] /\ s.crates[i].dir = dir
    BY CrateOfDir
  <2>2. CrateAt(t, t.crates[i].dir) = t.crates[i]
    BY <1>2, <1>4, CrateOfDir
  <2>. QED
    BY <1>3, <2>1, <2>2
<1>8. s.root \in RootType /\ t.root \in RootType /\ t.root # Null
  BY NothingIsNull DEF ProjectTypeOK, SameProject, Maybe
<1>9. MemberDirs(t) = MemberDirs(s) /\ DirsOfTheExecutor(t) = DirsOfTheExecutor(s)
  <2>1. CASE s.root.workspace = Null
    <3>1. t.root.workspace = Null
      BY <2>1 DEF SameProject
    <3>. QED
      BY <2>1, <3>1 DEF MemberDirs, DirsOfTheExecutor
  <2>2. CASE s.root.workspace # Null
    <3>. DEFINE members == s.root.workspace.members
    <3>1. /\ t.root.workspace # Null /\ t.root.workspace.members = members
          /\ t.root.workspace.exclude = s.root.workspace.exclude
      BY <2>2 DEF SameProject
    <3>2. \A entry : Named(t, entry) = Named(s, entry)
      BY <1>6 DEF Named
    <3>3. MemberDirs(t) = Listed([i \in DOMAIN members |-> Named(t, members[i])], Dirs(t) \ s.root.workspace.exclude)
      BY <1>8, <3>1 DEF MemberDirs
    <3>4. MemberDirs(s) = Listed([i \in DOMAIN members |-> Named(s, members[i])], Dirs(s) \ s.root.workspace.exclude)
      BY <2>2 DEF MemberDirs
    <3>. HIDE DEF members
    <3>5. [i \in DOMAIN members |-> Named(t, members[i])] = [i \in DOMAIN members |-> Named(s, members[i])]
      BY <3>2
    <3>6. MemberDirs(t) = MemberDirs(s)
      BY <1>5, <3>3, <3>4, <3>5
    <3>7. DirsOfTheExecutor(t) = DirsOfTheExecutor(s)
      BY <1>5, <1>6, <2>2, <3>1 DEF DirsOfTheExecutor, members
    <3>. QED
      BY <3>6, <3>7
  <2>. QED
    BY <2>1, <2>2
<1>10. DirsOfTheExecutor(s) \subseteq Dirs(s)
  BY <1>1, ExecutorsExist
<1>11. \A package : Manifests(t, package) = Manifests(s, package)
  <2>1. \A dir \in Dirs(s) : MemberName(CrateAt(t, dir)) = MemberName(CrateAt(s, dir))
    BY <1>7 DEF MemberName
  <2>. QED
    BY <1>9, <1>10, <2>1 DEF Manifests
<1>. QED
  BY <1>2, <1>4, <1>5, <1>7, <1>9, <1>11

\* A project is of itself.
LEMMA SameAsItself ==
  ASSUME NEW s, ProjectTypeOK(s), s.root # Null
  PROVE  SameProject(s, s)
BY DEF SameProject, ProjectTypeOK, Maybe

\* Which requirements are rewritten.
LEMMA Rewriting ==
  ASSUME NEW deps \in DependenciesType, NEW pin, NEW from, NEW to \in VersionType
  PROVE  /\ RewrittenDeps(deps, pin, from, to) \in DependenciesType
         /\ DOMAIN RewrittenDeps(deps, pin, from, to) = DOMAIN deps
<1>. DEFINE D == [table : {"normal", "build", "dev"}, key : STRING, rename : Maybe(STRING),
                  source : {"path", "workspace", "registry"},
                  form : {"plain", "inline", "subtable", "dotted", "multiline"},
                  req : Maybe([exact : VersionType] \cup [caret : VersionType])]
<1>1. deps \in Seq(D)
  BY DEF DependenciesType
<1>2. \A d \in D : [d EXCEPT !.req = Exact(to)] \in D
  <2>. TAKE d \in D
  <2>1. Exact(to) \in Maybe([exact : VersionType] \cup [caret : VersionType])
    BY DEF Exact, Maybe
  <2>. HIDE DEF Exact
  <2>. QED
    BY <2>1
<1>. HIDE DEF D
<1>. DEFINE f == [i \in DOMAIN deps |-> IF i \in Declarations(deps, pin) /\ deps[i].req = Exact(from)
                                        THEN [deps[i] EXCEPT !.req = Exact(to)] ELSE deps[i]]
<1>3. RewrittenDeps(deps, pin, from, to) = f
  BY DEF RewrittenDeps
<1>4. DOMAIN deps = 1..Len(deps) /\ Len(deps) \in Nat /\ \A i \in 1..Len(deps) : deps[i] \in D
  BY <1>1
<1>5. \A i \in 1..Len(deps) : f[i] \in D
  BY <1>2, <1>4
<1>6. DOMAIN f = 1..Len(deps) /\ f = [i \in 1..Len(deps) |-> f[i]]
  BY <1>4
<1>. HIDE DEF f
<1>7. f \in Seq(D)
  BY <1>4, <1>5, <1>6
<1>. QED
  BY <1>3, <1>4, <1>6, <1>7 DEF DependenciesType, D

-----------------------------------------------------------------------------
(* The steps of an attempt.                                                 *)

\* What is sealed is a bump of a project.
LEMMA SealedProject ==
  ASSUME IsSealed
  PROVE  /\ IsProject(sealed.tree) /\ ProjectTypeOK(sealed.tree) /\ sealed.tree.root \in RootType
         /\ sealed.tree.root # Null /\ sealed.tree.crates \in Seq(CrateType)
         /\ \A i, j \in DOMAIN sealed.tree.crates :
              sealed.tree.crates[i].dir = sealed.tree.crates[j].dir => i = j
         /\ FactsForPlan(sealed.tree).workspace = WorkspaceIn(sealed.tree)
         /\ DOMAIN sealed.notebook = {"changelog", "directory", "fragments"}
<1>1. IsProject(sealed.tree) /\ sealed.tree.root # Null
  BY BumpAssumption DEF IsSealed
<1>2. ProjectTypeOK(sealed.tree)
      /\ \A i, j \in DOMAIN sealed.tree.crates :
           sealed.tree.crates[i].dir = sealed.tree.crates[j].dir => i = j
  BY <1>1 DEF IsProject
<1>3. sealed.tree.root \in RootType /\ sealed.tree.crates \in Seq(CrateType)
  BY <1>1, <1>2 DEF ProjectTypeOK, Maybe
<1>. QED
  BY <1>1, <1>2, <1>3, NotebooksAssumption DEF IsSealed, FactsForPlan

\* Nothing has been rewritten when there are no pins.
LEMMA AfterNothing ==
  ASSUME NEW deps \in DependenciesType, NEW pins, pins = {}
  PROVE  After(deps, pins) = deps
<1>1. \A j \in DOMAIN deps : ~Follows(deps, j, pins)
  BY DEF Follows
<1>2. After(deps, pins) = [j \in DOMAIN deps |-> deps[j]]
  BY <1>1 DEF After
<1>3. deps = [j \in DOMAIN deps |-> deps[j]]
  BY DEF DependenciesType
<1>. QED
  BY <1>2, <1>3

\* A graph is of a workspace.
LEMMA GraphHasWorkspace ==
  ASSUME NEW t, ProjectTypeOK(t), WorkspaceIn(t) # Null
  PROVE  t.root \in RootType /\ t.root.workspace \in WorkspaceType
         /\ t.root.workspace.dependencies \in DependenciesType
<1>1. t.root # Null /\ t.root.workspace # Null
  <2>. SUFFICES ASSUME t.root = Null \/ t.root.workspace = Null PROVE FALSE
    OBVIOUS
  <2>1. MemberDirs(t) = <<>>
    BY DEF MemberDirs
  <2>2. ToSet(MemberManifests(t)) = {}
    <3>1. ToSet(MemberDirs(t)) = {}
      BY <2>1 DEF ToSet
    <3>. QED
      BY <3>1, MembersExist
  <2>. DEFINE kept == Keep(MemberManifests(t), {m \in NamedMembers(t) : Publishable(m)})
  <2>3. MemberManifests(t) \in Seq(ToSet(MemberManifests(t)))
    BY MembersExist
  <2>4. ToSet(kept) = {} /\ kept \in Seq(ToSet(MemberManifests(t)))
    BY <2>2, <2>3, KeepType
  <2>5. kept # <<>>
    BY DEF WorkspaceIn
  <2>. HIDE DEF kept
  <2>6. Len(kept) \in Nat \ {0} /\ DOMAIN kept = 1..Len(kept)
    BY <2>4, <2>5
  <2>7. 1 \in DOMAIN kept
    BY <2>6
  <2>. QED
    BY <2>4, <2>7 DEF ToSet
<1>2. t.root \in RootType
  BY <1>1 DEF ProjectTypeOK, Maybe
<1>3. t.root.workspace \in WorkspaceType
  BY <1>1, <1>2 DEF RootType, Maybe
<1>. QED
  BY <1>2, <1>3 DEF WorkspaceType

\* No attempt has been made at the start.
LEMMA BumpBegins == BumpInit => BumpInd
BY BumpAssumption DEF BumpInit, BumpInd, BumpTypeOK, Steps, AtWork, PinsApply

\* Sealing a plan makes the checkout the sealed one.
LEMMA SealKeeps ==
  ASSUME BumpInd, SealTheBump
  PROVE  BumpInd'
<1>1. step = "none" /\ sealed = Null /\ checkout = Null
  BY DEF BumpInd, SealTheBump, BumpTypeOK
<1>2. PICK seal \in Sealable, notebook \in Notebooks, locked \in Locked :
        sealed' = [tree |-> seal.tree, bump |-> seal.bump, changelog |-> seal.changelog,
                   crates |-> seal.crates, notebook |-> notebook, locked |-> locked]
  BY DEF SealTheBump
<1>3. PICK t \in BumpTrees : seal \in BumpsFrom(t, FactsForPlan(t))
  BY DEF Sealable
<1>. DEFINE facts == FactsForPlan(t)
<1>4. PICK c \in BumpContracts : seal \in SealableBumps(t, c, facts, ReleaseVersion(c, facts))
  BY <1>3 DEF BumpsFrom
<1>. DEFINE version == ReleaseVersion(c, facts)
<1>. HIDE DEF version
<1>5. version # Null /\ PinsAreSealable(facts, version)
      /\ seal = SealedBump(t, c, facts, version, ResolvedTargets(c, facts))
  BY <1>4 DEF SealableBumps, version
<1>6. seal.tree = t /\ seal.bump = BumpPlan(c, facts, 0, "patch", version)
  BY <1>5 DEF SealedBump
<1>7. seal.bump.from = version /\ seal.bump.to = BumpVersion("patch", version)
      /\ seal.bump.pins = PinRewrites(facts, version)
  BY <1>6 DEF BumpPlan
<1>8. sealed'.tree = t /\ sealed'.notebook = notebook /\ sealed'.bump = seal.bump
  BY <1>2, <1>6
<1>9. IsSealed'
  <2>1. From' = version /\ To' = BumpVersion("patch", version)
    BY <1>7, <1>8 DEF From, To
  <2>. QED
    BY <1>5, <1>7, <1>8, <2>1 DEF IsSealed
<1>10. BumpTypeOK' /\ PinsApply' /\ step' = step
  BY <1>1 DEF BumpInd, BumpTypeOK, SealTheBump, PinsApply
<1>. QED
  BY <1>1, <1>9, <1>10 DEF BumpInd, AtWork

\* An attempt starts over from the sealed checkout.
LEMMA EnterKeeps ==
  ASSUME BumpInd, EnterBarrier
  PROVE  BumpInd'
<1>1. sealed' = sealed /\ bumped' = bumped /\ step' = "version" /\ todo' = {} /\ sealed # Null /\ bumped = Null
      /\ checkout' = [tree |-> sealed.tree, notebook |-> sealed.notebook, reason |-> Null]
      /\ attempts' = attempts + 1 /\ attempts < MaxAttempts
  BY DEF EnterBarrier
<1>2. IsSealed /\ IsSealed'
  <2>1. IsSealed
    BY <1>1 DEF BumpInd
  <2>. QED
    BY <1>1, <2>1 DEF IsSealed, From, To
<1>. DEFINE s == sealed.tree
<1>3. ProjectTypeOK(s) /\ s.root # Null /\ s.crates \in Seq(CrateType)
  BY <1>2, SealedProject
<1>4. checkout'.tree = s /\ checkout'.notebook = sealed.notebook /\ checkout'.reason = Null
      /\ DOMAIN checkout' = {"tree", "notebook", "reason"}
  BY <1>1
<1>5. SameProject(checkout'.tree, sealed'.tree)
  BY <1>1, <1>3, <1>4, SameAsItself
<1>6. RewrittenPins' = {}
  BY <1>1 DEF RewrittenPins
<1>7. PinsSoFar'
  <2>1. WorkspaceIn(s) # Null => After(s.root.workspace.dependencies, {})' = s.root.workspace.dependencies
    <3>. SUFFICES ASSUME WorkspaceIn(s) # Null
                  PROVE  After(s.root.workspace.dependencies, {})' = s.root.workspace.dependencies
      BY <1>1
    <3>1. After(s.root.workspace.dependencies, {}) = s.root.workspace.dependencies
      BY <1>3, GraphHasWorkspace, AfterNothing
    <3>. QED
      BY <1>1, <3>1 DEF After, Follows, From, To
  <2>2. \A i \in DOMAIN s.crates : After(s.crates[i].deps, {})' = s.crates[i].deps
    <3>. TAKE i \in DOMAIN s.crates
    <3>1. s.crates[i].deps \in DependenciesType
      <4>1. s.crates[i] \in CrateType
        BY <1>3
      <4>. QED
        BY <4>1 DEF CrateType
    <3>2. After(s.crates[i].deps, {}) = s.crates[i].deps
      BY <3>1, AfterNothing
    <3>. QED
      BY <1>1, <3>2 DEF After, Follows, From, To
  <2>3. RootPins(RewrittenPins)' = {}
    BY <1>6 DEF RootPins
  <2>4. \A i \in DOMAIN s.crates : OwnPins(s.crates[i], RewrittenPins)' = {}
    BY <1>6 DEF OwnPins
  <2>. QED
    BY <1>1, <1>4, <2>1, <2>2, <2>3, <2>4 DEF PinsSoFar
<1>8. NotesSoFar'
  BY <1>1, <1>2, <1>4, SealedProject DEF NotesSoFar
<1>9. BumpTypeOK'
  BY <1>1, <1>4, BumpAssumption DEF BumpInd, BumpTypeOK, Steps
<1>10. PinsApply'
  BY <1>4, BumpAssumption DEF PinsApply
<1>. QED
  BY <1>1, <1>2, <1>5, <1>7, <1>8, <1>9, <1>10 DEF BumpInd, AtWork

\* An attempt is given up for a reason that stands.
LEMMA GiveUpKeeps ==
  ASSUME BumpInd, NEW reason, AtWork, step # "done", GiveUp(reason),
         reason \in Refusals =>
           \E pin \in sealed.bump.pins : ~SameManifest(pin.owner)
  PROVE  BumpInd'
<1>1. /\ sealed' = sealed /\ bumped' = bumped /\ step' = "failed" /\ todo' = {} /\ attempts' = attempts
      /\ checkout' = [checkout EXCEPT !.reason = reason]
  BY DEF GiveUp
<1>2. sealed # Null /\ IsSealed /\ bumped = Null /\ DOMAIN checkout = {"tree", "notebook", "reason"}
  BY DEF BumpInd, AtWork, BumpTypeOK
<1>3. DOMAIN checkout' = {"tree", "notebook", "reason"} /\ checkout'.reason = reason
  BY <1>1, <1>2
<1>4. IsSealed'
  BY <1>1, <1>2 DEF IsSealed, From, To
<1>5. BumpTypeOK'
  BY <1>1, <1>2, <1>3 DEF BumpInd, BumpTypeOK, Steps
<1>6. PinsApply'
  BY <1>1, <1>3 DEF PinsApply, SameManifest
<1>. QED
  BY <1>1, <1>2, <1>4, <1>5, <1>6 DEF BumpInd, AtWork

\* A process that dies gives up its worktree, and refuses no pin by that.
LEMMA InterruptedKeeps ==
  ASSUME BumpInd, Interrupted
  PROVE  BumpInd'
BY GiveUpKeeps DEF Interrupted, AtWork, Refusals

-----------------------------------------------------------------------------
(* The root's version.                                                      *)

\* The next version is one.
LEMMA NextVersion ==
  ASSUME NEW v \in VersionType
  PROVE  BumpVersion("patch", v) \in VersionType
BY DEF VersionType, BumpVersion

\* A version that is written where the root's version is kept becomes the
\* root's version, and nothing else changes.
LEMMA VersionWritten ==
  ASSUME NEW s, ProjectTypeOK(s), s.root # Null, NEW t, SameProject(t, s), RootVersion(t) # Null,
         NEW v \in VersionType
  PROVE  LET w == WithRootVersion(t, v)
         IN /\ SameProject(w, s) /\ RootVersion(w) = v
            /\ w.crates = t.crates
            /\ t.root.workspace # Null => w.root.workspace.dependencies = t.root.workspace.dependencies
<1>. DEFINE w == WithRootVersion(t, v)
<1>1. /\ DOMAIN t = DOMAIN s /\ "root" \in DOMAIN t /\ t.root \in RootType
      /\ t.root.workspace \in Maybe(WorkspaceType) /\ t.root.package \in Maybe(PackageType)
      /\ DOMAIN t.root = {"package", "deps", "workspace"}
  BY DEF SameProject, ProjectTypeOK, RootType
<1>2. v # Null
  BY NothingIsNull
<1>3. CASE VersionSource(t) = "workspace"
  <2>1. t.root.workspace # Null /\ t.root.workspace.package # Null
    BY <1>3 DEF VersionSource, WorkspacePackage
  <2>2. t.root.workspace \in WorkspaceType
    BY <1>1, <2>1 DEF Maybe
  <2>3. t.root.workspace.package \in InheritableType
    BY <2>1, <2>2 DEF WorkspaceType, Maybe
  <2>. DEFINE p == [t.root.workspace.package EXCEPT !.version = v]
              ws == [t.root.workspace EXCEPT !.package = p]
              r == [t.root EXCEPT !.workspace = ws]
  <2>4. p \in InheritableType /\ p.version = v /\ p # Null
    <3>1. v \in Maybe(VersionType)
      BY DEF Maybe
    <3>2. p \in InheritableType /\ p.version = v
      BY <2>3, <3>1 DEF InheritableType
    <3>. QED
      BY <3>2, NothingIsNull
  <2>5. ws \in WorkspaceType /\ ws.package = p /\ ws.members = t.root.workspace.members
        /\ ws.exclude = t.root.workspace.exclude /\ ws.dependencies = t.root.workspace.dependencies
    <3>. HIDE DEF p
    <3>1. p \in Maybe(InheritableType)
      BY <2>4 DEF Maybe
    <3>. QED
      BY <2>2, <3>1 DEF WorkspaceType
  <2>6. ws # Null
    BY <2>5, NothingIsNull
  <2>7. r \in RootType /\ r.workspace = ws /\ r.package = t.root.package
    <3>. HIDE DEF ws
    <3>1. ws \in Maybe(WorkspaceType)
      BY <2>5 DEF Maybe
    <3>. QED
      BY <1>1, <3>1 DEF RootType
  <2>8. w = [t EXCEPT !.root = r]
    BY <1>3, <1>1, <2>2, <2>3 DEF WithRootVersion
  <2>. HIDE DEF p, ws, r, w
  <2>9. w.root = r /\ w.crates = t.crates /\ DOMAIN w = DOMAIN t
    BY <1>1, <2>8
  <2>10. WorkspacePackage(w) = p
    BY <2>5, <2>6, <2>7, <2>9 DEF WorkspacePackage
  <2>11. VersionSource(w) = "workspace" /\ RootVersion(w) = v
    BY <1>2, <2>4, <2>10 DEF VersionSource, RootVersion
  <2>12. SameProject(w, s)
    BY <1>1, <1>3, <2>1, <2>5, <2>6, <2>7, <2>9, <2>11 DEF SameProject
  <2>. QED
    BY <2>5, <2>7, <2>9, <2>11, <2>12 DEF w
<1>4. CASE VersionSource(t) # "workspace"
  <2>0. VersionSource(t) = "package"
    BY <1>4 DEF VersionSource
  <2>1. t.root.package # Null /\ t.root.package \in PackageType
    BY <1>1, <2>0 DEF RootVersion, Maybe
  <2>. DEFINE p == [t.root.package EXCEPT !.version = v]
              r == [t.root EXCEPT !.package = p]
  <2>2. p \in PackageType /\ p.version = v /\ p # Null
    <3>1. v \in Maybe({Inherited} \cup VersionType)
      BY DEF Maybe
    <3>2. p \in PackageType /\ p.version = v
      BY <2>1, <3>1 DEF PackageType
    <3>. QED
      BY <3>2, NothingIsNull
  <2>3. r \in RootType /\ r.package = p /\ r.workspace = t.root.workspace
    <3>. HIDE DEF p
    <3>1. p \in Maybe(PackageType)
      BY <2>2 DEF Maybe
    <3>. QED
      BY <1>1, <3>1 DEF RootType
  <2>4. w = [t EXCEPT !.root = r]
    BY <1>1, <1>4, <2>1 DEF WithRootVersion
  <2>. HIDE DEF p, r, w
  <2>5. w.root = r /\ w.crates = t.crates /\ DOMAIN w = DOMAIN t
    BY <1>1, <2>4
  <2>6. WorkspacePackage(w) = WorkspacePackage(t)
    BY <2>3, <2>5 DEF WorkspacePackage
  <2>7. VersionSource(w) = "package"
    BY <2>0, <2>6 DEF VersionSource
  <2>8. v # Inherited
    BY NothingIsNull
  <2>9. RootVersion(w) = v
    BY <2>2, <2>3, <2>5, <2>7, <2>8 DEF RootVersion
  <2>10. SameProject(w, s)
    BY <1>1, <2>0, <2>3, <2>5, <2>7 DEF SameProject
  <2>. QED
    BY <2>3, <2>5, <2>9, <2>10 DEF w
<1>. QED
  BY <1>3, <1>4

\* The pins are as they were where no manifest's dependencies change.
LEMMA PinsStay ==
  ASSUME IsSealed, PinsSoFar, SameProject(checkout.tree, sealed.tree), UNCHANGED sealed,
         checkout'.tree.crates = checkout.tree.crates,
         checkout.tree.root.workspace # Null =>
           checkout'.tree.root.workspace.dependencies = checkout.tree.root.workspace.dependencies,
         RewrittenPins' = RewrittenPins
  PROVE  PinsSoFar'
<1>1. WorkspaceIn(sealed.tree) # Null => checkout.tree.root.workspace # Null
  BY SealedProject, GraphHasWorkspace, NothingIsNull DEF SameProject
<1>. DEFINE s == sealed.tree
<1>3. WorkspaceIn(s) # Null =>
        After(s.root.workspace.dependencies, RootPins(RewrittenPins))'
          = After(s.root.workspace.dependencies, RootPins(RewrittenPins))
  BY DEF After, Follows, From, To, RootPins
<1>4. \A i \in DOMAIN s.crates :
        After(s.crates[i].deps, OwnPins(s.crates[i], RewrittenPins))'
          = After(s.crates[i].deps, OwnPins(s.crates[i], RewrittenPins))
  BY DEF After, Follows, From, To, OwnPins, IsMember
<1>5. \A i \in DOMAIN s.crates : SameManifest(MemberName(s.crates[i]))' <=> SameManifest(MemberName(s.crates[i]))
  BY DEF SameManifest
<1>. QED
  BY <1>1, <1>3, <1>4, <1>5 DEF PinsSoFar

\* What a step in the barrier starts from.
LEMMA Working ==
  ASSUME BumpInd, AtWork, step # "done"
  PROVE  /\ IsSealed /\ SameProject(checkout.tree, sealed.tree) /\ PinsSoFar /\ NotesSoFar
         /\ bumped = Null /\ DOMAIN checkout = {"tree", "notebook", "reason"}
         /\ step # "version" => From \in VersionType /\ RootVersion(checkout.tree) = To
BY DEF BumpInd, AtWork, BumpTypeOK

\* A step that leaves the attempt at work.
LEMMA StillWorking ==
  ASSUME BumpInd, AtWork, step # "done", UNCHANGED <<sealed, bumped, attempts>>,
         step' \in Steps \ {"none", "version", "failed", "done"},
         step' \in {"pins", "fragments"} \/ todo' = {},
         step' = "pins" => todo' \subseteq sealed.bump.pins,
         DOMAIN checkout' = {"tree", "notebook", "reason"}, checkout'.reason = checkout.reason,
         SameProject(checkout'.tree, sealed.tree), PinsSoFar', NotesSoFar',
         From \in VersionType, RootVersion(checkout'.tree) = To
  PROVE  BumpInd'
<1>1. IsSealed /\ bumped = Null
  BY Working
<1>2. IsSealed' /\ From' = From /\ To' = To
  BY <1>1 DEF IsSealed, From, To
<1>3. BumpTypeOK'
  BY <1>1 DEF BumpInd, BumpTypeOK
<1>4. PinsApply'
  <2>1. checkout'.reason = Null
    BY DEF BumpInd
  <2>. QED
    BY <2>1, BumpAssumption DEF PinsApply
<1>5. sealed' # Null /\ checkout'.reason = Null
  BY DEF BumpInd, AtWork
<1>. QED
  BY <1>2, <1>3, <1>4, <1>5 DEF BumpInd, AtWork

\* The version is set in one manifest, and the pins are all still to do.
LEMMA SetVersionKeeps ==
  ASSUME BumpInd, SetVersion
  PROVE  BumpInd'
<1>1. step = "version" /\ AtWork /\ step # "done"
  BY DEF SetVersion, AtWork
<1>2. CASE RootVersion(checkout.tree) # From
  BY <1>1, <1>2, GiveUpKeeps DEF SetVersion, Refusals
<1>3. CASE RootVersion(checkout.tree) = From
  <2>1. /\ checkout' = [checkout EXCEPT !.tree = WithRootVersion(@, To)]
        /\ todo' = sealed.bump.pins /\ step' = "pins" /\ UNCHANGED <<sealed, attempts, bumped>>
    BY <1>1, <1>3 DEF SetVersion
  <2>2. /\ IsSealed /\ SameProject(checkout.tree, sealed.tree) /\ PinsSoFar /\ NotesSoFar
        /\ DOMAIN checkout = {"tree", "notebook", "reason"}
    BY <1>1, Working
  <2>. DEFINE t == checkout.tree
  <2>3. From # Null /\ To = BumpVersion("patch", From)
    BY <2>2 DEF IsSealed
  <2>4. From \in VersionType
    <3>1. t.root \in RootType
      BY <2>2 DEF SameProject
    <3>2. t.root.workspace \in Maybe(WorkspaceType) /\ t.root.package \in Maybe(PackageType)
      BY <3>1 DEF RootType
    <3>3. CASE VersionSource(t) = "workspace"
      <4>1. t.root.workspace # Null /\ t.root.workspace.package # Null /\ t.root.workspace.package.version # Null
            /\ From = t.root.workspace.package.version
        BY <1>3, <3>3 DEF VersionSource, WorkspacePackage, RootVersion
      <4>2. t.root.workspace \in WorkspaceType
        BY <3>2, <4>1 DEF Maybe
      <4>3. t.root.workspace.package \in InheritableType
        BY <4>1, <4>2 DEF WorkspaceType, Maybe
      <4>. QED
        BY <4>1, <4>3 DEF InheritableType, Maybe
    <3>4. CASE VersionSource(t) # "workspace"
      <4>1. t.root.package # Null /\ t.root.package.version # Inherited /\ From = t.root.package.version
        BY <1>3, <2>3, <3>4 DEF VersionSource, RootVersion
      <4>2. t.root.package \in PackageType
        BY <3>2, <4>1 DEF Maybe
      <4>. QED
        BY <2>3, <4>1, <4>2 DEF PackageType, Maybe
    <3>. QED
      BY <3>3, <3>4
  <2>5. To \in VersionType
    BY <2>3, <2>4, NextVersion
  <2>6. /\ checkout'.tree = WithRootVersion(t, To) /\ checkout'.notebook = checkout.notebook
        /\ checkout'.reason = checkout.reason /\ DOMAIN checkout' = {"tree", "notebook", "reason"}
    BY <2>1, <2>2
  <2>7. /\ SameProject(checkout'.tree, sealed.tree) /\ RootVersion(checkout'.tree) = To
        /\ checkout'.tree.crates = t.crates
        /\ t.root.workspace # Null => checkout'.tree.root.workspace.dependencies = t.root.workspace.dependencies
    BY <1>3, <2>2, <2>3, <2>5, <2>6, SealedProject, VersionWritten
  <2>8. RewrittenPins' = {} /\ RewrittenPins = {}
    BY <1>1, <2>1 DEF RewrittenPins
  <2>9. PinsSoFar'
    BY <2>1, <2>2, <2>7, <2>8, PinsStay
  <2>10. NotesSoFar'
    BY <1>1, <2>1, <2>2, <2>6 DEF NotesSoFar
  <2>11. step' \in Steps \ {"none", "version", "failed", "done"}
    BY <2>1 DEF Steps
  <2>. QED
    BY <1>1, <2>1, <2>4, <2>6, <2>7, <2>9, <2>10, <2>11, StillWorking
<1>. QED
  BY <1>2, <1>3

\* The lockfile is refreshed when no pin is left to do.
LEMMA RefreshKeeps ==
  ASSUME BumpInd, RefreshLockfile
  PROVE  BumpInd'
<1>1. step = "pins" /\ todo = {} /\ AtWork /\ step # "done"
  BY DEF RefreshLockfile, AtWork
<1>2. CASE sealed.locked /\ ~Resolvable(checkout.tree)
  BY <1>1, <1>2, GiveUpKeeps DEF RefreshLockfile, Refusals
<1>3. CASE ~(sealed.locked /\ ~Resolvable(checkout.tree))
  <2>1. step' = "notes" /\ UNCHANGED <<sealed, checkout, todo, attempts, bumped>>
    BY <1>3 DEF RefreshLockfile
  <2>2. /\ IsSealed /\ SameProject(checkout.tree, sealed.tree) /\ PinsSoFar /\ NotesSoFar
        /\ DOMAIN checkout = {"tree", "notebook", "reason"}
        /\ From \in VersionType /\ RootVersion(checkout.tree) = To
    BY <1>1, Working
  <2>3. RewrittenPins' = RewrittenPins
    BY <1>1, <2>1 DEF RewrittenPins
  <2>4. PinsSoFar'
    BY <2>1, <2>2, <2>3, PinsStay
  <2>5. NotesSoFar'
    BY <1>1, <2>1, <2>2 DEF NotesSoFar
  <2>6. step' \in Steps \ {"none", "version", "failed", "done"}
    BY <2>1 DEF Steps
  <2>. QED
    BY <1>1, <2>1, <2>2, <2>4, <2>5, <2>6, StillWorking
<1>. QED
  BY <1>2, <1>3

\* The hook edits anything but what the bump itself has a claim on.
LEMMA HookKeeps ==
  ASSUME BumpInd, RunHook
  PROVE  BumpInd'
<1>1. step = "hook" /\ AtWork /\ step # "done"
  BY DEF RunHook, AtWork
<1>2. PICK v \in {From, To} :
        LET after == WithRootVersion(checkout.tree, v)
        IN IF RootVersion(after) # To THEN GiveUp("the hook changed the version")
           ELSE /\ checkout' = [checkout EXCEPT !.tree = after]
                /\ step' = "commit"
                /\ UNCHANGED <<sealed, todo, attempts, bumped>>
  BY DEF RunHook
<1>. DEFINE after == WithRootVersion(checkout.tree, v)
<1>3. CASE RootVersion(after) # To
  BY <1>1, <1>2, <1>3, GiveUpKeeps DEF Refusals
<1>4. CASE RootVersion(after) = To
  <2>1. checkout' = [checkout EXCEPT !.tree = after] /\ step' = "commit" /\ UNCHANGED <<sealed, todo, attempts, bumped>>
    BY <1>2, <1>4
  <2>2. /\ IsSealed /\ SameProject(checkout.tree, sealed.tree) /\ PinsSoFar /\ NotesSoFar
        /\ DOMAIN checkout = {"tree", "notebook", "reason"}
        /\ From \in VersionType /\ RootVersion(checkout.tree) = To
    BY <1>1, Working
  <2>3. To \in VersionType /\ To # Null
    BY <2>2, NextVersion, NothingIsNull DEF IsSealed
  <2>4. /\ checkout'.tree = after /\ checkout'.notebook = checkout.notebook
        /\ checkout'.reason = checkout.reason /\ DOMAIN checkout' = {"tree", "notebook", "reason"}
    BY <2>1, <2>2
  <2>5. v \in VersionType
    BY <2>2, <2>3
  <2>6. /\ SameProject(after, sealed.tree) /\ after.crates = checkout.tree.crates
        /\ checkout.tree.root.workspace # Null =>
             after.root.workspace.dependencies = checkout.tree.root.workspace.dependencies
    BY <2>2, <2>3, <2>5, SealedProject, VersionWritten
  <2>. HIDE DEF after
  <2>7. RewrittenPins' = RewrittenPins
    BY <1>1, <2>1 DEF RewrittenPins
  <2>8. PinsSoFar'
    BY <2>1, <2>2, <2>4, <2>6, <2>7, PinsStay
  <2>9. NotesSoFar'
    BY <1>1, <2>1, <2>2, <2>4 DEF NotesSoFar, NotesWritten, To
  <2>10. step' \in Steps \ {"none", "version", "failed", "done"}
    BY <2>1 DEF Steps
  <2>11. todo' = {}
    BY <1>1, <2>1 DEF BumpInd, BumpTypeOK
  <2>. QED
    BY <1>1, <1>4, <2>1, <2>2, <2>4, <2>6, <2>8, <2>9, <2>10, <2>11, StillWorking
<1>. QED
  BY <1>3, <1>4

-----------------------------------------------------------------------------
(* The notes and the commit.                                                *)

\* The changelog takes the fragments in, and they are all still there.
LEMMA FinalizeKeeps ==
  ASSUME BumpInd, FinalizeChangelog
  PROVE  BumpInd'
<1>1. step = "notes" /\ AtWork /\ step # "done"
  BY DEF FinalizeChangelog, AtWork
<1>2. /\ IsSealed /\ SameProject(checkout.tree, sealed.tree) /\ PinsSoFar /\ NotesSoFar
      /\ DOMAIN checkout = {"tree", "notebook", "reason"}
      /\ From \in VersionType /\ RootVersion(checkout.tree) = To
  BY <1>1, Working
<1>3. checkout.notebook = sealed.notebook /\ todo = {}
  BY <1>1, <1>2 DEF NotesSoFar, BumpInd, BumpTypeOK
<1>. DEFINE notebook == checkout.notebook
            fragments == CompiledFragments(sealed.changelog.mode, notebook)
            compiled(issues) == NotesOf(fragments) \cup issues
            fails(issues) == \/ sealed.changelog.mode = "fragment" /\ ~FragmentsReadable(notebook)
                             \/ FinalizeFails(notebook.changelog, To, compiled(issues))
<1>4. CASE ~sealed.bump.finalizes
  <2>1. step' = "hook" /\ UNCHANGED <<sealed, checkout, todo, attempts, bumped>>
    BY <1>4 DEF FinalizeChangelog
  <2>2. RewrittenPins' = RewrittenPins
    BY <1>1, <2>1 DEF RewrittenPins
  <2>3. PinsSoFar'
    BY <1>2, <2>1, <2>2, PinsStay
  <2>4. NotesSoFar'
    BY <1>2, <1>4, <2>1 DEF NotesSoFar
  <2>5. step' \in Steps \ {"none", "version", "failed", "done"}
    BY <2>1 DEF Steps
  <2>. QED
    BY <1>1, <1>2, <1>3, <2>1, <2>3, <2>4, <2>5, StillWorking
<1>5. CASE sealed.bump.finalizes /\ notebook.changelog = Null
  BY <1>1, <1>5, GiveUpKeeps DEF FinalizeChangelog, Refusals
<1>6. CASE sealed.bump.finalizes /\ notebook.changelog # Null
  <2>1. PICK issues \in {{}, {"issue"}} :
          IF fails(issues) THEN GiveUp("notes")
          ELSE /\ checkout' = [checkout EXCEPT !.notebook.changelog =
                                 Finalized(notebook.changelog, To, compiled(issues))]
               /\ todo' = fragments /\ step' = "fragments"
               /\ UNCHANGED <<sealed, attempts, bumped>>
    BY <1>6 DEF FinalizeChangelog
  <2>2. CASE fails(issues)
    <3>1. GiveUp("notes")
      BY <2>1, <2>2
    <3>. QED
      BY <1>1, <3>1, GiveUpKeeps DEF Refusals
  <2>3. CASE ~fails(issues)
    <3>. DEFINE written == Finalized(notebook.changelog, To, compiled(issues))
    <3>1. /\ checkout' = [checkout EXCEPT !.notebook.changelog = written]
          /\ todo' = fragments /\ step' = "fragments" /\ UNCHANGED <<sealed, attempts, bumped>>
      BY <2>1, <2>3
    <3>. HIDE DEF written
    <3>2. DOMAIN notebook = {"changelog", "directory", "fragments"}
      BY <1>2 DEF NotesSoFar
    <3>3. /\ checkout'.tree = checkout.tree /\ checkout'.reason = checkout.reason
          /\ DOMAIN checkout' = {"tree", "notebook", "reason"}
          /\ checkout'.notebook.changelog = written /\ checkout'.notebook.fragments = notebook.fragments
          /\ DOMAIN checkout'.notebook = {"changelog", "directory", "fragments"}
      BY <1>2, <3>1, <3>2
    <3>4. RewrittenPins' = RewrittenPins
      BY <1>1, <3>1 DEF RewrittenPins
    <3>5. PinsSoFar'
      BY <1>2, <3>1, <3>3, <3>4, PinsStay
    <3>. DEFINE ours == CompiledFragments(sealed.changelog.mode, sealed.notebook)
    <3>6. todo' = ours /\ checkout'.notebook.fragments = sealed.notebook.fragments \ (ours \ todo')
      BY <1>3, <3>1, <3>3
    <3>7. /\ sealed.notebook.changelog # Null
          /\ sealed.changelog.mode = "fragment" => FragmentsReadable(sealed.notebook)
          /\ ~FinalizeFails(sealed.notebook.changelog, To, NotesOf(ours) \cup issues)
          /\ checkout'.notebook.changelog = Finalized(sealed.notebook.changelog, To, NotesOf(ours) \cup issues)
      BY <1>3, <1>6, <2>3, <3>3 DEF written
    <3>8. To' = To /\ UNCHANGED sealed
      BY <3>1 DEF To
    <3>. HIDE DEF ours
    <3>9. NotesWritten'
      BY <3>6, <3>7, <3>8 DEF NotesWritten, ours
    <3>10. NotesSoFar'
      BY <1>6, <3>1, <3>3, <3>9 DEF NotesSoFar
    <3>11. step' \in Steps \ {"none", "version", "failed", "done"} /\ step' \in {"pins", "fragments"}
           /\ step' # "pins"
      BY <3>1 DEF Steps
    <3>. QED
      BY <1>1, <1>2, <3>1, <3>3, <3>5, <3>10, <3>11, StillWorking
  <2>. QED
    BY <2>2, <2>3
<1>. QED
  BY <1>4, <1>5, <1>6

\* The changelog does not change while fragments are removed.
LEMMA RemoveKeeps ==
  ASSUME BumpInd, RemoveFragment
  PROVE  BumpInd'
<1>1. step = "fragments" /\ AtWork /\ step # "done"
  BY DEF RemoveFragment, AtWork
<1>2. /\ IsSealed /\ SameProject(checkout.tree, sealed.tree) /\ PinsSoFar /\ NotesSoFar
      /\ DOMAIN checkout = {"tree", "notebook", "reason"}
      /\ From \in VersionType /\ RootVersion(checkout.tree) = To
  BY <1>1, Working
<1>3. PICK f \in todo : /\ checkout' = [checkout EXCEPT !.notebook.fragments = @ \ {f}]
                        /\ todo' = todo \ {f}
  BY DEF RemoveFragment
<1>4. UNCHANGED <<sealed, step, attempts, bumped>>
  BY DEF RemoveFragment
<1>5. DOMAIN checkout.notebook = {"changelog", "directory", "fragments"} /\ NotesWritten
  BY <1>1, <1>2 DEF NotesSoFar
<1>6. /\ checkout'.tree = checkout.tree /\ checkout'.reason = checkout.reason
      /\ DOMAIN checkout' = {"tree", "notebook", "reason"}
      /\ checkout'.notebook.changelog = checkout.notebook.changelog
      /\ checkout'.notebook.fragments = checkout.notebook.fragments \ {f}
      /\ DOMAIN checkout'.notebook = {"changelog", "directory", "fragments"}
  BY <1>2, <1>3, <1>5
<1>7. RewrittenPins' = RewrittenPins
  BY <1>1, <1>4 DEF RewrittenPins
<1>8. PinsSoFar'
  BY <1>2, <1>4, <1>6, <1>7, PinsStay
<1>. DEFINE ours == CompiledFragments(sealed.changelog.mode, sealed.notebook)
<1>. HIDE DEF ours
<1>9. todo \subseteq ours /\ checkout.notebook.fragments = sealed.notebook.fragments \ (ours \ todo)
  BY <1>5 DEF NotesWritten, ours
<1>10. todo' \subseteq ours /\ checkout'.notebook.fragments = sealed.notebook.fragments \ (ours \ todo')
  BY <1>3, <1>6, <1>9
<1>11. NotesWritten'
  BY <1>4, <1>5, <1>6, <1>10 DEF NotesWritten, ours, To
<1>12. NotesSoFar'
  BY <1>1, <1>2, <1>4, <1>6, <1>11 DEF NotesSoFar
<1>13. step' \in Steps \ {"none", "version", "failed", "done"} /\ step' \in {"pins", "fragments"} /\ step' # "pins"
  BY <1>1, <1>4 DEF Steps
<1>. QED
  BY <1>1, <1>2, <1>4, <1>6, <1>8, <1>12, <1>13, StillWorking

\* The last fragment is gone.
LEMMA RemovedKeeps ==
  ASSUME BumpInd, FragmentsRemoved
  PROVE  BumpInd'
<1>1. step = "fragments" /\ todo = {} /\ AtWork /\ step # "done" /\ step' = "hook"
      /\ UNCHANGED <<sealed, checkout, todo, attempts, bumped>>
  BY DEF FragmentsRemoved, AtWork
<1>2. /\ IsSealed /\ SameProject(checkout.tree, sealed.tree) /\ PinsSoFar /\ NotesSoFar
      /\ DOMAIN checkout = {"tree", "notebook", "reason"}
      /\ From \in VersionType /\ RootVersion(checkout.tree) = To
  BY <1>1, Working
<1>3. PinsSoFar'
  <2>1. RewrittenPins' = RewrittenPins
    BY <1>1 DEF RewrittenPins
  <2>. QED
    BY <1>1, <1>2, <2>1, PinsStay
<1>4. NotesSoFar'
  BY <1>1, <1>2 DEF NotesSoFar, NotesWritten, To
<1>5. step' \in Steps \ {"none", "version", "failed", "done"}
  BY <1>1 DEF Steps
<1>. QED
  BY <1>1, <1>2, <1>3, <1>4, <1>5, StillWorking

\* What is committed is what the files are.
LEMMA CommitKeeps ==
  ASSUME BumpInd, CommitBump
  PROVE  BumpInd'
<1>1. step = "commit" /\ AtWork /\ step # "done" /\ step' = "done"
      /\ UNCHANGED <<sealed, checkout, todo, attempts>>
      /\ bumped' = [tree |-> checkout.tree, notebook |-> checkout.notebook]
  BY DEF CommitBump, AtWork
<1>2. /\ IsSealed /\ SameProject(checkout.tree, sealed.tree) /\ PinsSoFar /\ NotesSoFar
      /\ From \in VersionType /\ RootVersion(checkout.tree) = To
  BY <1>1, Working
<1>3. PinsSoFar'
  <2>1. RewrittenPins' = RewrittenPins
    BY <1>1 DEF RewrittenPins
  <2>. QED
    BY <1>1, <1>2, <2>1, PinsStay
<1>4. NotesSoFar'
  BY <1>1, <1>2 DEF NotesSoFar, NotesWritten, To
<1>5. IsSealed' /\ From' = From /\ To' = To
  BY <1>1, <1>2 DEF IsSealed, From, To
<1>6. BumpTypeOK' /\ PinsApply'
  BY <1>1 DEF BumpInd, BumpTypeOK, Steps, PinsApply, SameManifest
<1>. QED
  BY <1>1, <1>2, <1>3, <1>4, <1>5, <1>6 DEF BumpInd, AtWork

\* A step that changes none of the barrier's variables.
LEMMA IdleKeeps ==
  ASSUME BumpInd, UNCHANGED bumpVars
  PROVE  BumpInd'
<1>1. UNCHANGED <<sealed, checkout, todo, step, attempts, bumped>>
  BY DEF bumpVars
<1>2. RewrittenPins' = RewrittenPins /\ From' = From /\ To' = To
  BY <1>1 DEF RewrittenPins, From, To
<1>3. IsSealed /\ PinsSoFar /\ SameProject(checkout.tree, sealed.tree) => PinsSoFar'
  BY <1>1, <1>2, PinsStay
<1>4. NotesSoFar => NotesSoFar'
  BY <1>1 DEF NotesSoFar, NotesWritten, To
<1>5. IsSealed => IsSealed'
  BY <1>1 DEF IsSealed, From, To
<1>6. BumpTypeOK' /\ PinsApply'
  BY <1>1 DEF BumpInd, BumpTypeOK, PinsApply, SameManifest
<1>. QED
  BY <1>1, <1>2, <1>3, <1>4, <1>5, <1>6 DEF BumpInd, AtWork

-----------------------------------------------------------------------------
(* The pins, one by one.                                                    *)

\* Rewriting a pin adds it to those that have been.
LEMMA OneMore ==
  ASSUME NEW deps \in DependenciesType, NEW pins, NEW pin, From \in VersionType,
         To = BumpVersion("patch", From)
  PROVE  /\ After(deps, pins) \in DependenciesType
         /\ RewrittenDeps(After(deps, pins), pin, From, To) = After(deps, pins \cup {pin})
         /\ Declarations(After(deps, pins), pin) = Declarations(deps, pin)
<1>. DEFINE D == [table : {"normal", "build", "dev"}, key : STRING, rename : Maybe(STRING),
                  source : {"path", "workspace", "registry"},
                  form : {"plain", "inline", "subtable", "dotted", "multiline"},
                  req : Maybe([exact : VersionType] \cup [caret : VersionType])]
            now == After(deps, pins)
<1>1. deps \in Seq(D)
  BY DEF DependenciesType
<1>2. To \in VersionType /\ To # From
  BY NextVersion DEF BumpVersion, VersionType
<1>3. Exact(To) # Exact(From)
  <2>1. Exact(To).exact = To /\ Exact(From).exact = From
    BY DEF Exact
  <2>. QED
    BY <1>2, <2>1
<1>4. \A d \in D : LET e == [d EXCEPT !.req = Exact(To)]
                   IN /\ e \in D /\ e.req = Exact(To) /\ CrateOf(e) = CrateOf(d) /\ e.form = d.form
                      /\ e.source = d.source /\ [e EXCEPT !.req = Exact(To)] = e
  <2>. TAKE d \in D
  <2>1. Exact(To) \in Maybe([exact : VersionType] \cup [caret : VersionType])
    BY <1>2 DEF Exact, Maybe
  <2>. HIDE DEF Exact
  <2>. QED
    BY <2>1 DEF CrateOf, Or
<1>. HIDE DEF D
<1>5. DOMAIN deps = 1..Len(deps) /\ Len(deps) \in Nat /\ \A j \in DOMAIN deps : deps[j] \in D
  BY <1>1
<1>6. /\ DOMAIN now = DOMAIN deps
      /\ \A j \in DOMAIN deps :
           now[j] = IF Follows(deps, j, pins) THEN [deps[j] EXCEPT !.req = Exact(To)] ELSE deps[j]
      /\ now = [j \in DOMAIN deps |-> now[j]]
  BY DEF After
<1>. HIDE DEF now
<1>7. \A j \in DOMAIN deps : /\ now[j] \in D /\ CrateOf(now[j]) = CrateOf(deps[j])
                             /\ now[j].form = deps[j].form /\ now[j].source = deps[j].source
  BY <1>4, <1>5, <1>6
<1>8. now \in DependenciesType
  <2>1. now \in Seq(D)
    BY <1>5, <1>6, <1>7
  <2>. QED
    BY <2>1 DEF DependenciesType, D
<1>9. Declarations(now, pin) = Declarations(deps, pin)
  BY <1>6, <1>7 DEF Declarations, Local
<1>10. RewrittenDeps(now, pin, From, To) = After(deps, pins \cup {pin})
  <2>1. \A j \in DOMAIN deps :
          Follows(deps, j, pins \cup {pin}) <=>
            Follows(deps, j, pins) \/ (deps[j].req = Exact(From) /\ j \in Declarations(deps, pin))
    BY DEF Follows
  <2>. DEFINE left(j) == IF j \in Declarations(now, pin) /\ now[j].req = Exact(From)
                         THEN [now[j] EXCEPT !.req = Exact(To)] ELSE now[j]
              right(j) == IF Follows(deps, j, pins \cup {pin})
                          THEN [deps[j] EXCEPT !.req = Exact(To)] ELSE deps[j]
  <2>2. \A j \in DOMAIN deps : left(j) = right(j)
    <3>. TAKE j \in DOMAIN deps
    <3>0. deps[j] \in D
      BY <1>5
    <3>1. CASE Follows(deps, j, pins)
      <4>1. now[j] = [deps[j] EXCEPT !.req = Exact(To)] /\ now[j].req = Exact(To)
        BY <1>4, <1>6, <3>0, <3>1
      <4>2. left(j) = now[j]
        BY <1>3, <4>1
      <4>3. right(j) = [deps[j] EXCEPT !.req = Exact(To)]
        BY <2>1, <3>1
      <4>. QED
        BY <4>1, <4>2, <4>3
    <3>2. CASE ~Follows(deps, j, pins)
      <4>1. now[j] = deps[j]
        BY <1>6, <3>2
      <4>. QED
        BY <1>9, <2>1, <3>2, <4>1
    <3>. QED
      BY <3>1, <3>2
  <2>3. RewrittenDeps(now, pin, From, To) = [j \in DOMAIN deps |-> left(j)]
    BY <1>6 DEF RewrittenDeps
  <2>4. After(deps, pins \cup {pin}) = [j \in DOMAIN deps |-> right(j)]
    BY DEF After
  <2>. HIDE DEF left, right
  <2>. QED
    BY <2>2, <2>3, <2>4
<1>. QED
  BY <1>8, <1>9, <1>10 DEF now

\* A pin is its owner and the crate that it is on.
IsPin(p) == p = [owner |-> p.owner, dep |-> p.dep]

\* A pin that was sealed in lockstep is found, whichever were rewritten before.
LEMMA PinFound ==
  ASSUME NEW deps \in DependenciesType, From \in VersionType, To = BumpVersion("patch", From),
         NEW pin, IsPin(pin),
         NEW pins, pin \notin pins,
         \A p \in pins : IsPin(p) /\ p.owner = pin.owner,
         Exact(From) # Null,
         Lockstep(IF pin.owner = WorkspaceRoot THEN WorkspacePinDeclarations(deps) ELSE PinDeclarations(deps),
                  pin.dep, From)
  PROVE  PinsMatch(After(deps, pins), pin, From)
<1>0. Declarations(After(deps, pins), pin) = Declarations(deps, pin)
  BY OneMore
<1>. DEFINE now == After(deps, pins)
            mine == Declarations(deps, pin)
<1>1. Declarations(now, pin) = mine /\ mine \subseteq DOMAIN deps
  <2>1. Declarations(now, pin) = mine
    BY <1>0
  <2>2. mine \subseteq DOMAIN deps
    BY DEF Declarations
  <2>. QED
    BY <2>1, <2>2
<1>2. \A j \in mine : ~Follows(deps, j, pins)
  <2>. SUFFICES ASSUME NEW j \in mine, NEW p \in pins, j \in Declarations(deps, p) PROVE FALSE
    BY DEF Follows
  <2>1. p.dep = pin.dep
    BY DEF Declarations
  <2>2. p.owner = pin.owner
    OBVIOUS
  <2>3. p = pin
    BY <2>1, <2>2 DEF IsPin
  <2>. QED
    BY <2>3
<1>3. \A j \in mine : now[j] = deps[j]
  BY <1>1, <1>2 DEF After
<1>. HIDE DEF now
<1>. DEFINE theirs == IF pin.owner = WorkspaceRoot THEN WorkspacePinDeclarations(deps) ELSE PinDeclarations(deps)
<1>4. \A p : p \in theirs /\ p.package = pin.dep =>
        \E j \in mine : p.req = deps[j].req
  <2>. SUFFICES ASSUME NEW p \in theirs, p.package = pin.dep PROVE \E j \in mine : p.req = deps[j].req
    OBVIOUS
  <2>1. PICK d \in ToSet(deps) : /\ p = [package |-> CrateOf(d), req |-> d.req]
                                 /\ IF pin.owner = WorkspaceRoot THEN d.form # "plain" ELSE Local(d)
    BY DEF WorkspacePinDeclarations, PinDeclarations
  <2>2. PICK j \in DOMAIN deps : deps[j] = d
    BY DEF ToSet
  <2>3. p.package = CrateOf(d) /\ p.req = d.req
    BY <2>1
  <2>4. j \in mine
    BY <2>1, <2>2, <2>3 DEF Declarations
  <2>. QED
    BY <2>2, <2>3, <2>4
<1>5. \A j \in mine : \E p \in theirs : p.package = pin.dep /\ p.req = deps[j].req
  <2>. TAKE j \in mine
  <2>1. deps[j] \in ToSet(deps) /\ CrateOf(deps[j]) = pin.dep
        /\ IF pin.owner = WorkspaceRoot THEN deps[j].form # "plain" ELSE Local(deps[j])
    BY DEF Declarations, ToSet
  <2>. DEFINE p == [package |-> CrateOf(deps[j]), req |-> deps[j].req]
  <2>2. p \in theirs
    BY <2>1 DEF WorkspacePinDeclarations, PinDeclarations
  <2>3. p.package = pin.dep /\ p.req = deps[j].req
    BY <2>1
  <2>. QED
    BY <2>2, <2>3
<1>. HIDE DEF mine, theirs
<1>6. Lockstep(theirs, pin.dep, From)
  BY DEF theirs
<1>7. \E j \in mine : deps[j].req = Exact(From)
  BY <1>4, <1>6 DEF Lockstep
<1>8. \A j \in mine : deps[j].req \in {Null, Exact(From)}
  BY <1>5, <1>6 DEF Lockstep
<1>. HIDE DEF Exact
<1>9. PinsMatch(now, pin, From)
  BY <1>1, <1>3, <1>7, <1>8 DEF PinsMatch
<1>. QED
  BY <1>9 DEF now

\* The root's table is rewritten.
LEMMA RootRewritten ==
  ASSUME NEW s, ProjectTypeOK(s), NEW t, SameProject(t, s), t.root.workspace # Null,
         NEW deps \in DependenciesType
  PROVE  LET w == [t EXCEPT !.root.workspace.dependencies = deps]
         IN /\ SameProject(w, s) /\ RootVersion(w) = RootVersion(t)
            /\ w.crates = t.crates /\ w.root.workspace.dependencies = deps
<1>. DEFINE w == [t EXCEPT !.root.workspace.dependencies = deps]
            ws == [t.root.workspace EXCEPT !.dependencies = deps]
            r == [t.root EXCEPT !.workspace = ws]
<1>1. /\ DOMAIN t = DOMAIN s /\ "root" \in DOMAIN t /\ "crates" \in DOMAIN t /\ t.root \in RootType
      /\ t.root.workspace \in Maybe(WorkspaceType)
  BY DEF SameProject, ProjectTypeOK, RootType
<1>2. t.root.workspace \in WorkspaceType
  BY <1>1 DEF Maybe
<1>3. ws \in WorkspaceType /\ ws.package = t.root.workspace.package /\ ws.members = t.root.workspace.members
      /\ ws.exclude = t.root.workspace.exclude /\ ws.dependencies = deps
  BY <1>2 DEF WorkspaceType
<1>4. ws # Null
  BY <1>3, NothingIsNull
<1>5. r \in RootType /\ r.workspace = ws /\ r.package = t.root.package
  <2>. HIDE DEF ws
  <2>1. ws \in Maybe(WorkspaceType)
    BY <1>3 DEF Maybe
  <2>. QED
    BY <1>1, <2>1 DEF RootType
<1>6. w = [t EXCEPT !.root = r]
  BY <1>1, <1>2
<1>. HIDE DEF ws, r, w
<1>7. w.root = r /\ w.crates = t.crates /\ DOMAIN w = DOMAIN t
  BY <1>1, <1>6
<1>8. WorkspacePackage(w) = WorkspacePackage(t)
  BY <1>3, <1>4, <1>5, <1>7 DEF WorkspacePackage
<1>9. VersionSource(w) = VersionSource(t) /\ RootVersion(w) = RootVersion(t)
  BY <1>5, <1>7, <1>8 DEF VersionSource, RootVersion
<1>10. SameProject(w, s)
  BY <1>1, <1>3, <1>4, <1>5, <1>7, <1>9 DEF SameProject
<1>. QED
  BY <1>3, <1>5, <1>7, <1>9, <1>10 DEF w

\* A crate's manifest is rewritten.
LEMMA CrateRewritten ==
  ASSUME NEW s, ProjectTypeOK(s), NEW t, SameProject(t, s), NEW at \in DOMAIN t.crates,
         NEW deps \in DependenciesType
  PROVE  LET w == [t EXCEPT !.crates[at].deps = deps]
         IN /\ SameProject(w, s) /\ RootVersion(w) = RootVersion(t)
            /\ w.root = t.root /\ w.crates[at].deps = deps
            /\ \A i \in DOMAIN t.crates \ {at} : w.crates[i] = t.crates[i]
<1>. DEFINE w == [t EXCEPT !.crates[at].deps = deps]
            c == [t.crates[at] EXCEPT !.deps = deps]
            cs == [t.crates EXCEPT ![at] = c]
<1>1. /\ DOMAIN t = DOMAIN s /\ "root" \in DOMAIN t /\ "crates" \in DOMAIN t /\ t.root \in RootType
      /\ t.crates \in Seq(CrateType) /\ s.crates \in Seq(CrateType)
      /\ DOMAIN t.crates = DOMAIN s.crates /\ Len(t.crates) = Len(s.crates)
  BY DEF SameProject, ProjectTypeOK
<1>2. t.crates[at] \in CrateType
  BY <1>1
<1>3. c \in CrateType /\ c.dir = t.crates[at].dir /\ c.package = t.crates[at].package /\ c.deps = deps
  BY <1>2 DEF CrateType
<1>4. cs \in Seq(CrateType) /\ Len(cs) = Len(t.crates) /\ cs[at] = c /\ \A i \in DOMAIN t.crates \ {at} : cs[i] = t.crates[i]
  <2>. HIDE DEF c
  <2>. QED
    BY <1>1, <1>3
<1>5. w = [t EXCEPT !.crates = cs]
  BY <1>1, <1>2
<1>. HIDE DEF c, cs, w
<1>6. w.root = t.root /\ w.crates = cs /\ DOMAIN w = DOMAIN t
  BY <1>1, <1>5
<1>7. WorkspacePackage(w) = WorkspacePackage(t)
  BY <1>6 DEF WorkspacePackage
<1>8. VersionSource(w) = VersionSource(t) /\ RootVersion(w) = RootVersion(t)
  BY <1>6, <1>7 DEF VersionSource, RootVersion
<1>9. \A i \in DOMAIN s.crates : w.crates[i].dir = s.crates[i].dir /\ w.crates[i].package = s.crates[i].package
  <2>1. \A i \in DOMAIN s.crates : cs[i].dir = t.crates[i].dir /\ cs[i].package = t.crates[i].package
    BY <1>1, <1>3, <1>4
  <2>. QED
    BY <1>6, <2>1 DEF SameProject
<1>10. SameProject(w, s)
  BY <1>1, <1>4, <1>6, <1>8, <1>9 DEF SameProject
<1>. QED
  BY <1>3, <1>4, <1>6, <1>8, <1>10 DEF w

\* A rewrite leaves the attempt among its pins.
LEMMA PinRewritten ==
  ASSUME BumpInd, step = "pins", NEW pin \in todo, todo' = todo \ {pin},
         UNCHANGED <<sealed, step, attempts, bumped>>,
         NEW tree1, checkout' = [checkout EXCEPT !.tree = tree1],
         SameProject(tree1, sealed.tree), RootVersion(tree1) = RootVersion(checkout.tree),
         LET s == sealed.tree
             pins == RewrittenPins \cup {pin}
         IN /\ WorkspaceIn(s) # Null =>
                 tree1.root.workspace.dependencies = After(s.root.workspace.dependencies, RootPins(pins))
            /\ \A i \in DOMAIN s.crates :
                 SameManifest(MemberName(s.crates[i])) =>
                   tree1.crates[i].deps = After(s.crates[i].deps, OwnPins(s.crates[i], pins))
  PROVE  BumpInd'
<1>1. AtWork /\ step # "done" /\ step # "version" /\ todo \subseteq sealed.bump.pins
  BY DEF AtWork, BumpInd, BumpTypeOK
<1>2. /\ IsSealed /\ NotesSoFar /\ DOMAIN checkout = {"tree", "notebook", "reason"}
      /\ From \in VersionType /\ RootVersion(checkout.tree) = To
  BY <1>1, Working
<1>3. /\ checkout'.tree = tree1 /\ checkout'.notebook = checkout.notebook
      /\ checkout'.reason = checkout.reason /\ DOMAIN checkout' = {"tree", "notebook", "reason"}
  BY <1>2
<1>. DEFINE s == sealed.tree
            pins == RewrittenPins \cup {pin}
<1>4. RewrittenPins' = pins
  BY <1>1 DEF RewrittenPins
<1>. HIDE DEF pins
<1>5. /\ WorkspaceIn(s) # Null =>
           tree1.root.workspace.dependencies = After(s.root.workspace.dependencies, RootPins(pins))
      /\ \A i \in DOMAIN s.crates :
           SameManifest(MemberName(s.crates[i])) =>
             tree1.crates[i].deps = After(s.crates[i].deps, OwnPins(s.crates[i], pins))
  BY DEF pins
<1>6. PinsSoFar'
  <2>1. After(s.root.workspace.dependencies, RootPins(RewrittenPins))'
          = After(s.root.workspace.dependencies, RootPins(pins))
    BY <1>4 DEF After, Follows, From, To, RootPins
  <2>2. \A i \in DOMAIN s.crates :
          After(s.crates[i].deps, OwnPins(s.crates[i], RewrittenPins))'
            = After(s.crates[i].deps, OwnPins(s.crates[i], pins))
    BY <1>4 DEF After, Follows, From, To, OwnPins, IsMember
  <2>3. \A i \in DOMAIN s.crates :
          SameManifest(MemberName(s.crates[i]))' <=> SameManifest(MemberName(s.crates[i]))
    BY DEF SameManifest
  <2>. QED
    BY <1>3, <1>5, <2>1, <2>2, <2>3 DEF PinsSoFar
<1>7. NotesSoFar'
  BY <1>2, <1>3 DEF NotesSoFar
<1>8. step' \in Steps \ {"none", "version", "failed", "done"}
  BY DEF Steps
<1>. QED
  BY <1>1, <1>2, <1>3, <1>6, <1>7, <1>8, StillWorking

\* Rewriting one more pin is one more step from the sealed manifests to the released ones.
LEMMA RewriteKeeps ==
  ASSUME BumpInd, RewritePin
  PROVE  BumpInd'
<1>1. step = "pins" /\ AtWork /\ step # "done" /\ step # "version" /\ todo \subseteq sealed.bump.pins
  BY DEF RewritePin, AtWork, BumpInd, BumpTypeOK
<1>2. /\ IsSealed /\ SameProject(checkout.tree, sealed.tree) /\ PinsSoFar
      /\ DOMAIN checkout = {"tree", "notebook", "reason"} /\ From \in VersionType
      /\ RewrittenPins = sealed.bump.pins \ todo
  BY <1>1, Working DEF RewrittenPins
<1>. DEFINE t == checkout.tree
            s == sealed.tree
            facts == FactsForPlan(s)
<1>3. /\ IsProject(s) /\ ProjectTypeOK(s) /\ s.root # Null /\ s.crates \in Seq(CrateType)
      /\ \A i, j \in DOMAIN s.crates : s.crates[i].dir = s.crates[j].dir => i = j
      /\ facts.workspace = WorkspaceIn(s)
  BY <1>2, SealedProject
<1>4. /\ sealed.bump.pins = PinRewrites(facts, From) /\ To = BumpVersion("patch", From)
      /\ To \in VersionType
  BY <1>2, NextVersion DEF IsSealed
<1>. HIDE DEF facts
<1>5. PICK pin \in todo :
       IF pin.owner = WorkspaceRoot
       THEN LET deps == t.root.workspace.dependencies
            IN IF ~PinsMatch(deps, pin, From) THEN GiveUp("pin not found")
               ELSE /\ checkout' = [checkout EXCEPT !.tree.root.workspace.dependencies =
                                      RewrittenDeps(deps, pin, From, To)]
                    /\ todo' = todo \ {pin}
                    /\ UNCHANGED <<sealed, step, attempts, bumped>>
       ELSE \/ Manifests(t, pin.owner) = {} /\ GiveUp("manifest not found")
            \/ \E dir \in Manifests(t, pin.owner) :
                 LET at == CHOOSE i \in DOMAIN t.crates : t.crates[i].dir = dir
                     deps == t.crates[at].deps
                 IN IF ~PinsMatch(deps, pin, From) THEN GiveUp("pin not found")
                    ELSE /\ checkout' = [checkout EXCEPT !.tree.crates[at].deps =
                                           RewrittenDeps(deps, pin, From, To)]
                         /\ todo' = todo \ {pin}
                         /\ UNCHANGED <<sealed, step, attempts, bumped>>
  BY DEF RewritePin
<1>6. \A p \in sealed.bump.pins :
        /\ WorkspaceIn(s) # Null /\ Exact(From) # Null /\ IsPin(p)
        /\ p.owner = WorkspaceRoot =>
             Lockstep(WorkspacePinDeclarations(s.root.workspace.dependencies), p.dep, From)
        /\ p.owner # WorkspaceRoot =>
             \E m \in NamedMembers(s) :
               p.owner = MemberName(m) /\ Lockstep(PinDeclarations(m.deps), p.dep, From)
  BY <1>3, <1>4, SealedIsExact DEF IsPin
<1>7. pin \in sealed.bump.pins /\ pin \notin RewrittenPins /\ RewrittenPins \subseteq sealed.bump.pins
  BY <1>1, <1>2
<1>8. WorkspaceIn(s) # Null /\ Exact(From) # Null /\ IsPin(pin)
  BY <1>6, <1>7
<1>9. \A i \in DOMAIN s.crates : IsMember(s.crates[i]) => MemberName(s.crates[i]) # WorkspaceRoot
  <2>. TAKE i \in DOMAIN s.crates
  <2>. HAVE IsMember(s.crates[i])
  <2>1. s.crates[i].dir \in ToSet(MemberDirs(s)) /\ CrateAt(s, s.crates[i].dir) = s.crates[i]
    BY <1>3, CrateOfDir DEF IsMember
  <2>. QED
    BY <1>3, <2>1 DEF IsProject, CargoAccepts
<1>10. /\ s.root.workspace \in WorkspaceType /\ s.root.workspace.dependencies \in DependenciesType
       /\ t.root.workspace # Null
  <2>1. s.root.workspace \in WorkspaceType /\ s.root.workspace.dependencies \in DependenciesType
    BY <1>3, <1>8, GraphHasWorkspace
  <2>. QED
    BY <1>2, <2>1, NothingIsNull DEF SameProject
<1>11. CASE pin.owner = WorkspaceRoot
  <2>. DEFINE deps == t.root.workspace.dependencies
              base == s.root.workspace.dependencies
              before == RootPins(RewrittenPins)
  <2>1. deps = After(base, before)
    BY <1>2, <1>8 DEF PinsSoFar
  <2>2. PinsMatch(deps, pin, From)
    <3>1. pin \notin before /\ \A p \in before : IsPin(p) /\ p.owner = pin.owner
      BY <1>6, <1>7, <1>11 DEF RootPins
    <3>2. Lockstep(WorkspacePinDeclarations(base), pin.dep, From)
      BY <1>6, <1>7, <1>11
    <3>. HIDE DEF before, base, deps
    <3>3. base \in DependenciesType
      BY <1>10 DEF base
    <3>4. PinsMatch(After(base, before), pin, From)
      BY <1>2, <1>4, <1>8, <1>11, <3>1, <3>2, <3>3, PinFound
    <3>. QED
      BY <2>1, <3>4
  <2>. DEFINE new == RewrittenDeps(deps, pin, From, To)
              tree1 == [t EXCEPT !.root.workspace.dependencies = new]
  <2>3. /\ checkout' = [checkout EXCEPT !.tree.root.workspace.dependencies = new]
        /\ todo' = todo \ {pin} /\ UNCHANGED <<sealed, step, attempts, bumped>>
    BY <1>5, <1>11, <2>2
  <2>4. checkout' = [checkout EXCEPT !.tree = tree1]
    BY <1>2, <2>3
  <2>5. new \in DependenciesType /\ new = After(base, before \cup {pin})
    <3>. HIDE DEF before, base, deps
    <3>3. base \in DependenciesType
      BY <1>10 DEF base
    <3>4. After(base, before) \in DependenciesType
          /\ RewrittenDeps(After(base, before), pin, From, To) = After(base, before \cup {pin})
          /\ After(base, before \cup {pin}) \in DependenciesType
      BY <1>2, <1>4, <3>3, OneMore
    <3>. QED
      BY <2>1, <3>4
  <2>6. RootPins(RewrittenPins \cup {pin}) = before \cup {pin}
    BY <1>11 DEF RootPins
  <2>. HIDE DEF new
  <2>7. /\ SameProject(tree1, s) /\ RootVersion(tree1) = RootVersion(t) /\ tree1.crates = t.crates
        /\ tree1.root.workspace.dependencies = new
    <3>. HIDE DEF before, base, deps
    <3>1. new \in DependenciesType
      BY <2>5
    <3>. HIDE DEF s
    <3>2. ProjectTypeOK(s) /\ SameProject(t, s) /\ t.root.workspace # Null
      BY <1>2, <1>3, <1>10 DEF s
    <3>. QED
      BY <3>1, <3>2, RootRewritten
  <2>. HIDE DEF tree1
  <2>8. \A i \in DOMAIN s.crates :
          OwnPins(s.crates[i], RewrittenPins \cup {pin}) = OwnPins(s.crates[i], RewrittenPins)
    BY <1>9, <1>11 DEF OwnPins
  <2>9. \A i \in DOMAIN s.crates :
          SameManifest(MemberName(s.crates[i])) =>
            tree1.crates[i].deps = After(s.crates[i].deps, OwnPins(s.crates[i], RewrittenPins \cup {pin}))
    BY <1>2, <2>7, <2>8 DEF PinsSoFar
  <2>10. tree1.root.workspace.dependencies
           = After(s.root.workspace.dependencies, RootPins(RewrittenPins \cup {pin}))
    BY <2>5, <2>6, <2>7
  <2>. QED
    BY <1>1, <2>3, <2>4, <2>7, <2>9, <2>10, PinRewritten
<1>12. CASE pin.owner # WorkspaceRoot
  <2>1. PICK m \in NamedMembers(s) :
          pin.owner = MemberName(m) /\ Lockstep(PinDeclarations(m.deps), pin.dep, From)
    BY <1>6, <1>7, <1>12
  <2>2. /\ m.dir \in ToSet(MemberDirs(s)) /\ CrateAt(s, m.dir) = m
        /\ \A dir \in ToSet(MemberDirs(s)) : MemberName(CrateAt(s, dir)) = MemberName(m) => dir = m.dir
    BY <1>3, NamesAreTheirOwn
  <2>3. /\ DOMAIN t.crates = DOMAIN s.crates
        /\ \A i, j \in DOMAIN t.crates : t.crates[i].dir = t.crates[j].dir => i = j
        /\ Manifests(t, pin.owner) = Manifests(s, pin.owner)
        /\ Dirs(t) = Dirs(s)
        /\ \A dir \in Dirs(s) : CrateAt(t, dir).package = CrateAt(s, dir).package
    BY <1>2, <1>3, SameMembers
  <2>4. SameManifest(pin.owner) => Manifests(t, pin.owner) = {m.dir}
    BY <1>12, <2>1, <2>2, <2>3 DEF SameManifest
  <2>5. CASE ~SameManifest(pin.owner) /\ \E reason \in Refusals : GiveUp(reason)
    BY <1>1, <1>7, <2>5, GiveUpKeeps
  <2>6. ASSUME NEW dir \in Manifests(t, pin.owner),
               LET at == CHOOSE i \in DOMAIN t.crates : t.crates[i].dir = dir
                   deps == t.crates[at].deps
               IN IF ~PinsMatch(deps, pin, From) THEN GiveUp("pin not found")
                  ELSE /\ checkout' = [checkout EXCEPT !.tree.crates[at].deps =
                                         RewrittenDeps(deps, pin, From, To)]
                       /\ todo' = todo \ {pin}
                       /\ UNCHANGED <<sealed, step, attempts, bumped>>
        PROVE  BumpInd'
    <3>. DEFINE at == CHOOSE i \in DOMAIN t.crates : t.crates[i].dir = dir
                deps == t.crates[at].deps
                base == s.crates[at].deps
                crate == s.crates[at]
                before == OwnPins(crate, RewrittenPins)
    <3>1. dir \in Dirs(s)
      <4>1. Dirs(t) = Dirs(s) /\ dir \in DirsOfTheExecutor(t)
        BY <2>3 DEF Manifests
      <4>2. DirsOfTheExecutor(t) \subseteq Dirs(t)
        BY <1>2, ExecutorsExist DEF SameProject
      <4>. QED
        BY <4>1, <4>2
    <3>2. PICK i \in DOMAIN t.crates : t.crates[i].dir = dir
      <4>1. dir \in Dirs(t)
        BY <2>3, <3>1
      <4>. HIDE DEF at, deps, base, crate, before
      <4>. QED
        BY <4>1 DEF Dirs
    <3>3. at = i
      BY <2>3, <3>2
    <3>4. at \in DOMAIN t.crates /\ t.crates[at].dir = dir /\ at \in DOMAIN s.crates /\ crate.dir = dir
      BY <1>2, <2>3, <3>2, <3>3 DEF SameProject
    <3>. HIDE DEF at
    <3>5. CrateAt(s, dir) = crate /\ MemberName(crate) = pin.owner
      <4>1. CrateAt(s, dir) = crate
        BY <1>3, <3>4, CrateOfDir
      <4>2. MemberName(CrateAt(s, dir)) = pin.owner
        BY <2>3 DEF Manifests
      <4>. QED
        BY <4>1, <4>2
    <3>6. t.crates[at] \in CrateType /\ crate \in CrateType
      BY <1>2, <1>3, <3>4 DEF SameProject
    <3>7. deps \in DependenciesType /\ base \in DependenciesType
      BY <3>6 DEF CrateType
    <3>8. SameManifest(pin.owner) => /\ deps = After(base, before) /\ IsMember(crate)
                                     /\ Lockstep(PinDeclarations(base), pin.dep, From)
      <4>. HAVE SameManifest(pin.owner)
      <4>1. dir = m.dir
        BY <2>4
      <4>2. crate = m
        BY <2>2, <3>5, <4>1
      <4>3. deps = After(base, before)
        BY <1>2, <3>4, <3>5 DEF PinsSoFar
      <4>4. IsMember(crate)
        BY <2>2, <4>2 DEF IsMember
      <4>. QED
        BY <2>1, <4>2, <4>3, <4>4
    <3>9. SameManifest(pin.owner) => PinsMatch(deps, pin, From)
      <4>. HAVE SameManifest(pin.owner)
      <4>1. before \subseteq RewrittenPins /\ \A p \in before : p.owner = pin.owner
        BY <3>5 DEF OwnPins
      <4>2. pin \notin before /\ \A p \in before : IsPin(p) /\ p.owner = pin.owner
        BY <1>6, <1>7, <4>1
      <4>. HIDE DEF before, base, deps
      <4>3. PinsMatch(After(base, before), pin, From)
        BY <1>2, <1>4, <1>8, <1>12, <3>7, <3>8, <4>2, PinFound
      <4>. QED
        BY <3>8, <4>3
    <3>10. CASE ~PinsMatch(deps, pin, From)
      <4>1. GiveUp("pin not found")
        BY <2>6, <3>10 DEF at
      <4>. QED
        BY <2>5, <3>9, <3>10, <4>1 DEF Refusals
    <3>11. CASE PinsMatch(deps, pin, From)
      <4>. DEFINE new == RewrittenDeps(deps, pin, From, To)
                  tree1 == [t EXCEPT !.crates[at].deps = new]
      <4>1. /\ checkout' = [checkout EXCEPT !.tree.crates[at].deps = new]
            /\ todo' = todo \ {pin} /\ UNCHANGED <<sealed, step, attempts, bumped>>
        BY <2>6, <3>11 DEF at
      <4>2. checkout' = [checkout EXCEPT !.tree = tree1]
        BY <1>2, <4>1
      <4>3. new \in DependenciesType
        BY <1>4, <3>7, Rewriting
      <4>4. SameManifest(pin.owner) => new = After(base, before \cup {pin})
        <5>. HAVE SameManifest(pin.owner)
        <5>. HIDE DEF before, base, deps
        <5>1. RewrittenDeps(After(base, before), pin, From, To) = After(base, before \cup {pin})
          BY <1>2, <1>4, <3>7, OneMore
        <5>. QED
          BY <3>8, <5>1
      <4>. HIDE DEF new
      <4>5. /\ SameProject(tree1, s) /\ RootVersion(tree1) = RootVersion(t) /\ tree1.root = t.root
            /\ tree1.crates[at].deps = new
            /\ \A j \in DOMAIN t.crates \ {at} : tree1.crates[j] = t.crates[j]
        BY <1>2, <1>3, <3>4, <4>3, CrateRewritten
      <4>. HIDE DEF tree1
      <4>6. ASSUME NEW j \in DOMAIN s.crates, SameManifest(MemberName(s.crates[j]))
            PROVE  tree1.crates[j].deps = After(s.crates[j].deps, OwnPins(s.crates[j], RewrittenPins \cup {pin}))
        <5>1. CASE j = at
          <6>1. SameManifest(pin.owner)
            BY <3>5, <4>6, <5>1
          <6>2. OwnPins(crate, RewrittenPins \cup {pin}) = before \cup {pin}
            BY <3>5, <3>8, <6>1 DEF OwnPins
          <6>. QED
            BY <4>4, <4>5, <5>1, <6>1, <6>2
        <5>2. CASE j # at
          <6>1. tree1.crates[j].deps = After(s.crates[j].deps, OwnPins(s.crates[j], RewrittenPins))
            BY <1>2, <2>3, <4>5, <4>6, <5>2 DEF PinsSoFar
          <6>2. OwnPins(s.crates[j], RewrittenPins \cup {pin}) = OwnPins(s.crates[j], RewrittenPins)
            <7>. SUFFICES ASSUME IsMember(s.crates[j]), MemberName(s.crates[j]) = pin.owner PROVE FALSE
              BY DEF OwnPins
            <7>1. SameManifest(pin.owner)
              BY <4>6
            <7>2. dir = m.dir
              BY <2>4, <7>1
            <7>3. CrateAt(s, s.crates[j].dir) = s.crates[j] /\ s.crates[j].dir \in ToSet(MemberDirs(s))
              BY <1>3, CrateOfDir DEF IsMember
            <7>4. s.crates[j].dir = m.dir
              BY <2>1, <2>2, <7>3
            <7>. QED
              BY <1>3, <3>4, <5>2, <7>2, <7>4
          <6>. QED
            BY <6>1, <6>2
        <5>. QED
          BY <5>1, <5>2
      <4>7. tree1.root.workspace.dependencies
              = After(s.root.workspace.dependencies, RootPins(RewrittenPins \cup {pin}))
        <5>1. RootPins(RewrittenPins \cup {pin}) = RootPins(RewrittenPins)
          BY <1>12 DEF RootPins
        <5>. QED
          BY <1>2, <1>8, <4>5, <5>1 DEF PinsSoFar
      <4>. QED
        BY <1>1, <4>1, <4>2, <4>5, <4>6, <4>7, PinRewritten
    <3>. QED
      BY <3>10, <3>11
  <2>7. CASE Manifests(t, pin.owner) = {} /\ GiveUp("manifest not found")
    BY <2>4, <2>5, <2>7 DEF Refusals
  <2>8. \/ Manifests(t, pin.owner) = {} /\ GiveUp("manifest not found")
        \/ \E dir \in Manifests(t, pin.owner) :
             LET at == CHOOSE i \in DOMAIN t.crates : t.crates[i].dir = dir
                 deps == t.crates[at].deps
             IN IF ~PinsMatch(deps, pin, From) THEN GiveUp("pin not found")
                ELSE /\ checkout' = [checkout EXCEPT !.tree.crates[at].deps =
                                       RewrittenDeps(deps, pin, From, To)]
                     /\ todo' = todo \ {pin}
                     /\ UNCHANGED <<sealed, step, attempts, bumped>>
    BY <1>5, <1>12
  <2>. QED
    BY <2>6, <2>7, <2>8
<1>. QED
  BY <1>11, <1>12

-----------------------------------------------------------------------------
(* The bump commit.                                                         *)

\* Every pin, and nothing else, has moved when the bump is committed.
LEMMA PinsMoved == BumpInd => PinsMoveExactly
<1>. SUFFICES ASSUME BumpInd, bumped # Null, WorkspaceIn(sealed.tree) # Null
              PROVE  PinsMoveExactly
  BY DEF PinsMoveExactly
<1>. DEFINE s == sealed.tree
            names == PublishableNames(s)
            facts == FactsForPlan(s)
            pins == sealed.bump.pins
<1>1. step = "done" /\ bumped = [tree |-> checkout.tree, notebook |-> checkout.notebook] /\ AtWork
  BY DEF BumpInd, BumpTypeOK, AtWork
<1>2. IsSealed /\ PinsSoFar /\ bumped.tree = checkout.tree /\ RewrittenPins = pins
  BY <1>1 DEF BumpInd, AtWork, RewrittenPins
<1>3. /\ IsProject(s) /\ ProjectTypeOK(s) /\ s.crates \in Seq(CrateType) /\ facts.workspace = WorkspaceIn(s)
      /\ \A i, j \in DOMAIN s.crates : s.crates[i].dir = s.crates[j].dir => i = j
  BY <1>2, SealedProject
<1>4. PinsAreSealable(facts, From) /\ pins = PinRewrites(facts, From)
  BY <1>2 DEF IsSealed
<1>. HIDE DEF facts, pins
<1>5. SealedCrates = names
  <2>1. SealedCrates = PackageNames(WorkspaceIn(s).members)
    BY DEF SealedCrates, PackageNames
  <2>. QED
    BY <1>3, <2>1, GraphOf
<1>6. \A pin \in pins :
        /\ pin.dep \in names \ {pin.owner} /\ Exact(From) # Null
        /\ pin.owner # WorkspaceRoot => \E m \in NamedMembers(s) : pin.owner = MemberName(m)
  BY <1>3, <1>4, SealedIsExact
<1>7. ASSUME NEW g \in PinsIn(s), g.dep \in names, NEW r \in g.reqs, IsExact(r)
      PROVE  r = Exact(From) /\ [owner |-> g.owner, dep |-> g.dep] \in pins
  BY <1>3, <1>4, <1>7, ExactIsSealed
<1>8. Exact(From) # Null => IsExact(Exact(From))
  BY DEF IsExact, Exact
<1>9. ASSUME NEW i \in DOMAIN s.crates, SameManifest(MemberName(s.crates[i]))
      PROVE  LET crate == s.crates[i]
                 owner == MemberName(crate)
                 member == owner # Null /\ crate.dir \in ToSet(MemberDirs(s))
             IN bumped.tree.crates[i].deps =
                  [j \in DOMAIN crate.deps |-> Moved(crate.deps[j], owner, member /\ Local(crate.deps[j]))]
  <2>. DEFINE crate == s.crates[i]
              owner == MemberName(crate)
              member == owner # Null /\ crate.dir \in ToSet(MemberDirs(s))
              deps == crate.deps
              own == OwnPins(crate, pins)
              counts == [j \in DOMAIN deps |-> member /\ Local(deps[j])]
  <2>1. deps \in DependenciesType
    <3>1. crate \in CrateType
      BY <1>3
    <3>. QED
      BY <3>1 DEF CrateType
  <2>2. bumped.tree.crates[i].deps = After(deps, own)
    BY <1>2, <1>9 DEF PinsSoFar
  <2>3. member => crate \in NamedMembers(s) /\ owner # WorkspaceRoot
    <3>. HAVE member
    <3>1. CrateAt(s, crate.dir) = crate
      BY <1>3, CrateOfDir
    <3>2. crate \in ToSet(MemberManifests(s))
      BY <1>3, <3>1, MembersExist
    <3>. QED
      BY <1>3, <3>1, <3>2 DEF NamedMembers, IsProject, CargoAccepts
  <2>4. ASSUME NEW j \in DOMAIN deps, Follows(deps, j, own)
        PROVE  counts[j] /\ IsExact(deps[j].req) /\ CrateOf(deps[j]) \in SealedCrates \ {owner}
    <3>1. deps[j].req = Exact(From)
      BY <2>4 DEF Follows
    <3>2. PICK pin \in own : j \in Declarations(deps, pin)
      BY <2>4 DEF Follows
    <3>3. IsMember(crate) /\ pin \in pins /\ pin.owner = owner
      BY <3>2 DEF OwnPins
    <3>4. owner # WorkspaceRoot
      <4>1. CrateAt(s, crate.dir) = crate /\ crate.dir \in ToSet(MemberDirs(s))
        BY <1>3, <3>3, CrateOfDir DEF IsMember
      <4>. QED
        BY <1>3, <4>1 DEF IsProject, CargoAccepts
    <3>5. owner # Null
      BY <1>6, <3>3, <3>4 DEF NamedMembers
    <3>6. CrateOf(deps[j]) = pin.dep /\ Local(deps[j])
      BY <3>2, <3>3, <3>4 DEF Declarations
    <3>7. counts[j]
      BY <3>3, <3>5, <3>6 DEF IsMember
    <3>. HIDE DEF counts
    <3>. QED
      BY <1>5, <1>6, <1>8, <3>1, <3>3, <3>6, <3>7
  <2>5. ASSUME NEW j \in DOMAIN deps, counts[j], IsExact(deps[j].req),
               CrateOf(deps[j]) \in SealedCrates \ {owner}
        PROVE  Follows(deps, j, own)
    <3>1. member /\ Local(deps[j])
      BY <2>5
    <3>. DEFINE p == [package |-> CrateOf(deps[j]), req |-> deps[j].req]
    <3>2. p \in PinDeclarations(deps) /\ p.package = CrateOf(deps[j]) /\ p.req = deps[j].req
      BY <3>1 DEF PinDeclarations, ToSet
    <3>. HIDE DEF p
    <3>3. PICK g \in PinGroups(owner, PinDeclarations(deps), names) :
            g.owner = owner /\ g.dep = p.package /\ p.req \in g.reqs
      BY <1>5, <2>5, <3>2, HasGroup
    <3>4. g \in PinsIn(s)
      BY <2>3, <3>1, <3>3 DEF PinsIn
    <3>5. deps[j].req = Exact(From) /\ [owner |-> owner, dep |-> p.package] \in pins
      BY <1>5, <1>7, <2>5, <3>2, <3>3, <3>4
    <3>. DEFINE pin == [owner |-> owner, dep |-> p.package]
    <3>6. pin.owner = owner /\ pin.dep = CrateOf(deps[j]) /\ pin \in pins
      BY <3>2, <3>5
    <3>. HIDE DEF pin
    <3>7. pin \in own
      BY <3>1, <3>6 DEF OwnPins, IsMember
    <3>8. j \in Declarations(deps, pin)
      BY <2>3, <3>1, <3>6 DEF Declarations
    <3>. QED
      BY <3>5, <3>7, <3>8 DEF Follows
  <2>6. DOMAIN counts = DOMAIN deps /\ \A j \in DOMAIN deps : counts[j] = (member /\ Local(deps[j]))
    OBVIOUS
  <2>. HIDE DEF counts, own, deps, member, owner
  <2>7. After(deps, own) = [j \in DOMAIN deps |-> Moved(deps[j], owner, counts[j])]
    <3>1. \A j \in DOMAIN deps :
            Follows(deps, j, own) <=>
              (counts[j] /\ IsExact(deps[j].req) /\ CrateOf(deps[j]) \in SealedCrates \ {owner})
      BY <2>4, <2>5, Zenon
    <3>2. \A j \in DOMAIN deps :
            (IF Follows(deps, j, own) THEN [deps[j] EXCEPT !.req = Exact(To)] ELSE deps[j])
              = Moved(deps[j], owner, counts[j])
      BY <3>1 DEF Moved
    <3>. QED
      BY <3>2 DEF After
  <2>8. [j \in DOMAIN deps |-> Moved(deps[j], owner, counts[j])]
          = [j \in DOMAIN deps |-> Moved(deps[j], owner, member /\ Local(deps[j]))]
    BY <2>6, Zenon
  <2>9. bumped.tree.crates[i].deps = [j \in DOMAIN deps |-> Moved(deps[j], owner, member /\ Local(deps[j]))]
    BY <2>2, <2>7, <2>8
  <2>. QED
    BY <2>9 DEF deps, owner, member
<1>10. LET deps == s.root.workspace.dependencies
       IN bumped.tree.root.workspace.dependencies =
            [j \in DOMAIN deps |-> Moved(deps[j], WorkspaceRoot, deps[j].form # "plain")]
  <2>. DEFINE deps == s.root.workspace.dependencies
              own == RootPins(pins)
              counts == [j \in DOMAIN deps |-> deps[j].form # "plain"]
  <2>1. deps \in DependenciesType
    BY <1>3, GraphHasWorkspace
  <2>2. bumped.tree.root.workspace.dependencies = After(deps, own)
    BY <1>2 DEF PinsSoFar
  <2>4. ASSUME NEW j \in DOMAIN deps, Follows(deps, j, own)
        PROVE  counts[j] /\ IsExact(deps[j].req) /\ CrateOf(deps[j]) \in SealedCrates \ {WorkspaceRoot}
    <3>1. deps[j].req = Exact(From)
      BY <2>4 DEF Follows
    <3>2. PICK pin \in own : j \in Declarations(deps, pin)
      BY <2>4 DEF Follows
    <3>3. pin \in pins /\ pin.owner = WorkspaceRoot
      BY <3>2 DEF RootPins
    <3>4. CrateOf(deps[j]) = pin.dep /\ counts[j]
      BY <3>2, <3>3 DEF Declarations
    <3>. HIDE DEF counts
    <3>. QED
      BY <1>5, <1>6, <1>8, <3>1, <3>3, <3>4
  <2>5. ASSUME NEW j \in DOMAIN deps, counts[j], IsExact(deps[j].req),
               CrateOf(deps[j]) \in SealedCrates \ {WorkspaceRoot}
        PROVE  Follows(deps, j, own)
    <3>1. deps[j].form # "plain"
      BY <2>5
    <3>. DEFINE p == [package |-> CrateOf(deps[j]), req |-> deps[j].req]
    <3>2. p \in WorkspacePinDeclarations(deps) /\ p.package = CrateOf(deps[j]) /\ p.req = deps[j].req
      BY <3>1 DEF WorkspacePinDeclarations, ToSet
    <3>. HIDE DEF p
    <3>3. PICK g \in PinGroups(WorkspaceRoot, WorkspacePinDeclarations(deps), names) :
            g.owner = WorkspaceRoot /\ g.dep = p.package /\ p.req \in g.reqs
      BY <1>5, <2>5, <3>2, HasGroup
    <3>4. g \in PinsIn(s)
      BY <3>3 DEF PinsIn
    <3>5. deps[j].req = Exact(From) /\ [owner |-> WorkspaceRoot, dep |-> p.package] \in pins
      BY <1>5, <1>7, <2>5, <3>2, <3>3, <3>4
    <3>. DEFINE pin == [owner |-> WorkspaceRoot, dep |-> p.package]
    <3>6. pin.owner = WorkspaceRoot /\ pin.dep = CrateOf(deps[j]) /\ pin \in pins
      BY <3>2, <3>5
    <3>. HIDE DEF pin
    <3>7. pin \in own /\ j \in Declarations(deps, pin)
      BY <3>1, <3>6 DEF RootPins, Declarations
    <3>. QED
      BY <3>5, <3>7 DEF Follows
  <2>6. DOMAIN counts = DOMAIN deps /\ \A j \in DOMAIN deps : counts[j] = (deps[j].form # "plain")
    OBVIOUS
  <2>. HIDE DEF counts, own, deps
  <2>7. After(deps, own) = [j \in DOMAIN deps |-> Moved(deps[j], WorkspaceRoot, counts[j])]
    <3>1. \A j \in DOMAIN deps :
            Follows(deps, j, own) <=>
              (counts[j] /\ IsExact(deps[j].req) /\ CrateOf(deps[j]) \in SealedCrates \ {WorkspaceRoot})
      BY <2>4, <2>5, Zenon
    <3>2. \A j \in DOMAIN deps :
            (IF Follows(deps, j, own) THEN [deps[j] EXCEPT !.req = Exact(To)] ELSE deps[j])
              = Moved(deps[j], WorkspaceRoot, counts[j])
      BY <3>1 DEF Moved
    <3>. QED
      BY <3>2 DEF After
  <2>8. [j \in DOMAIN deps |-> Moved(deps[j], WorkspaceRoot, counts[j])]
          = [j \in DOMAIN deps |-> Moved(deps[j], WorkspaceRoot, deps[j].form # "plain")]
    BY <2>6, Zenon
  <2>9. bumped.tree.root.workspace.dependencies
          = [j \in DOMAIN deps |-> Moved(deps[j], WorkspaceRoot, deps[j].form # "plain")]
    BY <2>2, <2>7, <2>8
  <2>. QED
    BY <2>9 DEF deps
<1>. QED
  BY <1>9, <1>10 DEF PinsMoveExactly

\* Whoever inherits the version has the released one.
LEMMA InheritorsMoved == BumpInd => InheritorsAreBumped
<1>. SUFFICES ASSUME BumpInd, bumped # Null PROVE InheritorsAreBumped
  BY DEF InheritorsAreBumped
<1>. DEFINE s == sealed.tree
            t == bumped.tree
<1>1. step = "done" /\ bumped = [tree |-> checkout.tree, notebook |-> checkout.notebook] /\ AtWork
  BY DEF BumpInd, BumpTypeOK, AtWork
<1>2. IsSealed /\ SameProject(t, s) /\ RootVersion(t) = To
  BY <1>1 DEF BumpInd, AtWork
<1>3. /\ ProjectTypeOK(s) /\ s.root # Null
      /\ \A i, j \in DOMAIN s.crates : s.crates[i].dir = s.crates[j].dir => i = j
  BY <1>2, SealedProject
<1>. HIDE DEF t
<1>4. MemberDirs(t) = MemberDirs(s)
  BY <1>2, <1>3, SameMembers
<1>5. ASSUME NEW dir \in ToSet(MemberDirs(t)),
             LET crate == CrateAt(t, dir)
             IN /\ crate.package # Null /\ crate.package.version = Inherited
                /\ MemberVersion(s, crate) # Null
      PROVE  MemberVersion(t, CrateAt(t, dir)) = To
  <2>. DEFINE crate == CrateAt(t, dir)
  <2>. HIDE DEF crate
  <2>1. crate.package # Null /\ crate.package.version = Inherited /\ MemberVersion(s, crate) # Null
    BY <1>5 DEF crate
  <2>2. WorkspacePackage(s) # Null /\ WorkspacePackage(s).version # Null
    BY <2>1 DEF MemberVersion
  <2>3. VersionSource(t) = "workspace"
    BY <1>2, <2>2 DEF VersionSource, SameProject
  <2>4. WorkspacePackage(t) # Null /\ WorkspacePackage(t).version = To
    BY <1>2, <2>3 DEF VersionSource, RootVersion
  <2>. QED
    BY <2>1, <2>4 DEF MemberVersion, crate
<1>6. /\ RootVersion(t) = To
      /\ \A dir \in ToSet(MemberDirs(t)) :
           LET crate == CrateAt(t, dir)
           IN (/\ crate.package # Null /\ crate.package.version = Inherited
               /\ MemberVersion(s, crate) # Null)
                => MemberVersion(t, crate) = To
  BY <1>2, <1>5
<1>. QED
  BY <1>6 DEF InheritorsAreBumped, t

\* The notes committed are the sealed ones, released once.
LEMMA NotesReleased == BumpInd => NotesAreReleased
<1>. SUFFICES ASSUME BumpInd, bumped # Null, sealed.bump.finalizes PROVE NotesAreReleased
  BY DEF NotesAreReleased
<1>. DEFINE before == sealed.notebook
            after == bumped.notebook
            fragments == CompiledFragments(sealed.changelog.mode, before)
            said == IF sealed.changelog.mode = "fragment" /\ before.directory # "absent"
                    THEN {f \in before.fragments : f.kind = "note"} ELSE {}
<1>1. step = "done" /\ bumped = [tree |-> checkout.tree, notebook |-> checkout.notebook] /\ AtWork /\ todo = {}
  BY DEF BumpInd, BumpTypeOK, AtWork
<1>2. after = checkout.notebook /\ NotesWritten
  BY <1>1 DEF BumpInd, AtWork, NotesSoFar
<1>. HIDE DEF after
<1>3. fragments = said
  BY <1>2 DEF NotesWritten, CompiledFragments, FragmentsReadable, Consumed, FragmentCounts
<1>. HIDE DEF fragments, said
<1>4. /\ before.changelog # Null /\ after.fragments = before.fragments \ fragments
      /\ \E issues \in {{}, {"issue"}} :
           /\ ~FinalizeFails(before.changelog, To, NotesOf(fragments) \cup issues)
           /\ after.changelog = Finalized(before.changelog, To, NotesOf(fragments) \cup issues)
  BY <1>1, <1>2 DEF NotesWritten, fragments
<1>5. PICK issues \in {{}, {"issue"}} :
        /\ ~FinalizeFails(before.changelog, To, NotesOf(fragments) \cup issues)
        /\ after.changelog = Finalized(before.changelog, To, NotesOf(fragments) \cup issues)
  BY <1>4
<1>6. before \in Notebooks /\ DOMAIN before.changelog = {"markers", "header", "nested", "pending", "released"}
  <2>1. before \in Notebooks
    BY <1>1 DEF BumpInd, AtWork, IsSealed
  <2>. QED
    BY <1>4, <2>1, NotebooksAssumption
<1>. DEFINE old == before.changelog
            compiled == NotesOf(fragments) \cup issues
<1>. HIDE DEF before, old, compiled
<1>7. DOMAIN old = {"markers", "header", "nested", "pending", "released"} /\ ~FinalizeFails(old, To, compiled)
      /\ after.changelog = Finalized(old, To, compiled)
  BY <1>5, <1>6 DEF old, compiled
<1>. DEFINE pending == old.pending \cup {f.name : f \in said}
<1>8. pending \subseteq old.pending \cup compiled
  BY <1>3 DEF compiled, NotesOf
<1>. HIDE DEF pending
<1>9. /\ pending # {} => pending \subseteq after.changelog.released[To]
      /\ \A v \in DOMAIN old.released : after.changelog.released[v] = old.released[v]
      /\ after.changelog.pending = {}
  <2>1. CASE To \in DOMAIN old.released
    <3>1. old.pending \cup compiled = {} /\ after.changelog = old
      BY <1>7, <2>1 DEF FinalizeFails, Finalized
    <3>. QED
      BY <1>8, <3>1
  <2>2. CASE To \notin DOMAIN old.released
    <3>. DEFINE notes == old.pending \cup compiled
                released == WithRelease(old.released, To, notes)
    <3>. HIDE DEF notes, released
    <3>1. after.changelog = [old EXCEPT !.markers = "one", !.nested = FALSE, !.pending = {}, !.released = released]
      BY <1>7, <2>2 DEF Finalized, notes, released
    <3>2. after.changelog.pending = {} /\ after.changelog.released = released
      BY <1>7, <3>1
    <3>3. released[To] = notes /\ \A v \in DOMAIN old.released : released[v] = old.released[v]
      BY <2>2 DEF released, WithRelease
    <3>. QED
      BY <1>8, <3>2, <3>3 DEF notes
  <2>. QED
    BY <2>1, <2>2
<1>10. after.fragments = before.fragments \ said
  BY <1>3, <1>4
<1>. QED
  BY <1>9, <1>10 DEF NotesAreReleased, pending, old, before, after, said

-----------------------------------------------------------------------------
(* The bump's theorems.                                                     *)

\* However often the barrier is entered, whatever step fails and wherever the
\* process dies, what the worktree holds is the sealed commit with just what
\* this attempt has done.
THEOREM BumpInvariance == BumpSpec => []BumpInd
<1>1. BumpInit => BumpInd
  BY BumpBegins
<1>2. BumpInd /\ [BumpNext /\ UNCHANGED <<contractVars, planVars, factsVars>>]_<<contractVars, planVars, factsVars, bumpVars>>
        => BumpInd'
  <2>. SUFFICES ASSUME BumpInd,
                       [BumpNext /\ UNCHANGED <<contractVars, planVars, factsVars>>]_<<contractVars, planVars, factsVars, bumpVars>>
                PROVE  BumpInd'
    OBVIOUS
  <2>1. CASE SealTheBump
    BY <2>1, SealKeeps
  <2>2. CASE EnterBarrier
    BY <2>2, EnterKeeps
  <2>3. CASE Interrupted
    BY <2>3, InterruptedKeeps
  <2>4. CASE SetVersion
    BY <2>4, SetVersionKeeps
  <2>5. CASE RewritePin
    BY <2>5, RewriteKeeps
  <2>6. CASE RefreshLockfile
    BY <2>6, RefreshKeeps
  <2>7. CASE FinalizeChangelog
    BY <2>7, FinalizeKeeps
  <2>8. CASE RemoveFragment
    BY <2>8, RemoveKeeps
  <2>9. CASE FragmentsRemoved
    BY <2>9, RemovedKeeps
  <2>10. CASE RunHook
    BY <2>10, HookKeeps
  <2>11. CASE CommitBump
    BY <2>11, CommitKeeps
  <2>12. CASE UNCHANGED bumpVars
    BY <2>12, IdleKeeps
  <2>. QED
    BY <2>1, <2>2, <2>3, <2>4, <2>5, <2>6, <2>7, <2>8, <2>9, <2>10, <2>11, <2>12 DEF BumpNext
<1>. QED
  BY <1>1, <1>2, PTL DEF BumpSpec

\* In the bump commit every pending note stands under the new version and
\* nowhere else, and older releases read as they did.
THEOREM NotesAreReleasedHolds == BumpSpec => []NotesAreReleased
BY BumpInvariance, NotesReleased, PTL

\* The sealed bump is the bump that is made: the executor finds what was
\* sealed, every exact pin on a released crate moves to the new version and no
\* other requirement does, and whoever inherits the root's version is at it.
THEOREM BumpInvHolds == BumpSpec => []BumpInv
<1>1. BumpInd => BumpInv
  BY PinsMoved, InheritorsMoved DEF BumpInd, BumpInv
<1>. QED
  BY <1>1, BumpInvariance, PTL

-----------------------------------------------------------------------------
(* The facts.                                                               *)

\* S is closed under what publishes, away from avoided: whoever publishes is in
\* it, and whoever calls one that is.
ClosedBut(ws, avoided, S) ==
  \A n \in DOMAIN ws \ avoided : RunsCargoPublish(ws[n]) \/ Calls(ws, n) \cap S # {} => n \in S

\* Whom every such set has.
Callers(ws, avoided) ==
  {n \in DOMAIN ws : \A S \in SUBSET DOMAIN ws : ClosedBut(ws, avoided, S) => n \in S}

\* r is what ReachesCargoPublish goes through.
Reaching(r, ws) ==
  r = [visiting \in SUBSET DOMAIN ws |->
         {n \in DOMAIN ws \ visiting :
            RunsCargoPublish(ws[n]) \/ Calls(ws, n) \cap r[visiting \cup {n}] # {}}]

\* The callers are closed themselves.
LEMMA CallersAreClosed ==
  ASSUME NEW ws, NEW avoided
  PROVE  ClosedBut(ws, avoided, Callers(ws, avoided)) /\ Callers(ws, avoided) \cap avoided = {}
<1>. DEFINE L == Callers(ws, avoided)
<1>1. ClosedBut(ws, avoided, L)
  <2>. SUFFICES ASSUME NEW n \in DOMAIN ws \ avoided, RunsCargoPublish(ws[n]) \/ Calls(ws, n) \cap L # {}
                PROVE  n \in L
    BY DEF ClosedBut
  <2>1. ASSUME NEW S \in SUBSET DOMAIN ws, ClosedBut(ws, avoided, S) PROVE n \in S
    <3>1. L \subseteq S
      BY <2>1 DEF Callers
    <3>. QED
      BY <2>1, <3>1 DEF ClosedBut
  <2>. QED
    BY <2>1 DEF Callers
<1>2. L \cap avoided = {}
  <2>. SUFFICES ASSUME NEW n \in L, n \in avoided PROVE FALSE
    OBVIOUS
  <2>. DEFINE S == L \ avoided
  <2>1. S \in SUBSET DOMAIN ws
    BY DEF Callers
  <2>2. ClosedBut(ws, avoided, S)
    BY <1>1 DEF ClosedBut
  <2>. QED
    BY <2>1, <2>2 DEF Callers
<1>. QED
  BY <1>1, <1>2

\* Depth first finds the callers: it need not come back to where it is.
LEMMA CallersStepByStep ==
  ASSUME NEW ws, NEW n \in DOMAIN ws, NEW visiting \in SUBSET DOMAIN ws
  PROVE  n \in Callers(ws, visiting) <=>
           /\ n \notin visiting
           /\ RunsCargoPublish(ws[n]) \/ Calls(ws, n) \cap Callers(ws, visiting \cup {n}) # {}
<1>. DEFINE L == Callers(ws, visiting)
            M == Callers(ws, visiting \cup {n})
<1>1. ClosedBut(ws, visiting, L) /\ L \cap visiting = {}
  BY CallersAreClosed
<1>2. ClosedBut(ws, visiting \cup {n}, M) /\ M \cap (visiting \cup {n}) = {}
  BY CallersAreClosed
<1>3. L \in SUBSET DOMAIN ws /\ M \in SUBSET DOMAIN ws
  BY DEF Callers
<1>4. M \subseteq L
  <2>1. ClosedBut(ws, visiting \cup {n}, L)
    BY <1>1 DEF ClosedBut
  <2>. QED
    BY <1>3, <2>1 DEF Callers
<1>5. ASSUME n \notin visiting, RunsCargoPublish(ws[n]) \/ Calls(ws, n) \cap M # {}
      PROVE  n \in L
  BY <1>1, <1>4, <1>5 DEF ClosedBut
<1>6. ASSUME n \in L, ~RunsCargoPublish(ws[n]), Calls(ws, n) \cap M = {}
      PROVE  FALSE
  <2>1. ClosedBut(ws, visiting, M)
    BY <1>2, <1>6 DEF ClosedBut
  <2>2. n \in M
    BY <1>3, <1>6, <2>1 DEF Callers
  <2>. QED
    BY <1>2, <2>2
<1>. QED
  BY <1>1, <1>5, <1>6

\* Any way to search depth first finds them, circles or not.
LEMMA SearchFindsCallers ==
  ASSUME NEW ws, IsFiniteSet(DOMAIN ws), NEW r, Reaching(r, ws), NEW visiting \in SUBSET DOMAIN ws
  PROVE  r[visiting] = Callers(ws, visiting)
<1>. DEFINE D == DOMAIN ws
            Off(v) == r[v] # Callers(ws, v)
            Sizes == {k \in Nat : \E v \in SUBSET D : Off(v) /\ k = Cardinality(D \ v)}
<1>1. SUFFICES ASSUME Sizes # {} PROVE FALSE
  <2>1. Off(visiting) => Cardinality(D \ visiting) \in Sizes
    <3>1. Cardinality(D \ visiting) \in Nat
      BY FS_Difference, FS_CardinalityType
    <3>. QED
      BY <3>1
  <2>. QED
    BY <2>1
<1>2. PICK k \in Sizes : \A j \in Sizes : k <= j
  <2>1. Sizes \in SUBSET Nat
    OBVIOUS
  <2>. HIDE DEF Sizes
  <2>. QED
    BY <1>1, <2>1, LeastMember
<1>3. PICK v \in SUBSET D : Off(v) /\ k = Cardinality(D \ v)
  BY <1>2
<1>4. r[v] = {n \in D \ v : RunsCargoPublish(ws[n]) \/ Calls(ws, n) \cap r[v \cup {n}] # {}}
  BY DEF Reaching
<1>5. ASSUME NEW n \in D \ v
      PROVE  r[v \cup {n}] = Callers(ws, v \cup {n})
  <2>1. D \ (v \cup {n}) = (D \ v) \ {n} /\ n \in D \ v /\ IsFiniteSet(D \ v)
    BY FS_Difference
  <2>. DEFINE R == D \ v
              Q == D \ (v \cup {n})
  <2>. HIDE DEF R, Q
  <2>2. Q = R \ {n} /\ n \in R /\ IsFiniteSet(R) /\ k = Cardinality(R)
    BY <1>3, <2>1 DEF R, Q
  <2>3. IsFiniteSet(Q) /\ Cardinality(Q) = Cardinality(R) - 1
    BY <2>2, FS_RemoveElement
  <2>4. Cardinality(Q) \in Nat /\ Cardinality(R) \in Nat
    BY <2>2, <2>3, FS_CardinalityType
  <2>5. Cardinality(Q) \notin Sizes
    <3>. HIDE DEF Sizes
    <3>. QED
      BY <1>2, <2>2, <2>3, <2>4
  <2>6. v \cup {n} \in SUBSET D
    OBVIOUS
  <2>. QED
    BY <2>4, <2>5, <2>6 DEF Q
<1>6. \A n \in D : n \in r[v] <=> n \in Callers(ws, v)
  <2>. TAKE n \in D
  <2>1. n \in Callers(ws, v) <=>
          /\ n \notin v
          /\ RunsCargoPublish(ws[n]) \/ Calls(ws, n) \cap Callers(ws, v \cup {n}) # {}
    BY CallersStepByStep
  <2>2. CASE n \in v
    BY <1>4, <2>1, <2>2
  <2>3. CASE n \notin v
    <3>1. r[v \cup {n}] = Callers(ws, v \cup {n})
      BY <1>5, <2>3
    <3>. QED
      BY <1>4, <2>1, <2>3, <3>1
  <2>. QED
    BY <2>2, <2>3
<1>7. r[v] \subseteq D /\ Callers(ws, v) \subseteq D
  BY <1>4 DEF Callers
<1>. QED
  BY <1>3, <1>6, <1>7

\* A workflow reaches a publication when it is a caller.
LEMMA ReachesIsCaller ==
  ASSUME NEW ws, IsFiniteSet(DOMAIN ws), NEW n \in DOMAIN ws
  PROVE  ReachesCargoPublish(ws, n) <=> n \in Callers(ws, {})
<1>. DEFINE known == [visiting \in SUBSET DOMAIN ws |-> Callers(ws, visiting)]
            found(visiting) == {m \in DOMAIN ws \ visiting :
                                  RunsCargoPublish(ws[m]) \/ Calls(ws, m) \cap known[visiting \cup {m}] # {}}
<1>1. Reaching(known, ws)
  <2>1. \A visiting \in SUBSET DOMAIN ws : known[visiting] = found(visiting)
    <3>. TAKE visiting \in SUBSET DOMAIN ws
    <3>1. \A m \in DOMAIN ws : m \in known[visiting] <=> m \in found(visiting)
      BY CallersStepByStep
    <3>2. known[visiting] \subseteq DOMAIN ws
      BY DEF Callers
    <3>. QED
      BY <3>1, <3>2
  <2>2. known = [visiting \in SUBSET DOMAIN ws |-> known[visiting]]
    OBVIOUS
  <2>. HIDE DEF known
  <2>3. known = [visiting \in SUBSET DOMAIN ws |-> found(visiting)]
    <3>. HIDE DEF found
    <3>. QED
      BY <2>1, <2>2
  <2>. QED
    BY <2>3 DEF Reaching
<1>. DEFINE r == CHOOSE r : Reaching(r, ws)
<1>2. Reaching(r, ws)
  BY <1>1, Zenon
<1>3. ReachesCargoPublish(ws, n) <=> n \in r[{}]
  BY DEF ReachesCargoPublish, Reaching
<1>. HIDE DEF r
<1>. QED
  BY <1>2, <1>3, SearchFindsCallers

\* What is told apart by the manifests and workflows of a tree.
SameFiles(t, s) ==
  /\ t.root = s.root /\ t.crates = s.crates /\ t.others = s.others
  /\ t.workflows = s.workflows /\ t.dist = s.dist

\* Facts about files are the files'.
LEMMA SameFacts ==
  ASSUME NEW t, NEW s, SameFiles(t, s)
  PROVE  /\ Dirs(t) = Dirs(s) /\ MemberDirs(t) = MemberDirs(s)
         /\ \A dir : CrateAt(t, dir) = CrateAt(s, dir)
         /\ EcosystemsIn(t) = EcosystemsIn(s) /\ PackagesIn(t) = PackagesIn(s)
         /\ PublishEvidence(t) = PublishEvidence(s)
         /\ WorkspaceIn(t) = WorkspaceIn(s) /\ SurfaceOf(t) = SurfaceOf(s)
<1>1. Dirs(t) = Dirs(s) /\ (\A dir : CrateAt(t, dir) = CrateAt(s, dir)) /\ WorkspacePackage(t) = WorkspacePackage(s)
  BY DEF SameFiles, Dirs, CrateAt, WorkspacePackage
<1>2. \A prefix : Below(t, prefix) = Below(s, prefix)
  BY <1>1 DEF SameFiles, Below
<1>3. \A entry : Named(t, entry) = Named(s, entry)
  BY <1>2 DEF Named
<1>4. MemberDirs(t) = MemberDirs(s)
  BY <1>1, <1>3 DEF SameFiles, MemberDirs
<1>5. MemberManifests(t) = MemberManifests(s)
  BY <1>1, <1>4 DEF MemberManifests
<1>6. \A m : MemberVersion(t, m) = MemberVersion(s, m)
  BY <1>1 DEF MemberVersion
<1>7. MemberRows(t) = MemberRows(s)
  BY <1>5, <1>6 DEF MemberRows
<1>8. PackagesIn(t) = PackagesIn(s) /\ EcosystemsIn(t) = EcosystemsIn(s)
  BY <1>4, <1>7 DEF SameFiles, PackagesIn, RustRows, OtherRows, EcosystemsIn
<1>9. PublishEvidence(t) = PublishEvidence(s)
  <2>1. HandedDown(t) = HandedDown(s)
    BY <1>1 DEF HandedDown
  <2>. QED
    BY <1>5, <2>1 DEF SameFiles, PublishEvidence
<1>10. WorkspaceIn(t) = WorkspaceIn(s)
  <2>1. NamedMembers(t) = NamedMembers(s) /\ PublishableNames(t) = PublishableNames(s)
    BY <1>5 DEF NamedMembers, PublishableNames
  <2>2. (\A m : GraphMember(t, m) = GraphMember(s, m)) /\ PinsIn(t) = PinsIn(s)
    BY <1>6, <2>1 DEF SameFiles, GraphMember, PinsIn
  <2>. QED
    BY <1>5, <2>1, <2>2 DEF WorkspaceIn
<1>11. SurfaceOf(t) = SurfaceOf(s)
  BY DEF SameFiles, SurfaceOf
<1>. QED
  BY <1>1, <1>4, <1>8, <1>9, <1>10, <1>11

\* The repository is a project whatever has been added to it, and what was
\* reported of its files is what would be reported now.
FactsInd ==
  /\ tree # Null => IsProject(tree)
  /\ Reported =>
       /\ IsProject(tree) /\ report.maturity \in Maturities
       /\ report.ecosystems = EcosystemsIn(tree) /\ report.packages = PackagesIn(tree)
       /\ report.workspace = WorkspaceIn(tree) /\ report.cargo_publish = PublishEvidence(tree)
       /\ report.surface = SurfaceOf(tree)

\* Adding to a project what is no file of it leaves it one.
LEMMA Added ==
  ASSUME FactsInd, tree # Null, ProjectTypeOK(tree'), SameFiles(tree', tree), UNCHANGED report
  PROVE  FactsInd'
<1>1. IsProject(tree)
  BY DEF FactsInd
<1>2. MemberDirs(tree') = MemberDirs(tree) /\ \A dir : CrateAt(tree', dir) = CrateAt(tree, dir)
  BY SameFacts
<1>3. CargoAccepts(tree')
  BY <1>1, <1>2 DEF IsProject, CargoAccepts, SameFiles
<1>4. IsProject(tree')
  BY <1>1, <1>3 DEF IsProject, SameFiles
<1>5. /\ EcosystemsIn(tree') = EcosystemsIn(tree) /\ PackagesIn(tree') = PackagesIn(tree)
      /\ WorkspaceIn(tree') = WorkspaceIn(tree) /\ PublishEvidence(tree') = PublishEvidence(tree)
      /\ SurfaceOf(tree') = SurfaceOf(tree)
  BY SameFacts
<1>. QED
  BY <1>4, <1>5 DEF FactsInd, Reported

\* Whatever happens to the project, the report stays that of its files.
LEMMA FactsStep ==
  ASSUME FactsInd, [FactsNext /\ UNCHANGED contractVars]_<<factsVars, contractVars>>
  PROVE  FactsInd'
<1>1. CASE OpenTree
  BY <1>1, TreesAssumption DEF OpenTree, FactsInd, Reported
<1>2. CASE Gather
  <2>1. report' = Gathered(tree) /\ tree' = tree /\ IsProject(tree)
    BY <1>2 DEF Gather, FactsInd
  <2>2. /\ report'.ecosystems = EcosystemsIn(tree) /\ report'.packages = PackagesIn(tree)
        /\ report'.workspace = WorkspaceIn(tree) /\ report'.cargo_publish = PublishEvidence(tree)
        /\ report'.surface = SurfaceOf(tree) /\ report'.maturity = Maturity(tree)
    BY <2>1 DEF Gathered
  <2>3. Maturity(tree) \in Maturities
    BY DEF Maturity, Maturities
  <2>. QED
    BY <2>1, <2>2, <2>3 DEF FactsInd, Reported
<1>3. ASSUME tree # Null
      PROVE  /\ ProjectTypeOK(tree)
             /\ DOMAIN tree = {"root", "crates", "others", "workflows", "dist", "tags", "committers", "recent",
                               "ci", "bots", "readme"}
  BY <1>3 DEF FactsInd, IsProject, ProjectTypeOK
<1>4. CASE AddTag
  <2>1. PICK tag \in NewTags : tree' = [tree EXCEPT !.tags = tree.tags \cup {tag}]
    BY <1>4 DEF AddTag
  <2>2. TagTypeOK(tag)
    <3>1. {<<0, 0, 1>>, <<0, 2, 0>>, <<1, 0, 0>>, <<2, 0, 0>>} \subseteq Maybe(VersionType)
      BY DEF Maybe, VersionType
    <3>2. Null \in Maybe(VersionType)
      BY DEF Maybe
    <3>3. CASE tag = [prefix |-> "nightly", version |-> Null, pre |-> FALSE]
      BY <3>2, <3>3 DEF TagTypeOK
    <3>4. ASSUME NEW versions, versions \subseteq Maybe(VersionType),
                 tag \in [prefix : {"v", "core-v"}, version : versions, pre : BOOLEAN]
          PROVE  TagTypeOK(tag)
      <4>1. tag.version \in versions /\ tag.pre \in BOOLEAN
        BY <3>4
      <4>2. DOMAIN tag = {"prefix", "version", "pre"}
        BY <3>4
      <4>. QED
        BY <3>4, <4>1, <4>2 DEF TagTypeOK
    <3>5. CASE tag \in [prefix : {"v", "core-v"},
                         version : {<<0, 0, 1>>, <<0, 2, 0>>, <<1, 0, 0>>, <<2, 0, 0>>}, pre : BOOLEAN]
      BY <3>1, <3>4, <3>5
    <3>. QED
      BY <2>1, <3>3, <3>5 DEF NewTags
  <2>3. tree # Null /\ UNCHANGED report
    BY <1>4 DEF AddTag
  <2>4. IsFiniteSet(tree.tags \cup {tag})
    BY <1>3, <2>3, FS_AddElement DEF ProjectTypeOK
  <2>5. ProjectTypeOK(tree') /\ SameFiles(tree', tree)
    BY <1>3, <2>1, <2>2, <2>3, <2>4 DEF ProjectTypeOK, SameFiles
  <2>. QED
    BY <2>3, <2>5, Added
<1>5. CASE AddCommitter
  <2>1. /\ tree' = [tree EXCEPT !.committers = tree.committers + 1, !.recent = tree.recent + 1]
        /\ tree # Null /\ UNCHANGED report
    BY <1>5 DEF AddCommitter
  <2>2. ProjectTypeOK(tree') /\ SameFiles(tree', tree)
    BY <1>3, <2>1 DEF ProjectTypeOK, SameFiles
  <2>. QED
    BY <2>1, <2>2, Added
<1>6. CASE AddCI
  <2>1. tree' = [tree EXCEPT !.ci = TRUE] /\ tree # Null /\ UNCHANGED report
    BY <1>6 DEF AddCI
  <2>2. ProjectTypeOK(tree') /\ SameFiles(tree', tree)
    BY <1>3, <2>1 DEF ProjectTypeOK, SameFiles
  <2>. QED
    BY <2>1, <2>2, Added
<1>7. CASE AddBot
  <2>1. PICK bot : tree' = [tree EXCEPT !.bots = {bot}]
    BY <1>7 DEF AddBot
  <2>2. tree # Null /\ UNCHANGED report
    BY <1>7 DEF AddBot
  <2>3. ProjectTypeOK(tree') /\ SameFiles(tree', tree)
    BY <1>3, <2>1, <2>2 DEF ProjectTypeOK, SameFiles
  <2>. QED
    BY <2>2, <2>3, Added
<1>8. CASE UNCHANGED factsVars
  BY <1>8 DEF factsVars, FactsInd, Reported
<1>. QED
  BY <1>1, <1>2, <1>4, <1>5, <1>6, <1>7, <1>8 DEF FactsNext

\* What has been gathered is true of the files, whatever is added to the
\* project in between.
THEOREM FactsInvariance == FactsSpec => []FactsInd
<1>1. FactsInit => FactsInd
  BY DEF FactsInit, FactsInd, Reported
<1>2. FactsInd /\ [FactsNext /\ UNCHANGED contractVars]_<<factsVars, contractVars>> => FactsInd'
  BY FactsStep
<1>. QED
  BY <1>1, <1>2, PTL DEF FactsSpec
\* What crates.io is told of a tree is told of the root's own package, if it is
\* one, and of every member.
LEMMA EvidenceOf ==
  ASSUME NEW t, ProjectTypeOK(t), t.root # Null
  PROVE  LET said(m) == [manifest |-> m.dir, package |-> MemberName(m), policy |-> ManifestPolicy(m, HandedDown(t))]
             own == IF t.root.package = Null THEN {} ELSE {[dir |-> <<>>, package |-> t.root.package]}
         IN /\ \A i \in DOMAIN PublishEvidence(t) :
                 \E m \in own \cup ToSet(MemberManifests(t)) : PublishEvidence(t)[i] = said(m)
            /\ \A m \in ToSet(MemberManifests(t)) :
                 \E i \in DOMAIN PublishEvidence(t) : PublishEvidence(t)[i] = said(m)
<1>. DEFINE said(m) == [manifest |-> m.dir, package |-> MemberName(m), policy |-> ManifestPolicy(m, HandedDown(t))]
            list == IF t.root.package = Null THEN <<>> ELSE <<[dir |-> <<>>, package |-> t.root.package]>>
            own == IF t.root.package = Null THEN {} ELSE {[dir |-> <<>>, package |-> t.root.package]}
            all == list \o MemberManifests(t)
            T == own \cup ToSet(MemberManifests(t))
<1>1. list \in Seq(T) /\ ToSet(list) = own
  <2>1. CASE t.root.package = Null
    BY <2>1 DEF ToSet
  <2>2. CASE t.root.package # Null
    <3>. DEFINE it == [dir |-> <<>>, package |-> t.root.package]
    <3>1. list = <<it>> /\ own = {it}
      BY <2>2
    <3>. HIDE DEF it, list, own
    <3>2. ToSet(<<it>>) = {it} /\ <<it>> \in Seq({it})
      BY DEF ToSet
    <3>. QED
      BY <3>1, <3>2
  <2>. QED
    BY <2>1, <2>2
<1>2. MemberManifests(t) \in Seq(T)
  <2>1. MemberManifests(t) \in Seq(ToSet(MemberManifests(t)))
    BY MembersExist
  <2>. QED
    BY <2>1
<1>. HIDE DEF list, T
<1>3. ToSet(all) = own \cup ToSet(MemberManifests(t))
  BY <1>1, <1>2, JoinedSet
<1>4. PublishEvidence(t) = [i \in DOMAIN all |-> said(all[i])]
  BY DEF PublishEvidence, list
<1>. HIDE DEF all, own
<1>5. DOMAIN PublishEvidence(t) = DOMAIN all /\ \A i \in DOMAIN all : PublishEvidence(t)[i] = said(all[i])
  BY <1>4
<1>. HIDE DEF said
<1>6. \A i \in DOMAIN PublishEvidence(t) :
        \E m \in own \cup ToSet(MemberManifests(t)) : PublishEvidence(t)[i] = said(m)
  <2>. TAKE i \in DOMAIN PublishEvidence(t)
  <2>1. all[i] \in own \cup ToSet(MemberManifests(t))
    BY <1>3, <1>5 DEF ToSet
  <2>. QED
    BY <1>5, <2>1
<1>7. \A m \in ToSet(MemberManifests(t)) :
        \E i \in DOMAIN PublishEvidence(t) : PublishEvidence(t)[i] = said(m)
  <2>. TAKE m \in ToSet(MemberManifests(t))
  <2>1. PICK i \in DOMAIN all : all[i] = m
    BY <1>3 DEF ToSet
  <2>. QED
    BY <1>5, <2>1
<1>. QED
  BY <1>6, <1>7 DEF said, own

\* A policy is one of three.
LEMMA PolicyType ==
  ASSUME NEW t, ProjectTypeOK(t), t.root # Null, NEW m, m.package \in Maybe(PackageType)
  PROVE  ManifestPolicy(m, HandedDown(t)) \in {"allowed", "forbidden", "unknown"}
<1>1. \A p \in PublishType : BlockPolicy(p) \in {"allowed", "forbidden", "unknown"}
  BY DEF PublishType, BlockPolicy
<1>2. HandedDown(t) \in {"allowed", "forbidden", "unknown"}
  <2>1. t.root \in RootType
    BY DEF ProjectTypeOK, Maybe
  <2>2. WorkspacePackage(t) # Null => WorkspacePackage(t) \in InheritableType
    BY <2>1 DEF WorkspacePackage, RootType, WorkspaceType, Maybe
  <2>. QED
    BY <1>1, <2>2 DEF HandedDown, InheritableType
<1>3. m.package # Null => m.package.publish \in PublishType
  BY DEF Maybe, PackageType
<1>. QED
  BY <1>1, <1>2, <1>3 DEF ManifestPolicy

\* A member is a crate.
LEMMA MemberIsCrate ==
  ASSUME NEW t, IsProject(t), NEW m \in ToSet(MemberManifests(t))
  PROVE  /\ m \in CrateType /\ m.dir \in Dirs(t) /\ m.dir \in ToSet(MemberDirs(t))
         /\ CrateAt(t, m.dir) = m /\ \E i \in DOMAIN t.crates : m = t.crates[i]
<1>0. ProjectTypeOK(t) /\ t.crates \in Seq(CrateType)
      /\ \A i, j \in DOMAIN t.crates : t.crates[i].dir = t.crates[j].dir => i = j
  BY DEF IsProject, ProjectTypeOK
<1>1. PICK dir \in ToSet(MemberDirs(t)) : m = CrateAt(t, dir)
  BY <1>0, MembersExist
<1>2. dir \in Dirs(t)
  BY <1>0, <1>1, MembersExist
<1>3. PICK i \in DOMAIN t.crates : CrateAt(t, dir) = t.crates[i] /\ t.crates[i].dir = dir
  BY <1>0, <1>2, CrateOfDir
<1>. QED
  BY <1>0, <1>1, <1>2, <1>3

\* What is reported has its type.
LEMMA ReportTyped == FactsInd => FactsTypeOK
<1>. SUFFICES ASSUME FactsInd, report # Null PROVE FactsTypeOK
  BY DEF FactsTypeOK
<1>. DEFINE t == tree
<1>1. /\ IsProject(t) /\ ProjectTypeOK(t) /\ report.maturity \in Maturities
      /\ report.ecosystems = EcosystemsIn(t) /\ report.packages = PackagesIn(t)
      /\ report.cargo_publish = PublishEvidence(t)
  BY DEF FactsInd, Reported, IsProject
<1>2. DOMAIN t.others \subseteq ToSet(ManifestOrder)
  BY <1>1 DEF ProjectTypeOK
<1>3. EcosystemsIn(t) \subseteq Ecosystems /\ EcosystemsIn(t) # {}
  <2>1. {"rust", "node", "go", "python", "binary"} \subseteq Ecosystems
    <3>1. \A i \in 1..5 : i \in DOMAIN EcosystemOrder
      BY DEF EcosystemOrder
    <3>. QED
      BY <3>1 DEF Ecosystems, EcosystemOrder, ToSet
  <2>2. \A f \in DOMAIN t.others : EcosystemOf[f] \in {"node", "go", "python"}
    BY <1>2 DEF EcosystemOf
  <2>. QED
    BY <2>1, <2>2 DEF EcosystemsIn
<1>4. {PackagesIn(t)[i].ecosystem : i \in DOMAIN PackagesIn(t)} \subseteq EcosystemsIn(t)
  <2>. DEFINE A == IF t.root = Null THEN <<>> ELSE RustRows(t)
              B == OtherRows(t)
              counting == Keep(ManifestOrder,
                       {f \in DOMAIN t.others :
                          f = "go.mod" \/ (f # "setup.py" /\ t.others[f].package # Null)})
  <2>1. A \in Seq(ToSet(A)) /\ \A r \in ToSet(A) : t.root # Null /\ r.ecosystem = "rust"
    <3>1. CASE t.root = Null
      BY <3>1 DEF ToSet
    <3>2. CASE t.root # Null
      <4>1. MemberRows(t) \in Seq(ToSet(MemberRows(t))) /\ \A r \in ToSet(MemberRows(t)) : r.ecosystem = "rust"
        <5>. DEFINE ms == MemberManifests(t)
        <5>1. ms \in Seq(ToSet(ms))
          BY <1>1, MembersExist
        <5>2. \A dir, p, v, d : PackageRow("rust", dir, p, v, d).ecosystem = "rust"
          BY DEF PackageRow
        <5>3. DOMAIN MemberRows(t) = DOMAIN ms /\ MemberRows(t) = [i \in DOMAIN ms |-> MemberRows(t)[i]]
              /\ \A i \in DOMAIN ms : MemberRows(t)[i].ecosystem = "rust"
          BY <5>2 DEF MemberRows
        <5>. HIDE DEF ms
        <5>4. DOMAIN ms = 1..Len(ms) /\ Len(ms) \in Nat
          BY <5>1
        <5>5. \A i \in 1..Len(ms) : MemberRows(t)[i] \in ToSet(MemberRows(t))
          BY <5>3, <5>4 DEF ToSet
        <5>6. MemberRows(t) \in Seq(ToSet(MemberRows(t)))
          BY <5>3, <5>4, <5>5
        <5>. QED
          BY <5>3, <5>6 DEF ToSet
      <4>2. \A dir, p, v, d : LET one == <<PackageRow("rust", dir, p, v, d)>>
                              IN one \in Seq(ToSet(one)) /\ \A r \in ToSet(one) : r.ecosystem = "rust"
        BY DEF PackageRow, ToSet
      <4>3. RustRows(t) = MemberRows(t) \/ \E dir, p, v, d : RustRows(t) = <<PackageRow("rust", dir, p, v, d)>>
        BY DEF RustRows
      <4>. QED
        BY <3>2, <4>1, <4>2, <4>3
    <3>. QED
      BY <3>1, <3>2
  <2>2. B \in Seq(ToSet(B)) /\ \A r \in ToSet(B) : \E f \in DOMAIN t.others : r.ecosystem = EcosystemOf[f]
    <3>1. ManifestOrder \in Seq(ToSet(ManifestOrder))
      BY DEF ManifestOrder, ToSet
    <3>2. counting \in Seq(ToSet(ManifestOrder)) /\ ToSet(counting) \subseteq DOMAIN t.others
      BY <3>1, KeepType
    <3>3. B = [i \in DOMAIN counting |-> OtherRow(counting[i], t.others[counting[i]])]
      BY DEF OtherRows
    <3>. HIDE DEF counting, B
    <3>4. DOMAIN counting = 1..Len(counting) /\ Len(counting) \in Nat
          /\ \A i \in DOMAIN counting : counting[i] \in DOMAIN t.others
      BY <3>2 DEF ToSet
    <3>5. \A f, read : OtherRow(f, read).ecosystem = EcosystemOf[f]
      BY DEF OtherRow, PackageRow
    <3>6. /\ DOMAIN B = 1..Len(counting) /\ B = [i \in 1..Len(counting) |-> B[i]]
          /\ \A i \in 1..Len(counting) : B[i].ecosystem = EcosystemOf[counting[i]]
      BY <3>3, <3>4, <3>5
    <3>7. \A i \in 1..Len(counting) : B[i] \in ToSet(B)
      BY <3>6 DEF ToSet
    <3>8. B \in Seq(ToSet(B))
      BY <3>4, <3>6, <3>7
    <3>. QED
      BY <3>4, <3>6, <3>8 DEF ToSet
  <2>3. PackagesIn(t) = A \o B
    BY DEF PackagesIn
  <2>. HIDE DEF A, B
  <2>. DEFINE T == ToSet(A) \cup ToSet(B)
  <2>4. A \in Seq(T) /\ B \in Seq(T)
    BY <2>1, <2>2
  <2>5. ToSet(PackagesIn(t)) = ToSet(A) \cup ToSet(B)
    BY <2>3, <2>4, JoinedSet
  <2>6. \A r \in ToSet(PackagesIn(t)) : r.ecosystem \in EcosystemsIn(t)
    BY <2>1, <2>2, <2>5 DEF EcosystemsIn
  <2>. QED
    BY <2>6 DEF ToSet
<1>5. \A i \in DOMAIN PublishEvidence(t) :
        /\ PublishEvidence(t)[i].manifest \in Dirs(t) \cup {<<>>}
        /\ PublishEvidence(t)[i].policy \in {"allowed", "forbidden", "unknown"}
  <2>. TAKE i \in DOMAIN PublishEvidence(t)
  <2>1. t.root # Null
    BY DEF PublishEvidence
  <2>. DEFINE own == IF t.root.package = Null THEN {} ELSE {[dir |-> <<>>, package |-> t.root.package]}
  <2>2. PICK m \in own \cup ToSet(MemberManifests(t)) :
          PublishEvidence(t)[i] = [manifest |-> m.dir, package |-> MemberName(m),
                                   policy |-> ManifestPolicy(m, HandedDown(t))]
    BY <1>1, <2>1, EvidenceOf
  <2>3. m.dir \in Dirs(t) \cup {<<>>} /\ m.package \in Maybe(PackageType)
    <3>1. CASE m \in own
      <4>1. t.root.package \in Maybe(PackageType)
        BY <1>1, <2>1 DEF ProjectTypeOK, RootType, Maybe
      <4>2. m.dir = <<>> /\ m.package = t.root.package
        BY <3>1
      <4>. QED
        BY <4>1, <4>2
    <3>2. CASE m \in ToSet(MemberManifests(t))
      <4>1. m \in CrateType /\ m.dir \in Dirs(t)
        BY <1>1, <3>2, MemberIsCrate
      <4>. QED
        BY <4>1 DEF CrateType
    <3>. QED
      BY <3>1, <3>2
  <2>. QED
    BY <1>1, <2>1, <2>2, <2>3, PolicyType
<1>. QED
  BY <1>1, <1>3, <1>4, <1>5 DEF FactsTypeOK

\* Who is planned for is a member that may be published.
LEMMA Planned ==
  ASSUME FactsInd, Reported
  PROVE  /\ IsProject(tree) /\ ProjectTypeOK(tree)
         /\ PlannedNames \subseteq PublishableNames(tree)
         /\ report.workspace # Null => PlannedNames = PublishableNames(tree)
         /\ \A i \in DOMAIN PlannedMembers :
              /\ WorkspaceIn(tree) # Null
              /\ \E m \in NamedMembers(tree) : Publishable(m) /\ PlannedMembers[i] = GraphMember(tree, m)
<1>1. IsProject(tree) /\ ProjectTypeOK(tree) /\ report.workspace = WorkspaceIn(tree)
  BY DEF FactsInd, IsProject
<1>2. CASE WorkspaceIn(tree) = Null
  <2>1. PlannedMembers = <<>>
    BY <1>1, <1>2 DEF PlannedMembers
  <2>. QED
    BY <1>1, <1>2, <2>1 DEF PlannedNames
<1>3. CASE WorkspaceIn(tree) # Null
  <2>1. PlannedMembers = WorkspaceIn(tree).members
    BY <1>1, <1>3 DEF PlannedMembers
  <2>2. PlannedNames = PackageNames(WorkspaceIn(tree).members)
    BY <2>1 DEF PlannedNames, PackageNames
  <2>. QED
    BY <1>1, <1>3, <2>1, <2>2, GraphOf
<1>. QED
  BY <1>2, <1>3

\* The publish evidence and the graph are read from the same members.
LEMMA EvidenceKnows == FactsInd => EvidenceKnowsTheGraph
<1>. SUFFICES ASSUME FactsInd, Reported, NEW name \in PlannedNames
              PROVE  \E i \in DOMAIN report.cargo_publish :
                       /\ report.cargo_publish[i].package = name
                       /\ \/ report.cargo_publish[i].policy # "forbidden"
                          \/ CrateAt(tree, report.cargo_publish[i].manifest).package.publish.form
                               \in {"dotted", "inline"}
  BY DEF EvidenceKnowsTheGraph
<1>1. IsProject(tree) /\ ProjectTypeOK(tree) /\ name \in PublishableNames(tree)
      /\ report.cargo_publish = PublishEvidence(tree)
  BY Planned DEF FactsInd
<1>2. PICK m \in NamedMembers(tree) : Publishable(m) /\ name = MemberName(m)
  BY <1>1 DEF PublishableNames
<1>3. m \in ToSet(MemberManifests(tree))
  BY DEF NamedMembers
<1>4. tree.root # Null
  <2>. SUFFICES ASSUME tree.root = Null PROVE FALSE
    OBVIOUS
  <2>1. MemberDirs(tree) = <<>>
    BY DEF MemberDirs
  <2>2. ToSet(MemberManifests(tree)) = {CrateAt(tree, dir) : dir \in ToSet(MemberDirs(tree))}
    BY <1>1, MembersExist
  <2>. QED
    BY <1>3, <2>1, <2>2 DEF ToSet
<1>5. PICK i \in DOMAIN PublishEvidence(tree) :
        PublishEvidence(tree)[i] = [manifest |-> m.dir, package |-> MemberName(m),
                                    policy |-> ManifestPolicy(m, HandedDown(tree))]
  BY <1>1, <1>3, <1>4, EvidenceOf
<1>6. /\ report.cargo_publish[i].package = name /\ report.cargo_publish[i].manifest = m.dir
      /\ report.cargo_publish[i].policy = ManifestPolicy(m, HandedDown(tree))
  BY <1>1, <1>2, <1>5
<1>7. CrateAt(tree, m.dir) = m
  BY <1>1, <1>3, MemberIsCrate
<1>8. m.package.publish.form \in {"dotted", "inline"} \/ ManifestPolicy(m, HandedDown(tree)) # "forbidden"
  BY <1>2 DEF Publishable, ManifestPolicy
<1>. QED
  BY <1>1, <1>6, <1>7, <1>8

\* What a declaration comes to has its key.
LEMMA ResolvedKey ==
  ASSUME NEW d
  PROVE  Resolved(d).key = d.key /\ (d.source # "workspace" => Resolved(d) = d)
<1>. DEFINE roots == tree.root.workspace.dependencies
            i == CHOOSE i \in DOMAIN roots : roots[i].key = d.key
<1>1. (\E j \in DOMAIN roots : roots[j].key = d.key) => roots[i].key = d.key
  OBVIOUS
<1>2. Inheritance(d) = IF \E j \in DOMAIN roots : roots[j].key = d.key THEN roots[i] ELSE d
  BY DEF Inheritance
<1>. HIDE DEF roots, i
<1>. QED
  BY <1>1, <1>2 DEF Resolved

\* The dependencies that order a member's publication are its own.
LEMMA OrderedBy ==
  ASSUME IsProject(tree), NEW m \in NamedMembers(tree)
  PROVE  OrderingDeps(MemberName(m)) = {d \in ToSet(m.deps) : d.table # "dev"}
<1>. DEFINE dir == CHOOSE dir \in ToSet(MemberDirs(tree)) : MemberName(CrateAt(tree, dir)) = MemberName(m)
<1>1. /\ m.dir \in ToSet(MemberDirs(tree)) /\ CrateAt(tree, m.dir) = m
      /\ \A other \in ToSet(MemberDirs(tree)) :
           MemberName(CrateAt(tree, other)) = MemberName(m) => other = m.dir
  BY NamesAreTheirOwn
<1>2. dir = m.dir
  BY <1>1
<1>3. OrderingDeps(MemberName(m)) = {d \in ToSet(CrateAt(tree, dir).deps) : d.table # "dev"}
  BY DEF OrderingDeps
<1>. HIDE DEF dir
<1>. QED
  BY <1>1, <1>2, <1>3

\* How a member declares a dependency.
LEMMA DeclaredBy ==
  ASSUME IsProject(tree), NEW m \in ToSet(MemberManifests(tree)), NEW d \in ToSet(m.deps)
  PROVE  /\ d.source = "workspace" => d.rename = Null
         /\ d.form = "plain" => d.source = "registry"
         /\ d.form \in {"plain", "inline", "subtable", "dotted", "multiline"}
<1>1. PICK i \in DOMAIN tree.crates : m = tree.crates[i]
  BY MemberIsCrate
<1>2. m \in CrateType
  BY MemberIsCrate
<1>. DEFINE D == [table : {"normal", "build", "dev"}, key : STRING, rename : Maybe(STRING),
                  source : {"path", "workspace", "registry"},
                  form : {"plain", "inline", "subtable", "dotted", "multiline"},
                  req : Maybe([exact : VersionType] \cup [caret : VersionType])]
<1>3. m.deps \in Seq(D)
  BY <1>2 DEF CrateType, DependenciesType
<1>. HIDE DEF D
<1>4. d \in D
  BY <1>3 DEF ToSet
<1>5. d.form \in {"plain", "inline", "subtable", "dotted", "multiline"}
  BY <1>4 DEF D
<1>. QED
  BY <1>1, <1>5 DEF IsProject, CargoAccepts

\* An edge is reported for each dependency that orders publication, and for no other.
LEMMA EdgesAre == FactsInd => EdgesAreTheDependencies
<1>. SUFFICES ASSUME FactsInd, Reported, NEW i \in DOMAIN PlannedMembers
              PROVE  LET name == PlannedMembers[i].package
                         deps == OrderingDeps(name)
                     IN /\ \A d \in deps, other \in PlannedNames \ {name} :
                             ResolvesTo(d, other) /\ ~BlindSpot(d) => other \in PlannedMembers[i].deps
                        /\ \A other \in PlannedMembers[i].deps :
                             \E d \in deps :
                               \/ ResolvesTo(d, other)
                               \/ Local(d) /\ BlindSpot(d)
                               \/ InheritsARegistryCrate(d) /\ CrateOf(d) = other
  BY DEF EdgesAreTheDependencies
<1>1. IsProject(tree) /\ PlannedNames \subseteq PublishableNames(tree)
  BY Planned
<1>2. PICK m \in NamedMembers(tree) : Publishable(m) /\ PlannedMembers[i] = GraphMember(tree, m)
  BY Planned
<1>. DEFINE name == PlannedMembers[i].package
            deps == OrderingDeps(name)
<1>3. name = MemberName(m)
      /\ PlannedMembers[i].deps
           = (PublishableNames(tree) \cap UNION {EdgeOf(d) : d \in ToSet(m.deps)}) \ {MemberName(m)}
  BY <1>2 DEF GraphMember
<1>4. deps = {d \in ToSet(m.deps) : d.table # "dev"}
  BY <1>1, <1>3, OrderedBy
<1>5. m \in ToSet(MemberManifests(tree))
  BY DEF NamedMembers
<1>. HIDE DEF name, deps
<1>6. ASSUME NEW d \in deps, NEW other \in PlannedNames \ {name}, ResolvesTo(d, other), ~BlindSpot(d)
      PROVE  other \in PlannedMembers[i].deps
  <2>1. /\ d.source = "workspace" => d.rename = Null
        /\ d.form = "plain" => d.source = "registry"
        /\ d.form \in {"plain", "inline", "subtable", "dotted", "multiline"}
        /\ d \in ToSet(m.deps) /\ d.table # "dev"
    BY <1>1, <1>4, <1>5, DeclaredBy
  <2>2. Resolved(d).key = d.key /\ (d.source # "workspace" => Resolved(d) = d)
    BY ResolvedKey
  <2>3. Local(d)
    BY <1>6, <2>2 DEF ResolvesTo, Local
  <2>4. d.form \in {"inline", "subtable", "dotted"}
    BY <1>6, <2>1, <2>3 DEF BlindSpot, Local
  <2>5. CrateOf(d) = other
    <3>1. CASE d.source = "workspace"
      BY <1>6, <2>1, <2>2, <3>1 DEF BlindSpot, ResolvesTo, CrateOf, Or
    <3>2. CASE d.source # "workspace"
      BY <1>6, <2>2, <3>2 DEF ResolvesTo
    <3>. QED
      BY <3>1, <3>2
  <2>6. d.form = "dotted" => d.key = other
    BY <1>6, <2>5 DEF BlindSpot, CrateOf, Or
  <2>7. other \in EdgeOf(d)
    BY <2>1, <2>3, <2>4, <2>5, <2>6 DEF EdgeOf
  <2>. QED
    BY <1>1, <1>3, <1>6, <2>1, <2>7
<1>7. ASSUME NEW other \in PlannedMembers[i].deps
      PROVE  \E d \in deps :
               \/ ResolvesTo(d, other)
               \/ Local(d) /\ BlindSpot(d)
               \/ InheritsARegistryCrate(d) /\ CrateOf(d) = other
  <2>1. PICK d \in ToSet(m.deps) : other \in EdgeOf(d)
    BY <1>3
  <2>2. /\ d.source = "workspace" => d.rename = Null
        /\ d.form = "plain" => d.source = "registry"
        /\ d.form \in {"plain", "inline", "subtable", "dotted", "multiline"}
    BY <1>1, <1>5, DeclaredBy
  <2>3. Local(d) /\ d.table # "dev" /\ d.form \in {"inline", "subtable", "dotted"}
    BY <2>1, <2>2 DEF EdgeOf, Local
  <2>4. d \in deps
    BY <1>4, <2>3
  <2>5. other = IF d.form = "dotted" THEN d.key ELSE CrateOf(d)
    BY <2>1, <2>3 DEF EdgeOf
  <2>6. Resolved(d).key = d.key /\ (d.source # "workspace" => Resolved(d) = d)
    BY ResolvedKey
  <2>7. CASE d.source # "workspace"
    <3>1. ResolvesTo(d, other) \/ BlindSpot(d)
      BY <2>3, <2>5, <2>6, <2>7 DEF ResolvesTo, BlindSpot, CrateOf, Or
    <3>. QED
      BY <2>3, <2>4, <3>1
  <2>8. CASE d.source = "workspace"
    <3>1. CrateOf(d) = d.key /\ other = d.key
      BY <2>2, <2>5, <2>8 DEF CrateOf, Or
    <3>2. ResolvesTo(d, other) \/ BlindSpot(d) \/ InheritsARegistryCrate(d)
      BY <2>6, <2>8, <3>1 DEF ResolvesTo, BlindSpot, InheritsARegistryCrate, CrateOf, Or
    <3>. QED
      BY <2>3, <2>4, <3>1, <3>2
  <2>. QED
    BY <2>7, <2>8
<1>. QED
  BY <1>6, <1>7 DEF name, deps

\* Each declaration of a member under a version is found by some pin.
LEMMA PinsAreFound == FactsInd => NoPinIsMissed
<1>. SUFFICES ASSUME FactsInd, Reported, report.workspace # Null, NEW dir \in ToSet(MemberDirs(tree)),
                     MemberName(CrateAt(tree, dir)) # Null,
                     NEW d \in ToSet(CrateAt(tree, dir).deps), Local(d),
                     CrateOf(d) \in PlannedNames \ {MemberName(CrateAt(tree, dir))}
              PROVE  \E g \in report.workspace.pins :
                       g.owner = MemberName(CrateAt(tree, dir)) /\ g.dep = CrateOf(d) /\ d.req \in g.reqs
  BY DEF NoPinIsMissed
<1>. DEFINE m == CrateAt(tree, dir)
            p == [package |-> CrateOf(d), req |-> d.req]
<1>1. IsProject(tree) /\ ProjectTypeOK(tree) /\ PlannedNames = PublishableNames(tree)
      /\ report.workspace = WorkspaceIn(tree)
  BY Planned DEF FactsInd
<1>2. report.workspace.pins = PinsIn(tree)
  BY <1>1, GraphOf
<1>3. m \in NamedMembers(tree)
  BY <1>1, MembersExist DEF NamedMembers
<1>. HIDE DEF m
<1>4. d \in ToSet(m.deps) /\ Local(d) /\ CrateOf(d) \in PublishableNames(tree) \ {MemberName(m)}
  BY <1>1 DEF m
<1>5. p \in PinDeclarations(m.deps) /\ p.package = CrateOf(d) /\ p.req = d.req
  BY <1>4 DEF PinDeclarations
<1>. HIDE DEF p
<1>6. PICK g \in PinGroups(MemberName(m), PinDeclarations(m.deps), PublishableNames(tree)) :
        g.owner = MemberName(m) /\ g.dep = p.package /\ p.req \in g.reqs
  BY <1>4, <1>5, HasGroup
<1>7. g \in PinsIn(tree)
  BY <1>3, <1>6 DEF PinsIn
<1>. QED
  BY <1>2, <1>5, <1>6, <1>7 DEF m

\* Who publishes by calling another is found, round any circle of calls.
LEMMA PublishersReached == FactsInd => PublishersAreReached
<1>. SUFFICES ASSUME FactsInd, Reported
              PROVE  PublishersAreReached
  BY DEF PublishersAreReached
<1>. DEFINE ws == tree.workflows
            tagged == {name \in DOMAIN ws : PushesTags(ws[name])}
<1>1. IsFiniteSet(DOMAIN ws) /\ report.surface = SurfaceOf(tree)
  BY DEF FactsInd, IsProject, ProjectTypeOK
<1>2. /\ report.surface.tag_triggered = tagged
      /\ report.surface.tag_triggered_cargo_publish = {name \in tagged : ReachesCargoPublish(ws, name)}
  BY <1>1 DEF SurfaceOf
<1>3. \A n \in tagged : ReachesCargoPublish(ws, n) <=> n \in Callers(ws, {})
  BY <1>1, ReachesIsCaller
<1>4. \A n \in DOMAIN ws : n \in Callers(ws, {}) <=> \A S \in SUBSET DOMAIN ws : HasItsCallers(ws, S) => n \in S
  BY DEF Callers, ClosedBut, HasItsCallers
<1>. HIDE DEF ws
<1>. QED
  BY <1>2, <1>3, <1>4 DEF PublishersAreReached, ws

\* A project that had less had not more maturity.
LEMMA MaturityStays == FactsInd => MaturityNeverFalls
<1>. SUFFICES ASSUME FactsInd, Reported, NEW tags \in SUBSET tree.tags, NEW n \in 0 .. tree.recent,
                     NEW ci \in {FALSE, tree.ci}
              PROVE  LET before == [tree EXCEPT !.tags = tags, !.recent = n, !.ci = ci]
                     IN MaturityRank[Maturity(before)] <= MaturityRank[Maturity(tree)]
  BY DEF MaturityNeverFalls
<1>. DEFINE before == [tree EXCEPT !.tags = tags, !.recent = n, !.ci = ci]
<1>1. ProjectTypeOK(tree)
  BY DEF FactsInd, IsProject
<1>2. /\ before.tags = tags /\ before.recent = n /\ before.ci = ci
      /\ before.workflows = tree.workflows /\ before.bots = tree.bots /\ before.readme = tree.readme
      /\ before.committers = tree.committers /\ SameFiles(before, tree)
  BY <1>1 DEF ProjectTypeOK, SameFiles
<1>3. n \in Nat /\ tree.recent \in Nat /\ n <= tree.recent /\ IsFiniteSet(tree.tags) /\ ci \in BOOLEAN /\ tree.ci \in BOOLEAN
  <2>1. tree.recent \in Nat
    BY <1>1 DEF ProjectTypeOK
  <2>2. n \in Nat /\ n <= tree.recent
    BY <2>1
  <2>3. tree.ci \in BOOLEAN
    BY <1>1 DEF ProjectTypeOK
  <2>4. ci \in BOOLEAN
    BY <2>3
  <2>5. IsFiniteSet(tree.tags)
    BY <1>1 DEF ProjectTypeOK
  <2>. QED
    BY <2>1, <2>2, <2>3, <2>4, <2>5
<1>. HIDE DEF before
<1>4. PackagesIn(before) = PackagesIn(tree)
  BY <1>2, SameFacts
<1>5. Versions(before) \subseteq Versions(tree)
  BY <1>2 DEF Versions
<1>6. HasStableRelease(before) => HasStableRelease(tree)
  BY <1>4, <1>5 DEF HasStableRelease
<1>7. ShippedReleases(before) \in Nat /\ ShippedReleases(tree) \in Nat
      /\ ShippedReleases(before) <= ShippedReleases(tree)
  <2>. DEFINE S == {tag \in Versions(before) : AtLeast(tag.version, 0, 1) /\ ~tag.pre}
              T == {tag \in Versions(tree) : AtLeast(tag.version, 0, 1) /\ ~tag.pre}
  <2>1. T \subseteq tree.tags /\ S \subseteq T
    BY <1>5 DEF Versions
  <2>. HIDE DEF S, T
  <2>2. IsFiniteSet(T) /\ IsFiniteSet(S)
    BY <1>3, <2>1, FS_Subset
  <2>3. Cardinality(S) <= Cardinality(T) /\ Cardinality(S) \in Nat /\ Cardinality(T) \in Nat
    BY <2>1, <2>2, FS_Subset, FS_CardinalityType
  <2>. QED
    BY <2>3 DEF ShippedReleases, S, T
<1>8. HasCI(before) => HasCI(tree)
  BY <1>2, <1>3 DEF HasCI
<1>9. DependencyBot(before) = DependencyBot(tree)
  BY <1>2 DEF DependencyBot
<1>. DEFINE production(t) == /\ t.recent >= 2 /\ HasCI(t)
                             /\ HasStableRelease(t) \/ (DependencyBot(t) # Null /\ ShippedReleases(t) >= 2)
            spike(t) == ~HasCI(t) /\ Versions(t) = {}
                        /\ (t.committers <= 1 \/ (t.readme # Null /\ t.readme.spike))
<1>10. \A t : Maturity(t) = IF production(t) THEN "production" ELSE IF spike(t) THEN "spike" ELSE "mvp"
  BY DEF Maturity
<1>11. production(before) => production(tree)
  BY <1>2, <1>3, <1>6, <1>7, <1>8, <1>9
<1>12. spike(tree) => spike(before)
  BY <1>2, <1>5, <1>8
<1>. HIDE DEF production, spike
<1>13. MaturityRank["spike"] = 0 /\ MaturityRank["mvp"] = 1 /\ MaturityRank["production"] = 2
  BY DEF MaturityRank
<1>14. MaturityRank[Maturity(before)] <= MaturityRank[Maturity(tree)]
  BY <1>10, <1>11, <1>12, <1>13
<1>. QED
  BY <1>14 DEF before

\* What is reported is what Cargo and GitHub make of the same files: an edge is
\* a dependency and a dependency an edge, no pin is missed, who publishes is
\* found through any circle of calls, and no addition makes a project less mature.
THEOREM FactsInvHolds == FactsSpec => []FactsInv
<1>1. FactsInd => FactsInv
  BY ReportTyped, EvidenceKnows, EdgesAre, PinsAreFound, PublishersReached, MaturityStays DEF FactsInv
<1>. QED
  BY <1>1, FactsInvariance, PTL
=============================================================================
