----------------------------- MODULE RunJournal -----------------------------
(***************************************************************************)
(* The durable journal of one run (release/journal.rs over the file store  *)
(* of sys.rs): an append is written to the log and synced, then applied to *)
(* the projection in memory, then the disposable manifest is replaced.     *)
(* The process may be killed and the machine may lose power between any    *)
(* two of these; the next one reopens the log.  One process at a time has  *)
(* the journal open (module CutLock).                                      *)
(***************************************************************************)
EXTENDS RunState, Sequences, FiniteSets

CONSTANTS Events,      \* the events appended after run_created
          Machines,    \* what may happen to a line: [line, powerFails]
          MaxEvents,   \* bound on the length of the log
          MaxCrashes,  \* bound on kills, power losses and failed writes
          Torn         \* the content of a half-written line

\* What may be appended to a run in progress.
Appendable ==
  [kind : {"bump_applied"}, commit : Nat \cup {NoCommit}]
  \cup [kind : {"default_branch_advanced"}, commit : Nat]
  \cup [kind : {"phase_entered"}, phase : Phase]
  \cup [kind : {"phase_completed"}, phase : Phase, outcome : {"ok", "failed"}]
  \cup [kind : {"target_dry_run", "target_built", "target_published", "target_delegated"},
        target : Target]
  \cup [kind : {"target_verified"}, target : Target, matches : BOOLEAN]
  \cup {TagCreatedLocal, TagPushedRemote, GithubReleaseCreated, GithubReleaseDelegated,
        DefaultBranchSelected, RunAbandoned}

\* A line and its newline reach the file together, one after the other, or one
\* after the other and the line possibly in half.
LineWrites == {"whole", "apart", "torn"}

ASSUME EventsAssumption == Events \subseteq Appendable
ASSUME TornAssumption == Torn \notin [seq : Nat, event : Events \cup {RunCreated}]
ASSUME BoundsAssumption == /\ MaxEvents \in Nat /\ MaxCrashes \in Nat
                           /\ Machines \subseteq [line : LineWrites, powerFails : BOOLEAN]

VARIABLES log,       \* the file: a sequence of lines, each a sequence of writes
          ended,     \* does the last line have its newline?
          synced,    \* number of lines an fsync made durable
          manifest,  \* the cached projection
          mem,       \* the projection the open handle holds
          pc,
          event,     \* the event being appended
          acked,     \* events whose append returned Ok (history)
          crashes,
          machine    \* how a line reaches the file; may power fail?

journalVars == <<log, ended, synced, manifest, mem, pc, event, acked, crashes, machine>>

\* A projection with the watermark of the events folded into it.
NoRun == [applied |-> 0, state |-> CreatedRun]

\* apply: an event at or below the watermark is skipped.
ApplySeq(m, e) ==
  IF e.seq <= m.applied THEN m
  ELSE [applied |-> e.seq, state |-> Apply(m.state, e.event)]

\* The stable sort by `seq'.
Rank(events, i) ==
  Cardinality({j \in DOMAIN events : \/ events[j].seq < events[i].seq
                                    \/ (events[j].seq = events[i].seq /\ j <= i)})

BySeq(events) == [k \in DOMAIN events |-> events[CHOOSE i \in DOMAIN events : Rank(events, i) = k]]

\* reduce: fold the log in `seq' order.
Reduce(events) ==
  LET after[k \in 0..Len(events)] ==
        IF k = 0 THEN NoRun ELSE ApplySeq(after[k - 1], BySeq(events)[k])
  IN  after[Len(events)]

\* A line parses when exactly one event was written to it, completely.
Parses(line) == Len(line) = 1 /\ line[1] # Torn
Readable(lines) == \A i \in DOMAIN lines : Parses(lines[i])

\* read_events: any line that does not parse fails the whole read.
EventsOf(lines) == [i \in DOMAIN lines |-> lines[i][1]]

JournalInit ==
  /\ log = <<>> /\ ended = TRUE /\ synced = 0
  /\ manifest = NoRun /\ mem = NoRun
  /\ pc = "closed" /\ event = Torn
  /\ acked = {} /\ crashes = 0 /\ machine \in Machines

\* The projection of the lines on file.
Replay == Reduce(EventsOf(log))

\* A write at the end of the file continues a line that has no newline.
Written(content) ==
  IF ended THEN Append(log, <<content>>)
  ELSE [log EXCEPT ![Len(log)] = Append(@, content)]

-----------------------------------------------------------------------------
(* Journal::create, open and append                                        *)

\* A fresh run: the handle starts from the empty state and appends run_created.
Create ==
  /\ pc = "closed" /\ log = <<>>
  /\ mem' = NoRun
  /\ event' = [seq |-> 1, event |-> RunCreated]
  /\ pc' = "append"
  /\ UNCHANGED <<log, ended, synced, manifest, acked, crashes, machine>>

\* Seeded fault: the handle starts from the cached manifest.
OpenCached ==
  /\ pc = "closed" /\ log # <<>> /\ Readable(log)
  /\ mem' = manifest
  /\ pc' = "open"
  /\ UNCHANGED <<log, ended, synced, manifest, event, acked, crashes, machine>>

\* The projection is reduced from the log; rewriting the manifest may fail.
Open ==
  /\ pc = "closed" /\ log # <<>> /\ Readable(log)
  /\ mem' = Replay
  /\ manifest' \in {manifest, mem'}
  /\ pc' = "open"
  /\ UNCHANGED <<log, ended, synced, event, acked, crashes, machine>>

\* The next event takes the sequence number after the watermark.
BeginAppend(e) ==
  /\ pc = "open"
  /\ Len(log) < MaxEvents
  /\ event' = [seq |-> mem.applied + 1, event |-> e]
  /\ pc' = "append"
  /\ UNCHANGED <<log, ended, synced, manifest, mem, acked, crashes, machine>>

\* append_line writes the event and its newline with two calls.
WriteLine ==
  /\ pc = "append"
  /\ log' = Written(event)
  /\ IF machine.line = "whole" THEN ended' = TRUE /\ pc' = "sync"
                             ELSE ended' = FALSE /\ pc' = "newline"
  /\ UNCHANGED <<synced, manifest, mem, event, acked, crashes, machine>>

WriteNewline ==
  /\ pc = "newline"
  /\ ended' = TRUE
  /\ pc' = "sync"
  /\ UNCHANGED <<log, synced, manifest, mem, event, acked, crashes, machine>>

\* Seeded fault: the line is not synced.
SyncNothing ==
  /\ pc = "sync"
  /\ pc' = "apply"
  /\ UNCHANGED <<log, ended, synced, manifest, mem, event, acked, crashes, machine>>

Sync ==
  /\ pc = "sync"
  /\ synced' = Len(log)
  /\ pc' = "apply"
  /\ UNCHANGED <<log, ended, manifest, mem, event, acked, crashes, machine>>

ApplyEvent ==
  /\ pc = "apply"
  /\ mem' = ApplySeq(mem, event)
  /\ pc' = "manifest"
  /\ UNCHANGED <<log, ended, synced, manifest, event, acked, crashes, machine>>

\* The manifest is replaced, or fails to be; the append returns Ok.
PersistManifest ==
  /\ pc = "manifest"
  /\ manifest' \in {manifest, mem}
  /\ acked' = acked \cup {event}
  /\ pc' = "open"
  /\ UNCHANGED <<log, ended, synced, mem, event, crashes, machine>>

-----------------------------------------------------------------------------
(* Failures                                                                *)

Close == /\ crashes < MaxCrashes
         /\ crashes' = crashes + 1
         /\ pc' = "closed" /\ mem' = NoRun /\ event' = Torn
         /\ UNCHANGED <<manifest, acked, machine>>

\* The process is killed, or a write or sync fails and the coordinator stops;
\* what was written stays, which may be the beginning of a line.
Stop ==
  /\ pc # "closed"
  /\ Close
  /\ \/ UNCHANGED <<log, ended>>
     \/ pc = "append" /\ machine.line = "torn" /\ log' = Written(Torn) /\ ended' = FALSE
  /\ UNCHANGED synced

\* The machine loses power: lines that were not synced may be gone, or in half.
PowerLoss ==
  /\ machine.powerFails
  /\ pc # "closed"
  /\ Close
  /\ \E kept \in synced..Len(log) :
       \/ log' = SubSeq(log, 1, kept) /\ ended' = (kept < Len(log) \/ ended)
       \/ /\ machine.line = "torn" /\ kept > synced
          /\ log' = Append(SubSeq(log, 1, kept - 1), <<Torn>>)
          /\ ended' = FALSE
  /\ UNCHANGED synced

JournalNext ==
  \/ Create \/ Open \/ \E e \in Events : BeginAppend(e)
  \/ WriteLine \/ WriteNewline \/ Sync \/ ApplyEvent \/ PersistManifest
  \/ Stop \/ PowerLoss

JournalSpec == JournalInit /\ [][JournalNext]_journalVars

-----------------------------------------------------------------------------
Entry == [seq : 1..(MaxEvents + 1), event : Events \cup {RunCreated}]

JournalTypeOK ==
  /\ \A i \in DOMAIN log : \A j \in DOMAIN log[i] : log[i][j] \in Entry \cup {Torn}
  /\ ended \in BOOLEAN /\ synced \in 0..Len(log)
  /\ manifest.state \in RunState /\ mem.state \in RunState
  /\ pc \in {"closed", "open", "append", "newline", "sync", "apply", "manifest"}
  /\ event \in Entry \cup {Torn}
  /\ acked \subseteq Entry /\ crashes \in 0..MaxCrashes

\* "A durably-appended event is folded back in on the next open": no event
\* whose append returned Ok is missing from any later reading of the log.
AcknowledgedIsKept ==
  Readable(log) =>
    \A e \in acked : \E i \in DOMAIN log : i <= synced /\ log[i][1] = e

\* An open handle holds exactly what the next process would read, so decisions
\* made on it are decisions on the log ("the journal is the source of truth").
MemoryIsReplay == pc = "open" /\ Readable(log) => mem = Replay

\* The cached manifest may lag the log and is never ahead of it or beside it:
\* it is the projection of a prefix of the lines.  (Without power losses: a
\* line that a killed process left unsynced is opened, cached and then lost.)
ManifestIsPrefix ==
  (Readable(log) /\ ~machine.powerFails) =>
    \E k \in 0..Len(log) : manifest = Reduce(EventsOf(SubSeq(log, 1, k)))

\* Sequence numbers count the log's lines across all restarts, so the
\* watermark never swallows an event.
SeqIsPosition == Readable(log) => \A i \in DOMAIN log : log[i][1].seq = i

\* "A crash *anywhere* in that sequence recovers cleanly": a closed journal
\* can be opened again.
CleanRecovery == pc = "closed" => Readable(log)

\* Everything that RunJournal holds besides the log, in memory, in the manifest
\* and in the sequence numbers, is derived from the log, across all restarts.
JournalInv ==
  /\ JournalTypeOK
  /\ MemoryIsReplay
  /\ ManifestIsPrefix
  /\ SeqIsPosition
=============================================================================
