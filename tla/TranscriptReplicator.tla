------------------------ MODULE TranscriptReplicator ------------------------
(***************************************************************************)
(* The connector's replication of one transcript file                      *)
(* (lib/transcript-replicator.mjs) over its state store (the file store of *)
(* lib/transcript-publisher.mjs), composed with what the archive promises  *)
(* (EpochLog).                                                             *)
(*                                                                         *)
(* The file belongs to somebody else: an agent appends to it, rotates it,  *)
(* or rewrites it in place, between any two steps of a sync.  The state    *)
(* store keeps the state in memory and writes it to disk; the write may    *)
(* fail, and a crash leaves only what is on disk.  An upload may be        *)
(* committed although its caller never hears of it.                        *)
(***************************************************************************)
EXTENDS Naturals, Sequences, FiniteSets, SequencesExt

CONSTANTS
  Calls,             \* slots for uploads in progress
  Inodes,            \* file identities (device and inode)
  Generations,       \* contents the file has had: 1 is the first
  MaxLines,          \* bound: lines of one generation
  Oversized,         \* lines longer than MAX_TRANSCRIPT_CHUNK_BYTES
  MaxEpochs,         \* bound: epochs of one behaviour
  ChunkLines,        \* chunkBytes, in lines
  MaxChunksPerSync,
  NoState, NoChunk, NoCall

Epochs == 1 .. MaxEpochs
Lines == Generations \X (1 .. MaxLines)

(* The bytes of a chunk are its lines; no chunk is empty, and <<>> stands   *)
(* for the "" of a first chunk's previousChunkSha256.                       *)
Bodies == Seq(Lines) \ {<<>>}
NoBody == <<>>

Chunks == [epoch : Epochs, start : Nat, end : Nat,
           body : Bodies, prev : Bodies \union {NoBody}]
Offered == {ch \in Chunks : ch.start < ch.end}

ASSUME ReplicatorAssumption ==
  /\ IsFiniteSet(Generations) /\ Generations = 1 .. Cardinality(Generations)
  /\ 1 \in Generations
  /\ Oversized \subseteq Lines
  /\ ChunkLines \in Nat \ {0}
  /\ MaxChunksPerSync \in Nat \ {0}
  /\ MaxLines \in Nat /\ MaxEpochs \in Nat
  /\ NoChunk \notin Chunks /\ NoCall \notin Calls

VARIABLES
  file,       \* the transcript at the path: its inode, generation and lines
  mem, disk,  \* the state store's entry for the session, in memory, on disk
  pc,         \* where the sync stands
  after,      \* where it goes on when the state is saved
  info,       \* what stat returned
  count,      \* chunks acknowledged in this sync
  recovered,  \* recoveredRemoteConflict
  up,         \* the call of the upload under way
  nextEpoch,  \* createFileEpoch's next random id
  unsaved,    \* the last save failed and no save succeeded since
  log, call, acked, limbo,  \* the archive, as in EpochLog
  sent,       \* history: chunks uploaded
  spooled,    \* history: pending chunks that were on disk
  raced,      \* history: the file was replaced between a sync's stat and read
  lost,       \* history: a crash lost a state whose save had failed
  wiped       \* history: the archive was emptied

archiveVars == <<log, call, acked, limbo>>
syncVars == <<pc, after, info, count, recovered, up>>
history == <<sent, spooled, raced, lost, wiped>>
vars == <<file, mem, disk, syncVars, nextEpoch, unsaved, archiveVars, history>>

Archive == INSTANCE EpochLog

-----------------------------------------------------------------------------
States == [epoch : Epochs, ino : Inodes, cursor : Nat,
           last : Bodies \union {NoBody}, pending : Chunks \union {NoChunk},
           quarantine : {"none", "tooLarge", "prefixNotSpooled", "remoteConflict"},
           recovery : BOOLEAN]

ASSUME NoStateAssumption == NoState \notin States

Fresh(epoch, ino) ==
  [epoch |-> epoch, ino |-> ino, cursor |-> 0, last |-> NoBody,
   pending |-> NoChunk, quarantine |-> "none", recovery |-> FALSE]

Steps == {"idle", "stat", "boundary", "read", "save", "send", "wait"}

Pending(st) == IF st = NoState THEN NoChunk ELSE st.pending

Quarantined(st) == st # NoState /\ st.quarantine # "none"

NoInfo == [ino |-> CHOOSE i \in Inodes : TRUE, size |-> 0]

(* Mutant of EndSync.                                                       *)
EndSyncKeepingCall ==
  /\ pc' = "idle" /\ after' = "idle"
  /\ info' = NoInfo /\ count' = 0 /\ recovered' = FALSE /\ up' = up

(* The locals of a sync are gone when it ends.                              *)
EndSync ==
  /\ pc' = "idle" /\ after' = "idle"
  /\ info' = NoInfo /\ count' = 0 /\ recovered' = FALSE /\ up' = NoCall

(* stateStore.save: the entry in memory changes at once, the disk in a step *)
(* of its own, and the sync goes on from there.                             *)
SaveThen(st, next) ==
  /\ mem' = st
  /\ pc' = "save"
  /\ after' = next

Init ==
  /\ file \in [ino : Inodes, gen : {1}, lines : {<<>>}]
  /\ mem = NoState /\ disk = NoState
  /\ pc = "idle" /\ after = "idle"
  /\ info = NoInfo
  /\ count = 0
  /\ recovered = FALSE
  /\ up = NoCall
  /\ nextEpoch = 1
  /\ unsaved = FALSE
  /\ Archive!Init
  /\ sent = {} /\ spooled = {}
  /\ raced = FALSE /\ lost = FALSE /\ wiped = FALSE

-----------------------------------------------------------------------------
(* The agent that owns the file.  A line is there once its newline is.      *)
BetweenStatAndRead == pc \in {"boundary", "read"} \/ (pc = "save" /\ after = "read")

AppendLine ==
  /\ Len(file.lines) < MaxLines
  /\ file' = [file EXCEPT !.lines = Append(@, <<file.gen, Len(@) + 1>>)]
  /\ UNCHANGED <<mem, disk, syncVars, nextEpoch, unsaved, archiveVars, history>>

(* A rotation puts another file at the path, a rewrite other bytes into the *)
(* same file; both may be shorter or longer than what was there.            *)
Replace ==
  /\ file.gen + 1 \in Generations
  /\ \E ino \in Inodes, n \in 0 .. MaxLines :
       file' = [ino |-> ino, gen |-> file.gen + 1,
                lines |-> [i \in 1 .. n |-> <<file.gen + 1, i>>]]
  /\ raced' = (raced \/ BetweenStatAndRead)
  /\ UNCHANGED <<mem, disk, syncVars, nextEpoch, unsaved, archiveVars,
                 sent, spooled, lost, wiped>>

-----------------------------------------------------------------------------
(* Mutant of SyncStart.                                                     *)
SyncStartWithStat ==
  /\ pc = "idle"
  /\ ~ (Pending(mem) # NoChunk /\ Quarantined(mem))
  /\ pc' = "stat"
  /\ UNCHANGED <<file, mem, disk, after, info, count, recovered, up, nextEpoch,
                 unsaved, archiveVars, history>>

(* syncSession, one at a time per session.  A pending chunk goes first; a   *)
(* quarantined one blocks the session.                                      *)
SyncStart ==
  /\ pc = "idle"
  /\ ~ (Pending(mem) # NoChunk /\ Quarantined(mem))
  /\ pc' = IF Pending(mem) # NoChunk THEN "send" ELSE "stat"
  /\ UNCHANGED <<file, mem, disk, after, info, count, recovered, up, nextEpoch,
                 unsaved, archiveVars, history>>

(* Mutant of BeginEpoch.                                                    *)
BeginEpochReusingId(seen) ==
  /\ SaveThen(Fresh(1, seen.ino), "read")
  /\ UNCHANGED nextEpoch

BeginEpoch(seen) ==
  /\ nextEpoch \in Epochs
  /\ SaveThen(Fresh(nextEpoch, seen.ino), "read")
  /\ nextEpoch' = nextEpoch + 1

(* ensureCurrentEpoch, up to the checks that need only stat.                *)
Stat ==
  LET seen == [ino |-> file.ino, size |-> Len(file.lines)]
      fits == mem # NoState /\ mem.ino = seen.ino /\ mem.cursor <= seen.size
  IN /\ pc = "stat"
     /\ info' = seen
     /\ \/ /\ ~ fits
           /\ BeginEpoch(seen)
        \/ /\ fits
           /\ pc' = "boundary"
           /\ UNCHANGED <<mem, after, nextEpoch>>
     /\ UNCHANGED <<file, disk, count, recovered, up, unsaved, archiveVars, history>>

(* boundaryMatches: the bytes before the cursor are still the last ones     *)
(* that were acknowledged.                                                  *)
BoundaryMatches ==
  IF mem.cursor = 0 THEN TRUE
  ELSE mem.cursor <= Len(file.lines) /\ file.lines[mem.cursor] = Last(mem.last)

CheckBoundary ==
  /\ pc = "boundary"
  /\ \/ /\ ~ BoundaryMatches
        /\ BeginEpoch(info)
        /\ UNCHANGED <<info, count, recovered, up>>
     \/ /\ BoundaryMatches /\ Quarantined(mem)
        /\ EndSync
        /\ UNCHANGED <<mem, nextEpoch>>
     \/ /\ BoundaryMatches /\ ~ Quarantined(mem)
        /\ pc' = "read"
        /\ UNCHANGED <<mem, after, info, count, recovered, up, nextEpoch>>
  /\ UNCHANGED <<file, disk, unsaved, archiveVars, history>>

NewPending(body) ==
  [epoch |-> mem.epoch, start |-> mem.cursor, end |-> mem.cursor + Len(body),
   body |-> body, prev |-> mem.last]

(* Mutant of Spool.                                                         *)
SpoolInMemory(ch) ==
  /\ mem' = [mem EXCEPT !.pending = ch]
  /\ pc' = "send"
  /\ after' = "idle"

(* The chunk is saved before it is uploaded for the first time.             *)
Spool(ch) == SaveThen([mem EXCEPT !.pending = ch], "send")

(* readCompleteChunk and makePending.  The chunk is the lines before the    *)
(* first oversized one.                                                     *)
Fitting(part, k) ==
  /\ \A i \in 1 .. k : part[i] \notin Oversized
  /\ k < Len(part) => part[k + 1] \in Oversized

Read ==
  LET upto == IF mem.cursor + ChunkLines < info.size
              THEN mem.cursor + ChunkLines ELSE info.size
      part == SubSeq(file.lines, mem.cursor + 1, upto)
  IN /\ pc = "read"
     /\ \/ /\ mem.cursor >= info.size \/ Len(file.lines) < upto
           /\ EndSync
           /\ UNCHANGED mem
        \/ /\ mem.cursor < info.size /\ Len(file.lines) >= upto
           /\ info' = NoInfo
           /\ UNCHANGED <<count, recovered, up>>
           /\ \/ /\ part[1] \in Oversized
                 /\ SaveThen([mem EXCEPT !.quarantine = "tooLarge"], "idle")
              \/ \E k \in 1 .. Len(part) :
                   Fitting(part, k) /\ Spool(NewPending(SubSeq(part, 1, k)))
     /\ UNCHANGED <<file, disk, nextEpoch, unsaved, archiveVars, history>>

-----------------------------------------------------------------------------
(* The state store's write to disk.  When it fails the sync throws; what it *)
(* could not write stays in memory.                                         *)
Save ==
  /\ pc = "save"
  /\ disk' = mem
  /\ unsaved' = FALSE
  /\ spooled' = spooled \union ({mem.pending} \ {NoChunk})
  /\ IF after = "idle" THEN EndSync
     ELSE pc' = after /\ after' = "idle" /\ UNCHANGED <<info, count, recovered, up>>
  /\ UNCHANGED <<file, mem, nextEpoch, archiveVars, sent, raced, lost, wiped>>

SaveFails ==
  /\ pc = "save"
  /\ unsaved' = TRUE
  /\ EndSync
  /\ UNCHANGED <<file, mem, disk, nextEpoch, archiveVars, history>>

(* One file holds every session's state: a save of another session writes   *)
(* this one's too.                                                          *)
OtherSessionSaves ==
  /\ pc = "idle" /\ unsaved
  /\ disk' = mem
  /\ unsaved' = FALSE
  /\ spooled' = spooled \union ({Pending(mem)} \ {NoChunk})
  /\ UNCHANGED <<file, mem, syncVars, nextEpoch, archiveVars, sent, raced, lost, wiped>>

-----------------------------------------------------------------------------
(* tryPending, up to the request.                                           *)
Send ==
  /\ pc = "send"
  /\ \E r \in Calls : Archive!Send(r, mem.pending) /\ up' = r
  /\ sent' = sent \union {mem.pending}
  /\ pc' = "wait"
  /\ UNCHANGED <<file, mem, disk, after, info, count, recovered, nextEpoch, unsaved,
                 spooled, raced, lost, wiped>>

Answered(results) ==
  /\ pc = "wait"
  /\ call[up].st = "answered"
  /\ call[up].res \in results
  /\ Archive!Consume(up)

(* Mutant of Acknowledged.                                                  *)
AcknowledgedKeepingPending ==
  /\ Answered({"ack"})
  /\ SaveThen([mem EXCEPT !.cursor = mem.pending.end, !.last = mem.pending.body,
                          !.recovery = FALSE], "idle")
  /\ count' = count + 1
  /\ up' = NoCall
  /\ UNCHANGED <<file, disk, info, recovered, nextEpoch, unsaved, history>>

Acknowledged ==
  /\ Answered({"ack"})
  /\ SaveThen([mem EXCEPT !.cursor = mem.pending.end, !.last = mem.pending.body,
                          !.pending = NoChunk, !.recovery = FALSE],
              IF count + 1 < MaxChunksPerSync THEN "stat" ELSE "idle")
  /\ count' = count + 1
  /\ up' = NoCall
  /\ UNCHANGED <<file, disk, info, recovered, nextEpoch, unsaved, history>>

(* recoverRemoteConflict.  Only a chunk from offset zero can be replayed in *)
(* a new epoch: the bytes before any other one are not on disk any more.    *)
Replayable(ch) == ch.start = 0 /\ ch.prev = NoBody

RecoverConflict ==
  /\ Answered({"cursorMismatch", "chainMismatch"})
  /\ \/ /\ recovered \/ mem.recovery
        /\ SaveThen([mem EXCEPT !.quarantine = "remoteConflict"], "idle")
        /\ UNCHANGED <<recovered, nextEpoch>>
     \/ /\ ~ recovered /\ ~ mem.recovery
        /\ ~ Replayable(mem.pending)
        /\ SaveThen([mem EXCEPT !.quarantine = "prefixNotSpooled"], "idle")
        /\ UNCHANGED <<recovered, nextEpoch>>
     \/ /\ ~ recovered /\ ~ mem.recovery
        /\ Replayable(mem.pending) /\ nextEpoch \in Epochs
        /\ SaveThen([Fresh(nextEpoch, mem.ino) EXCEPT
                       !.pending = [mem.pending EXCEPT !.epoch = nextEpoch],
                       !.recovery = TRUE],
                    "send")
        /\ nextEpoch' = nextEpoch + 1
        /\ recovered' = TRUE
  /\ up' = NoCall
  /\ UNCHANGED <<file, disk, info, count, unsaved, history>>

(* Any other failure of the upload ends the sync; the chunk stays pending.  *)
UploadFails ==
  /\ Answered({"error", "epochConflict"})
  /\ EndSync
  /\ UNCHANGED <<file, mem, disk, nextEpoch, unsaved, history>>

(* The request times out or the connection goes away: the commit may still  *)
(* be under way, and its answer finds nobody.                               *)
GiveUp ==
  /\ pc = "wait"
  /\ EndSync
  /\ UNCHANGED <<file, mem, disk, nextEpoch, unsaved, archiveVars, history>>

(* stat or a read throws.                                                   *)
SourceFails ==
  /\ pc \in {"stat", "boundary", "read"}
  /\ EndSync
  /\ UNCHANGED <<file, mem, disk, nextEpoch, unsaved, archiveVars, history>>

(* The connector dies and starts again from the disk.                       *)
Crash ==
  /\ mem' = disk
  /\ EndSync
  /\ unsaved' = FALSE
  /\ lost' = (lost \/ (unsaved /\ mem # disk))
  /\ UNCHANGED <<file, disk, nextEpoch, archiveVars, sent, spooled, raced, wiped>>

-----------------------------------------------------------------------------
(* The archive at work.                                                     *)
ArchiveServes ==
  /\ \/ \E r \in Calls :
          \/ Archive!Commit(r)
          \/ \E res \in Archive!Results \ {"error"} : Archive!Answer(r, res)
          \/ r # up /\ Archive!Consume(r)
     \/ \E ch \in limbo : Archive!CommitLate(ch) \/ Archive!Fizzle(ch)
  /\ UNCHANGED <<file, mem, disk, syncVars, nextEpoch, unsaved, history>>

ArchiveFails ==
  /\ \/ \E r \in Calls : Archive!Answer(r, "error")
     \/ \E rs \in SUBSET Calls : rs # {} /\ Archive!Drop(rs)
  /\ UNCHANGED <<file, mem, disk, syncVars, nextEpoch, unsaved, history>>

(* The archive's namespace starts over: another bucket, a new machine key.  *)
ArchiveWiped ==
  /\ ~ wiped
  /\ log' = [e \in Epochs |-> <<>>]
  /\ limbo' = {}
  /\ wiped' = TRUE
  /\ UNCHANGED <<file, mem, disk, syncVars, nextEpoch, unsaved, call, acked,
                 sent, spooled, raced, lost>>

Sync ==
  \/ SyncStart
  \/ Stat
  \/ CheckBoundary
  \/ Read
  \/ Save
  \/ Send
  \/ Acknowledged
  \/ RecoverConflict
  \/ UploadFails

Fault ==
  \/ SaveFails
  \/ GiveUp
  \/ SourceFails
  \/ Crash
  \/ ArchiveFails

Next ==
  \/ Sync
  \/ Fault
  \/ AppendLine
  \/ Replace
  \/ OtherSessionSaves
  \/ ArchiveServes
  \/ ArchiveWiped

Spec == Init /\ [][Next]_vars

(* The publisher's timer starts a sync again and again, and a sync that can *)
(* go on does; a request ends, at the latest with its timeout; a live       *)
(* archive works through its calls.                                         *)
Fairness ==
  /\ WF_vars(Sync)
  /\ WF_vars(GiveUp /\ call[up] = Archive!Idle)
  /\ \A r \in Calls :
       WF_vars(/\ \/ Archive!Commit(r)
                  \/ \E res \in Archive!Results \ {"error"} : Archive!Answer(r, res)
                  \/ r # up /\ Archive!Consume(r)
               /\ UNCHANGED <<file, mem, disk, syncVars, nextEpoch, unsaved, history>>)

-----------------------------------------------------------------------------
TypeOK ==
  /\ file.ino \in Inodes /\ file.gen \in Generations /\ file.lines \in Seq(Lines)
  /\ mem \in States \union {NoState}
  /\ disk \in States \union {NoState}
  /\ pc \in Steps /\ after \in Steps
  /\ pc \in {"send", "wait"} => Pending(mem) # NoChunk
  /\ (pc = "wait") = (up # NoCall)
  /\ info \in [ino : Inodes, size : Nat]
  /\ count \in 0 .. MaxChunksPerSync
  /\ {recovered, unsaved, raced, lost, wiped} \subseteq BOOLEAN
  /\ nextEpoch \in Nat
  /\ \A e \in Epochs : log[e] \in Seq(Chunks)
  /\ \A r \in Calls : call[r].st # "idle" => call[r].chunk \in Chunks

(* transcript-replicator.mjs: the exact pending bytes are saved before the  *)
(* first attempt, so every upload of a range of an epoch carries the same   *)
(* chunk, whatever crashes and file changes come between.                   *)
RetriesAreIdentical ==
  \A a, b \in sent : a.epoch = b.epoch /\ a.start = b.start => a = b

(* ... which holds as long as no crash loses a state whose save failed.     *)
RetriesAreIdenticalOnceSaved == ~ lost => RetriesAreIdentical

(* docs/session-transcript-archive.md: each continuous generation of the    *)
(* file has an epoch of its own.                                            *)
EpochHoldsOneGeneration ==
  \A e \in Epochs : \A i, j \in DOMAIN log[e] :
    \A x \in ToSet(log[e][i].body), y \in ToSet(log[e][j].body) : x[1] = y[1]

(* ... which holds as long as the file is not replaced between the stat and *)
(* the read of one sync.                                                    *)
EpochHoldsOneGenerationUnraced == ~ raced => EpochHoldsOneGeneration

(* What is uploaded is sound: a range is always offered with the same       *)
(* bytes, and an epoch with the lines of one file.                          *)
UploadsAreSound == RetriesAreIdenticalOnceSaved /\ EpochHoldsOneGenerationUnraced

(* A chunk that was on disk as pending stays on disk until the archive has  *)
(* acknowledged its bytes: not the crash between ACK and save, nor the new  *)
(* epoch of a recovery, nor a save of another session drops it.             *)
SpoolNeverLost ==
  \A ch \in spooled :
    \/ Pending(disk) # NoChunk /\ Pending(disk).body = ch.body
    \/ \E a \in acked : a.start = ch.start /\ a.body = ch.body

(* Unless a state was lost or the archive emptied, the archive is level     *)
(* with the state in memory and, when no save is overdue, the one on disk,  *)
(* or ahead by the very chunk that is pending there.                        *)
ArchiveLevelWith(st) ==
  LET l == log[st.epoch]
  IN \/ Archive!Offset(l) = st.cursor /\ Archive!LastBody(l) = st.last
     \/ /\ st.pending # NoChunk
        /\ l # <<>> /\ Last(l) = st.pending
ArchiveLevelWithState ==
  ~ lost /\ ~ wiped =>
    /\ mem # NoState => ArchiveLevelWith(mem)
    /\ disk # NoState /\ ~ unsaved => ArchiveLevelWith(disk)

(* No chunk is refused, and none quarantined, over a conflict unless the    *)
(* archive was emptied or a state lost: late, duplicate and abandoned       *)
(* uploads of the connector do not collide with each other.                 *)
NoSpuriousConflict ==
  ~ lost /\ ~ wiped =>
    /\ \A r \in Calls : call[r].st = "answered" => call[r].res \in {"ack", "error"}
    /\ \A st \in {mem, disk} \ {NoState} : st.quarantine \in {"none", "tooLarge"}

(* Through crashes, lost answers and recoveries no line is skipped and none *)
(* is refused: the spool is kept until it is acknowledged, what the state   *)
(* says is acknowledged is in the archive, and the two never conflict.      *)
NothingIsSkipped == SpoolNeverLost /\ ArchiveLevelWithState /\ NoSpuriousConflict

(* What is on disk only moves forward, from epoch to epoch and from line to *)
(* line within one, and a quarantine is lifted only by a new epoch.         *)
DurableStateMovesForward ==
  [][disk # NoState =>
       \/ disk'.epoch > disk.epoch
       \/ /\ disk'.epoch = disk.epoch
          /\ disk'.cursor >= disk.cursor
          /\ Quarantined(disk) => Quarantined(disk')]_disk

(* Once file and faults are quiet, every line of the file is acknowledged,  *)
(* or the session is quarantined.                                           *)
FileArchived ==
  \A i \in DOMAIN file.lines : \E ch \in acked : file.lines[i] \in ToSet(ch.body)
FileIsReplicated ==
  <>[](lost \/ raced \/ Quarantined(mem) \/ FileArchived)
=============================================================================
