--------------------- MODULE TranscriptReplicatorProofs ---------------------
(***************************************************************************)
(* For any files, lines, chunk sizes and uploads: what the replicator      *)
(* uploads is sound, nothing it read is skipped, and what it wrote to disk *)
(* only moves forward.                                                     *)
(*                                                                         *)
(* A chunk is identified by its epoch and its start.  The states in memory *)
(* and on disk are each at most one chunk away from the archive, and that  *)
(* chunk is the pending one: so whatever the archive makes of old, late or *)
(* repeated uploads, it has room for exactly this chunk, or has it.        *)
(***************************************************************************)
EXTENDS TranscriptReplicator, SequenceTheorems, FiniteSetTheorems, TLAPS

FileIsNumbered ==
  /\ file \in [ino : Inodes, gen : Generations, lines : Seq(Lines)]
  /\ \A i \in 1 .. Len(file.lines) : file.lines[i] = <<file.gen, i>>

(* The pending chunk of a state begins where the state ends.                *)
Ready(st) ==
  st.pending # NoChunk =>
    /\ st.pending \in Offered /\ st.pending.epoch = st.epoch
    /\ st.pending.start = st.cursor /\ st.pending.prev = st.last

Sane(st) ==
  st # NoState =>
    /\ st \in States /\ st.epoch < nextEpoch
    /\ (st.cursor = 0) = (st.last = NoBody)
    /\ Ready(st)

(* Where a sync stands.                                                     *)
Goes(p) == pc = p \/ (pc = "save" /\ after = p)

SyncIsSane ==
  /\ pc \in Steps /\ after \in {"idle", "stat", "read", "send"}
  /\ (pc = "wait") = (up # NoCall)
  /\ (Goes("stat") \/ pc = "boundary" \/ Goes("read")) => Pending(mem) = NoChunk
  /\ (Goes("send") \/ pc = "wait") => Pending(mem) # NoChunk
  /\ pc \in {"boundary", "read", "save"} => mem # NoState
  /\ info \in [ino : Inodes, size : Nat]
  /\ count \in 0 .. MaxChunksPerSync
  /\ (pc = "save" /\ after = "idle") \/ count < MaxChunksPerSync
  /\ recovered \in BOOLEAN
  /\ pc = "save" \/ unsaved \/ disk = mem

(* What the archive has heard of was uploaded.                              *)
Heard(c) ==
  \/ c = Archive!Idle
  \/ \E ch \in sent : c = Archive!Sent(ch)
  \/ \E ch \in sent, res \in Archive!Results :
       /\ c = Archive!Answered(ch, res)
       /\ res = "ack" => ch \in acked

LogIsOf(e, l) ==
  /\ l \in Seq(Offered)
  /\ \A i \in 1 .. Len(l) : l[i] \in sent /\ l[i].epoch = e /\ l[i].end <= Archive!Offset(l)

ArchiveIsSane ==
  /\ sent \subseteq Offered /\ \A ch \in sent : ch.epoch < nextEpoch
  /\ limbo \subseteq sent /\ acked \subseteq sent
  /\ log \in [Epochs -> Seq(Offered)] /\ \A e \in Epochs : LogIsOf(e, log[e])
  /\ DOMAIN call = Calls /\ \A r \in Calls : Heard(call[r])
  /\ up # NoCall => up \in Calls /\ (call[up] = Archive!Idle \/ call[up].chunk = mem.pending)
  /\ ~ wiped => \A ch \in acked : Archive!Contains(log[ch.epoch], ch)

(* The lines of a chunk, and those it follows, are of one generation.       *)
OneGeneration(b, c) == \A x \in ToSet(b), y \in ToSet(c) : x[1] = y[1]
Pure(ch) == OneGeneration(ch.body, ch.body) /\ OneGeneration(ch.body, ch.prev)
PureState(st) ==
  st # NoState => OneGeneration(st.last, st.last) /\ (st.pending # NoChunk => Pure(st.pending))

GenerationsApart ==
  ~ raced =>
    /\ \A ch \in sent : Pure(ch)
    /\ PureState(mem) /\ PureState(disk)
    /\ pc = "read" => BoundaryMatches
    /\ pc = "save" /\ after = "read" => mem.cursor = 0
    /\ EpochHoldsOneGeneration

(* What was uploaded in the epoch of a state is behind its cursor, or is    *)
(* the chunk that is pending there.                                         *)
Behind(st) ==
  st # NoState =>
    \A ch \in sent : ch.epoch = st.epoch => ch.start < st.cursor \/ ch = st.pending

SavesAreHeld == ~ lost => RetriesAreIdentical /\ Behind(mem) /\ (unsaved \/ Behind(disk))

(* The archive has a chunk, or has room for it.                             *)
Placed(ch) ==
  LET l == log[ch.epoch]
  IN Archive!Contains(l, ch) \/ Archive!Follows(ch, l)

NothingCollides ==
  ~ lost /\ ~ wiped =>
    /\ \A ch \in sent : Placed(ch)
    /\ ArchiveLevelWithState /\ NoSpuriousConflict

Covered(st, ch) ==
  \/ (Pending(st) # NoChunk /\ Pending(st).body = ch.body /\ Pending(st).start = ch.start)
  \/ \E a \in acked : a.start = ch.start /\ a.body = ch.body

SpoolIsCovered == \A ch \in spooled : Covered(mem, ch) /\ Covered(disk, ch)

(* The state in memory is never behind the one on disk.                     *)
Ahead(d, m) ==
  d # NoState =>
    /\ m # NoState
    /\ \/ m.epoch > d.epoch
       \/ /\ m.epoch = d.epoch /\ m.cursor >= d.cursor
          /\ Quarantined(d) => Quarantined(m)

ReplicaInv ==
  /\ FileIsNumbered /\ SyncIsSane /\ Sane(mem) /\ Sane(disk) /\ nextEpoch \in Nat \ {0}
  /\ ArchiveIsSane /\ GenerationsApart /\ SavesAreHeld /\ NothingCollides
  /\ SpoolIsCovered /\ Ahead(disk, mem)
  /\ {unsaved, raced, lost, wiped} \subseteq BOOLEAN

-----------------------------------------------------------------------------
(* Chunks and logs.                                                         *)
LEMMA OfferedFields ==
  ASSUME NEW ch \in Offered
  PROVE  /\ ch \in Chunks /\ ch # NoChunk /\ ch.epoch \in Epochs
         /\ ch.start \in Nat /\ ch.end \in Nat /\ ch.start < ch.end /\ ch.end # 0
         /\ ch.body \in Seq(Lines) /\ ch.body # <<>> /\ ch.body # NoBody
         /\ ch.body \in Bodies /\ ch.prev \in Bodies \union {NoBody}
         /\ ch.prev \in Seq(Lines)
<1>1. ch \in Chunks /\ ch.start < ch.end /\ ch # NoChunk
  BY ReplicatorAssumption DEF Offered
<1>2. /\ ch.epoch \in Epochs /\ ch.start \in Nat /\ ch.end \in Nat
      /\ ch.body \in Bodies /\ ch.prev \in Bodies \union {NoBody}
  BY <1>1 DEF Chunks
<1>3. \A b \in Bodies : b \in Seq(Lines) /\ b # <<>>
  BY DEF Bodies
<1>4. NoBody = <<>> /\ NoBody \in Seq(Lines)
  BY EmptySeq DEF NoBody
<1>5. ch.end # 0
  BY <1>1, <1>2
<1>6. ch.body \in Seq(Lines) /\ ch.body # <<>> /\ ch.body # NoBody
  BY <1>2, <1>3, <1>4
<1>7. ch.prev \in Seq(Lines)
  BY <1>2, <1>3, <1>4
<1> QED
  BY <1>1, <1>2, <1>5, <1>6, <1>7

Grown(l, ch, k) ==
  /\ k \in Seq(Offered) /\ Len(k) = Len(l) + 1 /\ Len(l) \in Nat
  /\ \A i \in 1 .. Len(l) : k[i] = l[i]
  /\ k[Len(k)] = ch /\ k # <<>>
  /\ Archive!Offset(k) = ch.end /\ Archive!LastBody(k) = ch.body
  /\ Archive!Contains(k, ch)
  /\ \A x : Archive!Contains(l, x) => Archive!Contains(k, x)

LEMMA LogAppended ==
  ASSUME NEW l \in Seq(Offered), NEW ch \in Offered
  PROVE  Grown(l, ch, Append(l, ch))
<1>0. PICK k : k = Append(l, ch)
  OBVIOUS
<1>1. /\ k \in Seq(Offered) /\ Len(k) = Len(l) + 1 /\ Len(l) \in Nat
      /\ \A i \in 1 .. Len(l) : k[i] = l[i]
      /\ k[Len(k)] = ch /\ k # <<>>
      /\ DOMAIN k = 1 .. Len(k) /\ DOMAIN l = 1 .. Len(l)
  BY <1>0
<1>2. Archive!Offset(k) = ch.end /\ Archive!LastBody(k) = ch.body
  BY <1>1 DEF Archive!Offset, Archive!LastBody
<1>3. Archive!Contains(k, ch)
  BY <1>1 DEF Archive!Contains
<1>4. \A x : Archive!Contains(l, x) => Archive!Contains(k, x)
  BY <1>1 DEF Archive!Contains
<1>5. Grown(l, ch, k)
  BY <1>1, <1>2, <1>3, <1>4 DEF Grown
<1> QED
  BY <1>0, <1>5

(* What is in a log ends no later than the log.                             *)
LEMMA LogFields ==
  ASSUME NEW e, NEW l, LogIsOf(e, l)
  PROVE  /\ l \in Seq(Offered) /\ Archive!Offset(l) \in Nat
         /\ Archive!LastBody(l) \in Seq(Lines)
         /\ \A x : Archive!Contains(l, x) =>
              x \in sent /\ x \in Offered /\ x.epoch = e /\ x.end <= Archive!Offset(l)
              /\ l # <<>>
         /\ l # <<>> => /\ Last(l) = l[Len(l)] /\ Archive!Contains(l, Last(l))
                        /\ Archive!Offset(l) = Last(l).end
                        /\ Archive!LastBody(l) = Last(l).body
<1>1. l \in Seq(Offered) /\ Len(l) \in Nat /\ DOMAIN l = 1 .. Len(l)
      /\ (l # <<>> => Len(l) \in 1 .. Len(l) /\ l[Len(l)] \in Offered)
      /\ \A i \in 1 .. Len(l) : l[i] \in Offered
  BY DEF LogIsOf
<1>2. Archive!Offset(l) \in Nat /\ Archive!LastBody(l) \in Seq(Lines)
  <2>1. CASE l = <<>>
    BY <2>1 DEF Archive!Offset, Archive!LastBody, NoBody
  <2>2. CASE l # <<>>
    BY <1>1, <2>2, OfferedFields DEF Archive!Offset, Archive!LastBody
  <2> QED
    BY <2>1, <2>2
<1>3. \A x : Archive!Contains(l, x) =>
        x \in sent /\ x \in Offered /\ x.epoch = e /\ x.end <= Archive!Offset(l) /\ l # <<>>
  BY <1>1 DEF Archive!Contains, LogIsOf
<1>4. ASSUME l # <<>>
      PROVE  /\ Last(l) = l[Len(l)] /\ Archive!Contains(l, Last(l))
             /\ Archive!Offset(l) = Last(l).end /\ Archive!LastBody(l) = Last(l).body
  BY <1>1, <1>4 DEF Last, Archive!Contains, Archive!Offset, Archive!LastBody
<1> QED
  BY <1>1, <1>2, <1>3, <1>4

(* The state that a log belongs to.                                         *)
LEMMA StateFields ==
  ASSUME NEW st, Sane(st), st # NoState
  PROVE  /\ st \in States /\ st.epoch \in Epochs /\ st.cursor \in Nat
         /\ st.last \in Seq(Lines) /\ st.last \in Bodies \union {NoBody}
         /\ st.ino \in Inodes /\ st.epoch < nextEpoch
         /\ st.pending \in Offered \union {NoChunk} /\ Pending(st) = st.pending
         /\ (st.cursor = 0) = (st.last = NoBody) /\ st.pending \in Chunks \union {NoChunk}
         /\ st.quarantine \in {"none", "tooLarge", "prefixNotSpooled", "remoteConflict"}
         /\ (st.pending # NoChunk => /\ st.pending.epoch = st.epoch /\ st.pending.start = st.cursor
                                   /\ st.pending.prev = st.last)
<1>1. st \in States /\ st.epoch < nextEpoch /\ (st.cursor = 0) = (st.last = NoBody) /\ Ready(st)
  BY Zenon DEF Sane
<1>2. /\ st.epoch \in Epochs /\ st.ino \in Inodes /\ st.cursor \in Nat
      /\ st.last \in Bodies \union {NoBody} /\ st.pending \in Chunks \union {NoChunk}
      /\ st.quarantine \in {"none", "tooLarge", "prefixNotSpooled", "remoteConflict"}
  BY <1>1 DEF States
<1>3. /\ st.pending \in Offered \union {NoChunk}
      /\ (st.pending # NoChunk => /\ st.pending.epoch = st.epoch /\ st.pending.start = st.cursor
                                /\ st.pending.prev = st.last)
  BY <1>1 DEF Ready
<1>4. st.last \in Seq(Lines)
  <2>1. NoBody \in Seq(Lines)
    BY EmptySeq DEF NoBody
  <2> QED
    BY <1>2, <2>1 DEF Bodies
<1>5. Pending(st) = st.pending
  BY DEF Pending
<1> QED
  BY <1>1, <1>2, <1>3, <1>4, <1>5

(* The lines that Read takes: complete lines of one generation.             *)
LEMMA ReadLines ==
  ASSUME FileIsNumbered, NEW c \in Nat, NEW upto \in Nat, c < upto, upto <= Len(file.lines),
         NEW part, part = SubSeq(file.lines, c + 1, upto),
         NEW k \in 1 .. Len(part), NEW body, body = SubSeq(part, 1, k)
  PROVE  /\ body \in Bodies /\ Len(body) \in Nat \ {0}
         /\ \A x \in ToSet(body) : x[1] = file.gen
<1>1. /\ file.lines \in Seq(Lines) /\ Len(file.lines) \in Nat
      /\ \A i \in 1 .. Len(file.lines) : file.lines[i] \in Lines /\ file.lines[i][1] = file.gen
  BY DEF FileIsNumbered
<1>2. \A i \in c + 1 .. upto : file.lines[i] \in Lines
  BY <1>1
<1>3. /\ part \in Seq(Lines) /\ Len(part) = upto - (c + 1) + 1
      /\ \A i \in 1 .. upto - (c + 1) + 1 : part[i] = file.lines[c + 1 + i - 1]
  BY <1>2, SubSeqProperties
<1>4. \A i \in 1 .. k : part[i] \in Lines /\ part[i][1] = file.gen
  <2>1. TAKE i \in 1 .. k
  <2>2. i \in 1 .. upto - (c + 1) + 1 /\ c + 1 + i - 1 = c + i /\ c + i \in 1 .. Len(file.lines)
    BY <1>1, <1>3
  <2>3. part[i] = file.lines[c + i]
    BY <1>3, <2>2
  <2> QED
    BY <1>1, <2>2, <2>3
<1>5. /\ body \in Seq(Lines) /\ Len(body) = k - 1 + 1
      /\ \A i \in 1 .. k - 1 + 1 : body[i] = part[1 + i - 1]
  BY <1>3, <1>4, SubSeqProperties
<1>6. /\ Len(body) = k /\ k \in Nat /\ k > 0
      /\ \A i \in 1 .. k : body[i] = part[i]
  BY <1>3, <1>5
<1>7. \A x \in ToSet(body) : x[1] = file.gen
  BY <1>4, <1>5, <1>6 DEF ToSet
<1>8. body \in Bodies /\ Len(body) \in Nat \ {0}
  <2>1. \A b \in Seq(Lines) : Len(b) \in Nat \ {0} => b \in Bodies
    BY DEF Bodies
  <2>2. Len(body) \in Nat \ {0}
    BY <1>6
  <2> QED
    BY <1>5, <2>1, <2>2
<1> QED
  BY <1>7, <1>8

-----------------------------------------------------------------------------
(* Steps that leave the states and the log alone.                           *)
LEMMA ArchiveKept ==
  ASSUME ArchiveIsSane, up' \in {up, NoCall},
         UNCHANGED <<mem, nextEpoch, log, call, acked, limbo, sent, wiped>>
  PROVE  ArchiveIsSane'
<1>1. \A c : Heard(c)' = Heard(c)
  BY Zenon DEF Heard
<1>2. \A e, l : LogIsOf(e, l)' = LogIsOf(e, l)
  BY Zenon DEF LogIsOf
<1> QED
  BY <1>1, <1>2 DEF ArchiveIsSane

LEMMA SyncHeld ==
  ASSUME ReplicaInv, SyncIsSane', ArchiveIsSane', acked \subseteq acked',
         ~ raced /\ pc' = "read" => pc = "read" \/ BoundaryMatches,
         pc' = "save" => pc = "save" /\ after' = after,
         ~ lost /\ ~ wiped =>
           \A r \in Calls : call'[r].st = "answered" => call'[r].res \in {"ack", "error"},
         unsaved' \in {unsaved, TRUE},
         UNCHANGED <<file, mem, disk, nextEpoch, log, sent, spooled, raced, lost, wiped>>
  PROVE  ReplicaInv'
<1>1. FileIsNumbered'
  BY DEF ReplicaInv, FileIsNumbered
<1>2. Sane(mem)' /\ Sane(disk)'
  BY Zenon DEF ReplicaInv, Sane, Ready
<1>3. GenerationsApart'
  <2>1. PureState(mem)' = PureState(mem) /\ PureState(disk)' = PureState(disk)
    BY Zenon DEF PureState
  <2>2. EpochHoldsOneGeneration' = EpochHoldsOneGeneration
    BY DEF EpochHoldsOneGeneration
  <2>3. BoundaryMatches' = BoundaryMatches
    BY Zenon DEF BoundaryMatches
  <2> QED
    BY <2>1, <2>2, <2>3 DEF ReplicaInv, GenerationsApart
<1>4. SavesAreHeld'
  BY Zenon DEF ReplicaInv, SavesAreHeld, RetriesAreIdentical, Behind
<1>5. NothingCollides'
  <2>1. \A ch : Placed(ch)' = Placed(ch)
    BY Zenon DEF Placed
  <2>2. ArchiveLevelWithState => ArchiveLevelWithState'
    <3>1. ArchiveLevelWith(mem)' = ArchiveLevelWith(mem)
      BY Zenon DEF ArchiveLevelWith
    <3>2. ArchiveLevelWith(disk)' = ArchiveLevelWith(disk)
      BY Zenon DEF ArchiveLevelWith
    <3> QED
      BY <3>1, <3>2 DEF ArchiveLevelWithState
  <2>3. NoSpuriousConflict'
    BY DEF ReplicaInv, NothingCollides, NoSpuriousConflict
  <2> QED
    BY <2>1, <2>2, <2>3 DEF ReplicaInv, NothingCollides
<1>6. SpoolIsCovered'
  BY DEF ReplicaInv, SpoolIsCovered, Covered, Pending
<1>7. Ahead(disk, mem)'
  BY Zenon DEF ReplicaInv, Ahead, Quarantined
<1> QED
  BY <1>1, <1>2, <1>3, <1>4, <1>5, <1>6, <1>7 DEF ReplicaInv

LEMMA QuietKeeps ==
  ASSUME ReplicaInv, SyncIsSane', up' \in {up, NoCall}, pc' # "save",
         ~ raced /\ pc' = "read" => BoundaryMatches,
         unsaved' \in {unsaved, TRUE},
         UNCHANGED <<file, mem, disk, nextEpoch, archiveVars, history>>
  PROVE  ReplicaInv'
<1>1. UNCHANGED <<file, mem, disk, nextEpoch, log, call, acked, limbo,
                  sent, spooled, raced, lost, wiped>>
  BY DEF archiveVars, history
<1>2. ArchiveIsSane'
  BY <1>1, ArchiveKept DEF ReplicaInv
<1>3. ~ lost /\ ~ wiped =>
        \A r \in Calls : call'[r].st = "answered" => call'[r].res \in {"ack", "error"}
  BY <1>1 DEF ReplicaInv, NothingCollides, NoSpuriousConflict
<1> QED
  BY <1>1, <1>2, <1>3, SyncHeld

LEMMA SyncStartKeeps == ReplicaInv /\ SyncStart => ReplicaInv'
<1> SUFFICES ASSUME ReplicaInv, SyncStart PROVE ReplicaInv'
  OBVIOUS
<1>1. /\ pc = "idle" /\ pc' = IF Pending(mem) # NoChunk THEN "send" ELSE "stat"
      /\ UNCHANGED <<file, mem, disk, after, info, count, recovered, up, nextEpoch,
                     unsaved, archiveVars, history>>
  BY DEF SyncStart
<1>2. Pending(mem)' = Pending(mem)
  BY <1>1, Zenon DEF Pending
<1>3. SyncIsSane'
  BY <1>1, <1>2 DEF ReplicaInv, SyncIsSane, Goes, Steps
<1> QED
  BY <1>1, <1>3, QuietKeeps

LEMMA EndIsSane ==
  ASSUME ReplicaInv, EndSync, unsaved' \/ disk' = mem'
  PROVE  SyncIsSane' /\ up' = NoCall /\ pc' = "idle"
<1>1. NoInfo \in [ino : Inodes, size : Nat]
  BY DEF ReplicaInv, FileIsNumbered, NoInfo
<1>2. 0 \in 0 .. MaxChunksPerSync /\ 0 < MaxChunksPerSync
  BY ReplicatorAssumption
<1> QED
  BY <1>1, <1>2 DEF SyncIsSane, EndSync, Goes, Steps

LEMMA GiveUpKeeps == ReplicaInv /\ (GiveUp \/ SourceFails) => ReplicaInv'
<1> SUFFICES ASSUME ReplicaInv, GiveUp \/ SourceFails PROVE ReplicaInv'
  OBVIOUS
<1>1. /\ pc # "save" /\ EndSync
      /\ UNCHANGED <<file, mem, disk, nextEpoch, unsaved, archiveVars, history>>
  BY DEF GiveUp, SourceFails
<1>2. unsaved' \/ disk' = mem'
  BY <1>1 DEF ReplicaInv, SyncIsSane
<1> QED
  BY <1>1, <1>2, EndIsSane, QuietKeeps

-----------------------------------------------------------------------------
(* A write to disk.                                                         *)
LEMMA WriteKeeps ==
  ASSUME ReplicaInv, SyncIsSane', up' \in {up, NoCall}, pc' # "save",
         ~ raced /\ pc' = "read" => BoundaryMatches,
         disk' = mem, unsaved' = FALSE,
         spooled' = spooled \union ({Pending(mem)} \ {NoChunk}),
         UNCHANGED <<file, mem, nextEpoch, archiveVars, sent, raced, lost, wiped>>
  PROVE  ReplicaInv'
<1>1. UNCHANGED <<file, mem, nextEpoch, log, call, acked, limbo, sent, raced, lost, wiped>>
  BY DEF archiveVars
<1>2. FileIsNumbered'
  BY DEF ReplicaInv, FileIsNumbered
<1>3. Sane(mem)' /\ Sane(disk)'
  <2>1. Sane(mem)'
    BY <1>1, Zenon DEF ReplicaInv, Sane, Ready
  <2>2. disk' = mem'
    BY <1>1
  <2> QED
    BY <2>1, <2>2, Zenon DEF Sane, Ready
<1>4. ArchiveIsSane'
  BY <1>1, ArchiveKept DEF ReplicaInv
<1>5. GenerationsApart'
  <2>1. PureState(mem)' = PureState(mem) /\ PureState(disk)' = PureState(mem)
    BY <1>1, Zenon DEF PureState
  <2>2. EpochHoldsOneGeneration' = EpochHoldsOneGeneration
    BY <1>1 DEF EpochHoldsOneGeneration
  <2>3. BoundaryMatches' = BoundaryMatches
    BY <1>1, Zenon DEF BoundaryMatches
  <2> QED
    BY <1>1, <2>1, <2>2, <2>3 DEF ReplicaInv, GenerationsApart
<1>6. SavesAreHeld'
  <2>1. Behind(mem)' = Behind(mem) /\ Behind(disk)' = Behind(mem)
    BY <1>1, Zenon DEF Behind
  <2>2. RetriesAreIdentical' = RetriesAreIdentical
    BY <1>1, Zenon DEF RetriesAreIdentical
  <2> QED
    BY <1>1, <2>1, <2>2 DEF ReplicaInv, SavesAreHeld
<1>7. NothingCollides'
  <2>1. \A ch : Placed(ch)' = Placed(ch)
    BY <1>1, Zenon DEF Placed
  <2>2. ArchiveLevelWith(mem)' = ArchiveLevelWith(mem) /\ ArchiveLevelWith(disk)' = ArchiveLevelWith(mem)
    BY <1>1, Zenon DEF ArchiveLevelWith
  <2>3. NoSpuriousConflict => NoSpuriousConflict'
    BY <1>1 DEF NoSpuriousConflict
  <2>4. ArchiveLevelWithState => ArchiveLevelWithState'
    BY <1>1, <2>2 DEF ArchiveLevelWithState
  <2> QED
    BY <1>1, <2>1, <2>3, <2>4 DEF ReplicaInv, NothingCollides
<1>8. SpoolIsCovered'
  <2>1. \A st, ch : Covered(st, ch)' = Covered(st, ch)
    BY <1>1, Zenon DEF Covered, Pending
  <2>2. \A ch \in spooled : Covered(mem, ch)
    BY DEF ReplicaInv, SpoolIsCovered
  <2>3. Pending(mem) # NoChunk => Covered(mem, Pending(mem))
    BY DEF Covered
  <2>4. \A ch \in spooled' : Covered(mem, ch)
    BY <2>2, <2>3
  <2> QED
    BY <1>1, <2>1, <2>4 DEF SpoolIsCovered
<1>9. Ahead(disk, mem)'
  <2>1. ASSUME mem # NoState PROVE mem.cursor >= mem.cursor
    BY <2>1, StateFields DEF ReplicaInv
  <2>2. disk' = mem /\ mem' = mem
    BY <1>1
  <2> QED
    BY <2>1, <2>2 DEF Ahead
<1> QED
  BY <1>1, <1>2, <1>3, <1>4, <1>5, <1>6, <1>7, <1>8, <1>9 DEF ReplicaInv

LEMMA SaveKeeps == ReplicaInv /\ Save => ReplicaInv'
<1> SUFFICES ASSUME ReplicaInv, Save PROVE ReplicaInv'
  OBVIOUS
<1>1. /\ pc = "save" /\ disk' = mem /\ unsaved' = FALSE
      /\ spooled' = spooled \union ({mem.pending} \ {NoChunk})
      /\ UNCHANGED <<file, mem, nextEpoch, archiveVars, sent, raced, lost, wiped>>
  BY DEF Save
<1>2. spooled' = spooled \union ({Pending(mem)} \ {NoChunk})
  BY <1>1 DEF ReplicaInv, SyncIsSane, Pending
<1>3. /\ SyncIsSane' /\ up' \in {up, NoCall} /\ pc' # "save"
      /\ (~ raced /\ pc' = "read" => BoundaryMatches)
  <2>1. CASE after = "idle"
    BY <1>1, <2>1, EndIsSane DEF Save
  <2>2. CASE after # "idle"
    <3>1. pc' = after /\ after' = "idle" /\ UNCHANGED <<info, count, recovered, up>>
      BY <2>2 DEF Save
    <3>2. Pending(mem)' = Pending(mem)
      BY <1>1, Zenon DEF Pending
    <3>3. disk' = mem'
      BY <1>1
    <3>4. SyncIsSane'
      BY <1>1, <2>2, <3>1, <3>2, <3>3 DEF ReplicaInv, SyncIsSane, Goes, Steps
    <3>5. ~ raced /\ pc' = "read" => BoundaryMatches
      BY <1>1, <3>1 DEF ReplicaInv, GenerationsApart, BoundaryMatches
    <3> QED
      BY <3>1, <3>4, <3>5, <2>2 DEF ReplicaInv, SyncIsSane
  <2> QED
    BY <2>1, <2>2
<1> QED
  BY <1>1, <1>2, <1>3, WriteKeeps

LEMMA SaveFailsKeeps == ReplicaInv /\ SaveFails => ReplicaInv'
<1> SUFFICES ASSUME ReplicaInv, SaveFails PROVE ReplicaInv'
  OBVIOUS
<1>1. /\ pc = "save" /\ unsaved' = TRUE /\ EndSync
      /\ UNCHANGED <<file, mem, disk, nextEpoch, archiveVars, history>>
  BY DEF SaveFails
<1> QED
  BY <1>1, EndIsSane, QuietKeeps

LEMMA OtherSessionSavesKeeps == ReplicaInv /\ OtherSessionSaves => ReplicaInv'
<1> SUFFICES ASSUME ReplicaInv, OtherSessionSaves PROVE ReplicaInv'
  OBVIOUS
<1>1. /\ pc = "idle" /\ disk' = mem /\ unsaved' = FALSE
      /\ spooled' = spooled \union ({Pending(mem)} \ {NoChunk})
      /\ UNCHANGED <<file, mem, nextEpoch, archiveVars, sent, raced, lost, wiped>>
      /\ UNCHANGED <<pc, after, info, count, recovered, up>>
  BY DEF OtherSessionSaves, syncVars
<1>2. Pending(mem)' = Pending(mem) /\ disk' = mem'
  BY <1>1, Zenon DEF Pending
<1>3. SyncIsSane'
  BY <1>1, <1>2 DEF ReplicaInv, SyncIsSane, Goes
<1> QED
  BY <1>1, <1>3, WriteKeeps

LEMMA CrashKeeps == ReplicaInv /\ Crash => ReplicaInv'
<1> SUFFICES ASSUME ReplicaInv, Crash PROVE ReplicaInv'
  OBVIOUS
<1>1. /\ mem' = disk /\ EndSync /\ unsaved' = FALSE
      /\ lost' = (lost \/ (unsaved /\ mem # disk))
      /\ UNCHANGED <<file, disk, nextEpoch, log, call, acked, limbo, sent, spooled, raced, wiped>>
  BY DEF Crash, archiveVars
<1>2. SyncIsSane' /\ up' = NoCall /\ pc' = "idle"
  BY <1>1, EndIsSane
<1>3. FileIsNumbered'
  BY <1>1 DEF ReplicaInv, FileIsNumbered
<1>4. Sane(mem)' /\ Sane(disk)'
  <2>1. Sane(disk)'
    BY <1>1, Zenon DEF ReplicaInv, Sane, Ready
  <2>2. disk' = mem'
    BY <1>1
  <2> QED
    BY <2>1, <2>2, Zenon DEF Sane, Ready
<1>5. ArchiveIsSane'
  <2>1. \A c : Heard(c)' = Heard(c)
    BY <1>1, Zenon DEF Heard
  <2>2. \A e, l : LogIsOf(e, l)' = LogIsOf(e, l)
    BY <1>1, Zenon DEF LogIsOf
  <2> QED
    BY <1>1, <1>2, <2>1, <2>2 DEF ReplicaInv, ArchiveIsSane
<1>6. GenerationsApart'
  <2>1. PureState(mem)' = PureState(disk) /\ PureState(disk)' = PureState(disk)
    BY <1>1, Zenon DEF PureState
  <2>2. EpochHoldsOneGeneration' = EpochHoldsOneGeneration
    BY <1>1 DEF EpochHoldsOneGeneration
  <2> QED
    BY <1>1, <1>2, <2>1, <2>2 DEF ReplicaInv, GenerationsApart
<1>7. ASSUME ~ lost' PROVE ~ lost /\ (mem = disk \/ ~ unsaved)
  BY <1>1, <1>7 DEF ReplicaInv
<1>8. SavesAreHeld'
  <2>1. Behind(mem)' = Behind(disk) /\ Behind(disk)' = Behind(disk)
    BY <1>1, Zenon DEF Behind
  <2>2. RetriesAreIdentical' = RetriesAreIdentical
    BY <1>1, Zenon DEF RetriesAreIdentical
  <2>3. ASSUME ~ lost' PROVE RetriesAreIdentical /\ Behind(disk)
    BY <1>7, <2>3 DEF ReplicaInv, SavesAreHeld
  <2> QED
    BY <1>1, <2>1, <2>2, <2>3 DEF SavesAreHeld
<1>9. NothingCollides'
  <2>1. \A ch : Placed(ch)' = Placed(ch)
    BY <1>1, Zenon DEF Placed
  <2>2. ArchiveLevelWith(mem)' = ArchiveLevelWith(disk) /\ ArchiveLevelWith(disk)' = ArchiveLevelWith(disk)
    BY <1>1, Zenon DEF ArchiveLevelWith
  <2> SUFFICES ASSUME ~ lost', ~ wiped'
               PROVE  (\A ch \in sent : Placed(ch))' /\ ArchiveLevelWithState' /\ NoSpuriousConflict'
    BY DEF NothingCollides
  <2>3. /\ \A ch \in sent : Placed(ch)
        /\ ArchiveLevelWithState /\ NoSpuriousConflict
    BY <1>1, <1>7 DEF ReplicaInv, NothingCollides
  <2>4. (\A ch \in sent : Placed(ch))'
    BY <1>1, <2>1, <2>3
  <2>5. ArchiveLevelWithState'
    BY <1>1, <1>7, <2>2, <2>3 DEF ArchiveLevelWithState
  <2>6. NoSpuriousConflict'
    BY <1>1, <1>7, <2>3 DEF NoSpuriousConflict
  <2> QED
    BY <2>4, <2>5, <2>6
<1>10. SpoolIsCovered'
  <2>1. \A st, ch : Covered(st, ch)' = Covered(st, ch)
    BY <1>1, Zenon DEF Covered, Pending
  <2> QED
    BY <1>1, <2>1 DEF ReplicaInv, SpoolIsCovered
<1>11. Ahead(disk, mem)'
  <2>1. ASSUME disk # NoState PROVE disk.cursor >= disk.cursor
    BY <2>1, StateFields DEF ReplicaInv
  <2>2. disk' = disk /\ mem' = disk
    BY <1>1
  <2> QED
    BY <2>1, <2>2 DEF Ahead
<1> QED
  BY <1>1, <1>2, <1>3, <1>4, <1>5, <1>6, <1>8, <1>9, <1>10, <1>11 DEF ReplicaInv

-----------------------------------------------------------------------------
(* Steps of the file's owner, and the archive that starts over.             *)
LEMMA FileKeeps ==
  ASSUME ReplicaInv, FileIsNumbered', raced' \in {raced, TRUE},
         ~ raced' /\ pc = "read" => BoundaryMatches',
         UNCHANGED <<mem, disk, syncVars, nextEpoch, unsaved, archiveVars,
                     sent, spooled, lost, wiped>>
  PROVE  ReplicaInv'
<1>1. UNCHANGED <<mem, disk, pc, after, info, count, recovered, up, nextEpoch, unsaved,
                  log, call, acked, limbo, sent, spooled, lost, wiped>>
  BY DEF syncVars, archiveVars
<1>2. Sane(mem)' /\ Sane(disk)'
  BY <1>1, Zenon DEF ReplicaInv, Sane, Ready
<1>3. SyncIsSane'
  <2>1. Pending(mem)' = Pending(mem)
    BY <1>1, Zenon DEF Pending
  <2> QED
    BY <1>1, <2>1 DEF ReplicaInv, SyncIsSane, Goes
<1>4. ArchiveIsSane'
  BY <1>1, ArchiveKept DEF ReplicaInv
<1>5. GenerationsApart'
  <2>1. PureState(mem)' = PureState(mem) /\ PureState(disk)' = PureState(disk)
    BY <1>1, Zenon DEF PureState
  <2>2. EpochHoldsOneGeneration' = EpochHoldsOneGeneration
    BY <1>1 DEF EpochHoldsOneGeneration
  <2> QED
    BY <1>1, <2>1, <2>2 DEF ReplicaInv, GenerationsApart
<1>6. SavesAreHeld'
  <2>1. Behind(mem)' = Behind(mem) /\ Behind(disk)' = Behind(disk)
    BY <1>1, Zenon DEF Behind
  <2>2. RetriesAreIdentical' = RetriesAreIdentical
    BY <1>1, Zenon DEF RetriesAreIdentical
  <2> QED
    BY <1>1, <2>1, <2>2 DEF ReplicaInv, SavesAreHeld
<1>7. NothingCollides'
  <2>1. \A ch : Placed(ch)' = Placed(ch)
    BY <1>1, Zenon DEF Placed
  <2>2. ArchiveLevelWith(mem)' = ArchiveLevelWith(mem) /\ ArchiveLevelWith(disk)' = ArchiveLevelWith(disk)
    BY <1>1, Zenon DEF ArchiveLevelWith
  <2>3. NoSpuriousConflict => NoSpuriousConflict'
    BY <1>1 DEF NoSpuriousConflict
  <2>4. ArchiveLevelWithState => ArchiveLevelWithState'
    BY <1>1, <2>2 DEF ArchiveLevelWithState
  <2> QED
    BY <1>1, <2>1, <2>3, <2>4 DEF ReplicaInv, NothingCollides
<1>8. SpoolIsCovered'
  <2>1. \A st, ch : Covered(st, ch)' = Covered(st, ch)
    BY <1>1, Zenon DEF Covered, Pending
  <2> QED
    BY <1>1, <2>1 DEF ReplicaInv, SpoolIsCovered
<1>9. Ahead(disk, mem)'
  BY <1>1, Zenon DEF ReplicaInv, Ahead, Quarantined
<1> QED
  BY <1>1, <1>2, <1>3, <1>4, <1>5, <1>6, <1>7, <1>8, <1>9 DEF ReplicaInv

LEMMA AppendLineKeeps == ReplicaInv /\ AppendLine => ReplicaInv'
<1> SUFFICES ASSUME ReplicaInv, AppendLine PROVE ReplicaInv'
  OBVIOUS
<1> DEFINE l == file.lines
           x == <<file.gen, Len(l) + 1>>
           g == Append(l, x)
<1>1. /\ Len(l) < MaxLines
      /\ file' = [file EXCEPT !.lines = g]
      /\ UNCHANGED <<mem, disk, syncVars, nextEpoch, unsaved, archiveVars,
                     sent, spooled, raced, lost, wiped>>
  BY DEF AppendLine, history
<1>2. /\ file.ino \in Inodes /\ file.gen \in Generations /\ l \in Seq(Lines)
      /\ file \in [ino : Inodes, gen : Generations, lines : Seq(Lines)]
      /\ \A i \in 1 .. Len(l) : l[i] = <<file.gen, i>>
  BY DEF ReplicaInv, FileIsNumbered
<1>3. x \in Lines /\ Len(l) \in Nat
  BY <1>1, <1>2, ReplicatorAssumption DEF Lines
<1>4. /\ g \in Seq(Lines) /\ Len(g) = Len(l) + 1 /\ g[Len(l) + 1] = x
      /\ \A i \in 1 .. Len(l) : g[i] = l[i]
  <2> HIDE DEF x
  <2> QED
    BY <1>2, <1>3
<1>5. \A i \in 1 .. Len(g) : g[i] = <<file.gen, i>>
  <2> HIDE DEF g
  <2> QED
    BY <1>2, <1>3, <1>4
<1> HIDE DEF g
<1>6. /\ file'.gen = file.gen /\ file'.lines = g
      /\ file' \in [ino : Inodes, gen : Generations, lines : Seq(Lines)]
  BY <1>1, <1>2, <1>4
<1>7. FileIsNumbered'
  <2>1. \A i \in 1 .. Len(file'.lines) : file'.lines[i] = <<file'.gen, i>>
    BY <1>5, <1>6
  <2> QED
    BY <1>6, <2>1 DEF FileIsNumbered
<1>8. ASSUME ~ raced, pc = "read" PROVE BoundaryMatches'
  <2>1. BoundaryMatches /\ mem # NoState
    BY <1>8 DEF ReplicaInv, GenerationsApart, SyncIsSane
  <2>2. mem.cursor \in Nat
    BY <2>1, StateFields DEF ReplicaInv
  <2>3. CASE mem.cursor = 0
    BY <1>1, <2>3 DEF BoundaryMatches
  <2>4. CASE mem.cursor # 0
    <3>1. mem.cursor \in 1 .. Len(l) /\ l[mem.cursor] = Last(mem.last)
      BY <1>3, <2>1, <2>2, <2>4 DEF BoundaryMatches
    <3>2. mem.cursor <= Len(g) /\ g[mem.cursor] = Last(mem.last)
      BY <1>3, <1>4, <3>1
    <3>3. mem' = mem
      BY <1>1
    <3> QED
      BY <1>6, <3>2, <3>3 DEF BoundaryMatches
  <2> QED
    BY <2>3, <2>4
<1> QED
  BY <1>1, <1>7, <1>8, FileKeeps DEF ReplicaInv

LEMMA ReplaceKeeps == ReplicaInv /\ Replace => ReplicaInv'
<1> SUFFICES ASSUME ReplicaInv, Replace PROVE ReplicaInv'
  OBVIOUS
<1>1. /\ file.gen + 1 \in Generations
      /\ raced' = (raced \/ BetweenStatAndRead)
      /\ UNCHANGED <<mem, disk, syncVars, nextEpoch, unsaved, archiveVars,
                     sent, spooled, lost, wiped>>
  BY DEF Replace
<1>2. PICK ino \in Inodes, n \in 0 .. MaxLines :
        file' = [ino |-> ino, gen |-> file.gen + 1,
                 lines |-> [i \in 1 .. n |-> <<file.gen + 1, i>>]]
  BY DEF Replace
<1>3. FileIsNumbered'
  <2> DEFINE h == file.gen + 1
             g == [i \in 1 .. n |-> <<h, i>>]
  <2> HIDE DEF h
  <2>1. n \in Nat /\ n <= MaxLines /\ MaxLines \in Nat
    BY ReplicatorAssumption
  <2>2. h \in Generations
    BY <1>1 DEF h
  <2>3. \A i \in 1 .. n : <<h, i>> \in Lines
    BY <2>1, <2>2 DEF Lines
  <2>4. g \in Seq(Lines) /\ Len(g) = n /\ \A i \in 1 .. n : g[i] = <<h, i>>
    BY <2>1, <2>3
  <2>5. file' = [ino |-> ino, gen |-> h, lines |-> g]
    BY <1>2 DEF h
  <2> HIDE DEF g
  <2>6. file'.gen = h /\ file'.lines = g /\ file' \in [ino : Inodes, gen : Generations, lines : Seq(Lines)]
    BY <2>2, <2>4, <2>5
  <2> QED
    BY <2>4, <2>6 DEF FileIsNumbered
<1>4. raced' \in {raced, TRUE} /\ ~ (~ raced' /\ pc = "read")
  BY <1>1 DEF BetweenStatAndRead, ReplicaInv
<1> QED
  BY <1>1, <1>3, <1>4, FileKeeps

LEMMA ArchiveWipedKeeps == ReplicaInv /\ ArchiveWiped => ReplicaInv'
<1> SUFFICES ASSUME ReplicaInv, ArchiveWiped PROVE ReplicaInv'
  OBVIOUS
<1>1. /\ log' = [e \in Epochs |-> <<>>] /\ limbo' = {} /\ wiped' = TRUE
      /\ UNCHANGED <<file, mem, disk, pc, after, info, count, recovered, up, nextEpoch, unsaved,
                     call, acked, sent, spooled, raced, lost>>
  BY DEF ArchiveWiped, syncVars
<1>2. FileIsNumbered'
  BY <1>1 DEF ReplicaInv, FileIsNumbered
<1>3. SyncIsSane'
  <2>1. Pending(mem)' = Pending(mem)
    BY <1>1, Zenon DEF Pending
  <2> QED
    BY <1>1, <2>1 DEF ReplicaInv, SyncIsSane, Goes
<1>4. Sane(mem)' /\ Sane(disk)'
  BY <1>1, Zenon DEF ReplicaInv, Sane, Ready
<1>5. ArchiveIsSane'
  <2>1. \A c : Heard(c)' = Heard(c)
    BY <1>1, Zenon DEF Heard
  <2>2. <<>> \in Seq(Offered)
    OBVIOUS
  <2>3. \A e \in Epochs : log'[e] = <<>>
    BY <1>1
  <2>4. \A e : LogIsOf(e, <<>>)'
    BY <2>2 DEF LogIsOf
  <2>5. \A e \in Epochs : LogIsOf(e, log[e])'
    BY <2>3, <2>4
  <2>6. log' \in [Epochs -> Seq(Offered)]
    BY <1>1, <2>2
  <2> QED
    BY <1>1, <2>1, <2>5, <2>6 DEF ReplicaInv, ArchiveIsSane
<1>6. GenerationsApart'
  <2>1. PureState(mem)' = PureState(mem) /\ PureState(disk)' = PureState(disk)
    BY <1>1, Zenon DEF PureState
  <2>2. EpochHoldsOneGeneration'
    BY <1>1 DEF EpochHoldsOneGeneration
  <2>3. BoundaryMatches' = BoundaryMatches
    BY <1>1, Zenon DEF BoundaryMatches
  <2> QED
    BY <1>1, <2>1, <2>2, <2>3 DEF ReplicaInv, GenerationsApart
<1>7. SavesAreHeld'
  BY <1>1, Zenon DEF ReplicaInv, SavesAreHeld, RetriesAreIdentical, Behind
<1>8. NothingCollides'
  BY <1>1 DEF NothingCollides
<1>9. SpoolIsCovered'
  <2>1. \A st, ch : Covered(st, ch)' = Covered(st, ch)
    BY <1>1, Zenon DEF Covered, Pending
  <2> QED
    BY <1>1, <2>1 DEF ReplicaInv, SpoolIsCovered
<1>10. Ahead(disk, mem)'
  BY <1>1, Zenon DEF ReplicaInv, Ahead, Quarantined
<1> QED
  BY <1>1, <1>2, <1>3, <1>4, <1>5, <1>6, <1>7, <1>8, <1>9, <1>10 DEF ReplicaInv

-----------------------------------------------------------------------------
(* The archive's answers.                                                   *)
LEMMA HeardOf ==
  ASSUME ReplicaInv, NEW r \in Calls, NEW st, call[r].st = st, st # "idle"
  PROVE  /\ call[r].chunk \in sent /\ call[r].chunk \in Offered
         /\ call[r].chunk.epoch \in Epochs
         /\ st = "sent" => call[r] = Archive!Sent(call[r].chunk)
         /\ st = "answered" =>
              /\ call[r].res \in Archive!Results
              /\ call[r].res = "ack" => call[r].chunk \in acked
<1>1. Heard(call[r]) /\ sent \subseteq Offered
  BY DEF ReplicaInv, ArchiveIsSane
<1>2. CASE call[r] = Archive!Idle
  BY <1>2 DEF Archive!Idle
<1>3. ASSUME NEW ch \in sent, call[r] = Archive!Sent(ch)
      PROVE  call[r].chunk = ch /\ st = "sent"
  BY <1>3 DEF Archive!Sent
<1>4. ASSUME NEW ch \in sent, NEW res \in Archive!Results, call[r] = Archive!Answered(ch, res),
             res = "ack" => ch \in acked
      PROVE  /\ call[r].chunk = ch /\ st = "answered" /\ call[r].res = res
  BY <1>4 DEF Archive!Answered
<1>5. \A ch \in sent : ch \in Offered /\ ch.epoch \in Epochs
  BY <1>1, OfferedFields
<1>6. CASE \E ch \in sent : call[r] = Archive!Sent(ch)
  <2>1. PICK ch \in sent : call[r] = Archive!Sent(ch)
    BY <1>6
  <2>2. call[r].chunk = ch /\ st = "sent"
    BY <1>3, <2>1
  <2> QED
    BY <1>5, <2>1, <2>2
<1>7. CASE \E ch \in sent, res \in Archive!Results :
             call[r] = Archive!Answered(ch, res) /\ (res = "ack" => ch \in acked)
  <2>1. PICK ch \in sent, res \in Archive!Results :
             call[r] = Archive!Answered(ch, res) /\ (res = "ack" => ch \in acked)
    BY <1>7
  <2>2. /\ call[r].chunk = ch /\ st = "answered" /\ call[r].res = res
    BY <1>4, <2>1
  <2> QED
    BY <1>5, <2>1, <2>2
<1> QED
  BY <1>1, <1>2, <1>6, <1>7 DEF Heard

(* While nothing was lost, what the archive can truthfully say of a chunk   *)
(* that was uploaded is that it has it.                                     *)
LEMMA TruthIsAck ==
  ASSUME ReplicaInv, ~ lost, ~ wiped, NEW ch \in sent,
         NEW res \in Archive!Truthful(ch, log[ch.epoch])
  PROVE  res \in {"ack", "error"}
<1> DEFINE e == ch.epoch
           l == log[e]
<1>1. /\ Placed(ch) /\ RetriesAreIdentical /\ ch \in Offered /\ e \in Epochs /\ LogIsOf(e, l)
      /\ ch.start \in Nat /\ ch.end \in Nat /\ ch.start < ch.end
  BY OfferedFields DEF ReplicaInv, NothingCollides, SavesAreHeld, ArchiveIsSane
<1>2. /\ l \in Seq(Offered) /\ Archive!Offset(l) \in Nat
      /\ \A x : Archive!Contains(l, x) =>
              x \in sent /\ x.epoch = e /\ x.end <= Archive!Offset(l)
  BY <1>1, LogFields
<1>3. ~ \E i \in DOMAIN l : Archive!SameRange(l[i], ch) /\ l[i] # ch
  <2> SUFFICES ASSUME NEW i \in DOMAIN l, Archive!SameRange(l[i], ch), l[i] # ch PROVE FALSE
    OBVIOUS
  <2>1. l[i] \in sent /\ l[i].epoch = e /\ l[i].start = ch.start
    BY <1>2 DEF Archive!Contains, Archive!SameRange
  <2> QED
    BY <1>1, <2>1 DEF RetriesAreIdentical
<1>4. ~ (ch.start = Archive!Offset(l) /\ ch.prev # Archive!LastBody(l))
  <2>1. Archive!Contains(l, ch) \/ Archive!Follows(ch, l)
    BY <1>1 DEF Placed
  <2>2. CASE Archive!Contains(l, ch)
    BY <1>1, <1>2, <2>2
  <2>3. CASE Archive!Follows(ch, l)
    BY <2>3 DEF Archive!Follows
  <2> QED
    BY <2>1, <2>2, <2>3
<1>5. ~ (~ Archive!Contains(l, ch) /\ ch.start # Archive!Offset(l))
  BY <1>1 DEF Placed, Archive!Follows
<1> HIDE DEF l
<1>6. res \in Archive!Truthful(ch, l)
  BY DEF l
<1> QED
  BY <1>3, <1>4, <1>5, <1>6 DEF Archive!Truthful

LEMMA HeardStays ==
  ASSUME sent \subseteq sent', acked \subseteq acked', NEW c, Heard(c)
  PROVE  Heard(c)'
<1>1. CASE c = Archive!Idle
  BY <1>1 DEF Heard
<1>2. ASSUME NEW ch \in sent, c = Archive!Sent(ch) PROVE Heard(c)'
  BY <1>2, Zenon DEF Heard
<1>3. ASSUME NEW ch \in sent, NEW res \in Archive!Results, c = Archive!Answered(ch, res),
             res = "ack" => ch \in acked
      PROVE  Heard(c)'
  BY <1>3, Zenon DEF Heard
<1> QED
  BY <1>1, <1>2, <1>3, Zenon DEF Heard

LEMMA AnswersKeep ==
  ASSUME ReplicaInv, SyncIsSane', up' # NoCall => up' = up,
         pc' \in {pc, "idle"}, after' = after \/ pc' = "idle",
         DOMAIN call' = Calls,
         \A r \in Calls : \/ call'[r] = call[r]
                          \/ /\ Heard(call[r])'
                             /\ r = up' => \/ call'[r] = Archive!Idle
                                            \/ call'[r].chunk = mem.pending
                             /\ ~ lost /\ ~ wiped /\ call'[r].st = "answered" =>
                                  call'[r].res \in {"ack", "error"},
         acked \subseteq acked',
         \A ch \in acked' \ acked : ch \in sent /\ Archive!Contains(log[ch.epoch], ch),
         limbo' \subseteq sent,
         UNCHANGED <<file, mem, disk, nextEpoch, unsaved, log, history>>
  PROVE  ReplicaInv'
<1>1. UNCHANGED <<file, mem, disk, nextEpoch, unsaved, log, sent, spooled, raced, lost, wiped>>
  BY DEF history
<1>2. ArchiveIsSane
  BY DEF ReplicaInv
<1>3. \A r \in Calls : Heard(call[r])'
  <2>1. TAKE r \in Calls
  <2>2. CASE call'[r] = call[r]
    <3>1. PICK c : c = call[r]
      OBVIOUS
    <3>2. Heard(c)'
      BY <1>1, <1>2, <3>1, HeardStays DEF ArchiveIsSane
    <3> QED
      BY <2>2, <3>1, <3>2
  <2> QED
    BY <2>2
<1>4. \A e, l : LogIsOf(e, l)' = LogIsOf(e, l)
  BY <1>1, Zenon DEF LogIsOf
<1>5. up' # NoCall => up' \in Calls /\ (call'[up'] = Archive!Idle \/ call'[up'].chunk = mem.pending)
  BY <1>2 DEF ArchiveIsSane
<1>6. ArchiveIsSane'
  <2>1. acked' \subseteq sent /\ (~ wiped => \A ch \in acked' : Archive!Contains(log[ch.epoch], ch))
    BY <1>2 DEF ArchiveIsSane
  <2>2. up' # NoCall => up' \in Calls /\ (call'[up'] = Archive!Idle \/ call'[up'].chunk = mem'.pending)
    BY <1>1, <1>5
  <2>3. sent' \subseteq Offered /\ \A ch \in sent' : ch.epoch < nextEpoch'
    BY <1>1, <1>2 DEF ArchiveIsSane
  <2>4. log' \in [Epochs -> Seq(Offered)] /\ \A e \in Epochs : LogIsOf(e, log[e])'
    BY <1>1, <1>2, <1>4 DEF ArchiveIsSane
  <2>5. limbo' \subseteq sent' /\ acked' \subseteq sent'
        /\ (~ wiped' => \A ch \in acked' : Archive!Contains(log'[ch.epoch], ch))
    BY <1>1, <2>1
  <2> QED
    BY <1>3, <2>2, <2>3, <2>4, <2>5 DEF ArchiveIsSane
<1>7. ~ lost /\ ~ wiped =>
        \A r \in Calls : call'[r].st = "answered" => call'[r].res \in {"ack", "error"}
  BY DEF ReplicaInv, NothingCollides, NoSpuriousConflict
<1> QED
  BY <1>1, <1>6, <1>7, SyncHeld

Elsewhere == <<file, mem, disk, syncVars, nextEpoch, unsaved, history>>

LEMMA ElsewhereFacts ==
  ASSUME ReplicaInv, UNCHANGED Elsewhere
  PROVE  /\ SyncIsSane' /\ up' = up /\ pc' = pc /\ after' = after
         /\ UNCHANGED <<file, mem, disk, nextEpoch, unsaved, history>>
<1>1. /\ up' = up /\ pc' = pc /\ after' = after /\ info' = info /\ count' = count
      /\ recovered' = recovered
      /\ UNCHANGED <<file, mem, disk, nextEpoch, unsaved, history>>
  BY DEF Elsewhere, syncVars
<1>2. Pending(mem)' = Pending(mem)
  BY <1>1, Zenon DEF Pending
<1>3. SyncIsSane'
  BY <1>1, <1>2 DEF ReplicaInv, SyncIsSane, Goes
<1> QED
  BY <1>1, <1>3

LEMMA AnswerKeeps ==
  ASSUME ReplicaInv, NEW r \in Calls, NEW res, Archive!Answer(r, res), UNCHANGED Elsewhere
  PROVE  ReplicaInv'
<1>1. PICK ch : ch = call[r].chunk
  OBVIOUS
<1>2. /\ call[r].st = "sent" /\ res \in Archive!Truthful(ch, log[ch.epoch])
      /\ call' = [call EXCEPT ![r] = Archive!Answered(ch, res)]
      /\ acked' = IF res = "ack" THEN acked \union {ch} ELSE acked
      /\ (limbo' = limbo \/ limbo' = limbo \union {ch})
      /\ log' = log
  BY <1>1 DEF Archive!Answer
<1>3. ch \in sent /\ call[r] = Archive!Sent(ch)
  BY <1>1, <1>2, HeardOf
<1>4. PICK a : a = Archive!Answered(ch, res)
  OBVIOUS
<1>5. a.st = "answered" /\ a.chunk = ch /\ a.res = res
  BY <1>4 DEF Archive!Answered
<1>6. DOMAIN call = Calls /\ limbo \subseteq sent
  BY DEF ReplicaInv, ArchiveIsSane
<1>7. DOMAIN call' = Calls /\ call'[r] = a /\ \A s \in Calls : s # r => call'[s] = call[s]
  BY <1>2, <1>4, <1>6
<1>8. res \in Archive!Results /\ (res = "ack" => ch \in acked')
      /\ (res = "ack" => Archive!Contains(log[ch.epoch], ch))
  BY <1>2 DEF Archive!Truthful, Archive!Results
<1>9. /\ SyncIsSane' /\ up' = up /\ pc' = pc /\ after' = after
      /\ UNCHANGED <<file, mem, disk, nextEpoch, unsaved, history>>
  BY ElsewhereFacts
<1>10. Heard(a)'
  <2>1. sent' = sent
    BY <1>9 DEF history
  <2> QED
    BY <1>3, <1>4, <1>8, <2>1, Zenon DEF Heard
<1>11. r = up' => a.chunk = mem.pending
  <2> SUFFICES ASSUME r = up' PROVE ch = mem.pending
    BY <1>5
  <2>1. up # NoCall
    BY <1>9, ReplicatorAssumption
  <2>2. call[r] = Archive!Idle \/ call[r].chunk = mem.pending
    BY <1>9, <2>1 DEF ReplicaInv, ArchiveIsSane
  <2>3. call[r] # Archive!Idle
    BY <1>2 DEF Archive!Idle
  <2> QED
    BY <1>1, <2>2, <2>3
<1>12. ~ lost /\ ~ wiped => res \in {"ack", "error"}
  BY <1>2, <1>3, TruthIsAck
<1>13. \A x \in acked' \ acked : x \in sent /\ Archive!Contains(log[x.epoch], x)
  BY <1>2, <1>3, <1>8
<1>14. acked \subseteq acked' /\ limbo' \subseteq sent
  BY <1>2, <1>3, <1>6
<1>15. \A s \in Calls : \/ call'[s] = call[s]
                        \/ /\ Heard(call[s])'
                           /\ s = up' => \/ call'[s] = Archive!Idle
                                          \/ call'[s].chunk = mem.pending
                           /\ ~ lost /\ ~ wiped /\ call'[s].st = "answered" =>
                                call'[s].res \in {"ack", "error"}
  <2>1. TAKE s \in Calls
  <2>2. CASE s # r
    BY <1>7, <2>2
  <2>3. CASE s = r
    <3>1. call'[s] = a
      BY <1>7, <2>3
    <3> QED
      BY <1>5, <1>10, <1>11, <1>12, <2>3, <3>1
  <2> QED
    BY <2>2, <2>3
<1> QED
  BY <1>2, <1>7, <1>9, <1>13, <1>14, <1>15, AnswersKeep

LEMMA CallsEnd ==
  ASSUME ReplicaInv, SyncIsSane', up' # NoCall => up' = up,
         pc' \in {pc, "idle"}, after' = after \/ pc' = "idle",
         DOMAIN call' = Calls, \A r \in Calls : call'[r] = call[r] \/ call'[r] = Archive!Idle,
         limbo' \subseteq sent,
         UNCHANGED <<file, mem, disk, nextEpoch, unsaved, log, acked, history>>
  PROVE  ReplicaInv'
<1>1. \A r \in Calls :
        \/ call'[r] = call[r]
        \/ /\ Heard(call[r])'
           /\ r = up' => call'[r] = Archive!Idle \/ call'[r].chunk = mem.pending
           /\ ~ lost /\ ~ wiped /\ call'[r].st = "answered" => call'[r].res \in {"ack", "error"}
  <2>1. TAKE r \in Calls
  <2>2. CASE call'[r] = Archive!Idle
    <3>1. Archive!Idle.st = "idle"
      BY DEF Archive!Idle
    <3>2. Heard(call[r])'
      BY <2>2 DEF Heard
    <3> QED
      BY <2>2, <3>1, <3>2
  <2> QED
    BY <2>2
<1> QED
  BY <1>1, AnswersKeep

LEMMA DropKeeps ==
  ASSUME ReplicaInv, NEW rs \in SUBSET Calls, Archive!Drop(rs), UNCHANGED Elsewhere
  PROVE  ReplicaInv'
<1>1. /\ \A r \in rs : call[r].st = "sent"
      /\ call' = [r \in Calls |-> IF r \in rs THEN Archive!Idle ELSE call[r]]
      /\ UNCHANGED <<log, acked>>
  BY DEF Archive!Drop
<1>2. PICK left \in SUBSET {call[r].chunk : r \in rs} : limbo' = limbo \union left
  BY DEF Archive!Drop
<1>3. limbo' \subseteq sent
  BY <1>1, <1>2, HeardOf DEF ReplicaInv, ArchiveIsSane
<1>4. DOMAIN call' = Calls /\ \A r \in Calls : call'[r] = call[r] \/ call'[r] = Archive!Idle
  BY <1>1
<1> QED
  BY <1>1, <1>3, <1>4, ElsewhereFacts, CallsEnd

LEMMA ConsumeFacts ==
  ASSUME ReplicaInv, NEW r \in Calls, Archive!Consume(r)
  PROVE  /\ call[r].st = "answered" /\ UNCHANGED <<log, acked, limbo>>
         /\ DOMAIN call' = Calls /\ call'[r] = Archive!Idle
         /\ \A s \in Calls : call'[s] = call[s] \/ call'[s] = Archive!Idle
         /\ limbo' \subseteq sent
<1>1. /\ call[r].st = "answered" /\ UNCHANGED <<log, acked, limbo>>
      /\ call' = [call EXCEPT ![r] = Archive!Idle]
  BY DEF Archive!Consume
<1>2. DOMAIN call = Calls /\ limbo \subseteq sent
  BY DEF ReplicaInv, ArchiveIsSane
<1> QED
  BY <1>1, <1>2

LEMMA ConsumeKeeps ==
  ASSUME ReplicaInv, NEW r \in Calls, Archive!Consume(r), UNCHANGED Elsewhere
  PROVE  ReplicaInv'
BY ConsumeFacts, ElsewhereFacts, CallsEnd

LEMMA FizzleKeeps ==
  ASSUME ReplicaInv, NEW ch, Archive!Fizzle(ch), UNCHANGED Elsewhere
  PROVE  ReplicaInv'
<1>1. limbo' = limbo \ {ch} /\ UNCHANGED <<log, call, acked>>
  BY DEF Archive!Fizzle
<1>2. DOMAIN call' = Calls /\ limbo' \subseteq sent
  BY <1>1 DEF ReplicaInv, ArchiveIsSane
<1> QED
  BY <1>1, <1>2, ElsewhereFacts, CallsEnd

LEMMA UploadFailsKeeps == ReplicaInv /\ UploadFails => ReplicaInv'
<1> SUFFICES ASSUME ReplicaInv, UploadFails PROVE ReplicaInv'
  OBVIOUS
<1>1. /\ pc = "wait" /\ Archive!Consume(up) /\ EndSync
      /\ UNCHANGED <<file, mem, disk, nextEpoch, unsaved, history>>
  BY DEF UploadFails, Answered
<1>2. up \in Calls /\ (unsaved' \/ disk' = mem')
  BY <1>1 DEF ReplicaInv, SyncIsSane, ArchiveIsSane
<1>3. SyncIsSane' /\ up' = NoCall /\ pc' = "idle"
  BY <1>1, <1>2, EndIsSane
<1> QED
  BY <1>1, <1>2, <1>3, ConsumeFacts, CallsEnd

-----------------------------------------------------------------------------
(* The archive takes a chunk.                                               *)
Taken(ch) == log' = [log EXCEPT ![ch.epoch] = Append(@, ch)]

LEMMA CommitKeeps ==
  ASSUME ReplicaInv, NEW ch \in sent, Archive!Follows(ch, log[ch.epoch]),
         Taken(ch), limbo' \subseteq limbo,
         UNCHANGED <<call, acked>>, UNCHANGED Elsewhere
  PROVE  ReplicaInv'
<1>a. PICK e, l, k : e = ch.epoch /\ l = log[e] /\ k = Append(l, ch)
  OBVIOUS
<1>1. /\ e \in Epochs /\ ch \in Offered /\ ch # NoChunk /\ ch.start \in Nat /\ ch.end \in Nat
      /\ ch.start < ch.end /\ log \in [Epochs -> Seq(Offered)] /\ LogIsOf(e, l)
  BY <1>a, OfferedFields DEF ReplicaInv, ArchiveIsSane
<1>2. /\ log' \in [Epochs -> Seq(Offered)] /\ log'[e] = k
      /\ \A f \in Epochs : f # e => log'[f] = log[f]
  <2>1. log' = [log EXCEPT ![e] = k]
    BY <1>a DEF Taken
  <2>2. k \in Seq(Offered)
    BY <1>1, <1>a DEF LogIsOf
  <2> QED
    BY <1>1, <2>1, <2>2
<1>3. /\ SyncIsSane' /\ up' = up /\ pc' = pc /\ after' = after
      /\ UNCHANGED <<file, mem, disk, nextEpoch, unsaved, sent, spooled, raced, lost, wiped>>
  BY ElsewhereFacts DEF history
<1>4. /\ l \in Seq(Offered) /\ Archive!Offset(l) \in Nat
      /\ \A x : Archive!Contains(l, x) => x \in sent /\ x \in Offered /\ x.epoch = e
                                          /\ x.end <= Archive!Offset(l)
      /\ l # <<>> => /\ Archive!Contains(l, Last(l)) /\ Archive!Offset(l) = Last(l).end
  BY <1>1, LogFields
<1>5. /\ k \in Seq(Offered) /\ Len(k) = Len(l) + 1 /\ Len(l) \in Nat
      /\ \A i \in 1 .. Len(l) : k[i] = l[i]
      /\ k[Len(k)] = ch /\ k # <<>>
      /\ Archive!Offset(k) = ch.end /\ Archive!LastBody(k) = ch.body
      /\ Archive!Contains(k, ch)
      /\ \A x : Archive!Contains(l, x) => Archive!Contains(k, x)
  <2>1. l \in Seq(Offered) /\ ch \in Offered /\ k = Append(l, ch)
    BY <1>1, <1>4, <1>a
  <2>2. Grown(l, ch, k)
    BY <2>1, LogAppended
  <2> QED
    BY <2>2 DEF Grown
<1>6. ch.start = Archive!Offset(l) /\ ch.prev = Archive!LastBody(l)
  BY <1>a DEF Archive!Follows
<1>7. \A f \in Epochs : \A x : Archive!Contains(log[f], x) => Archive!Contains(log'[f], x)
  <2>1. TAKE f \in Epochs
  <2>2. CASE f = e
    BY <1>2, <1>5, <1>a, <2>2
  <2>3. CASE f # e
    BY <1>2, <2>3
  <2> QED
    BY <2>2, <2>3
<1>8. Last(k) = ch
  BY <1>5 DEF Last
<1>9. FileIsNumbered'
  BY <1>3 DEF ReplicaInv, FileIsNumbered
<1>10. Sane(mem)' /\ Sane(disk)'
  BY <1>3, Zenon DEF ReplicaInv, Sane, Ready
<1>11. ArchiveIsSane'
  <2>1. \A c : Heard(c)' = Heard(c)
    BY <1>3, Zenon DEF Heard
  <2>2. \A f, x : LogIsOf(f, x)' = LogIsOf(f, x)
    BY <1>3, Zenon DEF LogIsOf
  <2>3. LogIsOf(e, k)
    <3>1. \A i \in 1 .. Len(l) : l[i] \in sent /\ l[i].epoch = e /\ l[i].end \in Nat
                                 /\ l[i].end <= Archive!Offset(l)
      BY <1>1, <1>4, OfferedFields DEF LogIsOf, Archive!Contains
    <3>2. \A i \in 1 .. Len(k) : k[i] \in sent /\ k[i].epoch = e /\ k[i].end <= ch.end
      <4>1. TAKE i \in 1 .. Len(k)
      <4>2. CASE i = Len(k)
        BY <1>1, <1>5, <1>a, <4>2
      <4>3. CASE i # Len(k)
        <5>1. i \in 1 .. Len(l) /\ k[i] = l[i]
          BY <1>5, <4>3
        <5>2. l[i].end \in Nat /\ l[i].end <= ch.start
          BY <1>6, <3>1, <5>1
        <5>3. l[i].end <= ch.end
          BY <1>1, <5>2
        <5> QED
          BY <3>1, <5>1, <5>3
      <4> QED
        BY <4>2, <4>3
    <3> QED
      BY <1>5, <3>2 DEF LogIsOf
  <2>4. \A f \in Epochs : LogIsOf(f, log[f])'
    <3>1. \A f \in Epochs : LogIsOf(f, log'[f])
      BY <1>2, <2>3 DEF ReplicaInv, ArchiveIsSane
    <3> QED
      BY <2>2, <3>1
  <2>5. \A x \in acked : x.epoch \in Epochs
    BY OfferedFields DEF ReplicaInv, ArchiveIsSane
  <2>6. ~ wiped' => \A x \in acked' : Archive!Contains(log'[x.epoch], x)
    BY <1>3, <1>7, <2>5 DEF ReplicaInv, ArchiveIsSane
  <2>7. limbo' \subseteq sent'
    BY <1>3 DEF ReplicaInv, ArchiveIsSane
  <2> QED
    BY <1>2, <1>3, <2>1, <2>4, <2>6, <2>7 DEF ReplicaInv, ArchiveIsSane
<1>12. GenerationsApart'
  <2>1. PureState(mem)' = PureState(mem) /\ PureState(disk)' = PureState(disk)
    BY <1>3, Zenon DEF PureState
  <2>2. BoundaryMatches' = BoundaryMatches
    BY <1>3, Zenon DEF BoundaryMatches
  <2>3. ASSUME ~ raced PROVE EpochHoldsOneGeneration'
    <3>1. Pure(ch) /\ EpochHoldsOneGeneration
      BY <2>3 DEF ReplicaInv, GenerationsApart
    <3>2. \A i, j \in 1 .. Len(l) : OneGeneration(l[i].body, l[j].body)
      <4>1. \A i, j \in DOMAIN log[e] : OneGeneration(log[e][i].body, log[e][j].body)
        BY <1>1, <3>1 DEF EpochHoldsOneGeneration, OneGeneration
      <4>2. DOMAIN l = 1 .. Len(l)
        BY <1>4
      <4> QED
        BY <1>a, <4>1, <4>2
    <3>3. \A i \in 1 .. Len(l) : OneGeneration(l[i].body, ch.body)
      <4>1. TAKE i \in 1 .. Len(l)
      <4>2. Len(l) \in 1 .. Len(l) /\ l # <<>>
        BY <1>5
      <4>3. Archive!LastBody(l) = l[Len(l)].body
        BY <4>2 DEF Archive!LastBody
      <4>4. PICK b : b = ch.prev
        OBVIOUS
      <4>5. OneGeneration(ch.body, b) /\ OneGeneration(l[i].body, b)
        BY <1>6, <3>1, <3>2, <4>2, <4>3, <4>4 DEF Pure
      <4>6. b # <<>> /\ b \in Seq(Lines)
        BY <1>4, <1>6, <4>2, <4>3, <4>4, OfferedFields
      <4>7. b[1] \in ToSet(b)
        BY <4>6 DEF ToSet
      <4> QED
        BY <4>5, <4>7 DEF OneGeneration
    <3>4. \A i, j \in 1 .. Len(k) : OneGeneration(k[i].body, k[j].body)
      <4>1. TAKE i, j \in 1 .. Len(k)
      <4>2. \A n \in 1 .. Len(k) : n \in 1 .. Len(l) \/ (n = Len(k) /\ k[n] = ch)
        BY <1>5
      <4>3. OneGeneration(ch.body, ch.body)
        BY <3>1 DEF Pure
      <4>4. \A n \in 1 .. Len(l) : OneGeneration(ch.body, l[n].body)
        BY <3>3 DEF OneGeneration
      <4>5. CASE i \in 1 .. Len(l) /\ j \in 1 .. Len(l)
        BY <1>5, <3>2, <4>5
      <4>6. CASE i \in 1 .. Len(l) /\ k[j] = ch
        BY <1>5, <3>3, <4>6
      <4>7. CASE k[i] = ch /\ j \in 1 .. Len(l)
        BY <1>5, <4>4, <4>7
      <4>8. CASE k[i] = ch /\ k[j] = ch
        BY <4>3, <4>8
      <4> QED
        BY <4>2, <4>5, <4>6, <4>7, <4>8
    <3>5. \A f \in Epochs : \A i, j \in DOMAIN log'[f] :
            OneGeneration(log'[f][i].body, log'[f][j].body)
      <4>1. TAKE f \in Epochs
      <4>2. CASE f = e
        BY <1>2, <1>5, <3>4, <4>2
      <4>3. CASE f # e
        <5>1. \A i, j \in DOMAIN log[f] : OneGeneration(log[f][i].body, log[f][j].body)
          BY <3>1 DEF EpochHoldsOneGeneration, OneGeneration
        <5> QED
          BY <1>2, <4>3, <5>1
      <4> QED
        BY <4>2, <4>3
    <3> QED
      BY <3>5 DEF EpochHoldsOneGeneration, OneGeneration
  <2> QED
    BY <1>3, <2>1, <2>2, <2>3 DEF ReplicaInv, GenerationsApart
<1>13. SavesAreHeld'
  <2>1. Behind(mem)' = Behind(mem) /\ Behind(disk)' = Behind(disk)
    BY <1>3, Zenon DEF Behind
  <2>2. RetriesAreIdentical' = RetriesAreIdentical
    BY <1>3, Zenon DEF RetriesAreIdentical
  <2> QED
    BY <1>3, <2>1, <2>2 DEF ReplicaInv, SavesAreHeld
<1>14. NothingCollides'
  <2> SUFFICES ASSUME ~ lost, ~ wiped
               PROVE  (\A x \in sent : Placed(x))' /\ ArchiveLevelWithState' /\ NoSpuriousConflict'
    BY <1>3 DEF NothingCollides
  <2>1. /\ \A x \in sent : Placed(x)
        /\ ArchiveLevelWithState /\ NoSpuriousConflict /\ RetriesAreIdentical
        /\ Behind(mem) /\ (unsaved \/ Behind(disk))
    BY DEF ReplicaInv, NothingCollides, SavesAreHeld
  <2>2. \A x \in sent : Placed(x)'
    <3>1. TAKE x \in sent
    <3>2. Placed(x) /\ x.epoch \in Epochs
      BY <2>1, OfferedFields DEF ReplicaInv, ArchiveIsSane
    <3>3. CASE Archive!Contains(log[x.epoch], x)
      BY <1>7, <3>2, <3>3 DEF Placed
    <3>4. CASE Archive!Follows(x, log[x.epoch]) /\ x.epoch # e
      BY <1>2, <3>2, <3>4 DEF Placed
    <3>5. CASE Archive!Follows(x, log[x.epoch]) /\ x.epoch = e
      <4>1. x.start = ch.start /\ x.epoch = ch.epoch
        BY <1>6, <1>a, <3>5 DEF Archive!Follows
      <4>2. x = ch
        BY <2>1, <4>1 DEF RetriesAreIdentical
      <4> QED
        BY <1>2, <1>5, <1>a, <4>2, <3>2 DEF Placed
    <3> QED
      BY <3>2, <3>3, <3>4, <3>5 DEF Placed
  <2>3. ASSUME NEW st, Sane(st), st # NoState, Behind(st), ArchiveLevelWith(st)
        PROVE  ArchiveLevelWith(st)'
    <3>1. /\ st.epoch \in Epochs /\ st.cursor \in Nat /\ st.pending \in Offered \union {NoChunk}
          /\ (st.pending # NoChunk => st.pending.start = st.cursor)
      BY <2>3, StateFields
    <3>2. CASE st.epoch # e
      BY <1>2, <2>3, <3>1, <3>2 DEF ArchiveLevelWith
    <3>3. CASE st.epoch = e
      <4>1. ch.start < st.cursor \/ ch = st.pending
        BY <1>a, <2>3, <3>3 DEF Behind
      <4>2. \/ Archive!Offset(l) = st.cursor
            \/ st.pending # NoChunk /\ l # <<>> /\ Last(l) = st.pending
        BY <1>a, <2>3, <3>3 DEF ArchiveLevelWith
      <4>3. ch = st.pending
        <5>1. CASE Archive!Offset(l) = st.cursor
          BY <1>1, <1>6, <3>1, <4>1, <5>1
        <5>2. CASE st.pending # NoChunk /\ l # <<>> /\ Last(l) = st.pending
          <6>1. st.pending.start < st.pending.end /\ st.pending.end \in Nat /\ st.pending.start \in Nat
            BY <3>1, <5>2, OfferedFields
          <6>2. ch.start = st.pending.end
            BY <1>4, <1>6, <5>2
          <6> QED
            BY <3>1, <4>1, <5>2, <6>1, <6>2
        <5> QED
          BY <4>2, <5>1, <5>2
      <4> QED
        BY <1>1, <1>2, <1>5, <1>8, <3>3, <4>3 DEF ArchiveLevelWith
    <3> QED
      BY <3>2, <3>3
  <2>4. ArchiveLevelWithState'
    <3>1. ASSUME mem # NoState PROVE ArchiveLevelWith(mem)'
      <4>1. PICK st : st = mem
        OBVIOUS
      <4>2. Sane(st) /\ Behind(st) /\ ArchiveLevelWith(st)
        BY <2>1, <3>1, <4>1 DEF ReplicaInv, ArchiveLevelWithState
      <4>3. ArchiveLevelWith(st)' /\ mem' = st
        BY <1>3, <2>3, <3>1, <4>1, <4>2
      <4> QED
        BY <4>3, Zenon DEF ArchiveLevelWith
    <3>2. ASSUME disk # NoState, ~ unsaved PROVE ArchiveLevelWith(disk)'
      <4>1. PICK st : st = disk
        OBVIOUS
      <4>2. Sane(st) /\ Behind(st) /\ ArchiveLevelWith(st)
        BY <2>1, <3>2, <4>1 DEF ReplicaInv, ArchiveLevelWithState
      <4>3. ArchiveLevelWith(st)' /\ disk' = st
        BY <1>3, <2>3, <3>2, <4>1, <4>2
      <4> QED
        BY <4>3, Zenon DEF ArchiveLevelWith
    <3> QED
      BY <1>3, <3>1, <3>2 DEF ArchiveLevelWithState
  <2>5. NoSpuriousConflict'
    BY <1>3, <2>1 DEF NoSpuriousConflict
  <2> QED
    BY <1>3, <2>2, <2>4, <2>5
<1>15. SpoolIsCovered'
  <2>1. \A st, x : Covered(st, x)' = Covered(st, x)
    BY <1>3, Zenon DEF Covered, Pending
  <2> QED
    BY <1>3, <2>1 DEF ReplicaInv, SpoolIsCovered
<1>16. Ahead(disk, mem)'
  BY <1>3, Zenon DEF ReplicaInv, Ahead, Quarantined
<1> QED
  BY <1>3, <1>9, <1>10, <1>11, <1>12, <1>13, <1>14, <1>15, <1>16 DEF ReplicaInv

LEMMA ArchiveServesKeeps == ReplicaInv /\ (ArchiveServes \/ ArchiveFails) => ReplicaInv'
<1> SUFFICES ASSUME ReplicaInv, ArchiveServes \/ ArchiveFails PROVE ReplicaInv'
  OBVIOUS
<1>1. UNCHANGED Elsewhere
  BY DEF ArchiveServes, ArchiveFails, Elsewhere
<1>2. ASSUME NEW r \in Calls, Archive!Commit(r) PROVE ReplicaInv'
  <2>1. PICK ch : ch = call[r].chunk
    OBVIOUS
  <2>2. /\ call[r].st = "sent" /\ Archive!Follows(ch, log[ch.epoch]) /\ Taken(ch)
        /\ UNCHANGED <<call, acked>> /\ limbo' = limbo
    BY <1>2, <2>1 DEF Archive!Commit, Taken
  <2>3. ch \in sent
    BY <2>1, <2>2, HeardOf
  <2> QED
    BY <1>1, <2>2, <2>3, CommitKeeps
<1>3. ASSUME NEW ch \in limbo, Archive!CommitLate(ch) PROVE ReplicaInv'
  <2>1. /\ Archive!Follows(ch, log[ch.epoch]) /\ Taken(ch) /\ limbo' \subseteq limbo
        /\ UNCHANGED <<call, acked>>
    BY <1>3 DEF Archive!CommitLate, Taken
  <2>2. ch \in sent
    BY DEF ReplicaInv, ArchiveIsSane
  <2> QED
    BY <1>1, <2>1, <2>2, CommitKeeps
<1>4. ASSUME NEW r \in Calls, NEW res, Archive!Answer(r, res) PROVE ReplicaInv'
  BY <1>1, <1>4, AnswerKeeps
<1>5. ASSUME NEW r \in Calls, Archive!Consume(r) PROVE ReplicaInv'
  BY <1>1, <1>5, ConsumeKeeps
<1>6. ASSUME NEW ch, Archive!Fizzle(ch) PROVE ReplicaInv'
  BY <1>1, <1>6, FizzleKeeps
<1>7. ASSUME NEW rs \in SUBSET Calls, Archive!Drop(rs) PROVE ReplicaInv'
  BY <1>1, <1>7, DropKeeps
<1>8. CASE ArchiveServes
  BY <1>2, <1>3, <1>4, <1>5, <1>6, <1>8, Zenon DEF ArchiveServes
<1>9. CASE ArchiveFails
  BY <1>4, <1>7, <1>9, Zenon DEF ArchiveFails
<1> QED
  BY <1>8, <1>9

-----------------------------------------------------------------------------
(* The pending chunk goes out.                                              *)
LEMMA SendKeeps == ReplicaInv /\ Send => ReplicaInv'
<1> SUFFICES ASSUME ReplicaInv, Send PROVE ReplicaInv'
  OBVIOUS
<1>1. PICK ch : ch = mem.pending
  OBVIOUS
<1>2. /\ pc = "send" /\ pc' = "wait" /\ sent' = sent \union {ch}
      /\ UNCHANGED <<file, mem, disk, after, info, count, recovered, nextEpoch, unsaved,
                     spooled, raced, lost, wiped>>
  BY <1>1 DEF Send
<1>3. PICK r \in Calls : Archive!Send(r, ch) /\ up' = r
  BY <1>1 DEF Send
<1>4. /\ call[r] = Archive!Idle /\ call' = [call EXCEPT ![r] = Archive!Sent(ch)]
      /\ UNCHANGED <<log, acked, limbo>>
  BY <1>3 DEF Archive!Send
<1>5. mem # NoState /\ Pending(mem) # NoChunk /\ (unsaved \/ disk = mem)
  BY <1>2 DEF ReplicaInv, SyncIsSane, Goes, Pending
<1>6. /\ ch \in Offered /\ ch.epoch = mem.epoch /\ ch.start = mem.cursor /\ ch.prev = mem.last
      /\ mem.epoch < nextEpoch /\ ch.start \in Nat /\ ch.end \in Nat /\ ch.start < ch.end
      /\ ch.epoch \in Epochs /\ Pending(mem) = ch /\ ch # NoChunk
  <2>1. Sane(mem)
    BY DEF ReplicaInv
  <2>2. Pending(mem) = ch /\ ch # NoChunk /\ ch \in Offered
    BY <1>1, <1>5, <2>1, StateFields
  <2> QED
    BY <1>1, <1>5, <2>1, <2>2, StateFields, OfferedFields
<1>7. r # NoCall
  BY ReplicatorAssumption
<1>8. FileIsNumbered'
  BY <1>2 DEF ReplicaInv, FileIsNumbered
<1>9. SyncIsSane'
  <2>1. Pending(mem)' = Pending(mem)
    BY <1>2, Zenon DEF Pending
  <2> QED
    BY <1>2, <1>3, <1>5, <1>7, <2>1 DEF ReplicaInv, SyncIsSane, Goes, Steps
<1>10. Sane(mem)' /\ Sane(disk)'
  BY <1>2, Zenon DEF ReplicaInv, Sane, Ready
<1>11. ArchiveIsSane'
  <2>1. ArchiveIsSane
    BY DEF ReplicaInv
  <2>2. PICK s : s = Archive!Sent(ch)
    OBVIOUS
  <2>3. s.chunk = ch
    BY <2>2 DEF Archive!Sent
  <2>4. DOMAIN call' = Calls /\ call'[r] = s /\ \A x \in Calls : x # r => call'[x] = call[x]
    BY <1>4, <2>1, <2>2 DEF ArchiveIsSane
  <2>5. Heard(s)'
    BY <1>2, <2>2, Zenon DEF Heard
  <2>6. \A x \in Calls : Heard(call[x])'
    <3>1. TAKE x \in Calls
    <3>2. CASE x = r
      BY <2>4, <2>5, <3>2
    <3>3. CASE x # r
      <4>1. PICK c : c = call[x]
        OBVIOUS
      <4>2. Heard(c)'
        BY <1>2, <1>4, <2>1, <4>1, HeardStays DEF ArchiveIsSane
      <4> QED
        BY <2>4, <3>3, <4>1, <4>2
    <3> QED
      BY <3>2, <3>3
  <2>7. up' \in Calls /\ call'[up'].chunk = mem'.pending
    BY <1>1, <1>2, <1>3, <2>3, <2>4
  <2>8. \A e, l : LogIsOf(e, l) => LogIsOf(e, l)'
    BY <1>2 DEF LogIsOf
  <2>9. \A e \in Epochs : LogIsOf(e, log[e])'
    BY <1>4, <2>1, <2>8 DEF ArchiveIsSane
  <2>10. /\ sent' \subseteq Offered /\ \A x \in sent' : x.epoch < nextEpoch'
         /\ limbo' \subseteq sent' /\ acked' \subseteq sent' /\ log' \in [Epochs -> Seq(Offered)]
    BY <1>2, <1>4, <1>6, <2>1 DEF ArchiveIsSane
  <2>11. ~ wiped' => \A x \in acked' : Archive!Contains(log'[x.epoch], x)
    BY <1>2, <1>4, <2>1 DEF ArchiveIsSane
  <2> QED
    BY <2>4, <2>6, <2>7, <2>9, <2>10, <2>11 DEF ArchiveIsSane
<1>12. GenerationsApart'
  <2>1. PureState(mem)' = PureState(mem) /\ PureState(disk)' = PureState(disk)
    BY <1>2, Zenon DEF PureState
  <2>2. EpochHoldsOneGeneration' = EpochHoldsOneGeneration
    BY <1>4 DEF EpochHoldsOneGeneration
  <2>3. ~ raced => Pure(ch)
    BY <1>1, <1>5, <1>6 DEF ReplicaInv, GenerationsApart, PureState
  <2> QED
    BY <1>2, <2>1, <2>2, <2>3 DEF ReplicaInv, GenerationsApart
<1>13. SavesAreHeld'
  <2> SUFFICES ASSUME ~ lost PROVE RetriesAreIdentical' /\ Behind(mem)' /\ (unsaved' \/ Behind(disk)')
    BY <1>2 DEF SavesAreHeld
  <2>1. RetriesAreIdentical /\ Behind(mem)
    BY DEF ReplicaInv, SavesAreHeld
  <2>2. \A x \in sent : x.epoch = ch.epoch /\ x.start = ch.start => x = ch
    <3>1. TAKE x \in sent
    <3>2. HAVE x.epoch = ch.epoch /\ x.start = ch.start
    <3>3. x.start < mem.cursor \/ x = mem.pending
      BY <1>5, <1>6, <2>1, <3>2 DEF Behind
    <3> QED
      BY <1>1, <1>6, <3>2, <3>3
  <2>3. RetriesAreIdentical'
    BY <1>2, <2>1, <2>2 DEF RetriesAreIdentical
  <2>4. \A x \in sent' : x.epoch = mem.epoch => x.start < mem.cursor \/ x = mem.pending
    BY <1>1, <1>2, <1>5, <2>1 DEF Behind
  <2>5. Behind(mem)'
    BY <1>2, <2>4 DEF Behind
  <2>6. disk = mem => Behind(disk)'
    BY <1>2, <2>4 DEF Behind
  <2> QED
    BY <1>2, <1>5, <2>3, <2>5, <2>6
<1>14. NothingCollides'
  <2> SUFFICES ASSUME ~ lost, ~ wiped
               PROVE  (\A x \in sent : Placed(x))' /\ ArchiveLevelWithState' /\ NoSpuriousConflict'
    BY <1>2 DEF NothingCollides
  <2>1. (\A x \in sent : Placed(x)) /\ ArchiveLevelWithState /\ NoSpuriousConflict
    BY DEF ReplicaInv, NothingCollides
  <2>2. \A x : Placed(x)' = Placed(x)
    BY <1>4, Zenon DEF Placed
  <2>3. Placed(ch)
    <3>1. PICK l : l = log[ch.epoch]
      OBVIOUS
    <3>2. ArchiveLevelWith(mem) /\ LogIsOf(ch.epoch, l)
      BY <1>5, <1>6, <2>1, <3>1 DEF ArchiveLevelWithState, ReplicaInv, ArchiveIsSane
    <3>3. CASE Archive!Offset(l) = mem.cursor /\ Archive!LastBody(l) = mem.last
      BY <1>6, <3>1, <3>3 DEF Placed, Archive!Follows
    <3>4. CASE l # <<>> /\ Last(l) = ch
      <4>1. Archive!Contains(l, ch)
        BY <3>2, <3>4, LogFields
      <4> QED
        BY <3>1, <4>1 DEF Placed
    <3> QED
      BY <1>1, <1>6, <3>1, <3>2, <3>3, <3>4 DEF ArchiveLevelWith
  <2>4. ArchiveLevelWithState'
    <3>1. ArchiveLevelWith(mem)' = ArchiveLevelWith(mem) /\ ArchiveLevelWith(disk)' = ArchiveLevelWith(disk)
      BY <1>2, <1>4, Zenon DEF ArchiveLevelWith
    <3> QED
      BY <1>2, <2>1, <3>1 DEF ArchiveLevelWithState
  <2>5. NoSpuriousConflict'
    <3>1. Archive!Sent(ch).st = "sent"
      BY DEF Archive!Sent
    <3>2. \A x \in Calls : call'[x] = call[x] \/ call'[x] = Archive!Sent(ch)
      BY <1>4 DEF ReplicaInv, ArchiveIsSane
    <3>3. \A x \in Calls : call'[x].st = "answered" => call'[x].res \in {"ack", "error"}
      BY <2>1, <3>1, <3>2 DEF NoSpuriousConflict
    <3> QED
      BY <1>2, <2>1, <3>3 DEF NoSpuriousConflict
  <2> QED
    BY <1>2, <2>1, <2>2, <2>3, <2>4, <2>5
<1>15. SpoolIsCovered'
  <2>1. \A st, x : Covered(st, x)' = Covered(st, x)
    BY <1>4, Zenon DEF Covered, Pending
  <2> QED
    BY <1>2, <2>1 DEF ReplicaInv, SpoolIsCovered
<1>16. Ahead(disk, mem)'
  BY <1>2, Zenon DEF ReplicaInv, Ahead, Quarantined
<1> QED
  BY <1>2, <1>8, <1>9, <1>10, <1>11, <1>12, <1>13, <1>14, <1>15, <1>16 DEF ReplicaInv

-----------------------------------------------------------------------------
(* The steps of the sync that give the session another state.               *)
LEMMA ArchiveLeft ==
  ASSUME ArchiveIsSane, up' = NoCall, DOMAIN call' = Calls,
         \A r \in Calls : call'[r] = call[r] \/ call'[r] = Archive!Idle,
         nextEpoch \in Nat, nextEpoch' \in Nat, nextEpoch <= nextEpoch',
         UNCHANGED <<log, acked, limbo, sent, wiped>>
  PROVE  ArchiveIsSane'
<1>1. \A c : Heard(c) => Heard(c)'
  BY HeardStays
<1>2. \A e, l : LogIsOf(e, l)' = LogIsOf(e, l)
  BY Zenon DEF LogIsOf
<1>3. \A r \in Calls : Heard(call[r])'
  <2>1. TAKE r \in Calls
  <2>2. PICK c : c = call[r]
    OBVIOUS
  <2>3. Heard(c)'
    BY <1>1, <2>2 DEF ArchiveIsSane
  <2>4. Heard(Archive!Idle)'
    BY DEF Heard
  <2> QED
    BY <2>2, <2>3, <2>4
<1>4. \A ch \in sent : ch.epoch < nextEpoch'
  <2>1. TAKE ch \in sent
  <2>2. ch.epoch \in Nat /\ ch.epoch < nextEpoch
    BY OfferedFields DEF ArchiveIsSane, Epochs
  <2> QED
    BY <2>2
<1> QED
  BY <1>2, <1>3, <1>4 DEF ArchiveIsSane

LEMMA SaveIsSane ==
  ASSUME ReplicaInv, NEW st, st # NoState, NEW next \in {"idle", "read", "send", "stat"},
         SaveThen(st, next), up' = NoCall, info' \in [ino : Inodes, size : Nat],
         count' \in 0 .. MaxChunksPerSync, next = "idle" \/ count' < MaxChunksPerSync,
         recovered' \in BOOLEAN,
         next \in {"read", "stat"} => st.pending = NoChunk,
         next = "send" => st.pending # NoChunk
  PROVE  SyncIsSane'
<1>1. mem' = st /\ pc' = "save" /\ after' = next
  BY DEF SaveThen
<1>2. Pending(mem)' = st.pending
  BY <1>1, Zenon DEF Pending
<1> QED
  BY <1>1, <1>2 DEF SyncIsSane, Goes, Steps

LEMMA MemKeeps ==
  ASSUME ReplicaInv, NEW st, st # NoState, NEW next, SaveThen(st, next),
         SyncIsSane', Sane(st)', nextEpoch' \in Nat \ {0}, nextEpoch <= nextEpoch',
         up' = NoCall, DOMAIN call' = Calls,
         \A r \in Calls : call'[r] = call[r] \/ call'[r] = Archive!Idle,
         ~ raced => PureState(st) /\ (next = "read" => st.cursor = 0),
         ~ lost => Behind(st),
         ~ lost /\ ~ wiped => ArchiveLevelWith(st) /\ st.quarantine \in {"none", "tooLarge"},
         \A ch \in spooled : Covered(st, ch), Ahead(disk, st),
         UNCHANGED <<file, disk, unsaved, log, acked, limbo, history>>
  PROVE  ReplicaInv'
<1>1. mem' = st /\ pc' = "save" /\ after' = next
  BY DEF SaveThen
<1>2. UNCHANGED <<file, disk, unsaved, log, acked, limbo, sent, spooled, raced, lost, wiped>>
  BY DEF history
<1>3. FileIsNumbered'
  BY <1>2 DEF ReplicaInv, FileIsNumbered
<1>4. Sane(mem)' /\ Sane(disk)'
  <2>1. Sane(mem)'
    BY <1>1, Zenon DEF Sane, Ready
  <2>2. ASSUME disk # NoState PROVE disk.epoch \in Nat /\ disk.epoch < nextEpoch'
    <3>1. disk.epoch \in Nat /\ disk.epoch < nextEpoch /\ nextEpoch \in Nat
      BY <2>2, StateFields DEF ReplicaInv, Epochs
    <3> QED
      BY <3>1
  <2>3. PICK d : d = disk
    OBVIOUS
  <2>4. Sane(d)'
    BY <2>2, <2>3, Zenon DEF ReplicaInv, Sane, Ready
  <2>5. disk' = d
    BY <1>2, <2>3
  <2>6. Sane(disk)'
    BY <2>4, <2>5, Zenon DEF Sane, Ready
  <2> QED
    BY <2>1, <2>6
<1>5. ArchiveIsSane'
  BY <1>2, ArchiveLeft DEF ReplicaInv
<1>6. GenerationsApart'
  <2>1. PureState(disk)' = PureState(disk)
    BY <1>2, Zenon DEF PureState
  <2>2. PureState(st) => PureState(mem)'
    BY <1>1, Zenon DEF PureState
  <2>3. EpochHoldsOneGeneration' = EpochHoldsOneGeneration
    BY <1>2 DEF EpochHoldsOneGeneration
  <2> QED
    BY <1>1, <1>2, <2>1, <2>2, <2>3 DEF ReplicaInv, GenerationsApart
<1>7. SavesAreHeld'
  <2>1. Behind(disk)' = Behind(disk)
    BY <1>2, Zenon DEF Behind
  <2>2. Behind(mem)' = Behind(st)
    BY <1>1, <1>2, Zenon DEF Behind
  <2>3. RetriesAreIdentical' = RetriesAreIdentical
    BY <1>2, Zenon DEF RetriesAreIdentical
  <2> QED
    BY <1>2, <2>1, <2>2, <2>3 DEF ReplicaInv, SavesAreHeld
<1>8. NothingCollides'
  <2> SUFFICES ASSUME ~ lost, ~ wiped
               PROVE  (\A x \in sent : Placed(x))' /\ ArchiveLevelWithState' /\ NoSpuriousConflict'
    BY <1>2 DEF NothingCollides
  <2>1. /\ \A x \in sent : Placed(x)
        /\ ArchiveLevelWithState /\ NoSpuriousConflict
    BY DEF ReplicaInv, NothingCollides
  <2>2. \A x : Placed(x)' = Placed(x)
    BY <1>2, Zenon DEF Placed
  <2>3. ArchiveLevelWithState'
    <3>1. ArchiveLevelWith(disk)' = ArchiveLevelWith(disk)
      BY <1>2, Zenon DEF ArchiveLevelWith
    <3>2. ArchiveLevelWith(mem)' = ArchiveLevelWith(st)
      BY <1>1, <1>2, Zenon DEF ArchiveLevelWith
    <3> QED
      BY <1>2, <2>1, <3>1, <3>2 DEF ArchiveLevelWithState
  <2>4. NoSpuriousConflict'
    <3>1. Archive!Idle.st = "idle"
      BY DEF Archive!Idle
    <3>2. \A x \in Calls : call'[x].st = "answered" => call'[x].res \in {"ack", "error"}
      BY <2>1, <3>1 DEF NoSpuriousConflict
    <3> QED
      BY <1>1, <1>2, <2>1, <3>2 DEF NoSpuriousConflict
  <2> QED
    BY <1>2, <2>1, <2>2, <2>3, <2>4
<1>9. SpoolIsCovered'
  <2>1. \A s, ch : Covered(s, ch)' = Covered(s, ch)
    BY <1>2, Zenon DEF Covered, Pending
  <2> QED
    BY <1>1, <1>2, <2>1 DEF ReplicaInv, SpoolIsCovered
<1>10. Ahead(disk, mem)'
  BY <1>1, <1>2, Zenon DEF Ahead, Quarantined
<1> QED
  BY <1>2, <1>3, <1>4, <1>5, <1>6, <1>7, <1>8, <1>9, <1>10 DEF ReplicaInv

(* The next epoch has nothing yet.                                          *)
LEMMA NextEpochIsEmpty ==
  ASSUME ReplicaInv, nextEpoch \in Epochs
  PROVE  /\ nextEpoch \in Nat \ {0} /\ log[nextEpoch] = <<>>
         /\ \A ch \in sent : ch.epoch # nextEpoch
<1>1. \A ch \in sent : ch.epoch # nextEpoch
  <2>1. TAKE ch \in sent
  <2>2. ch.epoch \in Nat /\ ch.epoch < nextEpoch
    BY OfferedFields DEF ReplicaInv, ArchiveIsSane, Epochs
  <2> QED
    BY <2>2 DEF ReplicaInv
<1>2. PICK l : l = log[nextEpoch]
  OBVIOUS
<1>3. l \in Seq(Offered) /\ \A i \in 1 .. Len(l) : l[i] \in sent /\ l[i].epoch = nextEpoch
  BY <1>2 DEF ReplicaInv, ArchiveIsSane, LogIsOf
<1>4. l = <<>>
  <2>1. Len(l) = 0
    BY <1>1, <1>3
  <2> QED
    BY <1>3, <2>1
<1> QED
  BY <1>1, <1>2, <1>4 DEF ReplicaInv

(* A state of the next epoch fits everywhere.                               *)
LEMMA NewEpochFits ==
  ASSUME ReplicaInv, nextEpoch \in Epochs, NEW st, st # NoState, st.epoch = nextEpoch,
         st.cursor = 0, st.last = NoBody
  PROVE  /\ Behind(st) /\ ArchiveLevelWith(st) /\ Ahead(disk, st)
         /\ OneGeneration(st.last, st.last)
<1>1. Behind(st)
  BY NextEpochIsEmpty DEF Behind
<1>2. ArchiveLevelWith(st)
  BY NextEpochIsEmpty DEF ArchiveLevelWith, Archive!Offset, Archive!LastBody
<1>3. Ahead(disk, st)
  <2>1. ASSUME disk # NoState PROVE st.epoch > disk.epoch
    <3>1. disk.epoch \in Nat /\ disk.epoch < nextEpoch /\ nextEpoch \in Nat
      BY <2>1, StateFields DEF ReplicaInv, Epochs
    <3> QED
      BY <3>1
  <2> QED
    BY <2>1 DEF Ahead
<1>4. OneGeneration(st.last, st.last)
  BY DEF OneGeneration, ToSet, NoBody
<1> QED
  BY <1>1, <1>2, <1>3, <1>4

LEMMA EpochBegins ==
  ASSUME ReplicaInv, pc \in {"stat", "boundary"}, NEW seen, seen.ino \in Inodes,
         BeginEpoch(seen), info' \in [ino : Inodes, size : Nat],
         UNCHANGED <<file, disk, count, recovered, up, unsaved, archiveVars, history>>
  PROVE  ReplicaInv'
<1>1. PICK st : st = Fresh(nextEpoch, seen.ino)
  OBVIOUS
<1>2. nextEpoch \in Epochs /\ SaveThen(st, "read") /\ nextEpoch' = nextEpoch + 1
  BY <1>1 DEF BeginEpoch
<1>3. nextEpoch \in Nat \ {0} /\ nextEpoch' \in Nat \ {0} /\ nextEpoch <= nextEpoch' /\ nextEpoch < nextEpoch'
  BY <1>2 DEF ReplicaInv
<1>4. /\ st \in States /\ st.epoch = nextEpoch /\ st.cursor = 0 /\ st.last = NoBody
      /\ st.pending = NoChunk /\ st.quarantine = "none"
  BY <1>1, <1>2 DEF Fresh, States
<1>5. st # NoState
  BY <1>4, NoStateAssumption
<1>6. Pending(mem) = NoChunk /\ up = NoCall /\ count \in 0 .. MaxChunksPerSync
      /\ count < MaxChunksPerSync /\ recovered \in BOOLEAN
  BY DEF ReplicaInv, SyncIsSane, Goes
<1>7. SyncIsSane'
  BY <1>2, <1>4, <1>5, <1>6, SaveIsSane
<1>8. Sane(st)'
  BY <1>3, <1>4 DEF Sane, Ready
<1>9. PureState(st) /\ Behind(st) /\ ArchiveLevelWith(st) /\ Ahead(disk, st)
  BY <1>2, <1>4, <1>5, NewEpochFits DEF PureState
<1>10. \A ch \in spooled : Covered(st, ch)
  BY <1>6 DEF ReplicaInv, SpoolIsCovered, Covered
<1>11. DOMAIN call' = Calls /\ call' = call /\ UNCHANGED <<log, acked, limbo>>
  BY DEF archiveVars, ReplicaInv, ArchiveIsSane
<1>12. st.quarantine \in {"none", "tooLarge"} /\ up' = NoCall
  BY <1>4, <1>6
<1> QED
  BY <1>2, <1>3, <1>4, <1>5, <1>7, <1>8, <1>9, <1>10, <1>11, <1>12, MemKeeps

LEMMA StatKeeps == ReplicaInv /\ Stat => ReplicaInv'
<1> SUFFICES ASSUME ReplicaInv, Stat PROVE ReplicaInv'
  OBVIOUS
<1>1. PICK seen : seen = [ino |-> file.ino, size |-> Len(file.lines)]
  OBVIOUS
<1>2. /\ pc = "stat" /\ info' = seen
      /\ \/ BeginEpoch(seen)
         \/ mem # NoState /\ pc' = "boundary" /\ UNCHANGED <<mem, after, nextEpoch>>
      /\ UNCHANGED <<file, disk, count, recovered, up, unsaved, archiveVars, history>>
  BY <1>1 DEF Stat
<1>3. seen \in [ino : Inodes, size : Nat] /\ seen.ino \in Inodes
  BY <1>1 DEF ReplicaInv, FileIsNumbered
<1>4. CASE BeginEpoch(seen)
  BY <1>2, <1>3, <1>4, EpochBegins
<1>5. CASE mem # NoState /\ pc' = "boundary" /\ UNCHANGED <<mem, after, nextEpoch>>
  <2>1. Pending(mem)' = Pending(mem)
    BY <1>5, Zenon DEF Pending
  <2>2. SyncIsSane'
    BY <1>2, <1>3, <1>5, <2>1 DEF ReplicaInv, SyncIsSane, Goes, Steps
  <2> QED
    BY <1>2, <1>5, <2>2, QuietKeeps
<1> QED
  BY <1>2, <1>4, <1>5

LEMMA CheckBoundaryKeeps == ReplicaInv /\ CheckBoundary => ReplicaInv'
<1> SUFFICES ASSUME ReplicaInv, CheckBoundary PROVE ReplicaInv'
  OBVIOUS
<1>1. pc = "boundary" /\ UNCHANGED <<file, disk, unsaved, archiveVars, history>>
  BY DEF CheckBoundary
<1>2. mem # NoState /\ info \in [ino : Inodes, size : Nat] /\ (unsaved \/ disk = mem)
  BY <1>1 DEF ReplicaInv, SyncIsSane
<1>3. CASE BeginEpoch(info) /\ UNCHANGED <<info, count, recovered, up>>
  <2>1. info.ino \in Inodes
    BY <1>2
  <2>2. info' \in [ino : Inodes, size : Nat]
    BY <1>2, <1>3
  <2> QED
    BY <1>1, <1>3, <2>1, <2>2, EpochBegins
<1>4. CASE EndSync /\ UNCHANGED <<mem, nextEpoch>>
  <2>1. SyncIsSane' /\ up' = NoCall /\ pc' = "idle"
    BY <1>1, <1>2, <1>4, EndIsSane
  <2> QED
    BY <1>1, <1>4, <2>1, QuietKeeps
<1>5. CASE BoundaryMatches /\ pc' = "read"
           /\ UNCHANGED <<mem, after, info, count, recovered, up, nextEpoch>>
  <2>1. Pending(mem)' = Pending(mem)
    BY <1>5, Zenon DEF Pending
  <2>2. SyncIsSane'
    BY <1>1, <1>5, <2>1 DEF ReplicaInv, SyncIsSane, Goes, Steps
  <2> QED
    BY <1>1, <1>5, <2>2, QuietKeeps
<1> QED
  BY <1>3, <1>4, <1>5 DEF CheckBoundary

-----------------------------------------------------------------------------
(* States made from the one in memory.                                      *)
WithPending(m, ch) == [m EXCEPT !.pending = ch]
WithQuarantine(m, q) == [m EXCEPT !.quarantine = q]

LEMMA MadeStates ==
  ASSUME NEW m \in States
  PROVE  /\ \A ch \in Chunks \union {NoChunk} :
              /\ WithPending(m, ch) \in States /\ WithPending(m, ch).pending = ch
              /\ WithPending(m, ch).epoch = m.epoch /\ WithPending(m, ch).cursor = m.cursor
              /\ WithPending(m, ch).last = m.last
              /\ WithPending(m, ch).quarantine = m.quarantine
         /\ \A q \in {"tooLarge", "prefixNotSpooled", "remoteConflict"} :
              /\ WithQuarantine(m, q) \in States /\ WithQuarantine(m, q).pending = m.pending
              /\ WithQuarantine(m, q).epoch = m.epoch /\ WithQuarantine(m, q).cursor = m.cursor
              /\ WithQuarantine(m, q).last = m.last
              /\ WithQuarantine(m, q).quarantine = q
<1>1. ASSUME NEW ch \in Chunks \union {NoChunk}
      PROVE  /\ WithPending(m, ch) \in States /\ WithPending(m, ch).pending = ch
             /\ WithPending(m, ch).epoch = m.epoch /\ WithPending(m, ch).cursor = m.cursor
             /\ WithPending(m, ch).last = m.last
             /\ WithPending(m, ch).quarantine = m.quarantine
  BY DEF WithPending, States
<1>2. ASSUME NEW q \in {"tooLarge", "prefixNotSpooled", "remoteConflict"}
      PROVE  /\ WithQuarantine(m, q) \in States /\ WithQuarantine(m, q).pending = m.pending
             /\ WithQuarantine(m, q).epoch = m.epoch /\ WithQuarantine(m, q).cursor = m.cursor
             /\ WithQuarantine(m, q).last = m.last
             /\ WithQuarantine(m, q).quarantine = q
  BY DEF WithQuarantine, States
<1> QED
  BY <1>1, <1>2

(* A state that differs from the one in memory in its quarantine fits where *)
(* that one did.                                                            *)
LEMMA QuarantineFits ==
  ASSUME ReplicaInv, mem # NoState,
         NEW q \in {"tooLarge", "prefixNotSpooled", "remoteConflict"},
         NEW st, st = WithQuarantine(mem, q), nextEpoch' = nextEpoch
  PROVE  /\ st # NoState /\ st \in States /\ st.pending = mem.pending /\ st.quarantine = q
         /\ Sane(st)' /\ (~ raced => PureState(st))
         /\ (~ lost => Behind(st)) /\ (~ lost /\ ~ wiped => ArchiveLevelWith(st))
         /\ Ahead(disk, st) /\ \A ch \in spooled : Covered(st, ch)
<1>1. PICK m : m = mem
  OBVIOUS
<1>2. Sane(m) /\ m \in States
  BY <1>1, StateFields DEF ReplicaInv
<1>3. /\ st \in States /\ st.pending = m.pending /\ st.epoch = m.epoch /\ st.cursor = m.cursor
      /\ st.last = m.last /\ st.quarantine = q
  BY <1>1, <1>2, MadeStates
<1>4. st # NoState
  BY <1>3, NoStateAssumption
<1>5. Sane(st)'
  BY <1>1, <1>2, <1>3 DEF Sane, Ready
<1>6. ~ raced => PureState(st)
  BY <1>1, <1>3 DEF ReplicaInv, GenerationsApart, PureState
<1>7. ~ lost => Behind(st)
  BY <1>1, <1>3 DEF ReplicaInv, SavesAreHeld, Behind
<1>8. ~ lost /\ ~ wiped => ArchiveLevelWith(st)
  BY <1>1, <1>3 DEF ReplicaInv, NothingCollides, ArchiveLevelWithState, ArchiveLevelWith
<1>9. Ahead(disk, st)
  BY <1>1, <1>3, <1>4 DEF ReplicaInv, Ahead, Quarantined
<1>10. \A ch \in spooled : Covered(st, ch)
  BY <1>1, <1>3, <1>4 DEF ReplicaInv, SpoolIsCovered, Covered, Pending
<1> QED
  BY <1>1, <1>3, <1>4, <1>5, <1>6, <1>7, <1>8, <1>9, <1>10

LEMMA TooLargeKeeps ==
  ASSUME ReplicaInv, pc = "read", SaveThen(WithQuarantine(mem, "tooLarge"), "idle"),
         info' = NoInfo,
         UNCHANGED <<file, disk, count, recovered, up, nextEpoch, unsaved, archiveVars, history>>
  PROVE  ReplicaInv'
<1>1. PICK st : st = WithQuarantine(mem, "tooLarge")
  OBVIOUS
<1>2. mem # NoState /\ up = NoCall /\ count \in 0 .. MaxChunksPerSync /\ recovered \in BOOLEAN
      /\ info' \in [ino : Inodes, size : Nat]
  BY DEF ReplicaInv, SyncIsSane, FileIsNumbered, NoInfo
<1>3. /\ st # NoState /\ st \in States /\ st.pending = mem.pending /\ st.quarantine = "tooLarge"
      /\ Sane(st)' /\ (~ raced => PureState(st))
      /\ (~ lost => Behind(st)) /\ (~ lost /\ ~ wiped => ArchiveLevelWith(st))
      /\ Ahead(disk, st) /\ \A ch \in spooled : Covered(st, ch)
  BY <1>1, <1>2, QuarantineFits
<1>4. SyncIsSane'
  BY <1>1, <1>2, <1>3, SaveIsSane
<1>5. DOMAIN call' = Calls /\ call' = call /\ UNCHANGED <<log, acked, limbo>> /\ up' = NoCall
      /\ nextEpoch' \in Nat \ {0} /\ nextEpoch <= nextEpoch'
  BY <1>2 DEF archiveVars, ReplicaInv, ArchiveIsSane
<1> QED
  BY <1>1, <1>3, <1>4, <1>5, MemKeeps

(* A chunk of complete lines from the cursor on.                            *)
LEMMA SpoolKeeps ==
  ASSUME ReplicaInv, pc = "read", NEW body \in Bodies, Len(body) \in Nat \ {0},
         \A x \in ToSet(body) : x[1] = file.gen,
         Spool(NewPending(body)), info' = NoInfo,
         UNCHANGED <<file, disk, count, recovered, up, nextEpoch, unsaved, archiveVars, history>>
  PROVE  ReplicaInv'
<1>1. PICK ch : ch = NewPending(body)
  OBVIOUS
<1>2. PICK st : st = WithPending(mem, ch)
  OBVIOUS
<1>3. PICK m : m = mem
  OBVIOUS
<1>4. m # NoState /\ up = NoCall /\ count \in 0 .. MaxChunksPerSync /\ recovered \in BOOLEAN
      /\ count < MaxChunksPerSync /\ m.pending = NoChunk
      /\ info' \in [ino : Inodes, size : Nat]
  BY <1>3 DEF ReplicaInv, SyncIsSane, FileIsNumbered, NoInfo, Goes, Pending
<1>5. Sane(m) /\ m \in States /\ m.epoch \in Epochs /\ m.cursor \in Nat
      /\ m.last \in Bodies \union {NoBody} /\ m.epoch < nextEpoch /\ (m.cursor = 0) = (m.last = NoBody)
      /\ m.last \in Seq(Lines)
  BY <1>3, <1>4, StateFields DEF ReplicaInv
<1>6. /\ ch.epoch = m.epoch /\ ch.start = m.cursor /\ ch.end = m.cursor + Len(body)
      /\ ch.body = body /\ ch.prev = m.last /\ ch \in Chunks
  BY <1>1, <1>3, <1>5 DEF NewPending, Chunks
<1>7. ch \in Offered /\ ch # NoChunk
  BY <1>5, <1>6, ReplicatorAssumption DEF Offered
<1>8. /\ st \in States /\ st.pending = ch /\ st.epoch = m.epoch /\ st.cursor = m.cursor
      /\ st.last = m.last /\ st.quarantine = m.quarantine
  <2>1. m \in States /\ ch \in Chunks \union {NoChunk} /\ st = WithPending(m, ch)
    BY <1>2, <1>3, <1>5, <1>6
  <2> QED
    BY <2>1, MadeStates
<1>9. st # NoState /\ SaveThen(st, "send")
  BY <1>1, <1>2, <1>8, NoStateAssumption DEF Spool, WithPending
<1>10. SyncIsSane'
  BY <1>4, <1>7, <1>8, <1>9, SaveIsSane
<1>11. Sane(st)'
  BY <1>5, <1>6, <1>7, <1>8 DEF Sane, Ready
<1>12. ASSUME ~ raced PROVE PureState(st)
  <2>1. BoundaryMatches /\ OneGeneration(m.last, m.last)
    BY <1>3, <1>4, <1>12 DEF ReplicaInv, GenerationsApart, PureState
  <2>2. OneGeneration(body, body)
    BY DEF OneGeneration
  <2>3. \A y \in ToSet(m.last) : y[1] = file.gen
    <3>1. CASE m.cursor = 0
      BY <1>5, <3>1 DEF ToSet, NoBody
    <3>2. CASE m.cursor # 0
      <4>1. m.cursor \in 1 .. Len(file.lines) /\ file.lines[m.cursor] = Last(m.last)
        BY <1>3, <1>5, <2>1, <3>2 DEF BoundaryMatches, ReplicaInv, FileIsNumbered
      <4>2. Last(m.last)[1] = file.gen
        BY <4>1 DEF ReplicaInv, FileIsNumbered
      <4>3. m.last # <<>> /\ Len(m.last) \in 1 .. Len(m.last)
        BY <1>5, <3>2 DEF NoBody
      <4>4. Last(m.last) \in ToSet(m.last)
        BY <4>3 DEF ToSet, Last
      <4> QED
        BY <2>1, <4>2, <4>4 DEF OneGeneration
    <3> QED
      BY <3>1, <3>2
  <2>4. OneGeneration(body, m.last)
    BY <2>3 DEF OneGeneration
  <2> QED
    BY <1>6, <1>8, <2>1, <2>2, <2>4 DEF PureState, Pure
<1>13. ~ lost => Behind(st)
  <2> SUFFICES ASSUME ~ lost PROVE Behind(st)
    OBVIOUS
  <2>1. \A x \in sent : x.epoch = m.epoch => x.start < m.cursor
    BY <1>3, <1>4, OfferedFields DEF ReplicaInv, SavesAreHeld, Behind, ArchiveIsSane
  <2> QED
    BY <1>8, <2>1 DEF Behind
<1>14. ~ lost /\ ~ wiped => ArchiveLevelWith(st) /\ st.quarantine \in {"none", "tooLarge"}
  <2> SUFFICES ASSUME ~ lost, ~ wiped
               PROVE  ArchiveLevelWith(st) /\ st.quarantine \in {"none", "tooLarge"}
    OBVIOUS
  <2>1. ArchiveLevelWith(m) /\ m.quarantine \in {"none", "tooLarge"}
    BY <1>3, <1>4 DEF ReplicaInv, NothingCollides, ArchiveLevelWithState, NoSpuriousConflict
  <2> QED
    BY <1>4, <1>8, <2>1 DEF ArchiveLevelWith
<1>15. \A x \in spooled : Covered(st, x)
  BY <1>3, <1>4 DEF ReplicaInv, SpoolIsCovered, Covered, Pending
<1>16. Ahead(disk, st)
  BY <1>3, <1>8, <1>9 DEF ReplicaInv, Ahead, Quarantined
<1>17. DOMAIN call' = Calls /\ call' = call /\ UNCHANGED <<log, acked, limbo>> /\ up' = NoCall
      /\ nextEpoch' \in Nat \ {0} /\ nextEpoch <= nextEpoch'
  BY <1>4 DEF archiveVars, ReplicaInv, ArchiveIsSane
<1> QED
  BY <1>9, <1>10, <1>11, <1>12, <1>13, <1>14, <1>15, <1>16, <1>17, MemKeeps

LEMMA ReadKeeps == ReplicaInv /\ Read => ReplicaInv'
<1> SUFFICES ASSUME ReplicaInv, Read PROVE ReplicaInv'
  OBVIOUS
<1>1. PICK upto : upto = IF mem.cursor + ChunkLines < info.size
                         THEN mem.cursor + ChunkLines ELSE info.size
  OBVIOUS
<1>2. PICK part : part = SubSeq(file.lines, mem.cursor + 1, upto)
  OBVIOUS
<1>3. /\ pc = "read"
      /\ UNCHANGED <<file, disk, nextEpoch, unsaved, archiveVars, history>>
      /\ \/ EndSync /\ UNCHANGED mem
         \/ /\ mem.cursor < info.size /\ Len(file.lines) >= upto /\ info' = NoInfo
            /\ UNCHANGED <<count, recovered, up>>
            /\ \/ SaveThen(WithQuarantine(mem, "tooLarge"), "idle")
               \/ \E k \in 1 .. Len(part) : Spool(NewPending(SubSeq(part, 1, k)))
  BY <1>1, <1>2 DEF Read, WithQuarantine
<1>4. mem # NoState /\ mem.cursor \in Nat /\ info.size \in Nat /\ (unsaved \/ disk = mem)
  BY <1>3, StateFields DEF ReplicaInv, SyncIsSane
<1>5. CASE EndSync /\ UNCHANGED mem
  <2>1. SyncIsSane' /\ up' = NoCall /\ pc' = "idle"
    BY <1>3, <1>4, <1>5, EndIsSane
  <2> QED
    BY <1>3, <1>5, <2>1, QuietKeeps
<1>6. CASE /\ info' = NoInfo /\ UNCHANGED <<count, recovered, up>>
           /\ SaveThen(WithQuarantine(mem, "tooLarge"), "idle")
  BY <1>3, <1>6, TooLargeKeeps
<1>7. ASSUME mem.cursor < info.size, Len(file.lines) >= upto, info' = NoInfo,
             UNCHANGED <<count, recovered, up>>,
             NEW k \in 1 .. Len(part), Spool(NewPending(SubSeq(part, 1, k)))
      PROVE  ReplicaInv'
  <2>1. upto \in Nat /\ mem.cursor < upto /\ upto <= Len(file.lines)
    BY <1>1, <1>4, <1>7, ReplicatorAssumption DEF ReplicaInv, FileIsNumbered
  <2>2. PICK body : body = SubSeq(part, 1, k)
    OBVIOUS
  <2>3. /\ body \in Bodies /\ Len(body) \in Nat \ {0}
        /\ \A x \in ToSet(body) : x[1] = file.gen
    BY <1>2, <1>4, <2>1, <2>2, ReadLines DEF ReplicaInv
  <2>4. Spool(NewPending(body))
    BY <1>7, <2>2
  <2> QED
    BY <1>3, <1>7, <2>3, <2>4, SpoolKeeps
<1> QED
  BY <1>3, <1>5, <1>6, <1>7

-----------------------------------------------------------------------------
(* The answer is here.                                                      *)
LEMMA AnsweredFacts ==
  ASSUME ReplicaInv, NEW results, Answered(results)
  PROVE  /\ pc = "wait" /\ up \in Calls /\ call[up].chunk = mem.pending /\ mem # NoState
         /\ call[up].res \in results /\ call[up].st = "answered"
         /\ mem.pending \in sent /\ mem.pending \in Offered
         /\ mem.pending # NoChunk /\ Pending(mem) = mem.pending
         /\ count \in 0 .. MaxChunksPerSync /\ count < MaxChunksPerSync
         /\ info \in [ino : Inodes, size : Nat] /\ recovered \in BOOLEAN
         /\ DOMAIN call' = Calls /\ UNCHANGED <<log, acked, limbo>>
         /\ \A s \in Calls : call'[s] = call[s] \/ call'[s] = Archive!Idle
<1>1. pc = "wait" /\ call[up].st = "answered" /\ call[up].res \in results /\ Archive!Consume(up)
  BY DEF Answered
<1>2. /\ up \in Calls /\ (call[up] = Archive!Idle \/ call[up].chunk = mem.pending)
      /\ count \in 0 .. MaxChunksPerSync /\ count < MaxChunksPerSync
      /\ info \in [ino : Inodes, size : Nat] /\ recovered \in BOOLEAN /\ Pending(mem) # NoChunk
  BY <1>1 DEF ReplicaInv, SyncIsSane, ArchiveIsSane
<1>3. call[up].chunk = mem.pending
  BY <1>1, <1>2 DEF Archive!Idle
<1>4. mem.pending \in sent /\ mem.pending \in Offered
  BY <1>1, <1>2, <1>3, HeardOf
<1>5. mem # NoState /\ Pending(mem) = mem.pending
  BY <1>2 DEF Pending
<1>6. /\ DOMAIN call' = Calls /\ UNCHANGED <<log, acked, limbo>>
      /\ \A s \in Calls : call'[s] = call[s] \/ call'[s] = Archive!Idle
  BY <1>1, <1>2, ConsumeFacts
<1> QED
  BY <1>1, <1>2, <1>3, <1>4, <1>5, <1>6

Advanced(m) ==
  [m EXCEPT !.cursor = m.pending.end, !.last = m.pending.body,
            !.pending = NoChunk, !.recovery = FALSE]

LEMMA AdvancedState ==
  ASSUME NEW m \in States, m.pending \in Offered
  PROVE  /\ Advanced(m) \in States /\ Advanced(m).epoch = m.epoch
         /\ Advanced(m).cursor = m.pending.end /\ Advanced(m).last = m.pending.body
         /\ Advanced(m).pending = NoChunk /\ Advanced(m).quarantine = m.quarantine
<1>1. m.pending.end \in Nat /\ m.pending.body \in Bodies
  BY OfferedFields
<1>2. PICK n, b : n = m.pending.end /\ b = m.pending.body
  OBVIOUS
<1>3. Advanced(m) = [m EXCEPT !.cursor = n, !.last = b, !.pending = NoChunk, !.recovery = FALSE]
  BY <1>2 DEF Advanced
<1> QED
  BY <1>1, <1>2, <1>3 DEF States

LEMMA AcknowledgedKeeps == ReplicaInv /\ Acknowledged => ReplicaInv'
<1> SUFFICES ASSUME ReplicaInv, Acknowledged PROVE ReplicaInv'
  OBVIOUS
<1>1. PICK m : m = mem
  OBVIOUS
<1>2. PICK st : st = Advanced(m)
  OBVIOUS
<1>3. PICK next : next = IF count + 1 < MaxChunksPerSync THEN "stat" ELSE "idle"
  OBVIOUS
<1>4. /\ Answered({"ack"}) /\ SaveThen(st, next) /\ count' = count + 1 /\ up' = NoCall
      /\ UNCHANGED <<file, disk, info, recovered, nextEpoch, unsaved, history>>
  BY <1>1, <1>2, <1>3 DEF Acknowledged, Advanced
<1>5. PICK ch : ch = m.pending
  OBVIOUS
<1>6. /\ up \in Calls /\ call[up].chunk = ch /\ m # NoState
      /\ call[up].res = "ack" /\ call[up].st = "answered"
      /\ ch \in sent /\ ch \in Offered /\ ch # NoChunk /\ Pending(m) = ch
      /\ count \in 0 .. MaxChunksPerSync /\ count < MaxChunksPerSync
      /\ info \in [ino : Inodes, size : Nat] /\ recovered \in BOOLEAN
      /\ DOMAIN call' = Calls /\ UNCHANGED <<log, acked, limbo>>
      /\ \A s \in Calls : call'[s] = call[s] \/ call'[s] = Archive!Idle
  BY <1>1, <1>4, <1>5, AnsweredFacts
<1>7. ch \in acked
  BY <1>6, HeardOf
<1>8. /\ Sane(m) /\ m \in States /\ m.epoch \in Epochs /\ m.cursor \in Nat /\ m.epoch < nextEpoch
      /\ ch.epoch = m.epoch /\ ch.start = m.cursor /\ ch.prev = m.last
  BY <1>1, <1>5, <1>6, StateFields DEF ReplicaInv
<1>9. /\ ch.start \in Nat /\ ch.end \in Nat /\ ch.start < ch.end /\ ch.end # 0 /\ ch.body # NoBody
  BY <1>6, OfferedFields
<1>10. /\ st \in States /\ st.epoch = m.epoch /\ st.cursor = ch.end /\ st.last = ch.body
       /\ st.pending = NoChunk /\ st.quarantine = m.quarantine
  BY <1>2, <1>5, <1>6, <1>8, AdvancedState
<1>11. st # NoState
  BY <1>10, NoStateAssumption
<1>12. SyncIsSane'
  <2>1. /\ next \in {"idle", "stat"} /\ count' \in 0 .. MaxChunksPerSync
        /\ (next = "idle" \/ count' < MaxChunksPerSync)
    BY <1>3, <1>4, <1>6, ReplicatorAssumption
  <2>2. info' \in [ino : Inodes, size : Nat] /\ recovered' \in BOOLEAN
    BY <1>4, <1>6
  <2> QED
    BY <1>4, <1>10, <1>11, <2>1, <2>2, SaveIsSane
<1>13. Sane(st)'
  BY <1>4, <1>8, <1>9, <1>10 DEF Sane, Ready
<1>14. ~ raced => PureState(st) /\ (next = "read" => st.cursor = 0)
  <2>1. next # "read"
    BY <1>3
  <2> QED
    BY <1>1, <1>5, <1>6, <1>10, <2>1 DEF ReplicaInv, GenerationsApart, PureState, Pure
<1>15. ~ lost => Behind(st)
  <2> SUFFICES ASSUME ~ lost, NEW x \in sent, x.epoch = m.epoch PROVE x.start < ch.end
    BY <1>10 DEF Behind
  <2>1. x.start < m.cursor \/ x = ch
    BY <1>1, <1>5, <1>6 DEF ReplicaInv, SavesAreHeld, Behind
  <2>2. x.start \in Nat
    BY OfferedFields DEF ReplicaInv, ArchiveIsSane
  <2> QED
    BY <1>8, <1>9, <2>1, <2>2
<1>16. ~ lost /\ ~ wiped => ArchiveLevelWith(st) /\ st.quarantine \in {"none", "tooLarge"}
  <2> SUFFICES ASSUME ~ lost, ~ wiped
               PROVE  ArchiveLevelWith(st) /\ st.quarantine \in {"none", "tooLarge"}
    OBVIOUS
  <2>1. ArchiveLevelWith(m) /\ m.quarantine \in {"none", "tooLarge"}
    BY <1>1, <1>6 DEF ReplicaInv, NothingCollides, ArchiveLevelWithState, NoSpuriousConflict
  <2>2. PICK l : l = log[m.epoch]
    OBVIOUS
  <2>3. LogIsOf(m.epoch, l) /\ Archive!Contains(l, ch)
    BY <1>7, <1>8, <2>2 DEF ReplicaInv, ArchiveIsSane
  <2>4. /\ Archive!Offset(l) \in Nat /\ ch.end <= Archive!Offset(l)
        /\ (l # <<>> => Archive!Offset(l) = Last(l).end /\ Archive!LastBody(l) = Last(l).body)
    BY <2>3, LogFields
  <2>5. Archive!Offset(l) # m.cursor
    BY <1>8, <1>9, <2>4
  <2>6. l # <<>> /\ Last(l) = ch
    BY <1>5, <2>1, <2>2, <2>5 DEF ArchiveLevelWith
  <2>7. Archive!Offset(l) = st.cursor /\ Archive!LastBody(l) = st.last
    BY <1>10, <2>4, <2>6
  <2> QED
    BY <1>10, <2>1, <2>2, <2>7 DEF ArchiveLevelWith
<1>17. \A x \in spooled : Covered(st, x)
  BY <1>1, <1>6, <1>7 DEF ReplicaInv, SpoolIsCovered, Covered
<1>18. Ahead(disk, st)
  <2> SUFFICES ASSUME disk # NoState
               PROVE  \/ st.epoch > disk.epoch
                      \/ /\ st.epoch = disk.epoch /\ st.cursor >= disk.cursor
                         /\ Quarantined(disk) => Quarantined(st)
    BY <1>11 DEF Ahead
  <2>1. \/ m.epoch > disk.epoch
        \/ /\ m.epoch = disk.epoch /\ m.cursor >= disk.cursor
           /\ Quarantined(disk) => Quarantined(m)
    BY <1>1 DEF ReplicaInv, Ahead
  <2>2. disk.cursor \in Nat
    BY StateFields DEF ReplicaInv
  <2>3. Quarantined(m) => Quarantined(st)
    BY <1>10, <1>11 DEF Quarantined
  <2>4. m.cursor >= disk.cursor => st.cursor >= disk.cursor
    BY <1>8, <1>9, <1>10, <2>2
  <2> QED
    BY <1>10, <2>1, <2>3, <2>4
<1>19. nextEpoch' \in Nat \ {0} /\ nextEpoch <= nextEpoch'
  BY <1>4 DEF ReplicaInv
<1> QED
  BY <1>4, <1>6, <1>11, <1>12, <1>13, <1>14, <1>15, <1>16, <1>17, <1>18, <1>19, MemKeeps

(* The replay of a refused first chunk in a new epoch.                      *)
Replay(ch, ino, e) ==
  [Fresh(e, ino) EXCEPT !.pending = [ch EXCEPT !.epoch = e], !.recovery = TRUE]

LEMMA ReplayedState ==
  ASSUME NEW ch \in Offered, NEW ino \in Inodes, NEW e \in Epochs, Replayable(ch)
  PROVE  /\ Replay(ch, ino, e) \in States /\ Replay(ch, ino, e).epoch = e
         /\ Replay(ch, ino, e).cursor = 0 /\ Replay(ch, ino, e).last = NoBody
         /\ Replay(ch, ino, e).quarantine = "none"
         /\ Replay(ch, ino, e).pending \in Offered
         /\ Replay(ch, ino, e).pending.epoch = e /\ Replay(ch, ino, e).pending.start = 0
         /\ Replay(ch, ino, e).pending.prev = NoBody
         /\ Replay(ch, ino, e).pending.start = ch.start
         /\ Replay(ch, ino, e).pending.prev = ch.prev
         /\ Replay(ch, ino, e).pending.body = ch.body
<1>1. PICK x : x = [ch EXCEPT !.epoch = e]
  OBVIOUS
<1>2. /\ x \in Chunks /\ x.epoch = e /\ x.start = ch.start /\ x.end = ch.end
      /\ x.body = ch.body /\ x.prev = ch.prev
  BY <1>1 DEF Offered, Chunks
<1>3. x \in Offered
  BY <1>2 DEF Offered
<1>4. Fresh(e, ino) \in States
  BY DEF Fresh, States
<1>5. PICK s : s = Fresh(e, ino)
  OBVIOUS
<1>6. s \in States /\ s.epoch = e /\ s.cursor = 0 /\ s.last = NoBody /\ s.quarantine = "none"
  BY <1>4, <1>5 DEF Fresh
<1>7. Replay(ch, ino, e) = [s EXCEPT !.pending = x, !.recovery = TRUE]
  BY <1>1, <1>5 DEF Replay
<1>8. PICK r : r = [s EXCEPT !.pending = x, !.recovery = TRUE]
  OBVIOUS
<1>9. /\ r \in States /\ r.epoch = s.epoch /\ r.cursor = s.cursor /\ r.last = s.last
      /\ r.quarantine = s.quarantine /\ r.pending = x
  BY <1>2, <1>6, <1>8 DEF States
<1>10. Replay(ch, ino, e) = r /\ ch.start = 0 /\ ch.prev = NoBody
  BY <1>7, <1>8 DEF Replayable
<1> QED
  BY <1>2, <1>3, <1>6, <1>9, <1>10

LEMMA RecoverConflictKeeps == ReplicaInv /\ RecoverConflict => ReplicaInv'
<1> SUFFICES ASSUME ReplicaInv, RecoverConflict PROVE ReplicaInv'
  OBVIOUS
<1>1. PICK m : m = mem
  OBVIOUS
<1>2. PICK ch : ch = m.pending
  OBVIOUS
<1>3. /\ Answered({"cursorMismatch", "chainMismatch"}) /\ up' = NoCall
      /\ UNCHANGED <<file, disk, info, count, unsaved, history>>
      /\ \/ SaveThen(WithQuarantine(mem, "remoteConflict"), "idle") /\ UNCHANGED <<recovered, nextEpoch>>
         \/ SaveThen(WithQuarantine(mem, "prefixNotSpooled"), "idle") /\ UNCHANGED <<recovered, nextEpoch>>
         \/ /\ Replayable(ch) /\ nextEpoch \in Epochs
            /\ SaveThen(Replay(ch, m.ino, nextEpoch), "send")
            /\ nextEpoch' = nextEpoch + 1 /\ recovered' = TRUE
  BY <1>1, <1>2 DEF RecoverConflict, WithQuarantine, Replay
<1>4. /\ up \in Calls /\ call[up].chunk = ch /\ m # NoState
      /\ call[up].res \in {"cursorMismatch", "chainMismatch"} /\ call[up].st = "answered"
      /\ ch \in sent /\ ch \in Offered /\ ch # NoChunk /\ Pending(m) = ch
      /\ count \in 0 .. MaxChunksPerSync /\ count < MaxChunksPerSync
      /\ info \in [ino : Inodes, size : Nat] /\ recovered \in BOOLEAN
      /\ DOMAIN call' = Calls /\ UNCHANGED <<log, acked, limbo>>
      /\ \A s \in Calls : call'[s] = call[s] \/ call'[s] = Archive!Idle
  BY <1>1, <1>2, <1>3, AnsweredFacts
<1>5. lost \/ wiped
  BY <1>4 DEF ReplicaInv, NothingCollides, NoSpuriousConflict
<1>6. /\ info' \in [ino : Inodes, size : Nat] /\ count' \in 0 .. MaxChunksPerSync
      /\ count' < MaxChunksPerSync
  BY <1>3, <1>4
<1>7. ASSUME NEW q \in {"remoteConflict", "prefixNotSpooled"},
             SaveThen(WithQuarantine(mem, q), "idle"), UNCHANGED <<recovered, nextEpoch>>
      PROVE  ReplicaInv'
  <2>1. PICK st : st = WithQuarantine(mem, q)
    OBVIOUS
  <2>2. /\ st # NoState /\ st \in States /\ st.pending = mem.pending /\ st.quarantine = q
        /\ Sane(st)' /\ (~ raced => PureState(st))
        /\ (~ lost => Behind(st)) /\ (~ lost /\ ~ wiped => ArchiveLevelWith(st))
        /\ Ahead(disk, st) /\ \A x \in spooled : Covered(st, x)
    BY <1>1, <1>4, <1>7, <2>1, QuarantineFits
  <2>3. SyncIsSane'
    BY <1>3, <1>4, <1>6, <1>7, <2>1, <2>2, SaveIsSane
  <2>4. nextEpoch' \in Nat \ {0} /\ nextEpoch <= nextEpoch'
    BY <1>7 DEF ReplicaInv
  <2> QED
    BY <1>3, <1>4, <1>5, <1>7, <2>1, <2>2, <2>3, <2>4, MemKeeps
<1>8. ASSUME Replayable(ch), nextEpoch \in Epochs,
             SaveThen(Replay(ch, m.ino, nextEpoch), "send"),
             nextEpoch' = nextEpoch + 1, recovered' = TRUE
      PROVE  ReplicaInv'
  <2>1. PICK st, x : st = Replay(ch, m.ino, nextEpoch) /\ x = st.pending
    OBVIOUS
  <2>2. m.ino \in Inodes
    BY <1>1, <1>4, StateFields DEF ReplicaInv
  <2>3. /\ st \in States /\ st.epoch = nextEpoch /\ st.cursor = 0 /\ st.last = NoBody
        /\ st.quarantine = "none" /\ x = st.pending /\ x \in Offered /\ x.epoch = nextEpoch
        /\ x.start = 0 /\ x.prev = NoBody /\ x.start = ch.start /\ x.prev = ch.prev
        /\ x.body = ch.body
    BY <1>4, <1>8, <2>1, <2>2, ReplayedState
  <2>4. st # NoState /\ x # NoChunk
    BY <2>3, NoStateAssumption, OfferedFields
  <2>5. nextEpoch \in Nat \ {0} /\ nextEpoch' \in Nat \ {0} /\ nextEpoch <= nextEpoch'
        /\ nextEpoch < nextEpoch'
    BY <1>8 DEF ReplicaInv
  <2>6. SyncIsSane'
    BY <1>3, <1>6, <1>8, <2>1, <2>3, <2>4, SaveIsSane
  <2>7. Sane(st)'
    BY <2>3, <2>5 DEF Sane, Ready
  <2>8. Behind(st) /\ ArchiveLevelWith(st) /\ Ahead(disk, st) /\ OneGeneration(st.last, st.last)
    BY <1>8, <2>3, <2>4, NewEpochFits
  <2>9. ~ raced => PureState(st)
    <3>1. ~ raced => Pure(ch)
      BY <1>4 DEF ReplicaInv, GenerationsApart
    <3> QED
      BY <2>3, <2>8, <3>1 DEF PureState, Pure
  <2>10. \A y \in spooled : Covered(st, y)
    <3>1. Pending(st) = x
      BY <2>3, <2>4 DEF Pending
    <3> QED
      BY <1>1, <1>4, <2>3, <2>4, <3>1 DEF ReplicaInv, SpoolIsCovered, Covered
  <2> QED
    BY <1>3, <1>4, <1>5, <1>8, <2>1, <2>4, <2>5, <2>6, <2>7, <2>8, <2>9, <2>10, MemKeeps
<1> QED
  BY <1>3, <1>7, <1>8

-----------------------------------------------------------------------------
LEMMA ReplicaInvInit == Init => ReplicaInv
<1> SUFFICES ASSUME Init PROVE ReplicaInv
  OBVIOUS
<1>1. /\ file \in [ino : Inodes, gen : {1}, lines : {<<>>}]
      /\ mem = NoState /\ disk = NoState /\ pc = "idle" /\ after = "idle" /\ info = NoInfo
      /\ count = 0 /\ recovered = FALSE /\ up = NoCall /\ nextEpoch = 1 /\ unsaved = FALSE
      /\ log = [e \in Epochs |-> <<>>] /\ call = [r \in Calls |-> Archive!Idle]
      /\ acked = {} /\ limbo = {} /\ sent = {} /\ spooled = {}
      /\ raced = FALSE /\ lost = FALSE /\ wiped = FALSE
  BY DEF Init, Archive!Init
<1>2. <<>> \in Seq(Lines) /\ <<>> \in Seq(Offered)
  OBVIOUS
<1>3. 1 \in Generations
  BY ReplicatorAssumption
<1>4. FileIsNumbered
  <2>1. file \in [ino : Inodes, gen : Generations, lines : Seq(Lines)]
    BY <1>1, <1>2, <1>3
  <2>2. file.lines = <<>>
    BY <1>1
  <2>3. Len(file.lines) = 0
    BY <2>2
  <2> QED
    BY <2>1, <2>3 DEF FileIsNumbered
<1>5. SyncIsSane
  <2>1. NoInfo \in [ino : Inodes, size : Nat]
    BY <1>1 DEF NoInfo
  <2>2. Pending(mem) = NoChunk
    BY <1>1 DEF Pending
  <2>3. 0 \in 0 .. MaxChunksPerSync /\ 0 < MaxChunksPerSync
    BY ReplicatorAssumption
  <2> QED
    BY <1>1, <2>1, <2>2, <2>3 DEF SyncIsSane, Goes, Steps
<1>6. Sane(mem) /\ Sane(disk) /\ nextEpoch \in Nat \ {0}
  BY <1>1 DEF Sane
<1>7. ArchiveIsSane
  <2>1. \A e \in Epochs : LogIsOf(e, log[e])
    BY <1>1, <1>2 DEF LogIsOf
  <2>2. \A r \in Calls : Heard(call[r])
    BY <1>1 DEF Heard
  <2>3. log \in [Epochs -> Seq(Offered)]
    BY <1>1, <1>2
  <2> QED
    BY <1>1, <2>1, <2>2, <2>3 DEF ArchiveIsSane
<1>8. GenerationsApart
  BY <1>1 DEF GenerationsApart, PureState, EpochHoldsOneGeneration
<1>9. SavesAreHeld
  BY <1>1 DEF SavesAreHeld, RetriesAreIdentical, Behind
<1>10. NothingCollides
  <2>1. Archive!Idle.st = "idle"
    BY DEF Archive!Idle
  <2>2. \A r \in Calls : call[r].st # "answered"
    BY <1>1, <2>1
  <2> QED
    BY <1>1, <2>2 DEF NothingCollides, ArchiveLevelWithState, NoSpuriousConflict
<1>11. SpoolIsCovered /\ Ahead(disk, mem)
  BY <1>1 DEF SpoolIsCovered, Ahead
<1> QED
  BY <1>1, <1>4, <1>5, <1>6, <1>7, <1>8, <1>9, <1>10, <1>11 DEF ReplicaInv

LEMMA NextKeeps == ReplicaInv /\ [Next]_vars => ReplicaInv'
<1> SUFFICES ASSUME ReplicaInv, [Next]_vars PROVE ReplicaInv'
  OBVIOUS
<1>1. CASE Sync
  BY <1>1, SyncStartKeeps, StatKeeps, CheckBoundaryKeeps, ReadKeeps, SaveKeeps, SendKeeps,
     AcknowledgedKeeps, RecoverConflictKeeps, UploadFailsKeeps DEF Sync
<1>2. CASE Fault
  BY <1>2, SaveFailsKeeps, GiveUpKeeps, CrashKeeps, ArchiveServesKeeps DEF Fault
<1>3. CASE AppendLine \/ Replace
  BY <1>3, AppendLineKeeps, ReplaceKeeps
<1>4. CASE OtherSessionSaves
  BY <1>4, OtherSessionSavesKeeps
<1>5. CASE ArchiveServes \/ ArchiveWiped
  BY <1>5, ArchiveServesKeeps, ArchiveWipedKeeps
<1>6. CASE UNCHANGED vars
  <2>1. UNCHANGED <<file, disk, unsaved>> /\ UNCHANGED Elsewhere
    BY <1>6 DEF vars, Elsewhere, syncVars, history
  <2>2. UNCHANGED archiveVars
    BY <1>6 DEF vars
  <2>3. /\ SyncIsSane' /\ up' = up /\ pc' = pc /\ after' = after
        /\ UNCHANGED <<file, mem, disk, nextEpoch, unsaved, history>>
    BY <2>1, ElsewhereFacts
  <2>4. DOMAIN call' = Calls /\ limbo' \subseteq sent /\ call' = call /\ UNCHANGED <<log, acked>>
    BY <2>2 DEF archiveVars, ReplicaInv, ArchiveIsSane
  <2> QED
    BY <2>3, <2>4, CallsEnd
<1> QED
  BY <1>1, <1>2, <1>3, <1>4, <1>5, <1>6 DEF Next

(* Whatever the file's owner, the disk, the archive and crashes do, the     *)
(* states in memory and on disk, the chunks uploaded and the archive stay   *)
(* as the replicator's comments and tests say: this is the invariant that   *)
(* the theorems below rest on.                                              *)
THEOREM ReplicaIsSound == Spec => []ReplicaInv
<1>1. Init => ReplicaInv
  BY ReplicaInvInit
<1>2. ReplicaInv /\ [Next]_vars => ReplicaInv'
  BY NextKeeps
<1> QED
  BY <1>1, <1>2, PTL DEF Spec

-----------------------------------------------------------------------------
LEMMA InvTypes == ReplicaInv => TypeOK
<1> SUFFICES ASSUME ReplicaInv PROVE TypeOK
  OBVIOUS
<1>1. file.ino \in Inodes /\ file.gen \in Generations /\ file.lines \in Seq(Lines)
  BY DEF ReplicaInv, FileIsNumbered
<1>2. mem \in States \union {NoState} /\ disk \in States \union {NoState}
  BY DEF ReplicaInv, Sane
<1>3. /\ pc \in Steps /\ after \in Steps
      /\ pc \in {"send", "wait"} => Pending(mem) # NoChunk
      /\ (pc = "wait") = (up # NoCall)
      /\ info \in [ino : Inodes, size : Nat] /\ count \in 0 .. MaxChunksPerSync
      /\ recovered \in BOOLEAN
  BY DEF ReplicaInv, SyncIsSane, Goes, Steps
<1>4. {recovered, unsaved, raced, lost, wiped} \subseteq BOOLEAN /\ nextEpoch \in Nat
  BY <1>3 DEF ReplicaInv
<1>5. \A e \in Epochs : log[e] \in Seq(Chunks)
  <2>1. TAKE e \in Epochs
  <2>2. log[e] \in Seq(Offered)
    BY DEF ReplicaInv, ArchiveIsSane
  <2> QED
    BY <2>2 DEF Offered
<1>6. \A r \in Calls : call[r].st # "idle" => call[r].chunk \in Chunks
  BY HeardOf, OfferedFields
<1> QED
  BY <1>1, <1>2, <1>3, <1>4, <1>5, <1>6 DEF TypeOK

(* The states of the sync, of the session and of the uploads under way are  *)
(* what the code takes them for: a request waits with its chunk pending, a  *)
(* log holds chunks, and no sync counts more chunks than its limit.         *)
THEOREM ReplicaTypeCorrect == Spec => []TypeOK
BY ReplicaIsSound, InvTypes, PTL

(* The bytes of an upload are saved before its first attempt, so a range of *)
(* an epoch is offered with the same bytes whatever crashes, failed writes  *)
(* and changes of the file come between (as long as no crash loses a state  *)
(* whose save had failed), and an epoch holds the lines of one file (as     *)
(* long as the file is not replaced between a sync's stat and its read).    *)
THEOREM ReplicaUploadsAreSound == Spec => []UploadsAreSound
<1>1. ReplicaInv => UploadsAreSound
  BY DEF ReplicaInv, UploadsAreSound, RetriesAreIdenticalOnceSaved, SavesAreHeld,
         EpochHoldsOneGenerationUnraced, GenerationsApart
<1> QED
  BY <1>1, ReplicaIsSound, PTL

(* A chunk that was on disk stays there until its bytes are acknowledged;   *)
(* the archive is level with the states, or ahead by the pending chunk; and *)
(* no upload of the connector is refused because of another one.            *)
THEOREM ReplicaSkipsNothing == Spec => []NothingIsSkipped
<1>1. ReplicaInv => NothingIsSkipped
  <2> SUFFICES ASSUME ReplicaInv PROVE NothingIsSkipped
    OBVIOUS
  <2>1. SpoolNeverLost
    BY DEF ReplicaInv, SpoolIsCovered, Covered, SpoolNeverLost
  <2>2. ArchiveLevelWithState
    BY DEF ReplicaInv, NothingCollides, ArchiveLevelWithState
  <2>3. NoSpuriousConflict
    BY DEF ReplicaInv, NothingCollides, NoSpuriousConflict
  <2> QED
    BY <2>1, <2>2, <2>3 DEF NothingIsSkipped
<1> QED
  BY <1>1, ReplicaIsSound, PTL

(* No write to the state file takes the session back: the epoch of the      *)
(* state on disk only grows, and within one the cursor does not fall and a  *)
(* quarantine stays.                                                        *)
THEOREM ReplicaStateMovesForward == Spec => DurableStateMovesForward
<1> DEFINE Forward ==
             disk # NoState =>
               \/ disk'.epoch > disk.epoch
               \/ /\ disk'.epoch = disk.epoch
                  /\ disk'.cursor >= disk.cursor
                  /\ Quarantined(disk) => Quarantined(disk')
<1>1. ReplicaInv /\ [Next]_vars => [Forward]_disk
  <2> SUFFICES ASSUME ReplicaInv, [Next]_vars, disk' # disk PROVE Forward
    OBVIOUS
  <2>1. disk' = mem
    <3>1. CASE Save \/ OtherSessionSaves
      BY <3>1 DEF Save, OtherSessionSaves
    <3>2. ~ (Save \/ OtherSessionSaves) => UNCHANGED disk
      BY DEF Next, Sync, Fault, SyncStart, Stat, CheckBoundary, Read, Send, Acknowledged,
             RecoverConflict, UploadFails, SaveFails, GiveUp, SourceFails, Crash, ArchiveFails,
             AppendLine, Replace, ArchiveServes, ArchiveWiped, vars
    <3> QED
      BY <3>1, <3>2
  <2> QED
    BY <2>1 DEF ReplicaInv, Ahead
<1>2. [][Next]_vars /\ []ReplicaInv => [][Forward]_disk
  BY <1>1, PTL
<1> QED
  BY <1>2, ReplicaIsSound, PTL DEF Spec, DurableStateMovesForward
=============================================================================
