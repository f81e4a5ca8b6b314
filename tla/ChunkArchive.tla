---------------------------- MODULE ChunkArchive ----------------------------
(***************************************************************************)
(* The controller's transcript archive (lib/transcript-archive.mjs) on an  *)
(* object store (lib/artifact-storage.mjs).                                *)
(*                                                                         *)
(* A commit is three object writes, raw bytes, range metadata, manifest,   *)
(* with nothing to tie them together but their order: the manifest names   *)
(* the last committed chunk, and each range names the one before it.       *)
(* Inside a controller the commits of an epoch are serialized by a promise *)
(* chain; between controllers, which overlap during a rollout, only the    *)
(* store's conditional write keeps the manifest from going backward.       *)
(*                                                                         *)
(* Every storage operation is a step of its own, and may fail before or    *)
(* after it took effect.  Controllers crash and callers hang up between    *)
(* any two steps.                                                          *)
(***************************************************************************)
EXTENDS Naturals, Sequences, FiniteSets

CONSTANTS
  Epochs, Bodies, NoBody, Calls, Offered,  \* as in EpochLog
  Controllers,        \* processes that serve uploads from the same store
  ConditionalWrites,  \* s3 and gcs: put with a precondition; not local
  AtomicPuts,         \* s3 and gcs: an object is never half written; not local
  MaxAttempts,        \* commits tried against a moving manifest (5)
  MaxDuplicateReads,  \* range reads of one duplicate check (64)
  NoChunk, NoController

Chunks == [epoch : Epochs, start : Nat, end : Nat,
           body : Bodies, prev : Bodies \union {NoBody}]

ASSUME StorageAssumption ==
  /\ ConditionalWrites \in BOOLEAN
  /\ AtomicPuts \in BOOLEAN
  /\ ConditionalWrites => AtomicPuts
  \* A store without conditional writes is a directory of one machine.
  /\ ~ ConditionalWrites => \A c, d \in Controllers : c = d

ASSUME OfferedAssumption ==
  /\ Offered \subseteq Chunks
  /\ \A ch \in Offered : ch.start < ch.end

ASSUME LimitAssumption ==
  MaxAttempts \in Nat \ {0} /\ MaxDuplicateReads \in Nat \ {0}

ASSUME NullAssumption ==
  NoBody \notin Bodies /\ NoChunk \notin Chunks /\ NoController \notin Controllers

VARIABLES
  raw,       \* keys of the raw chunks in the store
  ranges,    \* range metadata in the store: chunk -> the chunk before it
  manifest,  \* manifest[e]: committed offset and last chunk
  torn,      \* keys of the objects of which only a part was written
  late,      \* manifest writes given up by their writer, still under way
  req,       \* req[r]: the upload in slot r
  queue,     \* queue[c][e]: manifestWriters, the commits waiting in c
  walks,     \* walks[c]: duplicateProgress, chunk -> position of its walk
  log,       \* history: the chunks whose manifest write took effect
  acked,     \* history: the chunks a caller was told are durable
  reported   \* history: onChunkCommitted's calls, in order

storeVars == <<raw, ranges, manifest, torn, late>>
ctrlVars == <<req, queue, walks>>
vars == <<storeVars, ctrlVars, log, acked, reported>>

-----------------------------------------------------------------------------
Manifests == [off : Nat, last : Offered \union {NoChunk}]

NoManifest == [off |-> 0, last |-> NoChunk]

Reading == {"walk", "verifyRaw"}
Writing == {"putRaw", "putRange", "putManifest"}
Running == Reading \union Writing \union {"callback"}
Busy == Running \union {"queued"}

Results == {"none", "ack", "epochConflict", "cursorMismatch", "chainMismatch",
            "verifying", "invalid", "error"}

Requests == [pc : {"idle", "answered"} \union Busy,
             ctrl : Controllers \union {NoController},
             chunk : Offered \union {NoChunk},
             view : Manifests, reads : Nat, tries : Nat,
             left : BOOLEAN, res : Results]

IdleRequest == [pc |-> "idle", ctrl |-> NoController, chunk |-> NoChunk,
                view |-> NoManifest, reads |-> 0, tries |-> 0,
                left |-> FALSE, res |-> "none"]

(* chunkKey: the epoch, the range and the hash of the bytes.  metadataKey   *)
(* also covers the hash of the preceding chunk, so a chunk is its own key.  *)
RawKey(ch) == [epoch |-> ch.epoch, start |-> ch.start, end |-> ch.end,
               body |-> ch.body]

RawKeys == [epoch : Epochs, start : Nat, end : Nat, body : Bodies]

ObjectOf(r) ==
  CASE req[r].pc = "putRaw" -> <<"raw", RawKey(req[r].chunk)>>
    [] req[r].pc = "putRange" -> <<"range", req[r].chunk>>
    [] OTHER -> <<"manifest", req[r].chunk.epoch>>

LastBody(m) == IF m.last = NoChunk THEN NoBody ELSE m.last.body

SameRange(a, b) == a.start = b.start /\ a.end = b.end
MyQueue(r) == queue[req[r].ctrl][req[r].chunk.epoch]

(* Mutant of Leading.                                                       *)
LeadingOrNot(r) == MyQueue(r) # <<>>

Leading(r) == MyQueue(r) # <<>> /\ Head(MyQueue(r)) = r

-----------------------------------------------------------------------------
Init ==
  /\ raw = {}
  /\ ranges = <<>>
  /\ manifest = [e \in Epochs |-> NoManifest]
  /\ torn = {}
  /\ late = {}
  /\ req = [r \in Calls |-> IdleRequest]
  /\ queue = [c \in Controllers |-> [e \in Epochs |-> <<>>]]
  /\ walks = [c \in Controllers |-> <<>>]
  /\ log = [e \in Epochs |-> <<>>]
  /\ acked = {}
  /\ reported = <<>>

(* The commit of r settles with res: the next commit of the epoch may run,  *)
(* and the caller, if it is still there, has its answer.                    *)
Dequeue(r) ==
  queue' = [queue EXCEPT ![req[r].ctrl][req[r].chunk.epoch] = Tail(@)]

(* Mutant of Settle.                                                        *)
SettleKeepingQueue(r, res) ==
  /\ IF res = "error" THEN UNCHANGED queue ELSE Dequeue(r)
  /\ req' = [req EXCEPT ![r] =
               IF @.left THEN IdleRequest
               ELSE [IdleRequest EXCEPT !.pc = "answered", !.chunk = req[r].chunk,
                                        !.res = res]]
  /\ acked' = IF res = "ack" /\ ~ req[r].left
              THEN acked \union {req[r].chunk} ELSE acked

(* Mutant of Settle.                                                        *)
SettleKeepingRequest(r, res) ==
  /\ Dequeue(r)
  /\ req' = [req EXCEPT ![r].pc = IF req[r].left THEN "idle" ELSE "answered",
                        ![r].res = res]
  /\ acked' = IF res = "ack" /\ ~ req[r].left
              THEN acked \union {req[r].chunk} ELSE acked

Settle(r, res) ==
  /\ Dequeue(r)
  /\ req' = [req EXCEPT ![r] =
               IF @.left THEN IdleRequest
               ELSE [IdleRequest EXCEPT !.pc = "answered", !.chunk = req[r].chunk,
                                        !.res = res]]
  /\ acked' = IF res = "ack" /\ ~ req[r].left
              THEN acked \union {req[r].chunk} ELSE acked

Goto(r, pc) == req' = [req EXCEPT ![r].pc = pc]

(* Mutant of Admit.                                                         *)
AdmitUnchained(r, view) ==
  LET ch == req[r].chunk
  IN \/ /\ ch.start # view.off
        /\ Settle(r, "cursorMismatch")
     \/ /\ ch.start = view.off
        /\ req' = [req EXCEPT ![r].pc = "putRaw", ![r].view = view]
        /\ UNCHANGED <<queue, acked>>

(* The checks that follow the duplicate check, up to the first write.       *)
Admit(r, view) ==
  LET ch == req[r].chunk
  IN \/ /\ ch.start # view.off
        /\ Settle(r, "cursorMismatch")
     \/ /\ ch.start = view.off
        /\ ch.prev # LastBody(view)
        /\ Settle(r, "chainMismatch")
     \/ /\ ch.start = view.off
        /\ ch.prev = LastBody(view)
        /\ req' = [req EXCEPT ![r].pc = "putRaw", ![r].view = view]
        /\ UNCHANGED <<queue, acked>>

-----------------------------------------------------------------------------
(* A connector's upload reaches controller c.                               *)
Submit(r, c, ch) ==
  /\ req[r].pc = "idle"
  /\ req' = [req EXCEPT ![r] = [IdleRequest EXCEPT !.pc = "queued", !.ctrl = c,
                                                   !.chunk = ch]]
  /\ queue' = [queue EXCEPT ![c][ch.epoch] = Append(@, r)]
  /\ UNCHANGED <<storeVars, walks, log, acked, reported>>

(* The caller's connection closes, or the read deadline passes.  Its commit *)
(* stays in the queue and, once it writes, runs to its end.                 *)
Leave(r) ==
  /\ req[r].pc \in Busy
  /\ ~ req[r].left
  /\ req' = [req EXCEPT ![r].left = TRUE]
  /\ UNCHANGED <<storeVars, queue, walks, log, acked, reported>>

Consume(r) ==
  /\ req[r].pc = "answered"
  /\ req' = [req EXCEPT ![r] = IdleRequest]
  /\ UNCHANGED <<storeVars, queue, walks, log, acked, reported>>

(* A read throws: its caller has left, or the store fails it.               *)
AbandonRead(r) ==
  /\ req[r].pc \in Reading \/ (req[r].pc = "queued" /\ Leading(r))
  /\ Settle(r, "error")
  /\ UNCHANGED <<storeVars, walks, log, reported>>

(* A walk is resumed only under the very manifest it started from.          *)
Resumable(walk, m) == walk.anchor = m

ReadManifest(r) ==
  LET ch == req[r].chunk
      e == ch.epoch
      m == manifest[e]
      c == req[r].ctrl
      resumed == ch \in DOMAIN walks[c] /\ Resumable(walks[c][ch], m)
  IN /\ req[r].pc = "queued"
     /\ Leading(r)
     /\ ~ req[r].left
     /\ \/ /\ <<"manifest", e>> \in torn
           /\ Settle(r, "invalid")
           /\ UNCHANGED walks
        \/ /\ <<"manifest", e>> \notin torn
           /\ ch.end > m.off
           /\ Admit(r, m)
           /\ UNCHANGED walks
        \/ /\ <<"manifest", e>> \notin torn
           /\ ch.end <= m.off
           /\ req' = [req EXCEPT ![r].pc = "walk", ![r].view = m, ![r].reads = 0]
           /\ walks' = IF resumed THEN walks
                       ELSE [walks EXCEPT ![c] =
                               [x \in DOMAIN @ \union {ch} |->
                                  IF x = ch
                                  THEN [anchor |-> m, at |-> m.last, upto |-> m.off]
                                  ELSE @[x]]]
           /\ UNCHANGED <<queue, acked>>
     /\ UNCHANGED <<storeVars, log, reported>>

(* The range is the chunk itself, by its keys and hashes, not just another  *)
(* chunk with the same coordinates.                                         *)
Exact(at, ch) == at = ch

(* What inspectCommittedMetadata requires of the range it reads, and of the *)
(* range before it when the chunk it looks for is found.                    *)
WellFormedRange(at, upto) ==
  /\ at \in DOMAIN ranges
  /\ <<"range", at>> \notin torn
  /\ at.end = upto
  /\ (at.start = 0) = (ranges[at] = NoChunk)

WellFormedPredecessor(at, ch) ==
  LET p == ranges[at]
  IN p = NoChunk \/ /\ p \in DOMAIN ranges
                    /\ <<"range", p>> \notin torn
                    /\ p.end = at.start
                    /\ p.body = ch.prev

(* One read of the walk from the manifest's last chunk towards the oldest.  *)
WalkRange(r) ==
  LET ch == req[r].chunk
      c == req[r].ctrl
      at == walks[c][ch].at
      upto == walks[c][ch].upto
  IN /\ req[r].pc = "walk"
     /\ ~ req[r].left
     /\ \/ /\ at = NoChunk
           /\ Admit(r, req[r].view)
           /\ UNCHANGED walks
        \/ /\ at # NoChunk
           /\ req[r].reads >= MaxDuplicateReads
           /\ Settle(r, "verifying")
           /\ UNCHANGED walks
        \/ /\ at # NoChunk
           /\ req[r].reads < MaxDuplicateReads
           /\ \/ /\ \/ ~ WellFormedRange(at, upto)
                    \/ WellFormedRange(at, upto) /\ Exact(at, ch) /\ ~ WellFormedPredecessor(at, ch)
                 /\ Settle(r, "invalid")
                 /\ UNCHANGED walks
              \/ /\ WellFormedRange(at, upto)
                 /\ Exact(at, ch)
                 /\ WellFormedPredecessor(at, ch)
                 /\ Goto(r, "verifyRaw")
                 /\ UNCHANGED <<queue, walks, acked>>
              \/ /\ WellFormedRange(at, upto)
                 /\ SameRange(at, ch) /\ ~ Exact(at, ch)
                 /\ Settle(r, "epochConflict")
                 /\ UNCHANGED walks
              \/ /\ WellFormedRange(at, upto)
                 /\ ~ SameRange(at, ch)
                 /\ at.start <= ch.start
                 /\ Admit(r, req[r].view)
                 /\ UNCHANGED walks
              \/ /\ WellFormedRange(at, upto)
                 /\ ~ SameRange(at, ch)
                 /\ at.start > ch.start
                 /\ req' = [req EXCEPT ![r].reads = @ + 1]
                 /\ walks' = [walks EXCEPT ![c][ch] =
                                [anchor |-> @.anchor, at |-> ranges[at],
                                 upto |-> at.start]]
                 /\ UNCHANGED <<queue, acked>>
     /\ UNCHANGED <<storeVars, log, reported>>

(* Mutant of VerifyRaw.                                                     *)
VerifyRawAndReport(r) ==
  /\ req[r].pc = "verifyRaw"
  /\ Goto(r, "callback")
  /\ UNCHANGED <<storeVars, queue, walks, log, acked, reported>>

(* The range is committed; the ACK also needs its bytes to be there.        *)
VerifyRaw(r) ==
  LET k == RawKey(req[r].chunk)
  IN /\ req[r].pc = "verifyRaw"
     /\ ~ req[r].left
     /\ Settle(r, IF k \in raw /\ <<"raw", k>> \notin torn THEN "ack" ELSE "invalid")
     /\ UNCHANGED <<storeVars, walks, log, reported>>

-----------------------------------------------------------------------------
(* The effects of the three writes.  The local driver leaves an object that *)
(* exists as it is, whatever it holds; the others overwrite it.             *)
StoreRaw(ch) ==
  raw' = raw \union {RawKey(ch)}

(* Mutant of StoreRange.                                                    *)
StoreRangeUnlinked(ch, before) ==
  ranges' = [x \in DOMAIN ranges \union {ch} |-> IF x = ch THEN NoChunk ELSE ranges[x]]

StoreRange(ch, before) ==
  LET kept == ~ ConditionalWrites /\ ch \in DOMAIN ranges
  IN ranges' = [x \in DOMAIN ranges \union {ch} |->
                  IF x = ch /\ ~ kept THEN before ELSE ranges[x]]

(* Mutant of Precondition.                                                  *)
PreconditionIgnored(e, view) == TRUE

Precondition(e, view) == ConditionalWrites => manifest[e] = view

StoreManifest(ch) ==
  /\ manifest' = [manifest EXCEPT ![ch.epoch] = [off |-> ch.end, last |-> ch]]
  /\ log' = [log EXCEPT ![ch.epoch] = Append(@, ch)]

(* Files a local store was writing when it was interrupted: they exist, and *)
(* hold a part of the bytes.                                                *)
TornWrite(rs) ==
  LET creating == {r \in rs :
        \/ req[r].pc = "putRaw" /\ RawKey(req[r].chunk) \notin raw
        \/ req[r].pc = "putRange" /\ req[r].chunk \notin DOMAIN ranges
        \/ req[r].pc = "putManifest"}
      chunksAt(pc) == {req[r].chunk : r \in {q \in creating : req[q].pc = pc}}
  IN /\ ~ AtomicPuts
     /\ creating # {}
     /\ torn' = torn \union {ObjectOf(r) : r \in creating}
     /\ raw' = raw \union {RawKey(ch) : ch \in chunksAt("putRaw")}
     /\ ranges' = [x \in DOMAIN ranges \union chunksAt("putRange") |->
                     IF x \in DOMAIN ranges THEN ranges[x] ELSE NoChunk]

PutRaw(r) ==
  /\ req[r].pc = "putRaw"
  /\ StoreRaw(req[r].chunk)
  /\ Goto(r, "putRange")
  /\ UNCHANGED <<ranges, manifest, torn, late, queue, walks, log, acked, reported>>

PutRange(r) ==
  /\ req[r].pc = "putRange"
  /\ StoreRange(req[r].chunk, req[r].view.last)
  /\ Goto(r, "putManifest")
  /\ UNCHANGED <<raw, manifest, torn, late, queue, walks, log, acked, reported>>

PutManifest(r) ==
  /\ req[r].pc = "putManifest"
  /\ Precondition(req[r].chunk.epoch, req[r].view)
  /\ StoreManifest(req[r].chunk)
  /\ Goto(r, "callback")
  /\ UNCHANGED <<raw, ranges, torn, late, queue, walks, acked, reported>>

(* storage_version_conflict: commitChunk queues the commit again, a bounded *)
(* number of times, unless its caller has left.                             *)
ManifestConflict(r) ==
  /\ req[r].pc = "putManifest"
  /\ ~ Precondition(req[r].chunk.epoch, req[r].view)
  /\ \/ /\ req[r].left \/ req[r].tries + 1 >= MaxAttempts
        /\ Settle(r, "error")
     \/ /\ ~ req[r].left
        /\ req[r].tries + 1 < MaxAttempts
        /\ queue' = [queue EXCEPT ![req[r].ctrl][req[r].chunk.epoch] =
                       Append(Tail(@), r)]
        /\ req' = [req EXCEPT ![r].pc = "queued", ![r].tries = @ + 1,
                              ![r].view = NoManifest]
        /\ UNCHANGED acked
  /\ UNCHANGED <<storeVars, walks, log, reported>>

(* A write throws.  It may have had no effect, its whole effect, or, for    *)
(* the manifest of a remote store, an effect that is still to come; and a   *)
(* local file that did not exist may hold a part of the bytes.              *)
PutFails(r) ==
  /\ req[r].pc \in Writing
  /\ Settle(r, "error")
  /\ \/ UNCHANGED <<storeVars, log>>
     \/ /\ ConditionalWrites /\ req[r].pc = "putRaw"
        /\ StoreRaw(req[r].chunk)
        /\ UNCHANGED <<ranges, manifest, torn, late, log>>
     \/ /\ ConditionalWrites /\ req[r].pc = "putRange"
        /\ StoreRange(req[r].chunk, req[r].view.last)
        /\ UNCHANGED <<raw, manifest, torn, late, log>>
     \/ /\ ConditionalWrites /\ req[r].pc = "putManifest"
        /\ late' = late \union {[chunk |-> req[r].chunk, view |-> req[r].view]}
        /\ UNCHANGED <<raw, ranges, manifest, torn, log>>
     \/ /\ TornWrite({r})
        /\ UNCHANGED <<manifest, late, log>>
  /\ UNCHANGED <<walks, reported>>

(* onChunkCommitted, then the ACK.                                          *)
Report(r) ==
  /\ req[r].pc = "callback"
  /\ reported' = Append(reported, req[r].chunk)
  /\ Settle(r, "ack")
  /\ UNCHANGED <<storeVars, walks, log>>

(* The store completes, or refuses, a manifest write nobody waits for.      *)
LateWrite(w) ==
  /\ late' = late \ {w}
  /\ \/ /\ Precondition(w.chunk.epoch, w.view)
        /\ StoreManifest(w.chunk)
     \/ /\ ~ Precondition(w.chunk.epoch, w.view)
        /\ UNCHANGED <<manifest, log>>
  /\ UNCHANGED <<raw, ranges, torn, ctrlVars, acked, reported>>

(* A controller dies: its queues and the progress of its walks are gone.    *)
(* Writes it had under way are lost, or still reach a remote store, or      *)
(* leave a part of a local file.                                            *)
Crash(c) ==
  LET dead == {r \in Calls : req[r].ctrl = c /\ req[r].pc \in Busy}
      inWrite == {r \in dead : req[r].pc \in Writing}
      atManifest == {r \in inWrite : req[r].pc = "putManifest"}
  IN /\ dead # {}
     /\ req' = [r \in Calls |-> IF r \in dead THEN IdleRequest ELSE req[r]]
     /\ queue' = [queue EXCEPT ![c] = [e \in Epochs |-> <<>>]]
     /\ walks' = [walks EXCEPT ![c] = <<>>]
     /\ \/ UNCHANGED storeVars
        \/ /\ ConditionalWrites
           /\ atManifest # {}
           /\ late' = late \union {[chunk |-> req[r].chunk, view |-> req[r].view] :
                                     r \in atManifest}
           /\ UNCHANGED <<raw, ranges, manifest, torn>>
        \/ /\ \E rs \in SUBSET inWrite : TornWrite(rs)
           /\ UNCHANGED <<manifest, late>>
     /\ UNCHANGED <<log, acked, reported>>

(* Things that go wrong, or that a caller does for reasons of its own.      *)
Disturb ==
  \/ \E r \in Calls :
       \/ Leave(r)
       \/ req[r].pc \in Busy /\ ~ req[r].left /\ AbandonRead(r)
       \/ PutFails(r)
  \/ \E c \in Controllers : Crash(c)

(* A commit that may run does: the event loop of a live controller, and the *)
(* store's SDK, which answers or throws.                                    *)
Serve(r) ==
  \/ req[r].left /\ AbandonRead(r)
  \/ ReadManifest(r)
  \/ WalkRange(r)
  \/ VerifyRaw(r)
  \/ PutRaw(r)
  \/ PutRange(r)
  \/ PutManifest(r)
  \/ ManifestConflict(r)
  \/ Report(r)

Proceed ==
  \/ \E r \in Calls : Consume(r)
  \/ \E r \in Calls : Serve(r)
  \/ \E w \in late : LateWrite(w)

Next ==
  \/ \E r \in Calls, c \in Controllers, ch \in Offered : Submit(r, c, ch)
  \/ Proceed
  \/ Disturb

Spec == Init /\ [][Next]_vars

Fairness == \A r \in Calls : WF_vars(Serve(r))

FairSpec == Spec /\ Fairness

-----------------------------------------------------------------------------
(* readEpoch of epoch e returns the chunks l: the range metadata leads from *)
(* the manifest's last chunk back through l, contiguously, to offset zero;  *)
(* every object on the way is there and whole, as is the metadata of every  *)
(* other range up to the manifest's offset, which is read along with it.    *)
Reads(e, l) ==
  /\ <<"manifest", e>> \notin torn
  /\ manifest[e] = IF l = <<>> THEN NoManifest
                   ELSE [off |-> l[Len(l)].end, last |-> l[Len(l)]]
  /\ \A i \in DOMAIN l :
       /\ l[i] \in DOMAIN ranges
       /\ ranges[l[i]] = IF i = 1 THEN NoChunk ELSE l[i - 1]
       /\ l[i].start = IF i = 1 THEN 0 ELSE l[i - 1].end
       /\ RawKey(l[i]) \in raw /\ <<"raw", RawKey(l[i])>> \notin torn
  /\ \A ch \in DOMAIN ranges :
       ch.epoch = e /\ ch.end <= manifest[e].off => <<"range", ch>> \notin torn

(* The only sequence it can return.                                         *)
Back(e) ==
  LET back[n \in Nat] ==
        IF n = 0 THEN manifest[e].last
        ELSE IF back[n - 1] \in DOMAIN ranges THEN ranges[back[n - 1]] ELSE NoChunk
  IN back

ReplayLength(e) ==
  LET ends == {n \in 0 .. Cardinality(DOMAIN ranges) : Back(e)[n] = NoChunk}
  IN IF ends = {} THEN 0 ELSE CHOOSE n \in ends : \A m \in ends : n <= m

Replay(e) == [i \in 1 .. ReplayLength(e) |-> Back(e)[ReplayLength(e) - i]]

-----------------------------------------------------------------------------
TypeOK ==
  /\ raw \in SUBSET RawKeys
  /\ DOMAIN ranges \subseteq Offered
  /\ \A ch \in DOMAIN ranges : ranges[ch] \in Offered \union {NoChunk}
  /\ manifest \in [Epochs -> Manifests]
  /\ \A w \in late : w.chunk \in Offered /\ w.view \in Manifests
  /\ req \in [Calls -> Requests]
  /\ \A r \in Calls :
       /\ req[r].pc = "idle" => req[r] = IdleRequest
       /\ req[r].pc \in Busy => req[r].ctrl # NoController /\ req[r].chunk \in Offered
       /\ req[r].pc = "answered" => req[r].res # "none" /\ req[r].ctrl = NoController
  /\ queue \in [Controllers -> [Epochs -> Seq(Calls)]]
  /\ acked \subseteq Offered

(* lib/transcript-archive.mjs, readEpoch: at every moment, also between the *)
(* three writes of a commit, after any crash and with any write that lands  *)
(* late, reading an epoch succeeds and returns exactly the chunks whose     *)
(* commit took effect, in the order of their commits.                       *)
CommittedIsReadable ==
  \A e \in Epochs : Reads(e, log[e])

(* What is left of that on a local disk, where a write that is interrupted  *)
(* leaves a part of a file: reading an epoch fails, or returns exactly the  *)
(* chunks whose commit took effect; damage is never read as content.        *)
DamageIsNoticed ==
  \A e \in Epochs : Reads(e, Replay(e)) => Replay(e) = log[e]

(* An ACK is a promise: a chunk that any caller was told is committed can   *)
(* be read back, whole, at every later moment.                              *)
AckedStaysReadable ==
  \A ch \in acked :
    /\ Reads(ch.epoch, log[ch.epoch])
    /\ \E i \in DOMAIN log[ch.epoch] : log[ch.epoch][i] = ch

(* inspectCommittedMetadata's integrity checks guard against a damaged      *)
(* archive.  No interleaving of the archive's own writers trips them.       *)
NoIntegrityError == \A r \in Calls : req[r].res # "invalid"

(* server.mjs records each committed chunk in the progress report once: no  *)
(* retry, late write or second controller reports a chunk again.            *)
ReportedAtMostOnce ==
  \A i, j \in DOMAIN reported : reported[i] = reported[j] => i = j

(* What a connector is told of its chunk, and the report of it, are sound:  *)
(* no commit finds the archive damaged, and none is reported twice.         *)
AnswersAreSound == NoIntegrityError /\ ReportedAtMostOnce

(* docs/session-transcript-archive.md: preconditions keep overlapping       *)
(* controller tasks from rolling a manifest backward.                       *)
ManifestNeverRollsBack ==
  [][\A e \in Epochs : manifest'[e].off >= manifest[e].off]_manifest

(* No upload waits forever for the commits queued before it: failures,      *)
(* conflicts and callers that leave all pass the turn on.                   *)
EveryCallSettles ==
  \A r \in Calls : req[r].pc \in Busy ~> req[r].pc \notin Busy

-----------------------------------------------------------------------------
(* What a connector sees of the archive.                                    *)
AbstractCall(r) ==
  CASE req[r].pc = "idle" -> [st |-> "idle"]
    [] req[r].pc \in Busy -> [st |-> "sent", chunk |-> req[r].chunk]
    [] OTHER -> [st |-> "answered", chunk |-> req[r].chunk,
                 res |-> IF req[r].res \in {"verifying", "invalid"} THEN "error"
                         ELSE req[r].res]

Abstract == INSTANCE EpochLog WITH call <- [r \in Calls |-> AbstractCall(r)],
                                   limbo <- {w.chunk : w \in late}

(* The archive implements EpochLog: commits are atomic, and no answer lies. *)
ImplementsEpochLog == Abstract!Spec
=============================================================================
