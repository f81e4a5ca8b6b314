------------------------------ MODULE EpochLog ------------------------------
(***************************************************************************)
(* What the transcript archive promises to the connectors that upload to   *)
(* it, with no storage, no controllers and no queues: every file epoch is  *)
(* an append-only sequence of chunks, a call that uploads a chunk may      *)
(* append it when it follows the last chunk of its epoch, and the call's   *)
(* answer tells the truth about the log at the moment it is given.         *)
(*                                                                         *)
(* ChunkArchive implements this specification, and TranscriptReplicator is *)
(* composed with it.                                                       *)
(***************************************************************************)
EXTENDS Naturals, Sequences

CONSTANTS
  Epochs,   \* file epochs (one manifest each)
  Bodies,   \* contents of chunks: two bodies are equal iff their sha256 is
  NoBody,   \* "": the previousChunkSha256 of the first chunk of an epoch
  Calls,    \* slots for uploads that are in progress at the same time
  Offered   \* the chunks that connectors may upload

(* Offsets count lines: every chunk ends at a newline, so the byte cursor   *)
(* and the line cursor of the code always move together.                    *)
Chunks == [epoch : Epochs, start : Nat, end : Nat,
           body : Bodies, prev : Bodies \union {NoBody}]

VARIABLES
  log,    \* log[e]: the chunks committed in epoch e, oldest first
  call,   \* call[r]: the state of upload r
  acked,  \* the chunks some caller was told are durable
  limbo   \* chunks of calls that ended, whose write may still take effect

vars == <<log, call, acked, limbo>>

Idle == [st |-> "idle"]
Sent(ch) == [st |-> "sent", chunk |-> ch]
Answered(ch, res) == [st |-> "answered", chunk |-> ch, res |-> res]

Results == {"ack", "epochConflict", "cursorMismatch", "chainMismatch", "error"}

-----------------------------------------------------------------------------
Offset(l) == IF l = <<>> THEN 0 ELSE l[Len(l)].end

LastBody(l) == IF l = <<>> THEN NoBody ELSE l[Len(l)].body

Follows(ch, l) == ch.start = Offset(l) /\ ch.prev = LastBody(l)

Contains(l, ch) == \E i \in DOMAIN l : l[i] = ch

SameRange(a, b) == a.start = b.start /\ a.end = b.end

(* The answers that are true of ch and the log l of its epoch.  An upload   *)
(* can always fail for a reason that says nothing about the log.            *)
Truthful(ch, l) ==
  {"error"}
  \union {res \in {"ack"} : Contains(l, ch)}
  \union {res \in {"epochConflict"} :
            \E i \in DOMAIN l : SameRange(l[i], ch) /\ l[i] # ch}
  \union {res \in {"cursorMismatch"} : ~ Contains(l, ch) /\ ch.start # Offset(l)}
  \union {res \in {"chainMismatch"} :
            ch.start = Offset(l) /\ ch.prev # LastBody(l)}

-----------------------------------------------------------------------------
Init ==
  /\ log = [e \in Epochs |-> <<>>]
  /\ call = [r \in Calls |-> Idle]
  /\ acked = {}
  /\ limbo = {}

Send(r, ch) ==
  /\ call[r] = Idle
  /\ call' = [call EXCEPT ![r] = Sent(ch)]
  /\ UNCHANGED <<log, acked, limbo>>

(* The chunk becomes durable; its caller may hear of it later or never.     *)
Commit(r) ==
  /\ call[r].st = "sent"
  /\ LET ch == call[r].chunk
     IN /\ Follows(ch, log[ch.epoch])
        /\ log' = [log EXCEPT ![ch.epoch] = Append(@, ch)]
  /\ UNCHANGED <<call, acked, limbo>>

Answer(r, res) ==
  /\ call[r].st = "sent"
  /\ LET ch == call[r].chunk
     IN /\ res \in Truthful(ch, log[ch.epoch])
        /\ call' = [call EXCEPT ![r] = Answered(ch, res)]
        /\ acked' = IF res = "ack" THEN acked \union {ch} ELSE acked
        /\ \/ limbo' = limbo
           \/ res = "error" /\ limbo' = limbo \union {ch}
  /\ UNCHANGED log

(* Uploads end without an answer: the caller hung up, the controller died.  *)
Drop(rs) ==
  /\ \A r \in rs : call[r].st = "sent"
  /\ call' = [r \in Calls |-> IF r \in rs THEN Idle ELSE call[r]]
  /\ \E left \in SUBSET {call[r].chunk : r \in rs} : limbo' = limbo \union left
  /\ UNCHANGED <<log, acked>>

Consume(r) ==
  /\ call[r].st = "answered"
  /\ call' = [call EXCEPT ![r] = Idle]
  /\ UNCHANGED <<log, acked, limbo>>

(* The object store completes a write that its writer had given up ...      *)
CommitLate(ch) ==
  /\ Follows(ch, log[ch.epoch])
  /\ log' = [log EXCEPT ![ch.epoch] = Append(@, ch)]
  /\ limbo' \in {limbo, limbo \ {ch}}
  /\ UNCHANGED <<call, acked>>

(* ... or refuses it.                                                       *)
Fizzle(ch) ==
  /\ limbo' = limbo \ {ch}
  /\ UNCHANGED <<log, call, acked>>

Next ==
  \/ \E r \in Calls :
       \/ \E ch \in Offered : Send(r, ch)
       \/ Commit(r)
       \/ \E res \in Results : Answer(r, res)
       \/ Consume(r)
  \/ \E rs \in SUBSET Calls : Drop(rs)
  \/ \E ch \in limbo : CommitLate(ch) \/ Fizzle(ch)

Spec == Init /\ [][Next]_vars
=============================================================================
