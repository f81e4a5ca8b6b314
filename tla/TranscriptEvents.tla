-------------------------- MODULE TranscriptEvents --------------------------
(***************************************************************************)
(* The events read off a transcript (lib/transcript-events.mjs): that a    *)
(* turn of an agent has ended, how, and that an agent asks something.  A   *)
(* decoder takes the records one after the other.  Codex and Pi say when a *)
(* turn ends.  Claude's end_turn may be followed by more of the same turn, *)
(* so it is held until the next prompt, or until its caller has seen the   *)
(* transcript end there and stay quiet.  The caller may save the state of  *)
(* the decoder, and begin with it again after a restart.                   *)
(***************************************************************************)
EXTENDS Naturals, Sequences, FiniteSetsExt

CONSTANTS
  Sessions, NoSession,
  Turns,        \* the turn ids of Codex
  MaxRecords,   \* bound: records of the transcript
  MaxRestarts   \* bound: restarts of the caller

VARIABLES
  journal,   \* whose transcript it is, and its records
  decoder,   \* the state of the decoder
  caller,    \* how far it has read, which end_turns it saw at a quiet end, its restarts
  saved,     \* the state and the position that are kept
  told       \* the events it was given, each with the position and the life it came in

vars == <<journal, decoder, caller, saved, told>>

TranscriptEventsAssumption ==
  /\ NoSession \notin Sessions /\ Turns \subseteq Nat \ {0}
  /\ MaxRecords \in Nat /\ MaxRestarts \in Nat

(* A record, by what the decoder tells apart.  A fragment is what an       *)
(* assistant says without ending its turn, the use of a tool included; a   *)
(* note is what stands as said by the user and is not.  Position is name:  *)
(* the uuid of a record, the id of a message.  A turn of 0 is none.        *)
Kinds == {"claude", "codex", "pi"}
Turning(agent) ==
  CASE agent = "claude" ->
         [type : {"end_turn", "fragment", "question", "prompt", "tool_result", "note", "interrupt"},
          session : Sessions, turn : {0}]
           \union [type : {"sidechain"}, session : {NoSession}, turn : {0}]
    [] agent = "codex" ->
         [type : {"session_meta"}, session : Sessions, turn : {0}]
           \union [type : {"task_complete", "turn_aborted"}, session : {NoSession}, turn : Turns \union {0}]
    [] agent = "pi" ->
         [type : {"session"}, session : Sessions, turn : {0}]
           \union [type : {"stop", "aborted", "toolCall"}, session : {NoSession}, turn : {0}]

Event == [session : Sessions \union {NoSession}, turn : Nat,
          kind : {"terminal", "needs_input"}, outcome : {"completed", "aborted", "needs_input"}]
NoEvent == [session |-> NoSession, turn |-> 0, kind |-> "terminal", outcome |-> "completed"]
EventId(e) == <<e.session, e.turn, e.kind>>
Completed(session, turn) == [session |-> session, turn |-> turn, kind |-> "terminal", outcome |-> "completed"]
Aborted(session, turn) == [Completed(session, turn) EXCEPT !.outcome = "aborted"]
Asked(session, turn) ==
  [session |-> session, turn |-> turn, kind |-> "needs_input", outcome |-> "needs_input"]

Fresh == [session |-> NoSession, pending |-> NoEvent, emitted |-> {}]

Init ==
  /\ journal \in [agent : Kinds, records : {<<>>}]
  /\ decoder = Fresh
  /\ caller = [at |-> 0, quiet |-> {}, life |-> 0]
  /\ saved = [decoder |-> Fresh, at |-> 0]
  /\ told = <<>>

-----------------------------------------------------------------------------
(* What a step of the decoder makes: its next state, and events.           *)
Silent(d) == [decoder |-> d, events |-> <<>>]
EmitOnce(d, e) ==
  IF EventId(e) \in d.emitted
  THEN Silent(d)
  ELSE [decoder |-> [d EXCEPT !.emitted = @ \union {EventId(e)}], events |-> <<e>>]

Freed(d) == [d EXCEPT !.pending = NoEvent]

\* contextFromRecord: a record of another session drops what was held for the one before.
InContext(d, record) ==
  IF record.session \in {NoSession, d.session}
  THEN d
  ELSE [(IF d.session = NoSession THEN d ELSE Freed(d)) EXCEPT !.session = record.session]

\* The record that the record at n answers, of those that are not of a sidechain; itself if none.
Parent(records, n) ==
  LET before == {i \in 1 .. n - 1 : records[i].type # "sidechain"}
  IN IF before = {} THEN n ELSE Max(before)

\* An end_turn that is read again is the one that is held, and what continues a turn is
\* anything of the assistant but that.
DecodeClaude(d, records, n) ==
  LET type == records[n].type
      held == d.pending # NoEvent
  IN CASE type \in {"sidechain", "note"} -> Silent(d)
       [] type \in {"fragment", "tool_result"} -> Silent(Freed(d))
       [] type = "prompt" -> IF held THEN EmitOnce(Freed(d), d.pending) ELSE Silent(d)
       [] type = "interrupt" ->
            EmitOnce(Freed(d), Aborted(d.session, IF held THEN d.pending.turn ELSE Parent(records, n)))
       [] type = "question" -> EmitOnce(Freed(d), Asked(d.session, n))
       [] type = "end_turn" ->
            Silent(IF held /\ d.pending.turn = n
                   THEN d ELSE [d EXCEPT !.pending = Completed(d.session, n)])

DecodeCodex(d, record) ==
  IF record.turn = 0
  THEN Silent(d)
  ELSE EmitOnce(d, IF record.type = "task_complete" THEN Completed(d.session, record.turn)
                                                    ELSE Aborted(d.session, record.turn))

DecodePi(d, record, n) ==
  CASE record.type = "stop" -> EmitOnce(d, Completed(d.session, n))
    [] record.type = "aborted" -> EmitOnce(d, Aborted(d.session, n))
    [] OTHER -> Silent(d)

Decode(d, records, n) ==
  LET known == InContext(d, records[n])
  IN CASE journal.agent = "claude" -> DecodeClaude(known, records, n)
       [] journal.agent = "codex" -> DecodeCodex(known, records[n])
       [] journal.agent = "pi" -> DecodePi(known, records[n], n)

\* settleTranscriptDecoder: the evidence must be of the very record that is held.
Settled(d, turn) ==
  IF d.pending # NoEvent /\ turn = d.pending.turn THEN EmitOnce(Freed(d), d.pending) ELSE Silent(d)

-----------------------------------------------------------------------------
Give(result, at) ==
  /\ decoder' = result.decoder
  /\ told' = told \o [i \in DOMAIN result.events |->
                        [event |-> result.events[i], at |-> at, life |-> caller.life]]

\* The agent writes a record.
Write ==
  /\ Len(journal.records) < MaxRecords
  /\ \E record \in Turning(journal.agent) : journal' = [journal EXCEPT !.records = Append(@, record)]
  /\ UNCHANGED <<decoder, caller, saved, told>>

\* The next record is decoded.
Push ==
  /\ caller.at < Len(journal.records)
  /\ Give(Decode(decoder, journal.records, caller.at + 1), caller.at + 1)
  /\ caller' = [caller EXCEPT !.at = @ + 1]
  /\ UNCHANGED <<journal, saved>>

\* The last record comes again.
PushAgain ==
  /\ caller.at > 0
  /\ Give(Decode(decoder, journal.records, caller.at), caller.at)
  /\ UNCHANGED <<journal, caller, saved>>

\* The caller has read all there is, and nothing more has come; it settles some time after,
\* and more than once.
SeeQuiet ==
  /\ decoder.pending # NoEvent /\ caller.at = Len(journal.records)
  /\ caller' = [caller EXCEPT !.quiet = @ \union {decoder.pending.turn}]
  /\ UNCHANGED <<journal, decoder, saved, told>>

Settle ==
  /\ \E turn \in caller.quiet : Give(Settled(decoder, turn), caller.at)
  /\ UNCHANGED <<journal, caller, saved>>

Save ==
  /\ saved' = [decoder |-> decoder, at |-> caller.at]
  /\ UNCHANGED <<journal, decoder, caller, told>>

Restart ==
  /\ caller.life < MaxRestarts
  /\ decoder' = saved.decoder
  /\ caller' = [at |-> saved.at, quiet |-> {}, life |-> caller.life + 1]
  /\ UNCHANGED <<journal, saved, told>>

Next == Write \/ Push \/ PushAgain \/ SeeQuiet \/ Settle \/ Save \/ Restart

Spec == Init /\ [][Next]_vars

-----------------------------------------------------------------------------
TypeOK ==
  /\ journal.agent \in Kinds /\ journal.records \in Seq(Turning(journal.agent))
  /\ \A d \in {decoder, saved.decoder} :
       /\ d.session \in Sessions \union {NoSession} /\ d.pending \in Event
       /\ d.emitted \subseteq {EventId(e) : e \in {told[i].event : i \in DOMAIN told}}
  /\ caller.at \in 0 .. Len(journal.records) /\ caller.quiet \subseteq 1 .. Len(journal.records)
  /\ caller.life \in 0 .. MaxRestarts /\ saved.at \in 0 .. Len(journal.records)
  /\ \A i \in DOMAIN told : told[i].event \in Event /\ told[i].at \in 0 .. Len(journal.records)

\* Between the records at i and n, what is of the same session and says nothing of the turn.
OnlyAside(session, i, n) ==
  \A k \in i + 1 .. n - 1 :
    LET record == journal.records[k]
    IN \/ record.type = "sidechain"
       \/ record.type = "note" /\ record.session = session

\* The end_turn records that may still be held when the record at n comes.
Ends(n) ==
  {i \in 1 .. n - 1 : /\ journal.records[i].type = "end_turn"
                      /\ journal.records[i].session = journal.records[n].session
                      /\ OnlyAside(journal.records[i].session, i, n)}

\* The session that a record of Codex or of Pi is of.
SessionAt(n) ==
  LET named == {i \in 1 .. n : journal.records[i].session # NoSession}
  IN IF named = {} THEN NoSession ELSE journal.records[Max(named)].session

(* In one life of its caller a decoder gives no event twice, and so no turn *)
(* two outcomes.                                                            *)
NothingIsToldTwice ==
  \A i, j \in DOMAIN told :
    i # j /\ told[i].life = told[j].life => EventId(told[i].event) # EventId(told[j].event)

(* A turn of Claude is told as completed when the next prompt followed its  *)
(* end_turn, or the caller saw the transcript quiet at this very end_turn   *)
(* and nothing of the turn was read since: a turn that went on is not.      *)
CompletedTurnsAreOver ==
  journal.agent = "claude" =>
    \A i \in DOMAIN told :
      LET e == told[i].event
          n == told[i].at
      IN e.outcome = "completed" =>
           \/ n > 0 /\ journal.records[n].type = "prompt" /\ e.turn \in Ends(n)
           \/ /\ told[i].life = caller.life => e.turn \in caller.quiet
              /\ journal.records[e.turn].type = "end_turn" /\ journal.records[e.turn].session = e.session
              /\ OnlyAside(e.session, e.turn, n + 1)

(* Of the records that were read none that ends a turn was missed: a prompt *)
(* after an end_turn, an interrupt, a question, a marker of Codex that names *)
(* its turn, an answer of Pi that stopped.                                  *)
NoTurnIsMissed ==
  \A n \in 1 .. caller.at :
    LET record == journal.records[n]
        ids == {EventId(told[i].event) : i \in DOMAIN told}
        Told(session, turns, kind) == \E t \in turns : <<session, t, kind>> \in ids
    IN CASE record.type = "prompt" ->
              \A i \in Ends(n) : Told(record.session, {i}, "terminal")
         [] record.type = "interrupt" ->
              Told(record.session, Ends(n) \union {Parent(journal.records, n)}, "terminal")
         [] record.type = "question" -> Told(record.session, {n}, "needs_input")
         [] record.type \in {"task_complete", "turn_aborted"} ->
              record.turn # 0 => Told(SessionAt(n), {record.turn}, "terminal")
         [] record.type \in {"stop", "aborted"} -> Told(SessionAt(n), {n}, "terminal")
         [] OTHER -> TRUE

EventsAreSound == NothingIsToldTwice /\ CompletedTurnsAreOver /\ NoTurnIsMissed
=============================================================================
