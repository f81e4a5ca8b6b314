--------------------------- MODULE RealtimeReader ---------------------------
(***************************************************************************)
(* Reading a pane's last answer aloud (public/realtime-read.js, with the   *)
(* buttons of public/app.js and public/command-center.js and the session   *)
(* route of server.mjs).                                                   *)
(*                                                                         *)
(* A view keeps one audio state: a read number, the flags "busy" and       *)
(* "stopRequested", and the connection, channel and element of the read in *)
(* progress.  A read is a chain of awaits (offer, session, answer, channel,*)
(* one response per chunk, end of playback), and pressing the button at    *)
(* any of them stops it; a second press starts the next read while the     *)
(* first is still suspended in its await.  After every await the read asks *)
(* whether it is still the current one before it touches the shared state. *)
(***************************************************************************)
EXTENDS Naturals

CONSTANTS
    Machines,   \* machines whose panes can be read
    Explicit,   \* TRUE: the view names the machine (the command center);
                \* FALSE: the request goes to whatever machine is selected
    MaxReads,   \* bound: reads started
    MaxChunks   \* bound: chunks a message is split into

RealtimeReaderAssumption ==
    /\ Explicit \in BOOLEAN
    /\ MaxReads \in Nat \ {0}
    /\ MaxChunks \in Nat \ {0}

VARIABLES
    audio,      \* the view's audio state; "of" is the read that owns the
                \* connection, the channel, the element and the abort signal
    reads,      \* the reads ever started, by number of start
    screen      \* the machine selected, and what the agents' panes have to say

vars == <<audio, reads, screen>>

ReadNumbers == 1..MaxReads
Awaits == {"offer", "session", "answer", "channel", "response", "playback"}
Unstarted == [id |-> 0, asked |-> CHOOSE m \in Machines : TRUE, stage |-> "none",
              open |-> FALSE, from |-> {}, left |-> 0]

TypeOK ==
    /\ audio \in [readId : Nat, stop : BOOLEAN, busy : BOOLEAN, of : 0..MaxReads]
    /\ reads \in [ReadNumbers -> [id : Nat, asked : Machines,
                                  stage : Awaits \union {"none", "done"},
                                  open : BOOLEAN, from : SUBSET Machines,
                                  left : 0..MaxChunks]]
    /\ screen \in [selected : Machines, says : [Machines -> 0..MaxChunks]]

Init ==
    /\ audio = [readId |-> 0, stop |-> FALSE, busy |-> FALSE, of |-> 0]
    /\ reads = [r \in ReadNumbers |-> Unstarted]
    /\ screen \in [selected : Machines, says : [Machines -> 0..MaxChunks]]

-----------------------------------------------------------------------------
(* The shared audio state.                                                 *)

UnderWay(r) == reads[r].stage \in Awaits

\* isCurrentAudioRead.
IsCurrent(r) == audio.readId = reads[r].id

\* Mutant: the flag alone, which the next press resets.
StoppedByFlag(r) == audio.stop

\* throwIfAudioReadStopped, asked after every await.
Stopped(r) == \/ ~IsCurrent(r)
              \/ audio.stop

\* closeRealtimeReadAudio: whichever read owns the resources loses them.
Closed(rs) == [r \in ReadNumbers |->
                 IF r = audio.of THEN [rs[r] EXCEPT !.open = FALSE] ELSE rs[r]]

-----------------------------------------------------------------------------
(* The buttons.                                                            *)

\* stopWindowSummary and stopRead: the read number moves on at once, whatever
\* await the read is in.
Stop ==
    /\ audio.busy
    /\ audio' = [readId |-> audio.readId + 1, stop |-> TRUE, busy |-> FALSE, of |-> 0]
    /\ reads' = Closed(reads)
    /\ UNCHANGED screen

\* speakWindowSummary and readAgent up to the first await of playRealtimeRead.
\* The command center stops the read of another card first.
Start(r, m) ==
    /\ \A q \in ReadNumbers : reads[q].stage = "none" <=> q >= r
    /\ Explicit \/ ~audio.busy
    /\ Explicit \/ m = screen.selected
    /\ LET id == audio.readId + (IF audio.busy THEN 2 ELSE 1)
       IN /\ audio' = [readId |-> id, stop |-> FALSE, busy |-> TRUE, of |-> r]
          /\ reads' = [Closed(reads) EXCEPT
                         ![r] = [Unstarted EXCEPT !.id = id, !.asked = m,
                                                  !.stage = "offer", !.open = TRUE]]
    /\ UNCHANGED screen

Select(m) ==
    /\ screen' = [screen EXCEPT !.selected = m]
    /\ UNCHANGED <<audio, reads>>

-----------------------------------------------------------------------------
(* How a read ends.                                                        *)

\* Mutant: an old read's failure is handled like the current one's.
LeavesLoudly(r) == FALSE

\* The error paths of speakWindowSummary and readAgent: a read that is no
\* longer current leaves quietly, any other failure closes the audio.
LeavesQuietly(r) == Stopped(r)

\* "finally": only the current read clears the flags.
Settled(r, of) ==
    IF IsCurrent(r) THEN [audio EXCEPT !.stop = FALSE, !.busy = FALSE, !.of = of]
                    ELSE [audio EXCEPT !.of = of]

Throws(r) ==
    LET quiet == LeavesQuietly(r) IN
    /\ audio' = Settled(r, IF quiet THEN audio.of ELSE 0)
    /\ reads' = [(IF quiet THEN reads ELSE Closed(reads)) EXCEPT ![r].stage = "done"]

\* Playback has ended: playRealtimeRead closes the audio itself.
Returns(r) ==
    /\ audio' = Settled(r, 0)
    /\ reads' = [Closed(reads) EXCEPT ![r].stage = "done"]

-----------------------------------------------------------------------------
(* The awaits.  Each may fail (a timer, a refused request, a closed        *)
(* channel); each may also have been answered just before the stop.        *)

Goes(r, stage) == /\ reads' = [reads EXCEPT ![r].stage = stage]
                  /\ UNCHANGED audio

\* Runs "step" unless the read has been stopped while it waited in "stage".
Awaited(r, stage, step) ==
    /\ reads[r].stage = stage
    /\ IF Stopped(r) THEN Throws(r) ELSE step
    /\ UNCHANGED screen

\* Mutant: the command center relies on the selection too.
SessionMachineShown(r) == screen.selected

\* The machine the session request is sent to: api() of the application view
\* attaches the machine selected when it is called, not the one of the press.
SessionMachine(r) == IF Explicit THEN reads[r].asked ELSE screen.selected

\* The offer is made and the candidates are gathered, or 1.5 s have passed.
Offered(r) == Awaited(r, "offer",
                /\ reads' = [reads EXCEPT ![r].stage = "session",
                                          ![r].from = {SessionMachine(r)}]
                /\ UNCHANGED audio)

\* /api/window-realtime-session: the last message of the pane, in chunks, and
\* a short-lived key; refused when no agent is there or it has said nothing.
SessionAnswered(r) ==
    /\ reads[r].stage = "session"
    /\ \A m \in reads[r].from : screen.says[m] > 0
    /\ Awaited(r, "session",
         /\ reads' = [reads EXCEPT ![r].stage = "answer",
                        ![r].left = screen.says[CHOOSE m \in reads[r].from : TRUE]]
         /\ UNCHANGED audio)

RemoteDescribed(r) == Awaited(r, "answer", Goes(r, "channel"))

\* The first chunk is sent once the channel is open.
ChannelOpens(r) == Awaited(r, "channel",
                     IF reads[r].open THEN Goes(r, "response") ELSE Throws(r))

\* waitForRealtimeResponse resolves on "response.done"; the next chunk is sent.
ResponseDone(r) ==
    Awaited(r, "response",
      IF reads[r].left > 1
        THEN IF reads[r].open
               THEN /\ reads' = [reads EXCEPT ![r].left = @ - 1]
                    /\ UNCHANGED audio
               ELSE Throws(r)
        ELSE Goes(r, "playback"))

\* waitForRealtimePlaybackToFinish resolves on the end of the track, on
\* silence, on its estimate of the length, and within 150 ms of a stop.
PlaybackEnds(r) == Awaited(r, "playback", Returns(r))

Fails(r) ==
    /\ UnderWay(r)
    /\ reads[r].stage # "playback"
    /\ Throws(r)
    /\ UNCHANGED screen

-----------------------------------------------------------------------------
Reading(r) ==
    \/ Offered(r) \/ SessionAnswered(r) \/ RemoteDescribed(r)
    \/ ChannelOpens(r) \/ ResponseDone(r) \/ PlaybackEnds(r) \/ Fails(r)

Next ==
    \/ Stop
    \/ \E m \in Machines : Select(m)
    \/ \E r \in ReadNumbers, m \in Machines : Start(r, m)
    \/ \E r \in ReadNumbers : Reading(r)

Spec == Init /\ [][Next]_vars

-----------------------------------------------------------------------------
\* One voice: a connection is open only for the read the view shows as
\* running, and the read that is running has lost nothing to an older read
\* that ended after it (public/realtime-read.js closes shared resources).
OneVoice ==
    \A r \in ReadNumbers :
        /\ reads[r].open <=> UnderWay(r) /\ IsCurrent(r)
        /\ reads[r].open => audio.of = r /\ audio.busy /\ ~audio.stop

\* The button tells the truth: it offers to stop exactly while the current
\* read is under way, however the reads before it end.
ButtonIsRight ==
    audio.busy <=> \E r \in ReadNumbers : UnderWay(r) /\ IsCurrent(r)

\* The command center reads the card that was pressed, whatever is selected by
\* the time the session is asked for.
ReadsWhatWasAsked ==
    Explicit => \A r \in ReadNumbers : reads[r].from \subseteq {reads[r].asked}

\* Stopping and starting again at any await keeps one voice, a truthful button
\* and the pane that was asked for (public/realtime-read.js, public/app.js,
\* public/command-center.js).
ReadIsSound == OneVoice /\ ButtonIsRight /\ ReadsWhatWasAsked
=============================================================================
