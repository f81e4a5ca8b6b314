------------------------------ MODULE Composer ------------------------------
(***************************************************************************)
(* The message box of the terminal page (public/app.js): typing, sending,  *)
(* and dictation into the box, with the recording kept for another try     *)
(* when its transcription fails.                                           *)
(*                                                                         *)
(* The box and the recorder are one for all windows; the window that is    *)
(* shown may change at any moment, also between the Enter that ends a      *)
(* recording and the answer with its words.  A piece of text is a number:  *)
(* 0 is typed, n was said in the n-th recording.                           *)
(***************************************************************************)
EXTENDS Naturals, FiniteSets

CONSTANTS
  Panes, NoPane,
  MaxRecordings,  \* bound: recordings of one page
  MaxSends        \* bound: messages being sent at one time

ComposerAssumption == NoPane \notin Panes /\ {MaxRecordings, MaxSends} \subseteq Nat

VARIABLES
  pane,     \* the pane shown: state.paneId
  box,      \* the text in the box
  sends,    \* messages on their way, each with the pane it goes to
  voice,    \* state.voice
  mics,     \* the recordings, and what becomes of them
  kept,     \* history: recordings the user has kept
  settled,  \* history: recordings that were sent, or that the user has cleared
  aim,      \* history: the pane for which the user submitted what a recording says
  loose,    \* history: recordings whose words came to the box, or whose pane was left,
            \* after the user had submitted what there was
  doubled,  \* history: a recorder was granted or denied while another was at work: the
            \* two were asked for before either was granted
  written   \* history: recordings that were written over, by a failed message or
            \* by the next recording

typing == <<box, sends>>
sound == <<voice, mics, kept>>
meaning == <<aim, loose>>
history == <<settled, doubled, written>>
vars == <<pane, box, sends, voice, mics, kept, aim, loose, settled, doubled, written>>

Recordings == 1..MaxRecordings
Pieces == 0..MaxRecordings
MaxAttempts == 3   \* VOICE_TRANSCRIBE_MAX_ATTEMPTS

Silent == [status |-> "idle", recorder |-> 0, stream |-> 0, chunks |-> {},
           cancel |-> FALSE, after |-> FALSE, pending |-> {}, failed |-> FALSE]
Unused == [at |-> "unused", audio |-> {}, after |-> FALSE, tries |-> 0]
Done == [Unused EXCEPT !.at = "done"]

Init ==
  /\ pane = NoPane /\ box = {} /\ sends = {}
  /\ voice = Silent /\ mics = [n \in Recordings |-> Unused]
  /\ kept = {} /\ settled = {} /\ doubled = FALSE /\ written = {}
  /\ aim = [n \in Recordings |-> NoPane] /\ loose = {}

-----------------------------------------------------------------------------
(* The window, the box and the messages.                                   *)

\* The user submits the pieces s, for the pane that is shown, if one is.
Means(s) ==
  /\ aim' = [n \in Recordings |-> IF n \in s THEN pane ELSE aim[n]]
  /\ loose' = IF pane = NoPane THEN loose \union (s \ {0}) ELSE loose \ s

\* The pieces s are done with.
Settled(s) ==
  /\ settled' = settled \union s
  /\ aim' = [n \in Recordings |-> IF n \in s THEN NoPane ELSE aim[n]]
  /\ loose' = loose \ s

\* The pieces s come to the box, for the user to look at.
Comes(s) == loose' = loose \union (s \ {0}) /\ UNCHANGED aim

OnTheirWay == UNION {s.text : s \in sends}

\* Selecting a window cancels neither a recording nor its transcription.
SelectPane ==
  /\ \E p \in (Panes \union {NoPane}) \ {pane} : pane' = p
  /\ Comes({n \in Recordings : aim[n] # NoPane} \ (settled \union OnTheirWay))
  /\ UNCHANGED <<typing, sound, history>>

Type ==
  /\ box' = box \union {0}
  /\ UNCHANGED <<pane, sends, sound, meaning, history>>

\* The Clear button.
Clear ==
  /\ box # {} /\ box' = {}
  /\ Settled(box)
  /\ UNCHANGED <<pane, sends, sound, doubled, written>>

\* submitTextComposer, with the text s in the box: it is cleared before the
\* answer, and several messages may be on their way.
Submit(s) ==
  IF s = {} \/ pane = NoPane THEN box' = s /\ UNCHANGED sends
  ELSE sends' = sends \union {[to |-> pane, text |-> s]} /\ box' = {}

\* The Send button; Enter, unless a recording runs.
Send ==
  /\ box # {} /\ Cardinality(sends) < MaxSends
  /\ Submit(box) /\ Means(box)
  /\ UNCHANGED <<pane, sound, history>>

Sent(s) ==
  /\ sends' = sends \ {s}
  /\ Settled(s.text)
  /\ UNCHANGED <<pane, box, sound, doubled, written>>

\* Mutant: what failed is not put back.
SendFailsSilently(s) ==
  /\ sends' = sends \ {s}
  /\ UNCHANGED <<pane, box, sound, meaning, history>>

\* The message fails, or its answer is lost: its text takes the place of what is
\* in the box by then.
SendFails(s) ==
  /\ sends' = sends \ {s} /\ box' = s.text /\ Comes(s.text)
  /\ written' = written \union (box \ s.text)
  /\ UNCHANGED <<pane, sound, settled, doubled>>

-----------------------------------------------------------------------------
(* The recorder, as its helpers leave it.                                  *)

Recording(n) == n # 0 /\ mics[n].at = "recording"
AtWork(n) == mics[n].at \in {"recording", "stopping", "asking", "waiting"}
Stopping(n) == IF Recording(n) THEN [mics EXCEPT ![n].at = "stopping"] ELSE mics

\* stopVoiceStream ends the tracks of the stream, and with them its recorder.
\* What is left: the audio kept for another try, and what was said of it.
Reset == [Silent EXCEPT !.pending = voice.pending, !.failed = voice.failed]

\* toggleVoiceRecording, up to getUserMedia; the status stays idle.
Ask(n) ==
  /\ voice.status = "idle" /\ pane # NoPane
  /\ mics[n] = Unused /\ \A k \in Recordings : k < n => mics[k] # Unused
  /\ voice' = [voice EXCEPT !.after = FALSE]
  /\ mics' = [mics EXCEPT ![n].at = "asked"]
  /\ UNCHANGED <<pane, typing, kept, meaning, history>>

\* The user, or the browser, answers the question for the microphone.
Answered ==
  doubled' = (doubled \/ \E k \in Recordings : AtWork(k))

Granted(n) ==
  /\ mics[n].at = "asked"
  /\ mics' = [mics EXCEPT ![n].at = "recording"]
  /\ voice' = [voice EXCEPT !.status = "recording", !.recorder = n, !.stream = n,
                            !.chunks = {}, !.cancel = FALSE]
  /\ Answered
  /\ UNCHANGED <<pane, typing, kept, meaning, settled, written>>

Denied(n) ==
  /\ mics[n].at = "asked"
  /\ voice' = [Reset EXCEPT !.chunks = voice.chunks]
  /\ mics' = [Stopping(voice.stream) EXCEPT ![n] = Done]
  /\ Answered
  /\ UNCHANGED <<pane, typing, kept, meaning, settled, written>>

\* A piece of audio; the last one comes between stop() and the stop event.
Say(n) ==
  /\ mics[n].at \in {"recording", "stopping"}
  /\ voice' = [voice EXCEPT !.chunks = @ \union {n}]
  /\ UNCHANGED <<pane, typing, mics, kept, meaning, history>>

\* submitVoiceRecording: Keep, or Enter, which submits what is said and what is in
\* the box.
Keep(after) ==
  /\ Recording(voice.recorder)
  /\ voice' = [voice EXCEPT !.after = after, !.cancel = FALSE, !.status = "transcribing"]
  /\ mics' = Stopping(voice.recorder)
  /\ kept' = kept \union voice.chunks
  /\ IF after THEN Means({voice.recorder} \union voice.chunks \union box) ELSE UNCHANGED meaning
  /\ UNCHANGED <<pane, typing, history>>

\* cancelVoiceRecording.
Cancel ==
  /\ Recording(voice.recorder)
  /\ voice' = [voice EXCEPT !.after = FALSE, !.cancel = TRUE]
  /\ mics' = Stopping(voice.recorder)
  /\ UNCHANGED <<pane, typing, kept, meaning, history>>

\* The stop event of a recording that was cancelled: discardVoiceRecording.
Discarded(n) ==
  /\ mics[n].at = "stopping" /\ voice.cancel
  /\ voice' = Reset
  /\ mics' = [Stopping(voice.stream) EXCEPT ![n] = Done]
  /\ UNCHANGED <<pane, typing, kept, meaning, history>>

\* handleVoiceSendError: the audio is kept.
Fails(n) ==
  /\ voice' = [Reset EXCEPT !.failed = (voice.pending # {})]
  /\ mics' = [Stopping(voice.stream) EXCEPT ![n] = Done]

\* The stop event otherwise: finishVoiceRecording, up to its request.  The audio
\* of an earlier recording that is still kept is replaced.
Stopped(n) ==
  /\ mics[n].at = "stopping" /\ ~voice.cancel
  /\ IF voice.chunks = {}
     THEN Fails(n) /\ UNCHANGED written
     ELSE /\ voice' = [voice EXCEPT !.pending = voice.chunks, !.chunks = {}, !.recorder = 0,
                                    !.stream = 0, !.failed = FALSE, !.status = "transcribing"]
          /\ mics' = [Stopping(voice.stream) EXCEPT
                        ![n] = [at |-> "asking", audio |-> voice.chunks,
                                after |-> voice.after, tries |-> 1]]
          /\ written' = written \union (voice.pending \ voice.chunks)
  /\ UNCHANGED <<pane, typing, kept, meaning, settled, doubled>>

\* Mutant: what was kept without Enter is sent as well.
TranscribedAndSent(n) ==
  /\ mics[n].at = "asking" /\ Cardinality(sends) < MaxSends
  /\ voice' = [voice EXCEPT !.pending = {}, !.failed = FALSE, !.status = "idle", !.after = FALSE]
  /\ mics' = [mics EXCEPT ![n] = Done]
  /\ Submit(box \union mics[n].audio)
  /\ UNCHANGED <<pane, kept, meaning, history>>

\* The answer: the text is appended, the audio dropped, and the box sent if that
\* was asked for, to the pane that is shown by then.
Transcribed(n) ==
  LET s == box \union mics[n].audio IN
  /\ mics[n].at = "asking"
  /\ ~mics[n].after \/ Cardinality(sends) < MaxSends
  /\ voice' = [voice EXCEPT !.pending = {}, !.failed = FALSE, !.status = "idle", !.after = FALSE]
  /\ mics' = [mics EXCEPT ![n] = Done]
  /\ IF mics[n].after THEN Submit(s) /\ UNCHANGED meaning
     ELSE box' = s /\ Comes(mics[n].audio) /\ UNCHANGED sends
  /\ UNCHANGED <<pane, kept, history>>

\* Mutant: a transcription that has failed for good drops its audio.
GivesUpForgetting(n) ==
  /\ mics[n].at = "asking"
  /\ voice' = Silent
  /\ mics' = [Stopping(voice.stream) EXCEPT ![n] = Done]
  /\ UNCHANGED <<pane, typing, kept, meaning, history>>

\* It fails for good: no speech, too large, or the third attempt.
GivesUp(n) ==
  /\ mics[n].at = "asking"
  /\ Fails(n)
  /\ UNCHANGED <<pane, typing, kept, meaning, history>>

\* It fails, and is tried again after a while, with what is kept by then.
TriesAgain(n) ==
  /\ mics[n].at = "asking" /\ mics[n].tries < MaxAttempts
  /\ voice' = [voice EXCEPT !.status = "transcribing", !.failed = FALSE]
  /\ mics' = [mics EXCEPT ![n].tries = @ + 1, ![n].at = "waiting"]
  /\ UNCHANGED <<pane, typing, kept, meaning, history>>

\* The delay is over.  Nothing may be kept any more: then there is nothing to do
\* but to send what is in the box.
Delayed(n) ==
  /\ mics[n].at = "waiting"
  /\ \/ /\ voice.pending # {}
        /\ mics' = [mics EXCEPT ![n].at = "asking", ![n].audio = voice.pending]
        /\ voice' = [voice EXCEPT !.status = "transcribing", !.failed = FALSE]
        /\ UNCHANGED typing
     \/ /\ voice.pending = {} /\ Cardinality(sends) < MaxSends
        /\ mics' = [mics EXCEPT ![n] = Done]
        /\ voice' = [voice EXCEPT !.after = FALSE]
        /\ IF mics[n].after THEN Submit(box) ELSE UNCHANGED typing
  /\ UNCHANGED <<pane, kept, meaning, history>>

\* retryVoiceRecording: the Retry button.
Retry(n) ==
  /\ voice.status = "idle" /\ voice.pending # {}
  /\ mics[n] = Done
  /\ voice' = [voice EXCEPT !.status = "transcribing", !.failed = FALSE]
  /\ mics' = [mics EXCEPT ![n] = [at |-> "asking", audio |-> voice.pending,
                                  after |-> FALSE, tries |-> 1]]
  /\ UNCHANGED <<pane, typing, kept, meaning, history>>

Next ==
  \/ SelectPane \/ Type \/ Clear \/ Send \/ Cancel
  \/ \E s \in sends : Sent(s) \/ SendFails(s)
  \/ \E after \in BOOLEAN : Keep(after)
  \/ \E n \in Recordings :
       \/ Ask(n) \/ Granted(n) \/ Denied(n) \/ Say(n) \/ Discarded(n) \/ Stopped(n)
       \/ Transcribed(n) \/ GivesUp(n) \/ TriesAgain(n) \/ Delayed(n) \/ Retry(n)

Spec == Init /\ [][Next]_vars

-----------------------------------------------------------------------------
(* Properties.                                                             *)

TypeOK ==
  /\ pane \in Panes \union {NoPane} /\ box \subseteq Pieces
  /\ sends \subseteq [to : Panes, text : SUBSET Pieces]
  /\ voice \in [status : {"idle", "recording", "transcribing"}, recorder : 0..MaxRecordings,
                stream : 0..MaxRecordings, chunks : SUBSET Recordings, cancel : BOOLEAN,
                after : BOOLEAN, pending : SUBSET Recordings, failed : BOOLEAN]
  /\ mics \in [Recordings -> [at : {"unused", "asked", "recording", "stopping", "asking",
                                    "waiting", "done"},
                              audio : SUBSET Recordings, after : BOOLEAN,
                              tries : 0..MaxAttempts]]
  /\ kept \subseteq Recordings /\ settled \subseteq Pieces /\ written \subseteq Pieces
  /\ doubled \in BOOLEAN /\ aim \in [Recordings -> Panes \union {NoPane}]
  /\ loose \subseteq Recordings

\* What the user has said and kept is there until it is sent or cleared: in the
\* recorder, kept for another try, in the box, or on its way.  The exceptions: a
\* failed message takes the place of what was written since; a recording that is
\* kept for another try is replaced by the next; and two recorders that were asked
\* for at once have one list of chunks, which either of them may empty.
KeptIsNotLost ==
  ~doubled =>
    \A n \in kept \ (settled \union written) :
      n \in voice.chunks \union voice.pending \union box \union OnTheirWay

\* The microphone can always be used again: the status says that a recording is
\* transcribed only while one is, or is about to be.
BusyIsNotForever ==
  ~doubled /\ voice.status = "transcribing" =>
    \E n \in Recordings : mics[n].at \in {"stopping", "asking", "waiting"}

\* What was said goes to the pane for which the user has submitted it, with Send or
\* with the Enter of a recording; what was kept without Enter is not sent by
\* itself.  The exception: the Enter of a recording sends the box as it is when the
\* transcription returns, to the pane shown by then.  Words are loose when another
\* window was selected in between, or when they were put into the box after Enter
\* for the user to look at.
WordsGoWhereMeant ==
  ~doubled =>
    \A s \in sends : \A n \in s.text \ (loose \union {0}) : aim[n] = s.to

ComposerIsSound == KeptIsNotLost /\ BusyIsNotForever /\ WordsGoWhereMeant
=============================================================================
