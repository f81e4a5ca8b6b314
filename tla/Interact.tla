------------------------------ MODULE Interact ------------------------------
(***************************************************************************)
(* The dialog of the command center that writes to an agent                *)
(* (public/command-center.js): its text box, the draft kept per agent in   *)
(* the storage of the browser, sending, uploading of files, and dictation. *)
(*                                                                         *)
(* The dialog is one, and its box, its recorder and its flags are shared   *)
(* by all agents; every answer, of the controller and of the microphone,   *)
(* arrives when it may show another agent, or none.                        *)
(*                                                                         *)
(* A piece of text is told by the agent it is meant for (the one that was  *)
(* shown when it was typed or said) and by how it was made.                *)
(***************************************************************************)
EXTENDS Naturals, FiniteSets

CONSTANTS
  Agents,      \* the agents of the list
  Typed, Said, Path,  \* kinds of text: what is typed, dictated, and uploaded
  Recorders,   \* MediaRecorders of one page
  NoAgent, NoRecorder

InteractAssumption == NoAgent \notin Agents /\ NoRecorder \notin Recorders

VARIABLES
  agent,      \* interactAgent: the agent the dialog shows
  box,        \* the text in the box
  drafts,     \* the drafts in the storage of the browser
  sending,    \* the message being sent: interactSending
  uploading,  \* the upload under way: interactUploading
  voice,      \* interactVoice: status, recorder, stream, chunks and flags
  mics,       \* the recorders
  astray,     \* history: an agent was sent what was meant for another
  doubled,    \* history: two recorders were asked for at once, or one arrived after
              \* its dialog was closed
  hasty       \* history: something was written while a message was being sent

text == <<box, drafts>>
wire == <<sending, uploading, astray>>
sound == <<voice, mics>>
vars == <<agent, box, drafts, sending, uploading, voice, mics, astray, doubled, hasty>>

Pieces == [for : Agents, how : {Typed, Said, Path}]
Of(a) == {p \in Pieces : p.for = a}

NoMessage == [to |-> NoAgent, text |-> {}]
NoUpload == [for |-> NoAgent, current |-> FALSE]
Silent == [status |-> "idle", recorder |-> NoRecorder, stream |-> NoRecorder,
           chunks |-> {}, cancel |-> FALSE, after |-> FALSE]
Off == [at |-> "off", for |-> NoAgent, audio |-> {}, after |-> FALSE]

Init ==
  /\ agent = NoAgent /\ box = {} /\ drafts = [a \in Agents |-> {}]
  /\ sending = NoMessage /\ uploading = NoUpload
  /\ voice = Silent /\ mics = [m \in Recorders |-> Off]
  /\ astray = FALSE /\ doubled = FALSE /\ hasty = FALSE

Sending == sending # NoMessage
Uploading == uploading # NoUpload

-----------------------------------------------------------------------------
(* The recorder, as its helpers leave it.                                  *)

Recording(m) == m # NoRecorder /\ mics[m].at = "recording"

\* A recorder is told to stop; its stop event follows.
Stopping(ms) == [m \in Recorders |->
                  IF m \in ms /\ mics[m].at = "recording" THEN [mics[m] EXCEPT !.at = "stopping"]
                  ELSE mics[m]]

\* resetInteractVoice: a recorder that runs is cancelled by its stop event.
ResetVoice ==
  IF Recording(voice.recorder)
  THEN voice' = [voice EXCEPT !.cancel = TRUE] /\ mics' = Stopping({voice.recorder})
  ELSE voice' = Silent /\ mics' = Stopping({voice.stream})

-----------------------------------------------------------------------------
(* The dialog.                                                             *)

\* openInteract, from the list, which the open dialog covers.
Open(a) ==
  /\ agent = NoAgent /\ ~Sending
  /\ agent' = a
  /\ box' = drafts[a]
  /\ uploading' = IF Uploading THEN [uploading EXCEPT !.current = FALSE] ELSE uploading
  /\ ResetVoice
  /\ UNCHANGED <<drafts, sending, astray, doubled, hasty>>

\* Mutant: the dialog closes while a recording is transcribed.
CloseAlways ==
  /\ agent # NoAgent /\ ~Sending
  /\ agent' = NoAgent /\ box' = {}
  /\ uploading' = IF Uploading THEN [uploading EXCEPT !.current = FALSE] ELSE uploading
  /\ ResetVoice
  /\ doubled' = (doubled \/ \E m \in Recorders : mics[m].at = "asked")
  /\ UNCHANGED <<drafts, sending, astray, hasty>>

\* closeInteract.
Close == voice.status # "transcribing" /\ CloseAlways

\* The box becomes s, and the draft with it.
Write(s) ==
  /\ box' = s
  /\ drafts' = IF agent = NoAgent THEN drafts ELSE [drafts EXCEPT ![agent] = s]
  /\ hasty' = (hasty \/ Sending)

\* The input listener.
Type ==
  /\ agent # NoAgent
  /\ Write(box \union {[for |-> agent, how |-> Typed]})
  /\ UNCHANGED <<agent, wire, sound, doubled>>

\* The Clear button.
Clear ==
  /\ agent # NoAgent /\ Write({})
  /\ UNCHANGED <<agent, wire, sound, doubled>>

\* sendInteractText: the box is emptied before the answer, the draft after it.
SendText(s) ==
  IF Sending \/ Uploading \/ s = {} \/ agent = NoAgent
  THEN box' = s /\ UNCHANGED sending
  ELSE sending' = [to |-> agent, text |-> s] /\ box' = {}

\* Enter, unless a recording runs, and the Send button.
Send ==
  /\ agent # NoAgent /\ voice.status # "recording"
  /\ SendText(box)
  /\ UNCHANGED <<agent, drafts, uploading, astray, sound, doubled, hasty>>

Sent ==
  /\ Sending
  /\ astray' = (astray \/ ~(sending.text \subseteq Of(sending.to)))
  /\ drafts' = [drafts EXCEPT ![sending.to] = {}]
  /\ sending' = NoMessage
  /\ UNCHANGED <<agent, box, uploading, sound, doubled, hasty>>

\* Mutant: the text of a message that failed is not put back.
SendFailsSilently ==
  /\ Sending /\ sending' = NoMessage
  /\ UNCHANGED <<agent, text, uploading, astray, sound, doubled, hasty>>

\* The message fails, or its answer is lost: the text returns to the box.
SendFails ==
  /\ Sending
  /\ astray' = (astray \/ ~(sending.text \subseteq Of(sending.to)))
  /\ box' = sending.text
  /\ drafts' = [drafts EXCEPT ![sending.to] = sending.text]
  /\ sending' = NoMessage
  /\ UNCHANGED <<agent, uploading, sound, doubled, hasty>>

-----------------------------------------------------------------------------
(* Uploads.                                                                *)

Upload ==
  /\ agent # NoAgent /\ ~Uploading /\ ~Sending
  /\ uploading' = [for |-> agent, current |-> TRUE]
  /\ UNCHANGED <<agent, text, sending, astray, sound, doubled, hasty>>

\* Mutant: the path goes into the box, whatever agent it is of.
UploadedHere ==
  /\ Uploading
  /\ Write(box \union {[for |-> uploading.for, how |-> Path]})
  /\ uploading' = NoUpload
  /\ UNCHANGED <<agent, sending, astray, sound, doubled>>

\* The path of the file goes into the box, or into the draft of its agent when
\* the dialog was closed or opened meanwhile.
Uploaded ==
  LET path == [for |-> uploading.for, how |-> Path] IN
  /\ Uploading
  /\ IF uploading.current THEN Write(box \union {path})
     ELSE /\ drafts' = [drafts EXCEPT ![uploading.for] = @ \union {path}]
          /\ hasty' = (hasty \/ agent = uploading.for)
          /\ UNCHANGED box
  /\ uploading' = NoUpload
  /\ UNCHANGED <<agent, sending, astray, sound, doubled>>

UploadFails ==
  /\ Uploading /\ uploading' = NoUpload
  /\ UNCHANGED <<agent, text, sending, astray, sound, doubled, hasty>>

-----------------------------------------------------------------------------
(* Dictation.                                                              *)

\* toggleInteractVoiceRecording, up to getUserMedia; the status stays idle.
Ask(m) ==
  /\ agent # NoAgent /\ voice.status = "idle" /\ mics[m] = Off
  /\ voice' = [voice EXCEPT !.after = FALSE]
  /\ doubled' = (doubled \/ \E n \in Recorders : mics[n].at # "off")
  /\ mics' = [mics EXCEPT ![m] = [Off EXCEPT !.at = "asked", !.for = agent]]
  /\ UNCHANGED <<agent, text, wire, hasty>>

Granted(m) ==
  /\ mics[m].at = "asked"
  /\ mics' = [mics EXCEPT ![m].at = "recording"]
  /\ voice' = [voice EXCEPT !.status = "recording", !.recorder = m, !.stream = m,
                            !.chunks = {}, !.cancel = FALSE]
  /\ UNCHANGED <<agent, text, wire, doubled, hasty>>

\* The user refuses, or there is no microphone.
Denied(m) ==
  /\ mics[m].at = "asked"
  /\ IF Recording(voice.recorder)
     THEN /\ voice' = [voice EXCEPT !.cancel = TRUE]
          /\ mics' = [Stopping({voice.recorder}) EXCEPT ![m] = Off]
     ELSE voice' = Silent /\ mics' = [Stopping({voice.stream}) EXCEPT ![m] = Off]
  /\ UNCHANGED <<agent, text, wire, doubled, hasty>>

\* Something is said; the recorder hands over its data.
Say(m) ==
  /\ mics[m].at = "recording"
  /\ voice' = [voice EXCEPT !.chunks = @ \union
       {[for |-> IF agent = NoAgent THEN mics[m].for ELSE agent, how |-> Said]}]
  /\ UNCHANGED <<agent, text, wire, mics, doubled, hasty>>

\* submitInteractVoiceRecording: Keep, and Enter, which sends as well.
Keep(after) ==
  /\ agent # NoAgent /\ Recording(voice.recorder)
  /\ voice' = [voice EXCEPT !.after = after, !.cancel = FALSE, !.status = "transcribing"]
  /\ mics' = Stopping({voice.recorder})
  /\ UNCHANGED <<agent, text, wire, doubled, hasty>>

\* cancelInteractVoiceRecording: Discard.
Discard ==
  /\ agent # NoAgent /\ Recording(voice.recorder)
  /\ voice' = [voice EXCEPT !.after = FALSE, !.cancel = TRUE]
  /\ mics' = Stopping({voice.recorder})
  /\ UNCHANGED <<agent, text, wire, doubled, hasty>>

\* The stop event of a recording that was cancelled.
Discarded(m) ==
  /\ mics[m].at = "stopping" /\ voice.cancel
  /\ IF Recording(voice.recorder)
     THEN voice' = voice /\ mics' = [Stopping({voice.recorder}) EXCEPT ![m] = Off]
     ELSE voice' = Silent /\ mics' = [Stopping({voice.stream}) EXCEPT ![m] = Off]
  /\ UNCHANGED <<agent, text, wire, doubled, hasty>>

\* The stop event otherwise: finishInteractVoiceRecording, up to its request.
Stopped(m) ==
  /\ mics[m].at = "stopping" /\ ~voice.cancel
  /\ IF voice.chunks = {}
     THEN voice' = Silent /\ mics' = [Stopping({voice.stream}) EXCEPT ![m] = Off]
     ELSE /\ voice' = [voice EXCEPT !.chunks = {}, !.recorder = NoRecorder,
                                    !.stream = NoRecorder]
          /\ mics' = [Stopping({voice.stream}) EXCEPT
                        ![m] = [at |-> "transcribing", for |-> mics[m].for,
                                audio |-> voice.chunks, after |-> voice.after]]
  /\ UNCHANGED <<agent, text, wire, doubled, hasty>>

\* The text is appended, the draft saved, and the message sent if it was asked for.
Transcribed(m) ==
  LET s == box \union mics[m].audio IN
  /\ mics[m].at = "transcribing"
  /\ voice' = [voice EXCEPT !.status = "idle", !.after = FALSE]
  /\ mics' = [mics EXCEPT ![m] = Off]
  /\ drafts' = IF agent = NoAgent THEN drafts ELSE [drafts EXCEPT ![agent] = s]
  /\ hasty' = (hasty \/ Sending)
  /\ IF mics[m].after THEN SendText(s) ELSE box' = s /\ UNCHANGED sending
  /\ UNCHANGED <<agent, uploading, astray, doubled>>

TranscriptionFails(m) ==
  /\ mics[m].at = "transcribing"
  /\ IF Recording(voice.recorder)
     THEN /\ voice' = [voice EXCEPT !.cancel = TRUE, !.after = FALSE]
          /\ mics' = [Stopping({voice.recorder}) EXCEPT ![m] = Off]
     ELSE voice' = Silent /\ mics' = [Stopping({voice.stream}) EXCEPT ![m] = Off]
  /\ UNCHANGED <<agent, text, wire, doubled, hasty>>

\* The page is closed, or loaded again.
Reload ==
  /\ agent' = NoAgent /\ box' = {} /\ voice' = Silent
  /\ mics' = [m \in Recorders |-> Off]
  /\ sending' = NoMessage /\ uploading' = NoUpload
  /\ UNCHANGED <<drafts, astray, doubled, hasty>>

Next ==
  \/ \E a \in Agents : Open(a)
  \/ Close \/ Type \/ Clear \/ Send \/ Sent \/ SendFails
  \/ Upload \/ Uploaded \/ UploadFails \/ Reload
  \/ Discard \/ \E after \in BOOLEAN : Keep(after)
  \/ \E m \in Recorders : \/ Ask(m) \/ Granted(m) \/ Denied(m) \/ Say(m)
                          \/ Discarded(m) \/ Stopped(m)
                          \/ Transcribed(m) \/ TranscriptionFails(m)

Spec == Init /\ [][Next]_vars

-----------------------------------------------------------------------------
(* Properties.                                                             *)

TypeOK ==
  /\ agent \in Agents \union {NoAgent} /\ box \subseteq Pieces
  /\ drafts \in [Agents -> SUBSET Pieces]
  /\ sending \in [to : Agents \union {NoAgent}, text : SUBSET Pieces]
  /\ uploading \in [for : Agents \union {NoAgent}, current : BOOLEAN]
  /\ voice \in [status : {"idle", "recording", "transcribing"},
                recorder : Recorders \union {NoRecorder},
                stream : Recorders \union {NoRecorder},
                chunks : SUBSET Pieces, cancel : BOOLEAN, after : BOOLEAN]
  /\ mics \in [Recorders -> [at : {"off", "asked", "recording", "stopping", "transcribing"},
                             for : Agents \union {NoAgent}, audio : SUBSET Pieces,
                             after : BOOLEAN]]
  /\ {astray, doubled, hasty} \subseteq BOOLEAN

\* What was written for one agent is neither shown, nor kept, nor sent as
\* something for another.  The exception: a second recording is asked for before
\* the microphone has been granted for the first, or the first is granted when
\* its dialog is closed; then a dialog may be closed whose transcription is
\* under way.
NothingStrays ==
  ~doubled =>
    /\ box \subseteq (IF agent = NoAgent THEN {} ELSE Of(agent))
    /\ \A a \in Agents : drafts[a] \subseteq Of(a)
    /\ ~astray

\* What is in the box is in the storage as well, so that closing the dialog or
\* the page loses nothing; a message stays there until it is known to have been
\* sent.  The exception: what is written while a message is being sent takes the
\* place of the draft, and is deleted with it; and a path may be added to the
\* draft of the agent shown but not to the box.
UnsentIsSaved ==
  ~hasty =>
    /\ agent # NoAgent /\ ~Sending => box = drafts[agent]
    /\ Sending => drafts[sending.to] = sending.text

InteractIsSound == NothingStrays /\ UnsentIsSaved
=============================================================================
