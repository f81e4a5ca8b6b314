----------------------------- MODULE PaneInput -----------------------------
(***************************************************************************)
(* What the controller types into the pane of an agent (server.mjs): a     *)
(* message is pasted and, after a delay, entered; a dictated message is    *)
(* retried by its client under one key; and the answer to a question of    *)
(* the agent is given by the keys that move its cursor (server.mjs,        *)
(* lib/ask-question-keys.mjs, with the sheet of public/app.js that asks    *)
(* for it).  Every key is a command of its own, so that they interleave    *)
(* with each other, with the person at the terminal and with the agent.    *)
(***************************************************************************)
EXTENDS Naturals, Sequences, SequencesExt, FiniteSets

CONSTANTS
  Texts,        \* messages sent once
  Voices,       \* dictated messages, sent under a key
  Free,         \* an answer in words
  Options,      \* bound: options of a question
  MaxQuestions, \* bound: questions asked
  MaxAttempts,  \* bound: requests for one dictated message
  MaxTouches    \* bound: what the person at the terminal does

PaneInputAssumption ==
  /\ Texts \intersect Voices = {} /\ Free \notin Texts \union Voices
  /\ {Options, MaxQuestions, MaxAttempts, MaxTouches} \subseteq Nat

VARIABLES
  pane,      \* the program in the pane
  flights,   \* the messages being typed: how far each has come
  nudges,    \* second Enters that are still to come
  cache,     \* voiceSendCache
  attempts,  \* the requests made for each dictated message
  sheet,     \* the sheet of the page, with the request of its answer
  disturbed, \* history: messages that someone else's input has met on their way
  doubled,   \* history: dictated messages that were forgotten, or failed after
             \* they were pasted
  crossed,   \* history: someone else's input has met the question of the sheet
  paged      \* history: a key of its answer has met the pager

work == <<flights, nudges, cache, attempts>>
history == <<disturbed, doubled, crossed, paged>>
vars == <<pane, work, sheet, history>>

Messages == Texts \union Voices
Typed == Messages \union {Free}
NoAsk == [id |-> 0, kind |-> "none", cursor |-> 0, checked |-> {}]
Bottom(q) == IF q.kind = "multi" THEN Options + 1 ELSE Options   \* with its "Submit"
NoResult == [id |-> 0, kind |-> "none", chosen |-> {}]
Shut == [at |-> "shut", seen |-> NoAsk, want |-> NoResult, keys |-> <<>>]

Init ==
  /\ pane = [pager |-> FALSE, ask |-> NoAsk, asked |-> 0, touched |-> 0, line |-> {},
             posted |-> [t \in Typed |-> 0], results |-> {}]
  /\ flights = [t \in Messages |-> "no"] /\ nudges = {} /\ cache = {}
  /\ attempts = [v \in Voices |-> 0] /\ sheet = Shut
  /\ disturbed = {} /\ doubled = {} /\ crossed = FALSE /\ paged = FALSE

-----------------------------------------------------------------------------
(* The program in the pane: a pager swallows keys; a question takes them    *)
(* before the input line does.                                              *)

Ends(p, kind, chosen) ==
  [p EXCEPT !.ask = NoAsk, !.results = @ \union {[id |-> p.ask.id, kind |-> kind, chosen |-> chosen]}]

Entered(p) ==
  IF p.ask = NoAsk
  THEN [p EXCEPT !.line = {}, !.posted = [t \in Typed |-> IF t \in p.line /\ p.posted[t] < 2
                                                          THEN p.posted[t] + 1 ELSE p.posted[t]]]
  ELSE IF p.ask.kind # "multi" THEN Ends(p, p.ask.kind, {p.ask.cursor})
  ELSE IF p.ask.cursor = Bottom(p.ask) THEN Ends(p, "multi", p.ask.checked)
  ELSE [p EXCEPT !.ask.checked = IF p.ask.cursor \in @ THEN @ \ {p.ask.cursor}
                                 ELSE @ \union {p.ask.cursor}]

Press(p, key) ==
  IF p.pager THEN p
  ELSE CASE key = "Enter" -> Entered(p)
         [] key = "Escape" -> IF p.ask = NoAsk THEN p ELSE Ends(p, "dismissed", {})
         [] key = "Up" -> IF p.ask.cursor > 1 THEN [p EXCEPT !.ask.cursor = @ - 1] ELSE p
         [] key = "Down" -> IF p.ask # NoAsk /\ p.ask.cursor < Bottom(p.ask)
                            THEN [p EXCEPT !.ask.cursor = @ + 1] ELSE p
         [] OTHER -> p

Pasted(p, t) == IF p.pager \/ p.ask # NoAsk THEN p ELSE [p EXCEPT !.line = @ \union {t}]

OnTheirWay == {t \in Messages : flights[t] \in {"paste", "enter"}}

\* Someone other than the request "by" has changed the pane.
Meets(by) ==
  IF pane' = pane THEN UNCHANGED <<disturbed, crossed>>
  ELSE /\ disturbed' = disturbed \union (OnTheirWay \ by)
       /\ crossed' = (crossed \/ (sheet.at \notin {"shut", "settling"} /\ "sheet" \notin by))

\* The agent asks; the person at the terminal scrolls back, or presses a key.
AgentAsks ==
  /\ pane.ask = NoAsk /\ pane.asked < MaxQuestions
  /\ \E kind \in {"single", "multi", "review"} :
       pane' = [pane EXCEPT !.asked = @ + 1,
                            !.ask = [id |-> pane.asked + 1, kind |-> kind, cursor |-> 1,
                                     checked |-> {}]]
  /\ Meets({}) /\ UNCHANGED <<work, sheet, doubled, paged>>

Person ==
  /\ pane.touched < MaxTouches
  /\ LET p == [pane EXCEPT !.touched = @ + 1] IN
     \/ ~p.pager /\ pane' = [p EXCEPT !.pager = TRUE]
     \/ \E key \in {"Enter", "Escape", "Down"} : pane' = Press(p, key)
  /\ Meets({}) /\ UNCHANGED <<work, sheet, doubled, paged>>

-----------------------------------------------------------------------------
(* Messages.                                                               *)

\* exitSurfaceModeIfNeeded: a pane whose mode cannot be read is left in it.
ExitPager == pane' = [pane EXCEPT !.pager = FALSE]

Step(t, next) == flights' = [flights EXCEPT ![t] = next]

\* submitPaneText, and voice-send once it is transcribed.
SendText(t) ==
  /\ t \in Texts /\ flights[t] = "no"
  /\ Step(t, "exit")
  /\ UNCHANGED <<pane, nudges, cache, attempts, sheet, history>>

\* Mutant: only the messages that are done are looked up.
JoinsNothing(v) == FALSE

\* withVoiceSendIdempotency, for a first request and for its retries: a message
\* that is done is not done again, and one that is under way is joined.
Joins(v) == flights[v] \in {"transcribe", "exit", "paste", "enter"}

RequestVoice(v) ==
  /\ attempts[v] < MaxAttempts
  /\ attempts' = [attempts EXCEPT ![v] = @ + 1]
  /\ IF v \in cache \/ Joins(v) THEN UNCHANGED flights ELSE Step(v, "transcribe")
  /\ UNCHANGED <<pane, nudges, cache, sheet, history>>

Transcribed(v) ==
  /\ flights[v] = "transcribe" /\ Step(v, "exit")
  /\ UNCHANGED <<pane, nudges, cache, attempts, sheet, history>>

\* Mutant: the pane is not taken out of its pager.
ExitsPagerNever(t) ==
  /\ flights[t] = "exit" /\ Step(t, "paste")
  /\ disturbed' = disturbed \ {t}
  /\ UNCHANGED <<pane, nudges, cache, attempts, sheet, doubled, crossed, paged>>

\* sendTextToSurface, a command at a time: out of the pager, the paste (its buffer is
\* its own), the Enter.
ExitsPager(t) ==
  /\ flights[t] = "exit" /\ Step(t, "paste")
  /\ ExitPager
  /\ disturbed' = (disturbed \ {t}) \union (IF pane.ask # NoAsk THEN {t} ELSE {})
                    \union (IF pane' = pane THEN {} ELSE OnTheirWay)
  /\ crossed' = (crossed \/ (pane' # pane /\ sheet.at \notin {"shut", "settling"}))
  /\ UNCHANGED <<nudges, cache, attempts, sheet, doubled, paged>>

Pastes(t) ==
  /\ flights[t] = "paste" /\ Step(t, "enter")
  /\ pane' = Pasted(pane, t)
  /\ Meets({t}) /\ UNCHANGED <<nudges, cache, attempts, sheet, doubled, paged>>

Enters(t) ==
  /\ flights[t] = "enter" /\ Step(t, "done")
  /\ pane' = Press(pane, "Enter") /\ Meets({t})
  /\ cache' = IF t \in Voices THEN cache \union {t} ELSE cache
  /\ nudges' \in IF t \in Voices THEN {nudges \union {t}} ELSE {nudges, nudges \union {t}}
  /\ UNCHANGED <<attempts, sheet, doubled, paged>>

\* sendSubmitNudge: one more Enter, after a while, whatever is there by then.
Nudge(t) ==
  /\ t \in nudges /\ nudges' = nudges \ {t}
  /\ pane' = Press(pane, "Enter") /\ Meets({})
  /\ UNCHANGED <<flights, cache, attempts, sheet, doubled, paged>>

\* A command fails, and the request with it; or the controller stops.
SendFails(t) ==
  /\ flights[t] \in {"transcribe", "exit", "paste", "enter"}
  /\ Step(t, "failed")
  /\ doubled' = IF flights[t] = "enter" THEN doubled \union {t} ELSE doubled
  /\ UNCHANGED <<pane, nudges, cache, attempts, sheet, disturbed, crossed, paged>>

\* Two minutes later.
Forgets(v) ==
  /\ v \in cache /\ cache' = cache \ {v}
  /\ doubled' = doubled \union {v}
  /\ UNCHANGED <<pane, flights, nudges, attempts, sheet, disturbed, crossed, paged>>

-----------------------------------------------------------------------------
(* Answers.                                                                *)

Repeat(key, n) == [i \in 1..n |-> key]
MoveCursorKeys(from, to) == IF to > from THEN Repeat("Down", to - from) ELSE Repeat("Up", from - to)
SingleSelectKeys(q, option) == Append(MoveCursorKeys(q.cursor, option), "Enter")

\* Mutant: every way starts where the cursor was when the screen was read.
MultiSelectKeysFromStart(q, desired) ==
  FoldLeft(LAMBDA keys, i : IF (i \in desired) # (i \in q.checked) \/ i = Bottom(q)
                            THEN keys \o Append(MoveCursorKeys(q.cursor, i), "Enter") ELSE keys,
           <<>>, [i \in 1..Bottom(q) |-> i])

\* Toggles what differs from what is desired, then enters "Submit".
MultiSelectKeys(q, desired) ==
  FoldLeft(LAMBDA s, i : IF (i \in desired) # (i \in q.checked) \/ i = Bottom(q)
                         THEN [keys |-> s.keys \o Append(MoveCursorKeys(s.cursor, i), "Enter"),
                               cursor |-> i]
                         ELSE s,
           [keys |-> <<>>, cursor |-> q.cursor], [i \in 1..Bottom(q) |-> i]).keys

\* The review screen is entered as it is; words decline the question.
Keys(q, want) ==
  CASE want.kind = "single" -> SingleSelectKeys(q, CHOOSE o \in want.chosen : TRUE)
    [] want.kind = "multi" -> MultiSelectKeys(q, want.chosen)
    [] want.kind = "review" -> <<"Enter">>
    [] want.kind = "free" -> <<"Escape", Free, "Enter">>
    [] OTHER -> <<"Escape">>

Sheet(s) == sheet' = s /\ UNCHANGED <<pane, work, disturbed, doubled>>
\* What the sheet shows of the screen that was read.
Shown(q) == IF q = NoAsk THEN Shut ELSE [Shut EXCEPT !.at = "shown", !.seen = q]

\* openAskOverlay, and its answer.
OpenAskOverlay ==
  /\ sheet = Shut /\ Sheet(Shown(pane.ask))
  /\ crossed' = FALSE /\ paged' = FALSE

\* What can be asked for of the question shown.
Wants(q) ==
  {[id |-> q.id, kind |-> "dismissed", chosen |-> {}]}
  \union (IF q.kind = "review" THEN {[id |-> q.id, kind |-> "review", chosen |-> {1}]}
          ELSE {[id |-> q.id, kind |-> "free", chosen |-> {}]})
  \union (IF q.kind = "single" THEN {[id |-> q.id, kind |-> "single", chosen |-> {o}] : o \in 1..Options}
          ELSE {})
  \union (IF q.kind = "multi" THEN {[id |-> q.id, kind |-> "multi", chosen |-> c] : c \in SUBSET (1..Options)}
          ELSE {})

\* submitAsk: one request at a time.
SubmitAsk ==
  /\ sheet.at = "shown"
  /\ \E want \in Wants(sheet.seen) : Sheet([sheet EXCEPT !.at = "posted", !.want = want])
  /\ UNCHANGED <<crossed, paged>>

\* The handler reads the screen again: the keys start from what it shows now, of
\* whatever question it shows.
AskAnswerRead ==
  /\ sheet.at = "posted"
  /\ Sheet(IF pane.ask = NoAsk THEN Shut
           ELSE [sheet EXCEPT !.at = "keys", !.keys = Keys(pane.ask, sheet.want)])
  /\ UNCHANGED <<crossed, paged>>

\* sendAskKeys.
AskKey ==
  /\ sheet.at = "keys" /\ sheet.keys # <<>>
  /\ pane' = IF sheet.keys[1] = Free THEN Pasted([pane EXCEPT !.pager = FALSE], Free)
             ELSE Press(pane, sheet.keys[1])
  /\ sheet' = [sheet EXCEPT !.keys = Tail(@), !.at = IF Tail(sheet.keys) = <<>> THEN "settling" ELSE @]
  /\ paged' = (paged \/ pane.pager)
  /\ Meets({"sheet"}) /\ UNCHANGED <<work, doubled>>

\* settleAskQuestion: the screen has changed, or time is up; the sheet shows the
\* next question, or is closed.
Settles ==
  /\ sheet.at = "settling"
  /\ Sheet(Shown(pane.ask))
  /\ crossed' = FALSE /\ paged' = FALSE

\* A command fails: the sheet shows its question still.
AnswerFails ==
  /\ sheet.at \in {"posted", "keys"}
  /\ Sheet([Shut EXCEPT !.at = "shown", !.seen = sheet.seen])
  /\ crossed' = (crossed \/ sheet.at = "keys") /\ UNCHANGED paged

CloseAskOverlay ==
  /\ sheet.at = "shown" /\ Sheet(Shut) /\ UNCHANGED <<crossed, paged>>

Surroundings == AgentAsks \/ Person
Messaging ==
  \/ \E t \in Messages : SendText(t) \/ ExitsPager(t) \/ Pastes(t) \/ Enters(t) \/ Nudge(t) \/ SendFails(t)
  \/ \E v \in Voices : RequestVoice(v) \/ Transcribed(v) \/ Forgets(v)
Answering ==
  OpenAskOverlay \/ SubmitAsk \/ AskAnswerRead \/ AskKey \/ Settles \/ AnswerFails \/ CloseAskOverlay

Next == Surroundings \/ Messaging \/ Answering

Spec == Init /\ [][Next]_vars

-----------------------------------------------------------------------------
(* Properties.                                                             *)

TypeOK ==
  /\ pane.pager \in BOOLEAN /\ pane.ask.cursor \in 0..Options + 1 /\ pane.line \subseteq Typed
  /\ pane.posted \in [Typed -> 0..2]
  /\ flights \in [Messages -> {"no", "transcribe", "exit", "paste", "enter", "done", "failed"}]
  /\ nudges \subseteq Messages /\ cache \subseteq Voices
  /\ sheet.at \in {"shut", "shown", "posted", "keys", "settling"}
  /\ disturbed \subseteq Messages /\ doubled \subseteq Messages /\ {crossed, paged} \subseteq BOOLEAN

\* A message that was answered as sent has been submitted to the agent, whatever
\* mode the pane was in, unless other input met it on its way.
SentIsSubmitted ==
  \A t \in Messages : flights[t] = "done" => pane.posted[t] > 0 \/ t \in disturbed

\* However often its client retries, a dictated message is submitted once, unless
\* it failed after the paste or its key has been forgotten.
RetriesSubmitOnce == \A v \in Voices : pane.posted[v] < 2 \/ v \in doubled

Ended(id) == \E r \in pane.results : r.id = id

\* The keys of an answer do what was asked for of the question that was shown,
\* wherever its cursor was and whatever was checked; unless other input met the
\* question, of which the controller does not know, or the pane was in its pager.
\* (The review screen is entered where its cursor is.)
AnswersAreAsAsked ==
  sheet.at = "settling" /\ ~crossed /\ ~paged
    => IF sheet.want.kind = "free"
       THEN Ended(sheet.want.id) /\ pane.posted[Free] > 0
       ELSE sheet.want \in pane.results \/ (sheet.want.kind = "review" /\ sheet.seen.cursor # 1)

\* "Before delivering any input, drop the pane out of the scrollback pager so the
\* keystroke lands on the program" (server.mjs:1488): the keys of an answer have
\* changed the question that they were meant for, whatever mode the pane was in.
AnswersLandOnTheProgram ==
  sheet.at = "settling" /\ ~crossed => Ended(sheet.want.id)

InputIsSound == SentIsSubmitted /\ RetriesSubmitOnce /\ AnswersAreAsAsked
=============================================================================
