--------------------------- MODULE RoundNotifier ---------------------------
(***************************************************************************)
(* The notifications of finished rounds (lib/agent-ntfy.mjs) and the       *)
(* watchers of server.mjs that feed them.                                  *)
(*                                                                         *)
(* The controller scans the agents of a machine, on a timer and whenever a *)
(* browser lists them, and hands each result to observeAgents.  An agent   *)
(* that has ended a round with a new answer is announced under the topic   *)
(* of its machine; a topic sends one message at a time, at most one per    *)
(* interval, with everything that came in between, and nothing in quiet    *)
(* hours.  The state lives in memory and ends with the process.            *)
(***************************************************************************)
EXTENDS Naturals, Sequences, FiniteSets, SequencesExt

CONSTANTS
  Agents, Topics, TopicOf,  \* the agents of the machines, and what they are announced under
  MaxScans,                 \* bound: scans at one time
  MaxTexts                  \* bound: answers of an agent

NotifierAssumption ==
  /\ TopicOf \in [Agents -> Topics] /\ IsFiniteSet(Agents)
  /\ MaxScans \in Nat \ {0} /\ MaxTexts \in Nat

VARIABLES
  agents,     \* the agents: their status, last answer, and number of turns
  quiet,      \* whether it is a quiet hour
  scans,      \* scans that have read the agents and not yet returned
  states,     \* what the notifier remembers of an agent
  queue,      \* the queue of a topic
  sent,       \* history: how often an answer was sent
  reordered   \* history: whether an older scan was applied after a newer one

vars == <<agents, quiet, scans, states, queue, sent, reordered>>

Texts == 0..MaxTexts  \* the answers of an agent in order; 0 is none
Unseen == [seen |-> FALSE, running |-> FALSE, last |-> 0, notified |-> 0, turns |-> 0]
NoQueue == [pending |-> <<>>, timer |-> FALSE, sending |-> <<>>, recent |-> FALSE]

Init ==
  /\ agents = [a \in Agents |-> [running |-> FALSE, text |-> 0, hushed |-> FALSE, turns |-> 0]]
  /\ quiet = FALSE
  /\ scans = {}
  /\ states = [a \in Agents |-> Unseen]
  /\ queue = [t \in Topics |-> NoQueue]
  /\ sent = [a \in Agents |-> [x \in Texts |-> 0]]
  /\ reordered = FALSE

-----------------------------------------------------------------------------
(* The agents, and the clock.                                              *)

Answered(a) == [agents EXCEPT ![a].text = @ + 1, ![a].hushed = quiet]

\* A user prompts an agent; it says something while it works; it ends the round.
AgentRuns(a) ==
  /\ ~agents[a].running /\ agents[a].turns < MaxTexts
  /\ agents' = [agents EXCEPT ![a].running = TRUE, ![a].turns = @ + 1]
  /\ UNCHANGED <<quiet, scans, states, queue, sent, reordered>>

AgentSpeaks(a) ==
  /\ agents[a].running /\ agents[a].text < MaxTexts
  /\ agents' = Answered(a)
  /\ UNCHANGED <<quiet, scans, states, queue, sent, reordered>>

AgentEnds(a) ==
  /\ agents[a].running
  /\ agents' = [agents EXCEPT ![a].running = FALSE]
  /\ UNCHANGED <<quiet, scans, states, queue, sent, reordered>>

QuietHours ==
  /\ quiet' = ~quiet
  /\ UNCHANGED <<agents, scans, states, queue, sent, reordered>>

-----------------------------------------------------------------------------
(* Scans.                                                                  *)

\* listAgentSessions, for the timer or for a browser, reads the agents.
ScanStarts ==
  /\ Cardinality(scans) < MaxScans
  /\ scans' = scans \union {agents}
  /\ UNCHANGED <<agents, quiet, states, queue, sent, reordered>>

\* nextNotification: whether the agent has ended a round with a new answer.
IsNews(a, seen, recent) ==
  LET prev == states[a] IN
  IF ~prev.seen
  THEN ~seen.running /\ seen.text # 0 /\ recent
  ELSE /\ ~seen.running
       /\ seen.text # 0 /\ seen.text # prev.notified
       /\ prev.running \/ seen.turns > prev.turns \/ seen.text # prev.last

\* Mutant: an answer seen for the first time does not count as notified.
RememberFresh(a, seen, recent) ==
  LET prev == states[a] IN
  [seen |-> TRUE, running |-> seen.running,
   last |-> IF seen.text = 0 THEN prev.last ELSE seen.text,
   notified |-> IF prev.seen /\ IsNews(a, seen, recent) THEN seen.text ELSE prev.notified,
   turns |-> IF seen.turns > prev.turns THEN seen.turns ELSE prev.turns]

Remember(a, seen, recent) ==
  LET prev == states[a] IN
  [seen |-> TRUE, running |-> seen.running,
   last |-> IF seen.text = 0 THEN prev.last ELSE seen.text,
   notified |-> IF ~prev.seen \/ IsNews(a, seen, recent) THEN seen.text ELSE prev.notified,
   turns |-> IF seen.turns > prev.turns THEN seen.turns ELSE prev.turns]

\* Mutant: only the time of sending counts.
SuppressedNow(seen) == quiet

\* quietHoursSuppression: it is quiet now, or it was when the agent answered.
Suppressed(seen) == quiet \/ seen.hushed

\* Mutant: news that comes too early waits for the next news.
FlushOrLeave(q) ==
  IF q.pending = <<>> \/ q.sending # <<>> \/ q.recent THEN q
  ELSE IF quiet THEN [q EXCEPT !.pending = <<>>, !.timer = FALSE]
  ELSE [q EXCEPT !.pending = <<>>, !.timer = FALSE, !.sending = q.pending]

\* flushOrScheduleTopic and flushTopic, on the record of a queue.
FlushOrSchedule(q) ==
  IF q.pending = <<>> \/ q.sending # <<>> THEN q
  ELSE IF quiet THEN [q EXCEPT !.pending = <<>>, !.timer = FALSE]
  ELSE IF q.recent THEN [q EXCEPT !.timer = TRUE]
  ELSE [q EXCEPT !.pending = <<>>, !.timer = FALSE, !.sending = q.pending]

\* observeAgents on what a scan returned: news is queued, and every topic with
\* news is flushed or scheduled.  Nothing is awaited in between.
Observe(s, recent) ==
  LET news(t) == {a \in Agents : TopicOf[a] = t /\ IsNews(a, s[a], recent)
                                   /\ ~Suppressed(s[a])}
      items(t) == SetToSeq({[agent |-> a, text |-> s[a].text, hushed |-> s[a].hushed] :
                              a \in news(t)})
  IN
  /\ s \in scans
  /\ scans' = scans \ {s}
  /\ states' = [a \in Agents |-> Remember(a, s[a], recent)]
  /\ queue' = [t \in Topics |->
                 IF news(t) = {} THEN queue[t]
                 ELSE FlushOrSchedule([queue[t] EXCEPT !.pending = @ \o items(t)])]
  /\ reordered' = (reordered \/ \E a \in Agents : s[a].text < states[a].last)
  /\ UNCHANGED <<agents, quiet, sent>>

-----------------------------------------------------------------------------
(* Queues.                                                                 *)

\* The timer of a queue.
TimerFires(t) ==
  /\ queue[t].timer
  /\ queue' = [queue EXCEPT ![t] = FlushOrSchedule([@ EXCEPT !.timer = FALSE])]
  /\ UNCHANGED <<agents, quiet, scans, states, sent, reordered>>

\* The minimum interval since the last message is over.
IntervalPasses(t) ==
  /\ queue[t].recent
  /\ queue' = [queue EXCEPT ![t].recent = FALSE]
  /\ UNCHANGED <<agents, quiet, scans, states, sent, reordered>>

\* The request is answered, or fails, which is the end of its batch either way;
\* what has come in since is flushed or scheduled.
SendEnds(t) ==
  /\ queue[t].sending # <<>>
  /\ queue' = [queue EXCEPT ![t] = FlushOrSchedule([@ EXCEPT !.sending = <<>>, !.recent = TRUE])]
  /\ sent' = [a \in Agents |-> [x \in Texts |-> sent[a][x] +
                Cardinality({i \in DOMAIN queue[t].sending :
                               /\ queue[t].sending[i].agent = a
                               /\ queue[t].sending[i].text = x})]]
  /\ UNCHANGED <<agents, quiet, scans, states, reordered>>

Next ==
  \/ \E a \in Agents : AgentRuns(a) \/ AgentSpeaks(a) \/ AgentEnds(a)
  \/ QuietHours
  \/ ScanStarts
  \/ \E s \in scans, recent \in BOOLEAN : Observe(s, recent)
  \/ \E t \in Topics : TimerFires(t) \/ IntervalPasses(t) \/ SendEnds(t)

Spec == Init /\ [][Next]_vars

-----------------------------------------------------------------------------
(* Properties.                                                             *)

Items == [agent : Agents, text : Texts, hushed : BOOLEAN]

TypeOK ==
  /\ agents \in [Agents -> [running : BOOLEAN, text : Texts, hushed : BOOLEAN,
                            turns : Nat]]
  /\ quiet \in BOOLEAN /\ reordered \in BOOLEAN
  /\ states \in [Agents -> [seen : BOOLEAN, running : BOOLEAN, last : Texts,
                            notified : Texts, turns : Nat]]
  /\ queue \in [Topics -> [pending : Seq(Items), timer : BOOLEAN,
                           sending : Seq(Items), recent : BOOLEAN]]
  /\ sent \in [Agents -> [Texts -> Nat]]

Waiting(t) == ToSet(queue[t].pending) \union ToSet(queue[t].sending)

\* No answer is announced twice, however scans, the timer and the end of a
\* request are interleaved.  The exception: scans of two observers may return in
\* the other order, and an older answer that differs from the last one announced
\* is taken for news.
EachAnswerOnce ==
  \A a \in Agents, x \in Texts :
    sent[a][x] + Cardinality({t \in Topics : \E i \in Waiting(t) : i.agent = a /\ i.text = x})
      > 1 => reordered

\* Nothing is stranded in a queue: as long as something waits, a timer is set or
\* a request is under way whose end will look at the queue again.
WaitingIsScheduled ==
  \A t \in Topics : queue[t].pending # <<>> => queue[t].timer \/ queue[t].sending # <<>>

\* An answer that was given in quiet hours is not announced when they are over.
QuietAnswersStayQuiet ==
  \A t \in Topics : \A i \in ToSet(queue[t].sending) : ~i.hushed
=============================================================================
