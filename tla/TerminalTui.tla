---------------------------- MODULE TerminalTui ----------------------------
(***************************************************************************)
(* The dashboard of the terminal program (tools/terminal-tui/src/main.rs): *)
(* a list of agent cards that is read again every few seconds, also while  *)
(* the user types, a selection kept by position in it, filters, stars, and *)
(* the text sent to the selected card.                                     *)
(*                                                                         *)
(* The event loop handles one key, or one refresh, to its end; what is     *)
(* drawn after it follows from the state.  The help overlay, the scroll    *)
(* positions and the columns of the grid are left out, and any machine may *)
(* be in the machine picker.                                               *)
(***************************************************************************)
EXTENDS Naturals, Sequences, SequencesExt, FiniteSets

CONSTANTS
  Cards, NoCard,
  Machines, NoMachine,
  MachineOf,   \* the machine of each card
  Matches      \* for each search text, the cards that it matches

TerminalTuiAssumption ==
  /\ NoCard \notin Cards /\ NoMachine \notin Machines
  /\ MachineOf \in [Cards -> Machines] /\ Matches \subseteq SUBSET Cards

VARIABLES
  all,      \* the cards listed by the last refresh: all_agents
  selected, \* the position selected among those that pass the filters
  machineFilter, search, \* the filters
  starred,
  mode, drawn, \* what is drawn, and the card whose window or transcript it is
  input,    \* input_mode
  aimed,    \* history: the card the user was looking at when the typing began
  slipped,  \* history: that card, or the selected one, has left the list; or a
            \* search was applied over a window or a transcript
  missent   \* history: a text went to another card, and nothing had slipped

list == <<all, selected, machineFilter, search, starred>>
view == <<mode, drawn>>
history == <<aimed, slipped, missent>>
vars == <<list, view, input, history>>

Modes == {"Dashboard", "Detail", "Conversations", "Transcript", "Machines"}

Init ==
  /\ all = <<>> /\ selected = 1
  /\ machineFilter = NoMachine /\ search = Cards /\ starred \in {{}, {CHOOSE c \in Cards : TRUE}}
  /\ mode = "Dashboard" /\ drawn = NoCard
  /\ input = "none" /\ aimed = NoCard /\ slipped = FALSE /\ missent = FALSE

-----------------------------------------------------------------------------
(* The list.                                                               *)

Passes(c, m, s) == m \in {NoMachine, MachineOf[c]} /\ c \in s
Passing(cards, m, s) == SelectSeq(cards, LAMBDA c : Passes(c, m, s))
agents == Passing(all, machineFilter, search)
Selected == IF selected <= Len(agents) THEN agents[selected] ELSE NoCard

\* starred_then_recent_cmp: starred cards first, in an order of activity that
\* changes from one refresh to the next.
StarredFirst(s) == \A i, j \in DOMAIN s : s[i] \notin starred /\ s[j] \in starred => j < i
Listings(ms) ==
  {s \in UNION {SetToSeqs(cs) : cs \in SUBSET {c \in Cards : MachineOf[c] \in ms}} : StarredFirst(s)}

\* Mutant: the position is kept, whether it is still there or not.
FilterUnclamped(cards, m, s, keep) ==
  LET passing == Passing(cards, m, s) IN
  /\ all' = cards /\ machineFilter' = m /\ search' = s
  /\ selected' = IF \E i \in DOMAIN passing : passing[i] = keep
                 THEN CHOOSE i \in DOMAIN passing : passing[i] = keep
                 ELSE selected

\* apply_filters: the selection stays with the card to keep if that passes, else at
\* its position, or at the last one.
Filter(cards, m, s, keep) ==
  LET passing == Passing(cards, m, s) IN
  /\ all' = cards /\ machineFilter' = m /\ search' = s
  /\ selected' = IF \E i \in DOMAIN passing : passing[i] = keep
                 THEN CHOOSE i \in DOMAIN passing : passing[i] = keep
                 ELSE IF selected <= Len(passing) THEN selected
                 ELSE IF passing = <<>> THEN 1 ELSE Len(passing)

Kept == Selected \in Range(agents')

\* Mutant: the selection stays at its position.
ReloadInPlace ==
  \E ms \in SUBSET Machines : \E cards \in Listings(ms) :
    /\ Filter(cards, IF machineFilter \in ms THEN machineFilter ELSE NoMachine, search, NoCard)
    /\ slipped' = (slipped \/ ~Kept)

\* refresh, when its answer has come; a filter on a machine that is gone is dropped.
Reload ==
  \E ms \in SUBSET Machines : \E cards \in Listings(ms) :
    /\ Filter(cards, IF machineFilter \in ms THEN machineFilter ELSE NoMachine, search, Selected)
    /\ slipped' = (slipped \/ ~Kept)

Refresh == Reload /\ UNCHANGED <<starred, view, input, aimed, missent>>

\* The keys that move the selection: only where the cards are drawn.
Move ==
  /\ input = "none" /\ mode \in {"Dashboard", "Conversations"} /\ agents # <<>>
  /\ selected' \in 1..Len(agents)
  /\ UNCHANGED <<all, machineFilter, search, starred, view, input, history>>

\* Mutant: the list is sorted again under the selection.
ToggleStarInPlace ==
  /\ input = "none" /\ Selected # NoCard
  /\ starred' = IF Selected \in starred THEN starred \ {Selected} ELSE starred \union {Selected}
  /\ \E cards \in SetToSeqs(Range(all)) :
       /\ \A i, j \in DOMAIN cards : cards[i] \notin starred' /\ cards[j] \in starred' => j < i
       /\ Filter(cards, machineFilter, search, NoCard)
  /\ UNCHANGED <<view, input, history>>

\* toggle_star.
ToggleStar ==
  /\ input = "none" /\ Selected # NoCard
  /\ starred' = IF Selected \in starred THEN starred \ {Selected} ELSE starred \union {Selected}
  /\ \E cards \in SetToSeqs(Range(all)) :
       /\ \A i, j \in DOMAIN cards : cards[i] \notin starred' /\ cards[j] \in starred' => j < i
       /\ Filter(cards, machineFilter, search, Selected)
  /\ UNCHANGED <<view, input, history>>

-----------------------------------------------------------------------------
(* What is drawn.                                                          *)

\* open_detail, whose request may fail.
OpenDetail ==
  /\ input = "none" /\ Selected # NoCard
  /\ mode' = "Detail" /\ drawn' = Selected /\ slipped' = FALSE
  /\ UNCHANGED <<list, input, aimed, missent>>

\* open_transcript.
OpenTranscript ==
  /\ input = "none" /\ Selected # NoCard
  /\ mode' = "Transcript" /\ drawn' = Selected /\ slipped' = FALSE
  /\ UNCHANGED <<list, input, aimed, missent>>

ShowConversations ==
  /\ input = "none"
  /\ mode' = "Conversations" /\ drawn' = NoCard
  /\ UNCHANGED <<list, input, history>>

Escape ==
  /\ input = "none" /\ mode # "Dashboard"
  /\ mode' = "Dashboard" /\ drawn' = NoCard
  /\ UNCHANGED <<list, input, history>>

OpenMachinePicker ==
  /\ input = "none" /\ mode' = "Machines"
  /\ UNCHANGED <<list, drawn, input, history>>

\* apply_machine_selection.
PickMachine ==
  /\ input = "none" /\ mode = "Machines"
  /\ \E m \in Machines \union {NoMachine} : Filter(all, m, search, NoCard)
  /\ mode' = "Dashboard"
  /\ UNCHANGED <<starred, drawn, input, history>>

-----------------------------------------------------------------------------
(* The input line.                                                         *)

LookedAt == IF mode \in {"Detail", "Transcript"} THEN drawn ELSE Selected

BeginInteract ==
  /\ input = "none" /\ Selected # NoCard
  /\ input' = "interact" /\ aimed' = LookedAt
  /\ slipped' = (slipped /\ mode \in {"Detail", "Transcript"})
  /\ UNCHANGED <<list, view, missent>>

BeginSearch ==
  /\ input = "none" /\ input' = "search"
  /\ UNCHANGED <<list, view, history>>

EscapeInput ==
  /\ input # "none" /\ input' = "none" /\ aimed' = NoCard
  /\ UNCHANGED <<list, view, slipped, missent>>

\* apply_search_input: the selection stays at its position.
ApplySearch ==
  /\ input = "search" /\ input' = "none"
  /\ \E s \in Matches : Filter(all, machineFilter, s, NoCard)
  /\ slipped' = (slipped \/ mode \in {"Detail", "Transcript"})
  /\ UNCHANGED <<starred, view, aimed, missent>>

\* send_input: the text is dropped first, and goes to the card that is selected by
\* now; then the window is read again, if it is drawn, and the list.
SendInput ==
  /\ input = "interact" /\ input' = "none"
  /\ Selected # NoCard
  /\ missent' = (missent \/ (~slipped /\ Selected # aimed))
  /\ drawn' \in IF mode = "Detail" THEN {drawn, Selected} ELSE {drawn}
  /\ Reload \/ UNCHANGED <<all, selected, machineFilter, search, slipped>>
  /\ aimed' = NoCard
  /\ UNCHANGED <<starred, mode>>

\* It is empty, the card has no pane any more, or its request fails.
SendFails ==
  /\ input = "interact" /\ input' = "none" /\ aimed' = NoCard
  /\ UNCHANGED <<list, view, slipped, missent>>

Next ==
  \/ Refresh \/ Move \/ ToggleStar
  \/ OpenDetail \/ OpenTranscript \/ ShowConversations \/ Escape \/ OpenMachinePicker \/ PickMachine
  \/ BeginInteract \/ BeginSearch \/ EscapeInput \/ ApplySearch \/ SendInput \/ SendFails

Spec == Init /\ [][Next]_vars

-----------------------------------------------------------------------------
(* Properties.                                                             *)

TypeOK ==
  /\ Range(all) \subseteq Cards
  /\ selected \in 1..(Cardinality(Cards)) /\ (agents # <<>> => selected <= Len(agents))
  /\ machineFilter \in Machines \union {NoMachine} /\ search \subseteq Cards
  /\ starred \subseteq Cards /\ mode \in Modes
  /\ {drawn, aimed} \subseteq Cards \union {NoCard}
  /\ input \in {"none", "interact", "search"} /\ {slipped, missent} \subseteq BOOLEAN

\* What the user types goes to the card that was looked at when the typing began,
\* however often the list is read, sorted and filtered in between; unless that card
\* has left the list, or a search was applied over its window.
TypedReachesItsCard == ~missent
=============================================================================
