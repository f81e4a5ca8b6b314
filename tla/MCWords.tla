------------------------------ MODULE MCWords ------------------------------
(* What a person types, says and answers: the dialog of the command center, *)
(* the composer of a pane, the two terminal clients, and the input of a     *)
(* pane at the other end.  The parts share no state that is modelled, so a  *)
(* behaviour is one of the part it begins with, and the other parts stay as *)
(* they are.                                                                *)
(*                                                                          *)
(* The pane is checked twice: messages that are typed and dictated, and a   *)
(* question that is answered.                                               *)
EXTENDS Naturals, TLC

CONSTANTS
  Agents, Recorders, NoAgent, NoRecorder,
  Panes, NoPane, Targets, Machines, NoMachine, Windows, NoWindow, Cards, NoCard,
  MaxOpens  \* bound: dialogs opened

VARIABLES
  part,
  agent, dialogBox, drafts, sending, uploading, dialogVoice, dialogMics, strayed, twice, hasty, opens,
  composed, box, sends, voice, mics, kept, aim, loose, settled, overlapped, written,
  online, app, doing, shown, astray, sent,
  listed, selected, machineFilter, search, starred, mode, drawn, input, aimed, slipped, missent,
  pane, flights, nudges, cache, attempts, sheet, disturbed, doubled, crossed, paged

Dialog == INSTANCE Interact WITH
  Typed <- "typed", Said <- "said", Path <- "path",
  box <- dialogBox, voice <- dialogVoice, mics <- dialogMics, astray <- strayed, doubled <- twice
Composing == INSTANCE Composer WITH
  Panes <- Targets, MaxRecordings <- 2, MaxSends <- 1, pane <- composed, doubled <- overlapped
Client == INSTANCE TerminalApp
MCMachineOf == [c \in Cards |-> IF c = 3 THEN 2 ELSE 1]
Tui == INSTANCE TerminalTui WITH
  Machines <- {1, 2}, NoMachine <- 0, MachineOf <- MCMachineOf,
  Matches <- {Cards, {2}}, all <- listed
Messages == INSTANCE PaneInput WITH
  Texts <- {"text"}, Voices <- {"voice"}, Free <- "free",
  Options <- 1, MaxQuestions <- 1, MaxAttempts <- 2, MaxTouches <- 1
Answers == INSTANCE PaneInput WITH
  Texts <- {}, Voices <- {}, Free <- "free",
  Options <- 2, MaxQuestions <- 2, MaxAttempts <- 2, MaxTouches <- 1

ASSUME Dialog!InteractAssumption /\ Composing!ComposerAssumption
ASSUME Client!TerminalAppAssumption /\ Tui!TerminalTuiAssumption
ASSUME Messages!PaneInputAssumption /\ Answers!PaneInputAssumption

dialog == <<agent, dialogBox, drafts, sending, uploading, dialogVoice, dialogMics, strayed, twice,
            hasty, opens>>
composer == <<composed, box, sends, voice, mics, kept, aim, loose, settled, overlapped, written>>
client == <<online, app, doing, shown, astray, sent>>
tui == <<listed, selected, machineFilter, search, starred, mode, drawn, input, aimed, slipped,
         missent>>
entry == <<pane, flights, nudges, cache, attempts, sheet, disturbed, doubled, crossed, paged>>
all == <<part, dialog, composer, client, tui, entry>>

Parts == {"dialog", "composer", "client", "tui", "messages", "answers"}

(* A part that a behaviour is not of begins in one way.                     *)
MCInit ==
  /\ part \in Parts /\ opens = 0
  /\ Dialog!Init /\ Composing!Init /\ Client!Init /\ Tui!Init
  /\ IF part = "messages" THEN Messages!Init ELSE Answers!Init
  /\ part # "client" => online = Machines
  /\ part # "tui" => starred = {}

(* Once the accidents of a part have happened nothing of what it has said is *)
(* promised any more.                                                       *)
ComposerSteps == ~overlapped /\ Composing!Next
DialogSteps ==
  /\ ~(twice /\ hasty) /\ Dialog!Next
  /\ opens' = (IF agent = NoAgent /\ agent' # NoAgent THEN opens + 1 ELSE opens)
  /\ opens' <= MaxOpens

MCNext ==
  /\ UNCHANGED part
  /\ \/ part = "dialog" /\ DialogSteps /\ UNCHANGED <<composer, client, tui, entry>>
     \/ part = "composer" /\ ComposerSteps /\ UNCHANGED <<dialog, client, tui, entry>>
     \/ part = "client" /\ Client!Next /\ UNCHANGED <<dialog, composer, tui, entry>>
     \/ part = "tui" /\ Tui!Next /\ UNCHANGED <<dialog, composer, client, entry>>
     \/ /\ part = "messages" /\ (Messages!Surroundings \/ Messages!Messaging)
        /\ UNCHANGED <<dialog, composer, client, tui>>
     \/ part = "answers" /\ Answers!Next /\ UNCHANGED <<dialog, composer, client, tui>>

MCSpec == MCInit /\ [][MCNext]_all

(* Sound for invariants: no agent, recorder or pane of the composer is told *)
(* from another.                                                            *)
MCSymmetry == Permutations(Agents) \union Permutations(Recorders) \union Permutations(Targets)

-----------------------------------------------------------------------------
(* Every part has the types its module declares.                            *)
TypesOK ==
  CASE part = "dialog" -> Dialog!TypeOK
    [] part = "composer" -> Composing!TypeOK
    [] part = "client" -> Client!TypeOK
    [] part = "tui" -> Tui!TypeOK
    [] part = "messages" -> Messages!TypeOK
    [] part = "answers" -> Answers!TypeOK

(* What a person types, says or answers goes to the agent, pane or question *)
(* it was meant for, once, and is not lost on the way; the exceptions are   *)
(* named with each part.  Of the composer's: the box and the Enter of a     *)
(* recording belong to no window, so words whose transcription returns      *)
(* after another one was selected go there.                                 *)
WordsReachTheirPane ==
  /\ part = "dialog" => Dialog!InteractIsSound
  /\ part = "composer" => Composing!ComposerIsSound
  /\ part = "client" => Client!WordsGoWhereShown
  /\ part = "tui" => Tui!TypedReachesItsCard
  /\ part = "messages" => Messages!InputIsSound
  /\ part = "answers" => Answers!InputIsSound
=============================================================================
