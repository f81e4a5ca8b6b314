---------------------------- MODULE TerminalApp ----------------------------
(***************************************************************************)
(* The line-oriented terminal client (tools/terminal-app.mjs) against a    *)
(* controller with several machines: one command at a time, each of one or *)
(* several requests, between which machines come and go and windows close. *)
(*                                                                         *)
(* Window and pane ids are the multiplexer's own, so that two machines use *)
(* the same ones; the only pane of a window is named by the window.  What  *)
(* the client shows is the machine and window of the last header printed.  *)
(* The lists it has printed are not kept: any window may have been on one, *)
(* and may have been closed since.                                         *)
(***************************************************************************)
EXTENDS FiniteSets

CONSTANTS Machines, NoMachine, Windows, NoWindow

TerminalAppAssumption == NoMachine \notin Machines /\ NoWindow \notin Windows

VARIABLES
  online,   \* the machines connected to the controller
  app,      \* the client's fields
  doing,    \* the request that its command is waiting for
  shown,    \* history: the machine and window of the last header
  astray,   \* history: since then a command that was to show another one has
            \* failed, or the machine was no longer listed
  sent      \* history: the last text or key, where it went and what was shown

history == <<shown, astray, sent>>
vars == <<online, app, doing, history>>

Nowhere == <<NoMachine, NoWindow>>
Idle == [at |-> "idle"]

Init ==
  /\ online \in (SUBSET Machines) \ {{}}
  /\ app = [machines |-> {}, machine |-> NoMachine,
            window |-> NoWindow, pane |-> NoWindow]
  /\ doing = [at |-> "boot"]
  /\ shown = Nowhere /\ astray = FALSE /\ sent = [to |-> Nowhere, meant |-> Nowhere, astray |-> FALSE]

-----------------------------------------------------------------------------
(* The machines, and the controller's choice of one for a request.         *)

MachineLeaves == \E m \in online : online' = online \ {m} /\ UNCHANGED <<app, doing, history>>
MachineJoins == \E m \in Machines \ online : online' = online \union {m} /\ UNCHANGED <<app, doing, history>>

\* A request without a machine goes to the only one that is online.
Reached(m) ==
  IF m = NoMachine THEN {n \in online : online = {n}} ELSE {m} \intersect online

-----------------------------------------------------------------------------
(* Commands.                                                               *)

Ends == doing' = Idle /\ UNCHANGED online
Asks(d) == doing' = d /\ UNCHANGED <<online, app, history>>

\* The command ends with an error, with its fields as they are: one that was to
\* show a window leaves the pane of the window before.
Fails ==
  /\ doing.at # "idle"
  /\ astray' = (astray \/ doing.at \in {"view", "agent"})
  /\ Ends /\ UNCHANGED <<app, shown, sent>>

\* refreshMachines: a machine that is no longer listed is no longer selected.
Listed(a) ==
  [a EXCEPT !.machines = online,
            !.machine = IF @ \in online THEN @ ELSE NoMachine]
Dropped == app.machine # NoMachine /\ app.machine \notin online

MachinesCommand ==
  /\ doing = Idle
  /\ app' = Listed(app) /\ astray' = (astray \/ Dropped)
  /\ UNCHANGED <<online, doing, shown, sent>>

\* boot: a machine that is the only one is selected.
Boot ==
  /\ doing.at = "boot"
  /\ LET a == Listed(app) IN
     IF Cardinality(a.machines) = 1
     THEN app' = [a EXCEPT !.machine = CHOOSE m \in a.machines : TRUE] /\ doing' = [at |-> "tree"]
     ELSE app' = a /\ doing' = Idle
  /\ UNCHANGED <<online, history>>

\* Mutant: the pane of the machine before stays selected.
UseKeepingPane(m) ==
  /\ doing = Idle /\ m \in app.machines
  /\ app' = [app EXCEPT !.machine = m]
  /\ doing' = [at |-> "tree"] /\ UNCHANGED <<online, history>>

\* selectMachine.
Use(m) ==
  /\ doing = Idle /\ m \in app.machines
  /\ app' = [app EXCEPT !.machine = m, !.window = NoWindow, !.pane = NoWindow]
  /\ doing' = [at |-> "tree"] /\ UNCHANGED <<online, history>>

\* refreshTree; its answer is a list.
Tree == doing = Idle /\ app.machine # NoMachine /\ Asks([at |-> "tree"])

TreeAnswered ==
  /\ doing.at = "tree" /\ Reached(app.machine) # {}
  /\ Ends /\ UNCHANGED <<app, history>>

\* listAllWindows: the trees of the machines in turn, each selected for its own
\* request only, and at the end the tree of the selected machine again.
All == doing = Idle /\ Asks([at |-> "machines-all"])

AllMachines ==
  /\ doing.at = "machines-all"
  /\ app' = Listed(app) /\ astray' = (astray \/ Dropped)
  /\ doing' = [at |-> "all"]
  /\ UNCHANGED <<online, shown, sent>>

\* The requests for the trees, which may fail.
AllTrees(m) == app' = [app EXCEPT !.machine = m]

\* Mutant: a machine whose tree could not be read stays selected.
AllEndsLeaving ==
  /\ doing.at = "all"
  /\ \E m \in app.machines \union {app.machine} : AllTrees(m)
  /\ Ends /\ UNCHANGED history

AllEnds ==
  /\ doing.at = "all"
  /\ AllTrees(app.machine)
  /\ Ends /\ UNCHANGED history

\* openWindow, of a window listed (of which machine, the list does not say);
\* loadWindowView asks the selected machine.
Open(w) ==
  /\ doing = Idle /\ w \in Windows
  /\ app' = [app EXCEPT !.window = w]
  /\ doing' = [at |-> "view"] /\ UNCHANGED <<online, history>>

\* show, with no pane yet.
Show == doing = Idle /\ app.pane = NoWindow /\ app.window # NoWindow /\ Asks([at |-> "view"])

\* loadWindowView: the header names the selected machine; with none selected it
\* cannot be printed, and the command ends there, after the pane is set.
ViewAnswered ==
  /\ doing.at = "view"
  /\ Reached(app.machine) # {}
  /\ app' = [app EXCEPT !.pane = app.window]
  /\ IF app.machine = NoMachine THEN astray' = TRUE /\ UNCHANGED shown
     ELSE astray' = FALSE /\ shown' = <<app.machine, app.window>>
  /\ Ends /\ UNCHANGED sent

\* openAgent, of an agent listed: the machine is selected before its tree is
\* read and the window is found in it, if it is.
OpenAgent(m, w) ==
  /\ doing = Idle /\ m \in app.machines
  /\ app' = [app EXCEPT !.machine = m]
  /\ doing' = [at |-> "agent", window |-> w] /\ UNCHANGED <<online, history>>

AgentFound ==
  /\ doing.at = "agent" /\ app.machine \in online
  /\ app' = [app EXCEPT !.window = doing.window]
  /\ doing' = [at |-> "view"] /\ UNCHANGED <<online, history>>

AgentGone ==
  /\ doing.at = "agent" /\ app.machine \in online
  /\ astray' = TRUE /\ Ends /\ UNCHANGED <<app, shown, sent>>

\* send, type and key: to the pane, of the machine that is selected by now.  The
\* text read back afterwards has no header.
Send ==
  /\ doing = Idle /\ app.pane # NoWindow
  /\ \E n \in Reached(app.machine) : sent' = [to |-> <<n, app.pane>>, meant |-> shown,
                                               astray |-> astray]
  /\ UNCHANGED <<online, app, doing, shown, astray>>

Next ==
  \/ MachineLeaves \/ MachineJoins
  \/ Fails \/ Boot \/ MachinesCommand \/ Tree \/ TreeAnswered
  \/ All \/ AllMachines \/ AllEnds
  \/ \E m \in Machines : Use(m) \/ \E w \in Windows : OpenAgent(m, w)
  \/ \E w \in Windows : Open(w)
  \/ Show \/ ViewAnswered \/ AgentFound \/ AgentGone \/ Send

Spec == Init /\ [][Next]_vars

-----------------------------------------------------------------------------
(* Properties.                                                             *)

TypeOK ==
  /\ online \subseteq Machines
  /\ app \in [machines : SUBSET Machines, machine : Machines \union {NoMachine},
              window : Windows \union {NoWindow}, pane : Windows \union {NoWindow}]
  /\ doing.at \in {"idle", "boot", "tree", "machines-all", "all", "view", "agent"}
  /\ astray \in BOOLEAN

\* A text or a key goes to the pane of the window whose header was printed last,
\* on the machine the header names; unless a command has failed since that was to
\* show another window, or the machine has gone, of which the client tells.
WordsGoWhereShown == ~sent.astray => sent.to = sent.meant

=============================================================================
