------------------------------ MODULE StartAgent ------------------------------
(***************************************************************************)
(* The sheet of the command center that starts an agent                    *)
(* (public/command-center.js): a machine, a directory of it, and Start.    *)
(* The list of machines is refreshed under the open sheet, directories are *)
(* read again with each choice, and the sheet may be closed and opened     *)
(* again before its answers are there.                                     *)
(*                                                                         *)
(* A path is the machine it was chosen on.                                 *)
(***************************************************************************)
EXTENDS FiniteSets, Naturals

CONSTANTS
  Machines, NoMachine,
  MaxLoads,  \* bound: directories read
  MaxStarts, \* bound: starts under way at one time
  MaxEvents  \* bound: machines that come or go, reads and starts that fail

VARIABLES
  listed,  \* the machines of the page
  sheet,   \* the sheet; its machine is the value of the select, which a closed sheet keeps
  loads,   \* directories being read
  starts,  \* agents being started
  crossed, \* history: machine and path of the sheet were not chosen together
  left,    \* history: the sheet was closed while an agent was being started
  events

vars == <<listed, sheet, loads, starts, crossed, left, events>>

StartAgentAssumption == {MaxLoads, MaxStarts, MaxEvents} \subseteq Nat /\ NoMachine \notin Machines

Choices == Machines \union {NoMachine}

Init ==
  /\ listed \in SUBSET Machines
  /\ sheet = [open |-> FALSE, machine |-> NoMachine, cwd |-> NoMachine, dirs |-> NoMachine,
              loading |-> FALSE, starting |-> FALSE, generation |-> 0]
  /\ loads = {} /\ starts = {} /\ crossed = FALSE /\ left = FALSE /\ events = 0

Rare == events < MaxEvents /\ events' = events + 1

-----------------------------------------------------------------------------
\* selectedStartAgentMachine: the one selected; if it is no longer listed, that of the
\* selected card or of the filter; if there is none, the first.
Selected(m, among) == IF m \in among THEN {m} ELSE IF among = {} THEN {NoMachine} ELSE among

\* loadStartAgentDirectories, up to its request: of the path p.cwd on the machine p.machine.
LoadDirectories(p) ==
  IF p.machine = NoMachine \/ p.cwd = NoMachine
  THEN sheet' = p /\ UNCHANGED loads
  ELSE /\ p.generation < MaxLoads
       /\ sheet' = [p EXCEPT !.generation = @ + 1, !.loading = TRUE, !.dirs = NoMachine]
       /\ loads' = loads \union {[generation |-> p.generation + 1, of |-> p.machine]}

\* openStartAgent, for the machine of the selected card or of the filter.  The select
\* still has the value of the last time.
Open ==
  /\ ~sheet.open
  /\ \E c \in listed \union {NoMachine} :
     \E m \in Selected(IF sheet.machine = NoMachine THEN c ELSE sheet.machine, listed) :
       /\ LoadDirectories([sheet EXCEPT !.open = TRUE, !.machine = m, !.cwd = c, !.dirs = NoMachine,
                                        !.loading = FALSE, !.starting = FALSE])
       /\ crossed' = (\/ c \notin {m, NoMachine}
                      \/ c = NoMachine /\ \E l \in loads : l.generation = sheet.generation /\ l.of # m)
  /\ UNCHANGED <<listed, starts, left, events>>

\* closeStartAgent.
Closed(p) == [p EXCEPT !.open = FALSE, !.starting = FALSE, !.loading = FALSE]
Close ==
  /\ sheet.open /\ sheet' = Closed(sheet)
  /\ left' = (left \/ starts # {})
  /\ UNCHANGED <<listed, loads, starts, crossed, events>>

Enabled == sheet.open /\ ~sheet.starting /\ sheet.machine # NoMachine

\* handleStartAgentMachineChange.
MachineChange ==
  /\ Enabled
  /\ \E m \in listed : LoadDirectories([sheet EXCEPT !.machine = m, !.cwd = m])
  /\ crossed' = FALSE
  /\ UNCHANGED <<listed, starts, left, events>>

\* A path is typed, for the machine that is shown; the directories shown, or the answer
\* that is awaited, may still be of the other one.
TypePath ==
  /\ Enabled /\ sheet' = [sheet EXCEPT !.cwd = sheet.machine]
  /\ crossed' = (crossed /\ \/ sheet.dirs \notin {sheet.machine, NoMachine}
                            \/ \E l \in loads : l.generation = sheet.generation)
  /\ UNCHANGED <<listed, loads, starts, left, events>>

\* Load, or Enter in the path.
Load ==
  /\ Enabled /\ LoadDirectories(sheet)
  /\ UNCHANGED <<listed, starts, crossed, left, events>>

\* One of the directories shown.
PickDirectory ==
  /\ sheet.open /\ sheet.dirs # NoMachine
  /\ LoadDirectories([sheet EXCEPT !.cwd = sheet.dirs])
  /\ UNCHANGED <<listed, starts, crossed, left, events>>

Read(l) == /\ loads' = loads \ {l}
           /\ UNCHANGED <<listed, starts, crossed, left>>

\* Mutant: the answer is not asked what it answers.
DirectoriesReadUnchecked(l) ==
  /\ Read(l) /\ UNCHANGED events
  /\ sheet' = [sheet EXCEPT !.cwd = l.of, !.dirs = l.of, !.loading = FALSE]

\* The answer is of the machine that was asked, and says what its path is there.
DirectoriesRead(l) ==
  /\ Read(l) /\ UNCHANGED events
  /\ sheet' = IF l.generation # sheet.generation THEN sheet
              ELSE [sheet EXCEPT !.cwd = l.of, !.dirs = l.of, !.loading = FALSE]

DirectoriesFail(l) ==
  /\ Read(l) /\ Rare
  /\ sheet' = IF l.generation # sheet.generation THEN sheet
              ELSE [sheet EXCEPT !.dirs = NoMachine, !.loading = FALSE]

\* renderFilterRow, whenever the machines were read: under an open sheet the select is
\* filled again.
Listing ==
  /\ Rare
  /\ \E m \in Machines : listed' = IF m \in listed THEN listed \ {m} ELSE listed \union {m}
  /\ \E m \in Selected(sheet.machine, listed') :
       IF sheet.open
       THEN /\ sheet' = [sheet EXCEPT !.machine = m]
            /\ crossed' = (crossed \/ m # sheet.machine)
       ELSE UNCHANGED <<sheet, crossed>>
  /\ UNCHANGED <<loads, starts, left>>

\* submitStartAgent.
Submit ==
  /\ Enabled /\ ~sheet.loading /\ sheet.cwd # NoMachine
  /\ Cardinality(starts) < MaxStarts
  /\ sheet' = [sheet EXCEPT !.starting = TRUE]
  /\ \E n \in 1..MaxStarts :
       /\ \A s \in starts : s.n # n
       /\ starts' = starts \union {[n |-> n, machine |-> sheet.machine, cwd |-> sheet.cwd, apart |-> crossed]}
  /\ UNCHANGED <<listed, loads, crossed, left, events>>

Answered(s) == starts' = starts \ {s} /\ left' = (left /\ starts # {s})

\* The sheet is closed, whichever it is now.
Started(s) ==
  /\ Answered(s) /\ sheet' = Closed(sheet)
  /\ UNCHANGED <<listed, loads, crossed, events>>

StartFails(s) ==
  /\ Answered(s) /\ sheet' = [sheet EXCEPT !.starting = FALSE]
  /\ Rare /\ UNCHANGED <<listed, loads, crossed>>

Next ==
  \/ Open \/ Close \/ MachineChange \/ TypePath \/ Load \/ PickDirectory \/ Listing \/ Submit
  \/ \E l \in loads : DirectoriesRead(l) \/ DirectoriesFail(l)
  \/ \E s \in starts : Started(s) \/ StartFails(s)

Spec == Init /\ [][Next]_vars

-----------------------------------------------------------------------------
TypeOK ==
  /\ listed \subseteq Machines
  /\ sheet \in [open : BOOLEAN, machine : Choices, cwd : Choices, dirs : Choices,
                loading : BOOLEAN, starting : BOOLEAN, generation : 0..MaxLoads]
  /\ loads \subseteq [generation : 1..MaxLoads, of : Machines]
  /\ starts \subseteq [n : 1..MaxStarts, machine : Machines, cwd : Machines, apart : BOOLEAN]
  /\ crossed \in BOOLEAN /\ left \in BOOLEAN /\ events \in 0..MaxEvents

\* The path and the directories in the sheet are those of the machine it shows, and an
\* agent is started with both, whatever was chosen, read or refreshed meanwhile.  Three
\* ways the code has to bring them apart are excepted: the selected machine leaves the
\* list and another takes its place; the sheet is opened for one card while the select
\* still has the machine of another; and a sheet opened for no card is filled by the
\* answer the one before it still waited for.
PathIsOfTheMachine ==
  /\ sheet.open /\ sheet.machine # NoMachine /\ ~crossed =>
       /\ sheet.cwd \in {sheet.machine, NoMachine}
       /\ sheet.dirs \in {sheet.machine, NoMachine}
  /\ \A s \in starts : s.apart \/ s.cwd = s.machine

\* One agent is started with one press, and the button waits for an answer that will
\* come.  Excepted: the sheet that is closed while its agent is being started, which
\* lets a second one be started, and which the first one's answer then closes.
OneStartAtATime ==
  /\ ~left => (sheet.starting <=> starts # {}) /\ Cardinality(starts) <= 1
  /\ sheet.loading => \E l \in loads : l.generation = sheet.generation

StartIsSound == PathIsOfTheMachine /\ OneStartAtATime
=============================================================================
