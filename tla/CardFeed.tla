------------------------------ MODULE CardFeed ------------------------------
(***************************************************************************)
(* The cards of the command center (public/command-center.js): one for     *)
(* each window of each machine.  Connectors scan their windows and push    *)
(* what they saw to the controller, which keeps the last of it; the page   *)
(* reads that, machine by machine, when it is shown, when the user asks,   *)
(* and after something it did itself.  Cards of a machine that is away are *)
(* held for the length of a grace.                                         *)
(***************************************************************************)
EXTENDS Naturals, FiniteSets

CONSTANTS
  Machines,
  Windows,   \* ids of windows; two machines may use the same
  MaxEvents, \* bound: failures, drops, requests of the user, pauses of the page
  MaxTasks   \* bound: windows deleted or started from the page

VARIABLES
  world, \* the windows there are, the machines online; the events and tasks so far
  conn,  \* of each machine: its scan, and what the controller keeps of the last one
  feed,  \* the page: its cards, and the refresh under way
  task,  \* a window being deleted or started from the page
  seen   \* what the controller has kept of each machine since a refresh was last called for

vars == <<world, conn, feed, task, seen>>

CardFeedAssumption == MaxEvents \in Nat /\ MaxTasks \in Nat

Inventories == [is : {"none", "fresh", "stale", "failed"}, of : SUBSET Windows]
Nothing == [is |-> "none", of |-> {}]
NoScan == [at |-> "no", saw |-> {}]
NoGrace == [until |-> "none", machines |-> {}]
NoRead == [at |-> "no", got |-> Nothing]
\* A refresh: "current" while the generation of the page is the one it began in.
NoLoad == [at |-> "idle", current |-> FALSE, reads |-> [m \in Machines |-> NoRead]]
NoTask == [at |-> "no", does |-> "nothing", on |-> {}]

NewPage == [active |-> FALSE, cards |-> {}, machines |-> {}, loads |-> [m \in Machines |-> "unread"],
            failed |-> FALSE, grace |-> NoGrace, load |-> NoLoad, trailing |-> FALSE, timer |-> FALSE,
            revision |-> 0]

Init ==
  /\ \E w \in [Machines -> SUBSET Windows] :
       world = [windows |-> w, online |-> Machines, revision |-> 1, events |-> 0, tasks |-> 0]
  /\ conn = [m \in Machines |-> [scan |-> NoScan, inventory |-> Nothing]]
  /\ feed = NewPage /\ task = NoTask
  /\ seen = [m \in Machines |-> {}]

CardsOf(p, m) == {c \in p.cards : c[1] = m}
CardsFrom(m, w) == {m} \X w

-----------------------------------------------------------------------------
(* The refresh loop (view-work.mjs), which is given no interval.           *)

Begins(p) == [p EXCEPT !.load = [NoLoad EXCEPT !.at = "runtime", !.current = TRUE]]

\* Mutant: whoever comes while a refresh is under way is content with it.
JoinsAny(p, after) == p

\* A run while a refresh is under way joins it, and makes it run again if it must be
\* "after" this call, or if the one under way was begun before a stop.
Joins(p, after) == [p EXCEPT !.trailing = @ \/ after \/ ~p.load.current]

LoadAgents(p, after) ==
  IF ~p.active THEN p ELSE IF p.load.at # "idle" THEN Joins(p, after) ELSE Begins(p)

EndLoad(p) ==
  LET q == [p EXCEPT !.load = NoLoad] IN
  IF p.active /\ p.trailing THEN Begins([q EXCEPT !.trailing = FALSE]) ELSE q

\* The caller of a refresh wants what there is from now on, unless it joins one that
\* has not been stopped and did not ask for "after".
Wanted(p, after) ==
  seen' = IF p.active /\ (after \/ p.load.at = "idle" \/ ~p.load.current)
          THEN [m \in Machines |-> {conn'[m].inventory}]
          ELSE seen
Unwanted ==
  seen' = [m \in Machines |-> IF ~feed.active THEN {} ELSE IF feed.load.at = "idle" THEN seen[m]
                              ELSE seen[m] \union {conn'[m].inventory}]

-----------------------------------------------------------------------------
(* command-center-grace.mjs: one deadline for all the machines held.       *)

ClearGrace(p, ms) ==
  LET left == p.grace.machines \ ms IN
  [p EXCEPT !.grace = IF left = {} THEN NoGrace ELSE [@ EXCEPT !.machines = left]]

\* holdCommandCenterSnapshot holds if there is anything to hold and the deadline has not passed.
Holds(p, ms) == (p.machines # {} \/ p.cards # {}) /\ p.grace.until # "past"

Held(p, ms) ==
  LET all == p.grace.machines \union ms IN
  [p EXCEPT !.grace = [until |-> IF @.until = "none" THEN "set" ELSE @.until, machines |-> all],
            !.loads = [m \in Machines |-> IF m \in all THEN "reconnecting" ELSE @[m]],
            !.failed = FALSE]
\* One that does not hold, for the deadline has passed, forgets every machine held.
Dropped(p) == [p EXCEPT !.grace = IF @.until = "past" THEN NoGrace ELSE @]

GracePasses ==
  /\ feed.grace.until = "set" /\ feed' = [feed EXCEPT !.grace.until = "past"]
  /\ UNCHANGED <<world, conn, task, seen>>

-----------------------------------------------------------------------------
(* One refresh.                                                            *)

Page(p) == feed' = p /\ UNCHANGED <<world, conn, task>> /\ Unwanted
Counted == world.events < MaxEvents /\ world' = [world EXCEPT !.events = @ + 1]

\* A read that was cancelled ends the refresh, silently.
Cancelled ==
  /\ feed.load.at \in {"runtime", "machines"} /\ ~feed.load.current
  /\ Page(EndLoad(feed))

\* checkServerRevision: after an update of the controller the page reloads itself.
RuntimeRead ==
  /\ feed.load.at = "runtime" /\ feed.load.current
  /\ IF feed.revision \in {0, world.revision}
     THEN Page([feed EXCEPT !.revision = world.revision, !.load.at = "machines"])
     ELSE feed' = NewPage /\ task' = [task EXCEPT !.at = IF @ = "done" THEN "no" ELSE @]
          /\ UNCHANGED <<world, conn>> /\ Unwanted

\* loadAgentsByMachine, up to its reads: the machines no longer online are held.
LoadAgentsByMachine(p, online) ==
  LET all == p.machines \union {c[1] : c \in p.cards}
      missing == p.machines \ online
      held == missing # {} /\ Holds(p, missing)
      q == ClearGrace(IF held THEN Held(p, missing)
                      ELSE IF missing # {} THEN Dropped(p) ELSE p, online)
      kept == online \union (IF held THEN missing ELSE {})
  IN IF online = {} /\ Holds(p, all) THEN EndLoad(Held(p, all))
     ELSE LET r == [q EXCEPT
                !.machines = kept, !.failed = FALSE,
                !.cards = {c \in @ : c[1] \in kept},
                !.loads = [m \in Machines |-> IF m \in q.grace.machines THEN "reconnecting"
                                              ELSE IF m \in online THEN "loading" ELSE "unread"],
                !.load = [@ EXCEPT !.at = "cards",
                          !.reads = [m \in Machines |-> [NoRead EXCEPT !.at = IF m \in online THEN "asked" ELSE "no"]]]]
          IN IF online = {} THEN EndLoad(r) ELSE r

MachinesRead ==
  /\ feed.load.at = "machines" /\ feed.load.current
  /\ Page(LoadAgentsByMachine(feed, world.online))

\* loadAgentsOnce: a refresh that fails holds what there is.
Failed(p) ==
  LET all == p.machines \union {c[1] : c \in p.cards} IN
  EndLoad(IF Holds(p, all) THEN Held(p, all) ELSE [Dropped(p) EXCEPT !.failed = TRUE])

LoadFails ==
  /\ feed.load.at \in {"runtime", "machines"} /\ feed.load.current
  /\ Counted /\ feed' = Failed(feed) /\ UNCHANGED <<conn, task>> /\ Unwanted

\* GET /api/command-center of one machine: what the controller keeps of it.  Only a
\* fresh inventory names windows.
CommandCenterInventory(m) ==
  LET inv == conn[m].inventory IN
  IF m \notin world.online THEN [is |-> "offline", of |-> {}]
  ELSE [inv EXCEPT !.of = IF inv.is = "fresh" THEN @ ELSE {}]

ServesMachine(m) ==
  /\ feed.load.reads[m].at = "asked" /\ feed.load.current
  /\ Page([feed EXCEPT !.load.reads[m] = [at |-> "served", got |-> CommandCenterInventory(m)]])

\* Mutant: cards are replaced by whatever an inventory has.
PreservesNothing(p, m, got) == FALSE

\* An inventory that is not fresh takes no card away.
Preserves(p, m, got) == got.is \in {"none", "stale", "failed"} /\ CardsOf(p, m) # {}

LoadStatus(got) ==
  CASE got.is = "none" -> "loading" [] got.is = "failed" -> "error"
    [] got.is = "stale" -> "reconnecting" [] OTHER -> "loaded"

\* Mutant: the cards of the other machines go too.
LoadMachineAgentsAlone(p, m, got) ==
  LET known == [p EXCEPT !.machines = @ \union {m}] IN
  IF got.is = "offline"
  THEN IF Holds(p, {m}) THEN [Held(p, {m}) EXCEPT !.loads[m] = "reconnecting"]
       ELSE [Dropped(p) EXCEPT !.cards = {}, !.loads[m] = "error"]
  ELSE [ClearGrace(known, {m}) EXCEPT
          !.cards = IF Preserves(p, m, got) THEN @ ELSE CardsFrom(m, got.of),
          !.loads[m] = LoadStatus(got)]

\* loadMachineAgents, once its read is answered.
LoadMachineAgents(p, m, got) ==
  LET without == {c \in p.cards : c[1] # m}
      known == [p EXCEPT !.machines = @ \union {m}]
  IN IF got.is = "offline"
     THEN IF Holds(p, {m}) THEN [Held(p, {m}) EXCEPT !.loads[m] = "reconnecting"]
          ELSE [Dropped(p) EXCEPT !.cards = without, !.loads[m] = "error"]
     ELSE [ClearGrace(known, {m}) EXCEPT
             !.cards = IF Preserves(p, m, got) THEN @ ELSE without \union CardsFrom(m, got.of),
             !.loads[m] = LoadStatus(got)]

\* The refresh ends with the last of its machines.
Answered(p, m) ==
  LET q == [p EXCEPT !.load.reads[m] = NoRead] IN
  IF \E k \in Machines : q.load.reads[k].at # "no" THEN q ELSE EndLoad(q)

MachineRead(m) ==
  LET r == feed.load.reads[m] IN
  \/ feed.load.current /\ r.at = "served" /\ Page(Answered(LoadMachineAgents(feed, m, r.got), m))
  \/ ~feed.load.current /\ r.at # "no" /\ Page(Answered(feed, m))

MachineReadFails(m) ==
  /\ feed.load.reads[m].at # "no" /\ feed.load.current
  /\ Counted /\ UNCHANGED <<conn, task>> /\ Unwanted
  /\ feed' = Answered(LoadMachineAgents(feed, m, [is |-> "offline", of |-> {}]), m)

-----------------------------------------------------------------------------
(* What the user does.                                                     *)

ActivateView ==
  /\ ~feed.active
  /\ UNCHANGED <<world, conn, task>>
  /\ feed' = LoadAgents([feed EXCEPT !.active = TRUE], FALSE)
  /\ Wanted([feed EXCEPT !.active = TRUE], FALSE)

DeactivateView ==
  /\ feed.active /\ Counted
  /\ feed' = [feed EXCEPT !.active = FALSE, !.load.current = FALSE, !.trailing = FALSE, !.timer = FALSE]
  /\ UNCHANGED <<conn, task>> /\ Unwanted

\* The refresh button, and the key u.
Refresh ==
  /\ feed.active /\ Counted
  /\ UNCHANGED <<conn, task>>
  /\ feed' = LoadAgents(feed, FALSE) /\ Wanted(feed, FALSE)

\* confirmDeleteWindow, of a card that was shown; submitStartAgent.
DeleteWindow ==
  /\ feed.active /\ task.at = "no" /\ world.tasks < MaxTasks
  /\ \E c \in feed.cards : task' = [at |-> "asked", does |-> "delete", on |-> {c}]
  /\ world' = [world EXCEPT !.tasks = @ + 1]
  /\ UNCHANGED <<conn, feed, seen>>

StartAgent ==
  /\ feed.active /\ task.at = "no" /\ world.tasks < MaxTasks
  /\ \E m \in feed.machines : task' = [at |-> "asked", does |-> "start", on |-> {m} \X Windows]
  /\ world' = [world EXCEPT !.tasks = @ + 1]
  /\ UNCHANGED <<conn, feed, seen>>

\* The machine does it; it refuses what is no longer there.
TaskDone ==
  /\ task.at = "asked"
  /\ \E c \in task.on :
       LET there == c[1] \in world.online /\ (c[2] \in world.windows[c[1]] <=> task.does = "delete") IN
       /\ task' = [task EXCEPT !.at = IF there THEN "done" ELSE "refused"]
       /\ world' = IF ~there THEN world
                   ELSE [world EXCEPT !.windows[c[1]] = IF task.does = "delete" THEN @ \ {c[2]} ELSE @ \union {c[2]}]
  /\ UNCHANGED <<conn, feed, seen>>

\* A little later the cards are read again (a view that has been left forgets to).
TaskAnswered ==
  /\ task.at \in {"done", "refused"} /\ task' = NoTask
  /\ feed' = [feed EXCEPT !.timer = @ \/ (feed.active /\ task.at = "done")]
  /\ UNCHANGED <<world, conn, seen>>

TimerFires ==
  /\ feed.timer
  /\ UNCHANGED <<world, conn, task>>
  /\ feed' = LoadAgents([feed EXCEPT !.timer = FALSE], TRUE) /\ Wanted(feed, TRUE)

-----------------------------------------------------------------------------
(* The connectors (lib/agent.mjs) and the controller (lib/hub.mjs).        *)

Learns(c) == conn' = c /\ Unwanted /\ UNCHANGED <<feed, task>>

\* startInventoryPublisher: a scan every few seconds, one at a time.
ScanBegins(m) ==
  /\ m \in world.online /\ conn[m].scan.at = "no"
  /\ conn[m].inventory # [is |-> "fresh", of |-> world.windows[m]]
  /\ Learns([conn EXCEPT ![m].scan = [at |-> "running", saw |-> world.windows[m]]])
  /\ UNCHANGED world

\* sendInventory, updateInventory.
ScanEnds(m) ==
  /\ conn[m].scan.at = "running" /\ UNCHANGED world
  /\ Learns([conn EXCEPT ![m] = [scan |-> NoScan, inventory |-> [is |-> "fresh", of |-> conn[m].scan.saw]]])

\* A scan that fails or takes too long is reported as such.  One that takes too long
\* goes on, and no other is begun until it is over.
ScanFails(m) ==
  /\ conn[m].scan.at = "running" /\ Counted
  /\ \E at \in {"no", "late"} :
       Learns([conn EXCEPT ![m] = [scan |-> [NoScan EXCEPT !.at = at], inventory |-> [Nothing EXCEPT !.is = "failed"]]])

LateScanEnds(m) ==
  /\ conn[m].scan.at = "late" /\ UNCHANGED world
  /\ Learns([conn EXCEPT ![m].scan = NoScan])

\* The report of a scan is dropped if the line is busy.
ReportDropped(m) ==
  /\ conn[m].scan.at = "running" /\ Counted /\ Learns([conn EXCEPT ![m].scan = NoScan])

\* describeInventory: nothing new for a while.
GoesStale(m) ==
  /\ conn[m].inventory.is = "fresh" /\ Counted /\ Learns([conn EXCEPT ![m].inventory.is = "stale"])

Drops(m) ==
  /\ m \in world.online /\ world.events < MaxEvents
  /\ world' = [world EXCEPT !.online = @ \ {m}, !.events = @ + 1]
  /\ Learns([conn EXCEPT ![m] = [scan |-> NoScan, inventory |-> Nothing]])

Returns(m) ==
  /\ m \notin world.online /\ UNCHANGED <<conn, feed, task, seen>>
  /\ world' = [world EXCEPT !.online = @ \union {m}]

\* A new version of the controller is deployed: connectors dial in again.
Deployed ==
  /\ world.events < MaxEvents /\ world.revision = 1
  /\ world' = [world EXCEPT !.revision = 2, !.events = @ + 1]
  /\ Learns([m \in Machines |-> [scan |-> NoScan, inventory |-> Nothing]])

-----------------------------------------------------------------------------
Reading ==
  Cancelled \/ RuntimeRead \/ MachinesRead \/ TimerFires
  \/ \E m \in Machines : ServesMachine(m) \/ MachineRead(m)
Working == TaskDone \/ TaskAnswered
Scanning == \E m \in Machines : ScanBegins(m) \/ ScanEnds(m) \/ LateScanEnds(m)
Asking == ActivateView \/ DeactivateView \/ Refresh \/ DeleteWindow \/ StartAgent
Failing ==
  \/ LoadFails \/ GracePasses \/ Deployed
  \/ \E m \in Machines : MachineReadFails(m) \/ ScanFails(m) \/ ReportDropped(m) \/ GoesStale(m)
                         \/ Drops(m) \/ Returns(m)

Next == Reading \/ Working \/ Scanning \/ Asking \/ Failing
Spec == Init /\ [][Next]_vars
\* Reads are answered, timers fire, connectors scan.
Fairness == WF_vars(Reading) /\ WF_vars(Working) /\ WF_vars(Scanning)

-----------------------------------------------------------------------------
TypeOK ==
  /\ world.windows \in [Machines -> SUBSET Windows] /\ world.online \subseteq Machines
  /\ \A m \in Machines : conn[m].inventory \in Inventories /\ conn[m].scan.saw \subseteq Windows
  /\ feed.cards \subseteq Machines \X Windows /\ feed.machines \subseteq Machines
  /\ feed.grace.until \in {"none", "set", "past"} /\ feed.grace.machines \subseteq Machines
  /\ feed.loads \in [Machines -> {"unread", "loading", "loaded", "reconnecting", "error"}]
  /\ seen \in [Machines -> SUBSET Inventories]

\* Once a refresh is over, the cards of a machine that was read are those the controller
\* kept for it at some moment since the refresh was called for: never what it kept
\* before something the page did and asked to be shown "after".
CardsAreFresh ==
  feed.active /\ feed.load.at = "idle" /\ ~feed.failed =>
    \A m \in feed.machines : feed.loads[m] = "loaded" =>
      \E inv \in seen[m] : inv.is = "fresh" /\ CardsOf(feed, m) = CardsFrom(m, inv.of)

\* Every card is of a machine that is listed, and a grace is on exactly while a machine is held.
CardsHaveMachines ==
  /\ \A c \in feed.cards : c[1] \in feed.machines
  /\ feed.grace.until = "none" <=> feed.grace.machines = {}

FeedIsSound == CardsAreFresh /\ CardsHaveMachines

\* A card is only taken away by a fresh inventory that does not have it, when the grace
\* is past, or with the page: never by a scan that failed, a machine that has just come
\* back, or one whose drop is shorter than the grace.
CardsAreHeld ==
  [][\A c \in feed.cards \ feed'.cards :
       \/ feed' = NewPage \/ feed.grace.until = "past"
       \/ LET got == feed.load.reads[c[1]].got IN got.is = "fresh" /\ c[2] \notin got.of]_vars

\* docs/PRODUCT_CONTEXT.md has the feed polled every few seconds while it is visible;
\* the refresh loop of the command center is given no interval.
FeedIsPolled == []<>(~feed.active \/ feed.load.at # "idle")
=============================================================================
