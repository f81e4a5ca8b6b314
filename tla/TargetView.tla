----------------------------- MODULE TargetView -----------------------------
(***************************************************************************)
(* The terminal view of the page (public/app.js): a machine, the list of   *)
(* its windows, the window that is selected and its screen.  Two refresh   *)
(* loops (public/view-work.mjs) read the list and the screen, each with at *)
(* most one read under way; a switch cancels the reads of the target it    *)
(* leaves, and a hidden or idle view reads nothing.  While the machine is  *)
(* away the window stays on screen, for as long as the grace lasts.        *)
(***************************************************************************)
EXTENDS Naturals, FiniteSets

CONSTANTS
  Machines,  \* a machine with one of its multiplexers
  Windows,   \* ids of windows; two machines may use the same
  NoMachine, NoWindow,
  MaxEvents  \* bound: switches, pauses, failures, and changes of the machines and windows

VARIABLES
  world, \* what is online, and its windows; the events so far
  page,  \* the state of the view, the records of its reads and timers included
  hop,   \* a switch to a window of another machine: it waits for the list
  made   \* a window that has been asked for: it waits for the answer, then for the list

vars == <<world, page, hop, made>>

TargetViewAssumption ==
  NoMachine \notin Machines /\ NoWindow \notin Windows /\ MaxEvents \in Nat

Nowhere == [machine |-> NoMachine, window |-> NoWindow]
Targets == [machine : Machines, window : Windows \union {NoWindow}]

\* A read, or a chain of them: "live" while its scope has not been invalidated,
\* "mine" while the generation of the view is the one it began in, "current" while
\* its loop has not been stopped.
Idle == [at |-> "idle", for |-> Nowhere, forced |-> FALSE, key |-> Nowhere, wasLive |-> FALSE,
         prior |-> NoMachine, live |-> FALSE, mine |-> FALSE, current |-> FALSE]
NoGrace == [until |-> "none", machine |-> NoMachine, timer |-> "none", key |-> Nowhere]
NoOptions == [for |-> Nowhere, forced |-> FALSE]
NoHop == [at |-> "no", for |-> Nowhere]

Init ==
  /\ world = [windows |-> [m \in Machines |-> Windows], online |-> Machines, events |-> 0]
  /\ \E to \in {Nowhere} \union Targets :
     page = [active |-> FALSE, paused |-> FALSE, auto |-> TRUE, forbidden |-> FALSE,
             machine |-> NoMachine, window |-> NoWindow, pane |-> Nowhere, shown |-> Nowhere,
             listed |-> NoMachine, windows |-> {}, url |-> to, pending |-> {to},
             tree |-> Idle, again |-> FALSE, asked |-> NoOptions,
             detail |-> Idle, more |-> FALSE, timer |-> FALSE,
             grace |-> NoGrace, banner |-> FALSE, strayed |-> FALSE]
  /\ hop = NoHop /\ made = NoHop

Selected(p) == [machine |-> p.machine, window |-> p.window]
\* The target of a refresh that names none: that of the page as it was loaded, until a
\* list has been shown, and then that of its address.
Default(p) == [for |-> IF p.pending = {} THEN p.url ELSE CHOOSE to \in p.pending : TRUE,
               forced |-> FALSE]

-----------------------------------------------------------------------------
(* view-work.mjs and refresh-window.mjs.                                   *)

\* createReadScope.invalidate: reads are cancelled, and timers cleared.  (The view's
\* own variable keeps the number of its timer.)
Invalidate(p) ==
  [p EXCEPT !.tree.live = FALSE, !.detail.live = FALSE,
            !.grace.timer = IF @ = "set" THEN "dead" ELSE @]

\* createRefreshLoop.stop, for each loop.
StopTree(p) == [p EXCEPT !.tree.current = FALSE, !.again = FALSE, !.asked = NoOptions]
StopDetail(p) == [p EXCEPT !.detail.current = FALSE, !.more = FALSE, !.timer = FALSE]

DetailMayRun(p) == p.active /\ ~p.forbidden /\ ~p.paused
Interval(p) == p.auto /\ p.window # NoWindow
Schedule(p) == [p EXCEPT !.timer = DetailMayRun(p) /\ Interval(p)]

\* loadPanesOnce, up to its read.
LoadPanesOnce(p) ==
  [p EXCEPT !.detail = [Idle EXCEPT !.at = IF p.window = NoWindow THEN "nothing" ELSE "view",
                                    !.for = Selected(p),
                                    !.live = TRUE, !.mine = TRUE, !.current = TRUE]]

\* Mutant: whoever comes while a read is under way is content with it.
JoinDetail(p, after) == p

\* A run while a read is under way joins it; the loop runs again if that read was begun
\* before a stop, or if it must be "after" this call.
JoinsDetail(p, after) == [p EXCEPT !.more = @ \/ after \/ ~p.detail.current]

\* loadPanes: createRefreshLoop.run.
LoadPanes(p, after) ==
  LET q == [p EXCEPT !.timer = FALSE] IN
  IF ~DetailMayRun(p) THEN p
  ELSE IF p.detail.at # "idle" THEN JoinsDetail(q, after)
  ELSE LoadPanesOnce(q)

\* The end of a run: it is run again, or scheduled, if it was not stopped.
EndDetail(p) ==
  LET q == [p EXCEPT !.detail = Idle, !.tree.at = IF @ = "panes" THEN "landed" ELSE @] IN
  IF ~DetailMayRun(p) THEN q
  ELSE IF p.more THEN LoadPanes([q EXCEPT !.more = FALSE], FALSE)
  ELSE IF p.detail.current THEN Schedule(q) ELSE q

\* refreshTreeOnce, up to its first read.
RefreshTreeOnce(p, opts) ==
  LET m == IF opts.for.machine = NoMachine THEN p.machine ELSE opts.for.machine
      q == [p EXCEPT !.machine = m] IN
  [q EXCEPT !.strayed = @ \/ p.machine \notin {m, NoMachine},
            !.tree = [Idle EXCEPT !.at = "machines", !.for = opts.for, !.forced = opts.forced,
                                  !.key = Selected(q), !.wasLive = p.window # NoWindow,
                                  !.prior = IF m = NoMachine THEN p.grace.machine ELSE m,
                                  !.live = TRUE, !.mine = TRUE, !.current = TRUE]]

\* refreshTree: its options are those of whoever called last.
RefreshTree(p, opts) ==
  LET again == p.again \/ ~p.tree.current IN
  IF ~p.active THEN p
  ELSE IF p.tree.at = "idle" THEN RefreshTreeOnce(p, opts)
  ELSE [p EXCEPT !.again = again, !.asked = IF again THEN opts ELSE @]

EndTree(p) ==
  LET q == [p EXCEPT !.tree = Idle] IN
  IF p.active /\ p.again THEN RefreshTreeOnce([q EXCEPT !.again = FALSE, !.asked = NoOptions], p.asked)
  ELSE q

\* renewTerminalRefresh.
Renew(p) == [p EXCEPT !.paused = @ /\ ~p.active]

-----------------------------------------------------------------------------
(* Switches.                                                               *)

Forgets(p) == [p EXCEPT !.tree.mine = FALSE, !.detail.mine = FALSE]

\* clearPaneViewForWindowSwitch.
ClearPaneView(p) ==
  [Renew(StopDetail(Invalidate([p EXCEPT !.detail.mine = FALSE])))
     EXCEPT !.forbidden = FALSE, !.pane = Nowhere, !.shown = Nowhere]

\* resetTmuxState.
ResetTmuxState(p) ==
  [p EXCEPT !.banner = FALSE, !.windows = {}, !.listed = NoMachine, !.window = NoWindow,
            !.pane = Nowhere, !.shown = Nowhere, !.strayed = FALSE]

\* clearTargetViewForUrlNavigation.
ClearTargetView(p, to) ==
  LET q == [StopTree(p) EXCEPT !.tree.mine = FALSE,
              !.machine = IF to.machine = NoMachine THEN @ ELSE to.machine,
              !.windows = {}, !.listed = NoMachine, !.window = NoWindow,
              !.strayed = FALSE]
  IN ClearPaneView(q)

\* selectMachine.
SelectMachine(p, to) ==
  LET q == Renew(StopTree(StopDetail(Invalidate([p EXCEPT !.tree.mine = FALSE]))))
      r == ResetTmuxState([q EXCEPT !.forbidden = FALSE, !.machine = to.machine])
      s == [r EXCEPT !.url = Selected(r)]
  IN RefreshTree(s, [for |-> to, forced |-> TRUE])

\* selectWindow.
SelectWindow(p, w) ==
  LET q == [p EXCEPT !.window = w, !.pane = Nowhere]
      r == [q EXCEPT !.url = Selected(q)]
      s == IF w # p.window THEN ClearPaneView(r) ELSE r
  IN LoadPanes(s, FALSE)

Page(p) == page' = p /\ UNCHANGED world
Moves(p) == Page(p) /\ UNCHANGED <<hop, made>>

Counted(w) == world.events < MaxEvents /\ world' = [w EXCEPT !.events = @ + 1]
Event(p) == page' = p /\ Counted(world)
\* A click is input first, which ends a pause.
Usable == page.active /\ (page.paused => page.forbidden)

ChooseMachine ==
  /\ Usable
  /\ \E m \in Machines \ {page.machine} : Event(SelectMachine(page, [machine |-> m, window |-> NoWindow]))
  /\ UNCHANGED <<hop, made>>

ChooseWindow ==
  /\ Usable
  /\ \E w \in page.windows : Moves(SelectWindow(Renew(page), w))

\* switchToGlobalRecent, jumpToFirstAttention: to a window of another machine.
Hop ==
  /\ Usable /\ hop.at = "no"
  /\ \E m \in Machines \ {page.machine}, w \in Windows :
       LET to == [machine |-> m, window |-> w] IN
       Event(SelectMachine(page, to)) /\ hop' = [at |-> "going", for |-> to]
  /\ UNCHANGED made

\* createNewWindow, confirmDuplicate, confirmNewBranch: the answer is not a read, and
\* is not cancelled; then the list, and the window is selected by its id.
NewWindow ==
  /\ Usable /\ page.window # NoWindow /\ made.at = "no"
  /\ made' = [at |-> "asked", for |-> [machine |-> page.machine, window |-> NoWindow]]
  /\ Event(page) /\ UNCHANGED hop

WindowMade ==
  /\ made.at = "asked"
  /\ \E w \in Windows \ world.windows[made.for.machine] :
       /\ world' = [world EXCEPT !.windows[made.for.machine] = @ \union {w}]
       /\ LET p == RefreshTree(page, Default(page)) IN
          IF p.tree.at = "idle" THEN made' = NoHop /\ page' = SelectWindow(p, w)
          ELSE made' = [at |-> "made", for |-> [made.for EXCEPT !.window = w]] /\ page' = p
  /\ UNCHANGED hop

WindowNotMade == made.at = "asked" /\ made' = NoHop /\ UNCHANGED <<world, page, hop>>

\* closeCurrentWindow: whatever is selected when the answer comes is deselected.
CloseWindow ==
  /\ Usable /\ page.machine \in world.online /\ page.window \in world.windows[page.machine]
  /\ Counted([world EXCEPT !.windows[page.machine] = @ \ {page.window}])
  /\ page' = RefreshTree([page EXCEPT !.window = NoWindow, !.pane = Nowhere], Default(page))
  /\ UNCHANGED <<hop, made>>

\* The callers of a refresh that has ended: both wait for the one that was under way.
Landed(p) ==
  /\ hop' = NoHop
  /\ made' = IF made.at = "made" THEN NoHop ELSE made
  /\ page' = IF made.at = "made" THEN SelectWindow(p, made.for.window) ELSE p

-----------------------------------------------------------------------------
(* The list: refreshTreeOnce.                                              *)

InGrace(p) == p.grace.until = "running"

EnterReconnectGrace(p, m) ==
  IF ~p.active \/ p.paused THEN p
  ELSE LET q == [p EXCEPT !.banner = TRUE, !.grace.until = "running", !.grace.machine = m] IN
       IF p.grace.timer # "none" THEN q
       ELSE [q EXCEPT !.grace.timer = "set", !.grace.key = Selected(p)]

ClearReconnectGrace(p) == [p EXCEPT !.grace = NoGrace, !.banner = FALSE]

\* A read that is cancelled fails without a word.
Cancelled(op, key) == ~op.live \/ key # Selected(page)

\* applyTreeAndSelectWindow, up to loadPanes: the window selected stays if it is listed.
ApplyTree(p, ws) ==
  LET q == [p EXCEPT !.windows = ws, !.listed = p.machine] IN
  IF ws = {} THEN {[q EXCEPT !.window = NoWindow, !.tree.at = "landed"]}
  ELSE LET choices == IF p.window \in ws /\ ~p.tree.forced THEN {p.window}
                      ELSE IF p.tree.for.window \in ws THEN {p.tree.for.window} ELSE ws
           Chosen(w) == IF w = p.window THEN q ELSE ClearPaneView([q EXCEPT !.window = w])
           Lands(r) == IF r.detail.at = "idle" THEN [r EXCEPT !.tree.at = "landed"]
                       ELSE [r EXCEPT !.tree.at = "panes"]
       IN {Lands(LoadPanes(Chosen(w), FALSE)) : w \in choices}

\* The machines are known: the selected one is online, or is held through the grace,
\* or is given up.
MachinesAnswered ==
  /\ page.tree.at = "machines" /\ ~Cancelled(page.tree, page.tree.key)
  /\ LET p == [page EXCEPT !.machine = IF @ = NoMachine /\ Cardinality(world.online) = 1
                                       THEN CHOOSE m \in world.online : TRUE ELSE @]
         dropped == p.tree.prior # NoMachine /\ p.tree.prior \notin world.online
     IN IF p.machine \in world.online
        THEN Moves([(IF InGrace(p) THEN ClearReconnectGrace(p) ELSE p)
                      EXCEPT !.tree.at = "list", !.tree.key = Selected(p)])
        ELSE /\ UNCHANGED world
             /\ IF dropped /\ (InGrace(p) \/ (p.grace.machine = NoMachine /\ p.tree.wasLive))
                THEN Landed(EndTree(EnterReconnectGrace(p, p.tree.prior)))
                ELSE Landed(EndTree(ResetTmuxState(
                       IF dropped /\ p.grace.machine # NoMachine THEN ClearReconnectGrace(p) ELSE p)))

TreeAnswered ==
  /\ page.tree.at = "list" /\ ~Cancelled(page.tree, page.tree.key) /\ page.machine \in world.online
  /\ \E p \in ApplyTree(page, world.windows[page.machine]) : Moves(p)

\* A refresh whose view has moved on says nothing more.
TreeEnds ==
  /\ page.tree.at = "landed" /\ UNCHANGED world
  /\ Landed(EndTree(IF ~page.tree.mine THEN page
                    ELSE [page EXCEPT !.pending = {},
                                      !.url = IF page.tree.forced THEN Selected(page) ELSE @]))

TreeCancelled ==
  /\ page.tree.at \in {"machines", "list"} /\ Cancelled(page.tree, page.tree.key) /\ UNCHANGED world
  /\ Landed(EndTree(page))

\* A read fails: a view that was live holds on to its window.
TreeFails ==
  /\ Counted(world)
  /\ page.tree.at \in {"machines", "list"} /\ ~Cancelled(page.tree, page.tree.key)
  /\ Landed(EndTree(IF (page.tree.wasLive \/ InGrace(page)) /\ page.tree.prior # NoMachine
                    THEN EnterReconnectGrace(page, page.tree.prior) ELSE page))

\* The retry of the grace; the handle of a timer that was cleared is still kept.
RetryFires ==
  /\ page.grace.timer = "set" /\ page.active
  /\ Moves(IF page.grace.key # Selected(page) THEN [page EXCEPT !.grace.timer = "dead"]
           ELSE RefreshTree([page EXCEPT !.grace.timer = "none"], Default(page)))

GraceRunsOut == InGrace(page) /\ Moves([page EXCEPT !.grace.until = "over"])

-----------------------------------------------------------------------------
(* The screen: loadPanesOnce.                                              *)

NothingToLoad == page.detail.at = "nothing" /\ Moves(EndDetail(page))

Readable(p) == p.machine \in world.online /\ p.window \in world.windows[p.machine]

\* Mutant: an answer is taken for the window that is selected now.
ViewAnsweredUnchecked ==
  /\ page.detail.at = "view" /\ Readable(page.detail.for)
  /\ Moves([page EXCEPT !.pane = page.detail.for, !.detail.at = "agent"])

ViewAnswered ==
  /\ page.detail.at = "view" /\ ~Cancelled(page.detail, page.detail.for) /\ Readable(page.detail.for)
  /\ Moves([page EXCEPT !.pane = page.detail.for, !.detail.at = "agent"])

ViewFails ==
  /\ page.detail.at = "view" /\ ~Cancelled(page.detail, page.detail.for)
  /\ \E forbidden \in BOOLEAN : Event(EndDetail([page EXCEPT !.forbidden = forbidden]))
  /\ UNCHANGED <<hop, made>>

ViewCancelled ==
  page.detail.at = "view" /\ Cancelled(page.detail, page.detail.for) /\ Moves(EndDetail(page))

\* refreshAgentDetection, whatever comes of it; then the screen is shown.
AgentAnswered ==
  /\ page.detail.at = "agent"
  /\ Moves(EndDetail(IF page.active /\ page.detail.mine /\ page.window = page.detail.for.window
                     THEN [page EXCEPT !.shown = page.detail.for] ELSE page))

TimerFires == page.timer /\ Moves(LoadPanes([page EXCEPT !.timer = FALSE], FALSE))

\* refreshSnapshot, on request and after each input.
RefreshSnapshot == Usable /\ Moves(LoadPanes([Renew(page) EXCEPT !.forbidden = FALSE], TRUE))

AskTree == Usable /\ Moves(RefreshTree(Renew(page), Default(page)))

\* setAutoRefresh.
SetAutoRefresh ==
  /\ Usable
  /\ LET p == Renew(StopDetail([page EXCEPT !.forbidden = FALSE, !.auto = ~@])) IN
     Event(IF p.auto THEN Schedule(p) ELSE p)
  /\ UNCHANGED <<hop, made>>

\* Five minutes without input: longer than the grace.
Expires ==
  /\ Usable /\ page.auto /\ ~page.paused /\ ~InGrace(page)
  /\ Event([Forgets(Invalidate(StopTree(StopDetail(page))))
              EXCEPT !.paused = TRUE, !.grace.timer = "none"])
  /\ UNCHANGED <<hop, made>>

\* Input, or the window of the browser has the focus again.
Activity ==
  /\ page.active /\ (page.paused \/ page.forbidden) /\ page.auto
  /\ LET p == [Renew(page) EXCEPT !.forbidden = FALSE] IN
     Moves(IF p.window # NoWindow THEN LoadPanes(p, FALSE) ELSE RefreshTree(p, Default(p)))

\* deactivateView; activateView, at the address that was left or by a link.
DeactivateView ==
  /\ page.active
  /\ Event([Forgets(StopTree(StopDetail(Invalidate(page))))
              EXCEPT !.active = FALSE, !.paused = FALSE, !.grace.timer = "none"])
  /\ UNCHANGED <<hop, made>>

ActivateView ==
  /\ ~page.active
  /\ \E to \in {page.url} \union Targets :
       LET changed == to.machine # NoMachine /\ to # Selected(page)
                        /\ (to.machine # page.machine \/ to.window # NoWindow)
           p == [page EXCEPT !.active = TRUE, !.paused = FALSE, !.forbidden = FALSE, !.url = to]
       IN page' = (IF p.window = NoWindow \/ changed
                THEN RefreshTree(IF changed THEN ClearTargetView(p, to) ELSE p,
                                 [for |-> to, forced |-> TRUE])
                ELSE LoadPanes(p, FALSE))
          /\ IF to = page.url THEN UNCHANGED world ELSE Counted(world)
  /\ UNCHANGED <<hop, made>>

-----------------------------------------------------------------------------
Changes ==
  /\ \E m \in Machines :
       \/ Counted([world EXCEPT !.online = IF m \in @ THEN @ \ {m} ELSE @ \union {m}])
       \/ \E w \in Windows :
            Counted([world EXCEPT !.windows[m] = IF w \in @ THEN @ \ {w} ELSE @ \union {w}])
  /\ UNCHANGED <<page, hop, made>>

Next ==
  \/ ChooseMachine \/ ChooseWindow \/ Hop \/ NewWindow \/ WindowMade \/ WindowNotMade \/ CloseWindow
  \/ MachinesAnswered \/ TreeAnswered \/ TreeEnds \/ TreeCancelled \/ TreeFails
  \/ RetryFires \/ GraceRunsOut
  \/ NothingToLoad \/ ViewAnswered \/ ViewFails \/ ViewCancelled \/ AgentAnswered \/ TimerFires
  \/ RefreshSnapshot \/ AskTree \/ SetAutoRefresh \/ Expires \/ Activity
  \/ DeactivateView \/ ActivateView \/ Changes

Spec == Init /\ [][Next]_vars
-----------------------------------------------------------------------------
(* Properties.                                                             *)

TypeOK ==
  /\ page.machine \in Machines \union {NoMachine} /\ page.window \in Windows \union {NoWindow}
  /\ page.tree.at \in {"idle", "machines", "list", "panes", "landed"}
  /\ page.detail.at \in {"idle", "nothing", "view", "agent"}
  /\ page.grace.until \in {"none", "running", "over"} /\ page.grace.timer \in {"none", "set", "dead"}
  /\ hop.at \in {"no", "going"} /\ made.at \in {"no", "asked", "made"}

\* What is typed goes to the window on screen: the pane that takes it, the screen
\* that is shown and the list are those of the machine and of the window selected,
\* whatever was switched while they were being read; unless a refresh has gone back to
\* the target that the page was loaded with.
WhatIsShownIsSelected ==
  page.strayed \/
  /\ \A t \in {page.pane, page.shown} :
       t # Nowhere => t.machine = page.machine /\ page.window \in {t.window, NoWindow}
  /\ page.listed # NoMachine => page.listed = page.machine

\* A view that is on screen goes on being refreshed, whatever was stopped, joined or
\* run again meanwhile: a read is under way or a timer will begin the next.
ScreenIsKeptFresh ==
  page.active /\ page.auto /\ ~page.forbidden /\ ~page.paused /\ page.window # NoWindow
    => page.detail.at # "idle" \/ page.timer

\* "show the non-destructive "Reconnecting..." banner, and schedule one fast retry"
\* (app.js:3249): a view that says that it reconnects will try.
BannerIsRetried ==
  page.banner /\ page.active /\ ~page.paused
    => page.grace.timer = "set" \/ page.tree.at # "idle"

ViewIsSound == WhatIsShownIsSelected /\ ScreenIsKeptFresh
=============================================================================
