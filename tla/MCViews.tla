------------------------------ MODULE MCViews ------------------------------
(* What a person sees.  In the pages: the view of a window, the cards of    *)
(* the command center, the lists of the user, the views of the application, *)
(* the reading aloud, the sheet that starts an agent and a terminal that is *)
(* shared with others.  What the pages show, on its machine: the search for *)
(* agents and the reading of their transcripts.  The parts share no state   *)
(* that is modelled, so a behaviour is one of the part it begins with, and  *)
(* the others stay.                                                         *)
(*                                                                          *)
(* Two are checked twice.  The lists: stars, whose first load looks for     *)
(* edits, and snippets, whose first load does not.  The search: two claudes *)
(* under two multiplexers, and a codex that has sub-agents.                 *)
EXTENDS Naturals, FiniteSets, TLC

CONSTANTS Machines, NoMachine, Windows, NoWindow

VARIABLES
  part,
  targets, target, hop, wanted,
  store, browser, page, requests, made, hurt,
  world, conn, feed, task, seen,
  audio, reads, screen,
  views, route, mounts, scopes,
  guest, checks, socks,
  listed, sheet, dirReads, starts, crossed, left, events,
  transcripts, cut, cache, load,
  machine, front, caches, look

Target == INSTANCE TargetView WITH
  MaxEvents <- 2, world <- targets, page <- target, made <- wanted
Stars == INSTANCE UserLists WITH Guarded <- TRUE, MaxEdits <- 3, MaxRequests <- 2
Snippets == INSTANCE UserLists WITH Guarded <- FALSE, MaxEdits <- 3, MaxRequests <- 2
Feed == INSTANCE CardFeed WITH Windows <- {"w"}, MaxEvents <- 1, MaxTasks <- 1
Reader == INSTANCE RealtimeReader WITH Explicit <- TRUE, MaxReads <- 2, MaxChunks <- 2
Router == INSTANCE ViewRouter WITH
  Routes <- {"home", "command center"}, MaxNavigations <- 4, page <- route
Guest == INSTANCE ShareViewer WITH MaxAttempts <- 2, MaxGenerations <- 6, page <- guest
Sheet == INSTANCE StartAgent WITH MaxLoads <- 2, MaxStarts <- 2, MaxEvents <- 2, loads <- dirReads
Snapshots == INSTANCE TranscriptSnapshot WITH
  MaxBytes <- 3, PendingMax <- 1, Boundary <- 1, MaxSize <- 4, MaxRewrites <- 1,
  files <- transcripts
Claudes == INSTANCE AgentScan WITH
  Muxes <- {"tmux", "rmux"}, Panes <- {"p1", "p2"}, MuxOf <- [p1 |-> "tmux", p2 |-> "rmux"],
  Agents <- {"c1", "c2"}, PaneOf <- [c1 |-> "p1", c2 |-> "p2"],
  KindOf <- [c1 |-> "claude", c2 |-> "claude"],
  MaxSessions <- 2, MaxEvents <- 2, world <- machine, scan <- look
Codex == INSTANCE AgentScan WITH
  Muxes <- {"tmux", "rmux"}, Panes <- {"p1", "p2"}, MuxOf <- [p1 |-> "tmux", p2 |-> "rmux"],
  Agents <- {"x1"}, PaneOf <- [x1 |-> "p1"], KindOf <- [x1 |-> "codex"],
  MaxSessions <- 2, MaxEvents <- 2, world <- machine, scan <- look

ASSUME Target!TargetViewAssumption /\ Feed!CardFeedAssumption
ASSUME Stars!UserListsAssumption /\ Snippets!UserListsAssumption
ASSUME Guest!ShareViewerAssumption /\ Sheet!StartAgentAssumption
ASSUME Snapshots!TranscriptSnapshotAssumption
ASSUME Claudes!AgentScanAssumption /\ Codex!AgentScanAssumption
ASSUME Reader!RealtimeReaderAssumption /\ Router!ViewRouterAssumption

windows == <<targets, target, hop, wanted>>
lists == <<store, browser, page, requests, made, hurt>>
cards == <<world, conn, feed, task, seen>>
reader == <<audio, reads, screen>>
router == <<views, route, mounts, scopes>>
guests == <<guest, checks, socks>>
sheets == <<listed, sheet, dirReads, starts, crossed, left, events>>
snapshots == <<transcripts, cut, cache, load>>
search == <<machine, front, caches, look>>
pages == <<windows, lists, cards, reader, router, guests, sheets>>
sources == <<snapshots, search>>
all == <<part, pages, sources>>

Parts == {"target", "stars", "snippets", "feed", "reader", "router", "guest", "sheet",
          "transcripts", "claudes", "codex"}

(* A part that a behaviour is not of begins in one way.                     *)
MCInit ==
  /\ part \in Parts
  /\ Target!Init /\ Stars!Init /\ Feed!Init /\ Reader!Init /\ Router!Init /\ Guest!Init
  /\ Sheet!Init /\ Snapshots!Init
  /\ IF part = "codex" THEN Codex!Init ELSE Claudes!Init
  /\ part \notin {"claudes", "codex"} => machine.running = {}
  /\ part # "target" => target.url = Target!Nowhere
  /\ part \notin {"stars", "snippets"} => made = 0
  /\ part # "feed" => \A m \in Machines : world.windows[m] = {}
  /\ part # "reader" => /\ \A m \in Machines : screen.says[m] = 0
                        /\ screen.selected = CHOOSE m \in Machines : TRUE
  /\ part # "guest" => guest.hidden
  /\ part # "sheet" => listed = {}
  /\ part # "router" => route.route = "home" /\ ~route.hidden

PageSteps ==
  \/ part = "target" /\ Target!Next /\ UNCHANGED <<lists, cards, reader, router, guests, sheets>>
  \/ /\ part = "stars" /\ Cardinality(hurt) < 2 /\ Stars!Next
     /\ UNCHANGED <<windows, cards, reader, router, guests, sheets>>
  \/ /\ part = "snippets" /\ Cardinality(hurt) < 2 /\ Snippets!Next
     /\ UNCHANGED <<windows, cards, reader, router, guests, sheets>>
  \/ part = "feed" /\ Feed!Next /\ UNCHANGED <<windows, lists, reader, router, guests, sheets>>
  \/ part = "reader" /\ Reader!Next /\ UNCHANGED <<windows, lists, cards, router, guests, sheets>>
  \/ part = "router" /\ Router!Next /\ UNCHANGED <<windows, lists, cards, reader, guests, sheets>>
  \/ part = "guest" /\ Guest!Next /\ UNCHANGED <<windows, lists, cards, reader, router, sheets>>
  \/ part = "sheet" /\ Sheet!Next /\ UNCHANGED <<windows, lists, cards, reader, router, guests>>

SourceSteps ==
  \/ part = "transcripts" /\ Snapshots!Next /\ UNCHANGED search
  \/ part = "claudes" /\ Claudes!Next /\ UNCHANGED snapshots
  \/ part = "codex" /\ Codex!Next /\ UNCHANGED snapshots

MCNext ==
  /\ UNCHANGED part
  /\ \/ PageSteps /\ UNCHANGED sources
     \/ SourceSteps /\ UNCHANGED pages

MCSpec == MCInit /\ [][MCNext]_all

(* Sound for invariants and for the action property: no machine and no      *)
(* window is told from another.                                             *)
MCSymmetry == Permutations(Machines) \union Permutations(Windows)

-----------------------------------------------------------------------------
(* Every part has the types its module declares.                            *)
TypesOK ==
  CASE part = "target" -> Target!TypeOK
    [] part = "stars" -> Stars!TypeOK
    [] part = "snippets" -> Snippets!TypeOK
    [] part = "feed" -> Feed!TypeOK
    [] part = "reader" -> Reader!TypeOK
    [] part = "router" -> Router!TypeOK
    [] part = "guest" -> Guest!TypeOK
    [] part = "sheet" -> Sheet!TypeOK
    [] part = "transcripts" -> Snapshots!TypeOK
    [] part = "claudes" -> Claudes!TypeOK
    [] part = "codex" -> Codex!TypeOK

(* What a person sees is what was selected, asked for or edited last, and   *)
(* is kept fresh.                                                           *)
ViewsAreTrue ==
  /\ part = "target" => Target!ViewIsSound
  /\ part = "stars" => Stars!EditsAreKept
  /\ part = "snippets" => Snippets!EditsAreKept
  /\ part = "feed" => Feed!FeedIsSound
  /\ part = "reader" => Reader!ReadIsSound
  /\ part = "router" => Router!RouterIsSound
  /\ part = "guest" => Guest!ViewerIsSound
  /\ part = "sheet" => Sheet!StartIsSound

(* An agent is shown with the transcript of its own conversation, and a     *)
(* transcript as it is in its file.                                         *)
TranscriptsAreTheirOwn ==
  /\ part = "transcripts" => Snapshots!SnapshotIsOfTheFile
  /\ part = "claudes" => Claudes!ScanIsSound
  /\ part = "codex" => Codex!ScanIsSound

(* A card is only taken away by an inventory that does not have it, by the  *)
(* end of the grace of its machine, or with the page.                       *)
CardsAreHeld == Feed!CardsAreHeld

(* The comment in setSnippets: a later page load retries a failed save.     *)
FailuresAreRetried == part = "snippets" => Snippets!FailuresAreRetried
=============================================================================
