------------------------------ MODULE AgentScan ------------------------------
(***************************************************************************)
(* A connector's scan for agents: which windows run one, and which         *)
(* transcript is its own (listAgentSessions in server.mjs, and             *)
(* locateAgentTranscript in lib/backend.mjs).  The processes, the files    *)
(* they have open, the windows of each multiplexer and the records agents  *)
(* leave of themselves are read one after the other, while agents start,   *)
(* end, and take up new conversations.                                     *)
(***************************************************************************)
EXTENDS Naturals, FiniteSets

CONSTANTS
  Muxes,
  Panes,        \* each the active one of its window; all of them in one directory
  MuxOf,        \* of a pane
  Agents,       \* processes
  PaneOf, KindOf, \* of an agent: its pane, and "codex" or "claude"
  MaxSessions,  \* bound: conversations of an agent, in turn
  MaxEvents     \* bound: what happens to agents and multiplexers

VARIABLES
  world,   \* agents running and their conversations; what they have written of them
  front,   \* of each pane: the kind of its foreground program, or "shell"
  caches,  \* the files open at the last look, and the ranks of rollouts
  scan     \* the scan under way, and what it found

vars == <<world, front, caches, scan>>

AgentScanAssumption ==
  /\ MuxOf \in [Panes -> Muxes] /\ PaneOf \in [Agents -> Panes]
  /\ KindOf \in [Agents -> {"codex", "claude"}] /\ MaxSessions \in Nat /\ MaxEvents \in Nat

\* A conversation of an agent; a codex agent has another one of a subagent of its own.
Sessions == [of : Agents, n : 1..MaxSessions, sub : BOOLEAN]
Idle == [at |-> "idle", procs |-> {}, open |-> {}, known |-> FALSE, left |-> [p \in Panes |-> "no"],
         exact |-> [p \in Panes |-> {}], got |-> [p \in Panes |-> {}], headed |-> {}]

Init ==
  /\ \E run \in SUBSET Agents :
       world = [running |-> run, at |-> [a \in Agents |-> 1], registered |-> {}, written |-> {},
                recent |-> {}, headed |-> {}, events |-> 0]
  /\ front = [p \in Panes |-> "shell"]
  /\ caches = [of |-> {}, open |-> {}, fresh |-> FALSE, ranks |-> {}]
  /\ scan = Idle

Session(a, sub) == [of |-> a, n |-> world.at[a], sub |-> sub]
Kind(s) == KindOf[s.of]
Claude(as) == {a \in as : KindOf[a] = "claude"}
Codex(as) == {a \in as : KindOf[a] = "codex"}
In(p, as) == {a \in as : PaneOf[a] = p}

-----------------------------------------------------------------------------
(* The agents, which this code does not control.                           *)

Happens(w) == world.events < MaxEvents /\ world' = [w EXCEPT !.events = @ + 1] /\ UNCHANGED caches

AgentStarts ==
  \E a \in Agents \ world.running :
    /\ world.at[a] < MaxSessions
    /\ Happens([world EXCEPT !.running = @ \union {a}, !.at[a] = @ + 1, !.registered = @ \ {a}])
    /\ front' = [front EXCEPT ![PaneOf[a]] = KindOf[a]] /\ UNCHANGED scan

AgentEnds ==
  \E a \in world.running :
    /\ Happens([world EXCEPT !.running = @ \ {a}, !.registered = @ \ {a}])
    /\ front' = [front EXCEPT ![PaneOf[a]] = "shell"] /\ UNCHANGED scan

\* Another conversation in the same process; or a program in front of the agent.
NewConversation ==
  \E a \in world.running :
    /\ world.at[a] < MaxSessions
    /\ Happens([world EXCEPT !.at[a] = @ + 1]) /\ UNCHANGED <<front, scan>>

InFront ==
  /\ \E p \in Panes : \E k \in {"shell"} \union {KindOf[a] : a \in In(p, world.running)} :
       front[p] # k /\ front' = [front EXCEPT ![p] = k]
  /\ Happens(world) /\ UNCHANGED scan

\* Claude Code records which conversation a process is in, and appends to its transcript
\* now and then; Codex keeps its rollouts open, and writes their first line a little late.
Leaves(w) == world' = w /\ UNCHANGED <<front, caches, scan>>
Registers == \E a \in Claude(world.running) \ world.registered : Leaves([world EXCEPT !.registered = @ \union {a}])
Speaks ==
  \E a \in world.running, sub \in BOOLEAN :
    LET s == Session(a, sub) IN
    /\ sub => KindOf[a] = "codex" /\ [s EXCEPT !.sub = FALSE] \in world.written
    /\ Leaves([world EXCEPT !.written = @ \union {s}, !.recent = IF Kind(s) = "claude" THEN {s} ELSE @])
    /\ s \notin world.written \/ (Kind(s) = "claude" /\ world.recent # {s})
WritesHeader ==
  \E s \in world.written \ world.headed : Kind(s) = "codex" /\ Leaves([world EXCEPT !.headed = @ \union {s}])

\* The files a process has open: only Codex keeps them so.
Open(as) == {s \in world.written : s.of \in Codex(as \intersect world.running) /\ s.n = world.at[s.of]}

-----------------------------------------------------------------------------
(* A scan.                                                                 *)

Goes(s) == scan' = s /\ UNCHANGED <<world, front>>

\* backend.processSnapshot.
ProcessSnapshot ==
  /\ scan.at = "idle"
  /\ Goes([Idle EXCEPT !.at = "files", !.procs = world.running, !.headed = world.headed])
  /\ UNCHANGED caches

\* loadAgentOpenFilesSnapshot: what was found for the same processes a short while ago
\* is used again; a look that was cut short is not kept, nor used.
LooksAtFiles ==
  /\ scan.at = "files"
  /\ \/ /\ caches.fresh /\ caches.of = scan.procs
        /\ Goes([scan EXCEPT !.at = "tree", !.open = caches.open, !.known = TRUE]) /\ UNCHANGED caches
     \/ /\ ~(caches.fresh /\ caches.of = scan.procs)
        /\ Goes([scan EXCEPT !.at = "tree", !.open = Open(scan.procs), !.known = TRUE])
        /\ caches' = [caches EXCEPT !.of = scan.procs, !.open = Open(scan.procs), !.fresh = TRUE]

LookIsCutShort ==
  /\ scan.at = "files" /\ ~(caches.fresh /\ caches.of = scan.procs) /\ Happens(world)
  /\ scan' = [scan EXCEPT !.at = "tree"] /\ UNCHANGED front

\* listAgentSessions: of several multiplexers one that fails has no windows.
ListsTree(failed) ==
  /\ scan.at = "tree" /\ failed # Muxes
  /\ Goes([scan EXCEPT !.at = "panes",
                       !.left = [p \in Panes |-> IF MuxOf[p] \in failed THEN "no" ELSE "exact"]])
  /\ UNCHANGED caches
ListsTrees == ListsTree({})
MuxFails ==
  /\ \E x \in Muxes : ListsTree({x}) /\ Cardinality(Muxes) > 1

Foreground(p) == front[p]

\* findClaudeSessionFromBackend: the record a Claude process of the pane has left.
ClaudeSessions(p) == {Session(a, FALSE) : a \in In(p, Claude(scan.procs)) \intersect world.registered}

\* The transcript of the record is read, if there is one; otherwise it is looked for.
FindsExact(p) ==
  /\ scan.at = "panes" /\ scan.left[p] = "exact"
  /\ IF ClaudeSessions(p) = {} THEN Goes([scan EXCEPT !.left[p] = "locate"])
     ELSE \E s \in ClaudeSessions(p) :
            Goes([scan EXCEPT !.left[p] = IF s \in world.written THEN "done" ELSE "locate",
                              !.exact[p] = {s}, !.got[p] = IF s \in world.written THEN {s} ELSE {}])
  /\ UNCHANGED caches

\* Mutant: the rank of a rollout whose first line is not there yet is kept.
CacheableAlways(s) == TRUE

\* codexTranscriptSourceRank: a subagent's comes last, one without a first line before it.
\* Only what was read of a first line is kept.
Cacheable(s) == s \in world.headed
RankNow(s) == IF s \notin world.headed THEN 1 ELSE IF s.sub THEN 2 ELSE 0
Rank(s) == IF \E k \in caches.ranks : k[1] = s THEN (CHOOSE k \in caches.ranks : k[1] = s)[2] ELSE RankNow(s)
Ranked(ss) == caches.ranks \union {<<s, Rank(s)>> : s \in {t \in ss : Cacheable(t)}}

\* selectPreferredOpenTranscriptPaths: the best rank, then the file written last.
Preferred(ss) ==
  IF Cardinality(ss) <= 1 THEN ss
  ELSE {s \in ss : \A t \in ss : Rank(s) <= Rank(t)}

\* locateAgentTranscript, for one kind of agent: the record, the open files, the newest
\* transcript of the directory (Claude's only).
OfClaude(p) ==
  LET mine == {s \in ClaudeSessions(p) : s \in world.written} IN
  IF In(p, Claude(scan.procs)) = {} THEN {} ELSE IF mine # {} THEN mine ELSE world.recent
OfCodex(p) ==
  LET open == IF scan.known THEN scan.open ELSE Open(scan.procs) IN
  Preferred({s \in open : s.of \in In(p, Codex(scan.procs))})

\* The kind in the foreground is looked for first, and Codex if it is neither.
Locate(p) ==
  LET x == OfCodex(p) c == OfClaude(p) IN
  IF Foreground(p) = "claude" THEN IF c # {} THEN c ELSE x ELSE IF x # {} THEN x ELSE c

\* Mutant: whatever was located is shown.
AgreesAlways(p, s) == TRUE

\* safeAgentTranscript: a Claude transcript that is not the one of the record is not shown.
Agrees(p, s) == scan.exact[p] = {} \/ Kind(s) # "claude" \/ s \in scan.exact[p]

Locates(p) ==
  /\ scan.at = "panes" /\ scan.left[p] = "locate"
  /\ IF Locate(p) = {} THEN Goes([scan EXCEPT !.left[p] = "done", !.got[p] = scan.exact[p]])
     ELSE \E s \in Locate(p) :
            Goes([scan EXCEPT !.left[p] = "done", !.got[p] = IF Agrees(p, s) THEN {s} ELSE scan.exact[p]])
  /\ caches' = [caches EXCEPT !.ranks =
       LET open == {s \in (IF scan.known THEN scan.open ELSE Open(scan.procs)) : s.of \in In(p, Codex(scan.procs))}
       IN IF Cardinality(open) <= 1 THEN @ ELSE Ranked(open)]

ScanEnds ==
  /\ scan.at = "panes" /\ \A p \in Panes : scan.left[p] \in {"no", "done"}
  /\ scan' = [scan EXCEPT !.at = "ended"] /\ UNCHANGED <<world, front, caches>>

\* Until the next one: what is cached grows old.
Waits ==
  /\ scan.at = "ended" /\ scan' = Idle
  /\ \E f \in {caches.fresh, FALSE} : caches' = [caches EXCEPT !.fresh = f]
  /\ UNCHANGED <<world, front>>

-----------------------------------------------------------------------------
Scanning ==
  \/ ProcessSnapshot \/ LooksAtFiles \/ LookIsCutShort \/ ListsTrees \/ MuxFails
  \/ (\E p \in Panes : FindsExact(p) \/ Locates(p)) \/ ScanEnds \/ Waits
Living == AgentStarts \/ AgentEnds \/ NewConversation \/ InFront \/ Registers \/ Speaks \/ WritesHeader
Next == Scanning \/ Living
Spec == Init /\ [][Next]_vars

TypeOK ==
  /\ world.running \subseteq Agents /\ world.written \subseteq Sessions /\ world.headed \subseteq world.written
  /\ front \in [Panes -> {"shell", "claude", "codex"}]
  /\ scan.at \in {"idle", "files", "tree", "panes", "ended"}
  /\ \A p \in Panes : scan.got[p] \subseteq Sessions /\ Cardinality(scan.got[p]) <= 1

\* A window whose agents have all left a record is never shown with the conversation of
\* another window (those of Claude share a directory, and the newest is a guess).
EachItsOwn ==
  scan.at = "ended" =>
    \A p \in Panes : scan.exact[p] # {} \/ In(p, Claude(scan.procs)) = {} =>
      \A s \in scan.got[p] : PaneOf[s.of] = p

\* A codex agent is shown with its own conversation, not with one of its subagents, as
\* soon as the first lines of both had been written when the scan began.
MainBeforeSubagent ==
  scan.at = "ended" =>
    \A p \in Panes : \A s \in scan.got[p] :
      s.sub /\ s \in scan.headed => [s EXCEPT !.sub = FALSE] \notin scan.headed

ScanIsSound == EachItsOwn /\ MainBeforeSubagent

\* server.mjs, of what the command center is given: failures are returned as errors rather
\* than pretending that "failed to observe" means "zero agents".  Of two multiplexers, the
\* one that could not be asked counts as having no windows.
FailuresAreReported ==
  scan.at = "ended" =>
    \A p \in Panes : In(p, scan.procs) \intersect world.running # {} => scan.left[p] = "done"
=============================================================================
