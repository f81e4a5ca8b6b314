------------------------------ MODULE ShareViewer ------------------------------
(***************************************************************************)
(* The page of a viewer of a shared terminal                               *)
(* (services/terminal-share/src/viewer.ts): it asks whether the share is   *)
(* there, opens a socket, and tries again a few times when that closes.    *)
(* Whatever it was doing is of an older generation once it is stopped.     *)
(* The relay, TerminalShare, is here only what it answers.                 *)
(***************************************************************************)
EXTENDS Naturals

CONSTANTS
  MaxAttempts,   \* attempts in a row without a status
  MaxGenerations \* bound: times that the page stops or connects

VARIABLES
  page,   \* what the script keeps
  checks, \* questions to the relay, by generation: "no", "status", then "json"
  socks   \* sockets, by the generation that opened them: "no", "open", "closed" untold

vars == <<page, checks, socks>>

ShareViewerAssumption == {MaxAttempts, MaxGenerations} \subseteq Nat \ {0}

Generations == 1..MaxGenerations
NoSocket == 0

\* connect() of a page that has just been loaded, perhaps in the background.
Init ==
  /\ \E hidden \in BOOLEAN :
       /\ page = [generation |-> 1, socket |-> NoSocket, retry |-> FALSE, reconnect |-> FALSE,
                  hidden |-> hidden, ended |-> FALSE, attempts |-> 0, writable |-> FALSE]
       /\ checks = [g \in Generations |-> IF g = 1 /\ ~hidden THEN "status" ELSE "no"]
  /\ socks = [g \in Generations |-> "no"]

Stopped(p) ==
  [p EXCEPT !.generation = @ + 1, !.socket = NoSocket, !.retry = FALSE, !.writable = FALSE]
\* The socket the page had is closed, of which it is told later.
Shut(s) == [g \in Generations |-> IF g = page.socket /\ s[g] = "open" THEN "closed" ELSE s[g]]

Stop(p) ==
  /\ page.generation < MaxGenerations
  /\ page' = Stopped(p) /\ socks' = Shut(socks)

Connect(p, asked) ==
  /\ Stop(IF p.hidden \/ p.ended THEN p ELSE [p EXCEPT !.reconnect = FALSE])
  /\ checks' = IF p.hidden \/ p.ended THEN asked ELSE [asked EXCEPT ![page.generation + 1] = "status"]

Schedule(p) ==
  LET q == [p EXCEPT !.writable = FALSE] IN
  IF p.hidden \/ p.ended THEN q
  ELSE [q EXCEPT !.reconnect = TRUE, !.attempts = @ + 1, !.retry = p.attempts < MaxAttempts]

-----------------------------------------------------------------------------
(* connect(), from its first await on.                                     *)

Settled(g) == checks' = [checks EXCEPT ![g] = "no"]

\* Of an older generation, or aborted.
CheckIsOld(g) ==
  /\ checks[g] # "no" /\ g # page.generation
  /\ Settled(g) /\ UNCHANGED <<page, socks>>

CheckFails(g) ==
  /\ checks[g] # "no" /\ g = page.generation
  /\ Settled(g) /\ page' = Schedule(page) /\ UNCHANGED socks

\* 403, 410; or a share that has ended.
CheckSaysEnded(g) ==
  /\ checks[g] # "no" /\ g = page.generation
  /\ Settled(g) /\ page' = [page EXCEPT !.ended = TRUE] /\ UNCHANGED socks

CheckAnswered(g) ==
  /\ checks[g] = "status" /\ g = page.generation
  /\ checks' = [checks EXCEPT ![g] = "json"] /\ UNCHANGED <<page, socks>>

\* Mutant: a page that was stopped meanwhile opens its socket all the same.
OpensAnyway(g) ==
  /\ checks[g] = "json"
  /\ Settled(g) /\ page' = [page EXCEPT !.socket = g] /\ socks' = [socks EXCEPT ![g] = "open"]

Opens(g) ==
  /\ checks[g] = "json" /\ g = page.generation
  /\ Settled(g) /\ page' = [page EXCEPT !.socket = g] /\ socks' = [socks EXCEPT ![g] = "open"]

-----------------------------------------------------------------------------
(* The socket.                                                             *)

Heard(g) == socks[g] = "open" /\ page.socket = g /\ g = page.generation

StatusMessage(g) ==
  /\ Heard(g)
  /\ \/ \E writable \in BOOLEAN :
          /\ page' = [page EXCEPT !.attempts = 0, !.writable = writable]
          /\ UNCHANGED <<checks, socks>>
     \/ Stop([page EXCEPT !.attempts = 0, !.ended = TRUE]) /\ UNCHANGED checks

\* More output than the terminal has written: the page begins afresh.
TooMuchOutput(g) == Heard(g) /\ Connect(page, checks)

RelayCloses(g) ==
  /\ socks[g] = "open" /\ socks' = [socks EXCEPT ![g] = "closed"] /\ UNCHANGED <<page, checks>>

Closed(g) ==
  /\ socks[g] = "closed" /\ socks' = [socks EXCEPT ![g] = "no"] /\ UNCHANGED checks
  /\ page' = IF page.socket = g /\ g = page.generation THEN Schedule(page) ELSE page

-----------------------------------------------------------------------------
RetryFires == page.retry /\ Connect([page EXCEPT !.retry = FALSE], checks)
Reconnect == page.reconnect /\ Connect([page EXCEPT !.attempts = 0], checks)

\* visibilitychange; pagehide.
Hide == ~page.hidden /\ Stop([page EXCEPT !.hidden = TRUE]) /\ UNCHANGED checks
Show == page.hidden /\ Connect([page EXCEPT !.hidden = FALSE, !.attempts = 0], checks)

Next ==
  \/ RetryFires \/ Reconnect \/ Hide \/ Show
  \/ \E g \in Generations :
       \/ CheckIsOld(g) \/ CheckFails(g) \/ CheckSaysEnded(g) \/ CheckAnswered(g) \/ Opens(g)
       \/ StatusMessage(g) \/ TooMuchOutput(g) \/ RelayCloses(g) \/ Closed(g)

Spec == Init /\ [][Next]_vars

-----------------------------------------------------------------------------
TypeOK ==
  /\ page \in [generation : Generations, socket : Generations \union {NoSocket}, retry : BOOLEAN,
               reconnect : BOOLEAN, hidden : BOOLEAN, ended : BOOLEAN,
               attempts : 0..(MaxAttempts + 1), writable : BOOLEAN]
  /\ checks \in [Generations -> {"no", "status", "json"}]
  /\ socks \in [Generations -> {"no", "open", "closed"}]

\* A page has one socket, the one it listens to; it has none, and will open none, while
\* it is in the background or once its share has ended.
OneSocket ==
  /\ \A g \in Generations : socks[g] = "open" => g = page.socket
  /\ page.hidden \/ page.ended =>
       /\ \A g \in Generations : socks[g] # "open"
       /\ checks[page.generation] = "no" /\ ~page.retry

\* A page that is on screen and whose share has not ended is connected, or tries to be,
\* or offers to; and nobody can type into one that is not.
NobodyIsStranded ==
  /\ ~page.hidden /\ ~page.ended =>
       \/ checks[page.generation] # "no" \/ page.retry \/ page.reconnect
       \/ page.socket # NoSocket /\ socks[page.socket] # "no"
  /\ page.writable => page.socket # NoSocket /\ socks[page.socket] # "no"

ViewerIsSound == OneSocket /\ NobodyIsStranded
=============================================================================
