------------------------------ MODULE HubAgent ------------------------------
(***************************************************************************)
(* The control channel: the controller's hub (lib/hub.mjs) and the         *)
(* connectors that dial it (lib/agent.mjs).                                *)
(*                                                                         *)
(* A connection carries messages in order in each direction until it       *)
(* breaks; the two ends notice that at different times, and what was sent  *)
(* before one end closed may still reach the other.  A connector dials     *)
(* again whenever it lost its connection, says HELLO when it has described *)
(* its machine, and is registered under its route; the hub then sends it   *)
(* requests and hands each answer to the caller that waits for its id.     *)
(* Only one connection of a route is registered: the one of the last HELLO.*)
(* The connector that is replaced is told to stop, for good.               *)
(*                                                                         *)
(* Connections are Socket.IO's, modelled from how both files use them.     *)
(***************************************************************************)
EXTENDS Naturals, Sequences, FiniteSets

CONSTANTS
  Agents,       \* connector processes
  Routes,       \* owner and agent id
  RouteOf,      \* the route of each connector
  Conns,        \* connections at one time
  Calls,        \* requests of browsers to a machine
  MaxHandlers,  \* bound: connect handlers of a connector at one time
  NoConn, NoAgent, NoCall

ASSUME HubAssumption ==
  /\ RouteOf \in [Agents -> Routes]
  /\ NoConn \notin Conns /\ NoAgent \notin Agents /\ NoCall \notin Calls
  /\ MaxHandlers \in Nat \ {0}

VARIABLES
  conn,       \* the connections
  proc,       \* the connectors
  machines,   \* the hub's registry: the connection registered for a route
  inventory,  \* the routes whose machine has sent an inventory
  call,       \* the requests: the hub's promises to its callers
  rpcSeq,     \* the last request id
  boot,       \* history: which process of the controller runs
  overtaken   \* history: a HELLO was read after its sender had hung up, and
              \* replaced a connection

hubVars == <<machines, inventory, call, rpcSeq, boot, overtaken>>
vars == <<conn, proc, hubVars>>

-----------------------------------------------------------------------------
Hello == [t |-> "hello"]
Info == [t |-> "info"]
Inventory == [t |-> "inventory"]
Req(id, x) == [t |-> "req", id |-> id, call |-> x, boot |-> boot]
Res(op) == [op EXCEPT !.t = "res"]
Disconnect(a) == [t |-> "disconnect", by |-> a]

Requests == [t : {"req"}, id : Nat, call : Calls, boot : Nat]
Upward == {Hello, Inventory} \union [t : {"res"}, id : Nat, call : Calls, boot : Nat]
Downward == {Info} \union Requests \union [t : {"disconnect"}, by : Agents]

Free == [agent |-> NoAgent, agentOpen |-> FALSE, hubOpen |-> FALSE, cut |-> FALSE,
         greeted |-> FALSE, up |-> <<>>, down |-> <<>>]

(* Which name a new connection gets does not matter.                        *)
Unused == {k \in Conns : conn[k] = Free}

(* A connection that is closed at both ends is gone.                        *)
Settled(c) == IF c.agentOpen \/ c.hubOpen THEN c ELSE Free

Up(c, m) == IF c.hubOpen /\ ~ c.cut THEN [c EXCEPT !.up = Append(@, m)] ELSE c
Down(c, m) == IF c.agentOpen /\ ~ c.cut THEN [c EXCEPT !.down = Append(@, m)] ELSE c

Asleep == [st |-> "down", sock |-> NoConn, hellos |-> 0, publishing |-> FALSE,
           uploads |-> FALSE, buffer |-> <<>>, ops |-> {}, stoppedBy |-> NoAgent]

(* Nothing that a stopped connector still does reaches anybody.             *)
Stopped(by) == [Asleep EXCEPT !.st = "stopped", !.stoppedBy = by]

Unanswered == [st |-> "idle", conn |-> NoConn, id |-> 0, to |-> NoCall, boot |-> 0]

Failed == [Unanswered EXCEPT !.st = "failed"]

Waiting(x, k) == call[x].st = "waiting" /\ call[x].conn = k

Init ==
  /\ conn = [k \in Conns |-> Free]
  /\ proc = [a \in Agents |-> Asleep]
  /\ machines = [r \in Routes |-> NoConn]
  /\ inventory = {}
  /\ call = [x \in Calls |-> Unanswered]
  /\ rpcSeq = 0
  /\ boot = 1
  /\ overtaken = FALSE

-----------------------------------------------------------------------------
(* The connector.  What it sends while it has no connection is kept, and    *)
(* goes out first on the next one.                                          *)
Starts(a) ==
  /\ proc[a].st = "down"
  /\ proc' = [proc EXCEPT ![a].st = "up"]
  /\ UNCHANGED <<conn, hubVars>>

(* Mutant of Opened.                                                        *)
OpenedInformed(a) == [Free EXCEPT !.agent = a, !.agentOpen = TRUE, !.hubOpen = TRUE,
                                  !.up = proc[a].buffer, !.down = <<Info>>]

Opened(a) == [Free EXCEPT !.agent = a, !.agentOpen = TRUE, !.hubOpen = TRUE,
                          !.up = proc[a].buffer]

Connect(a) ==
  /\ proc[a].st = "up" /\ proc[a].sock = NoConn
  /\ proc[a].hellos < MaxHandlers
  /\ Unused # {}
  /\ LET k == CHOOSE k \in Unused : TRUE
     IN /\ conn' = [conn EXCEPT ![k] = Opened(a)]
        /\ proc' = [proc EXCEPT ![a].sock = k, ![a].buffer = <<>>, ![a].hellos = @ + 1]
  /\ UNCHANGED hubVars

(* The controller refuses the credentials: the connector stops for good.    *)
AuthRejected(a) ==
  /\ proc[a].st = "up" /\ proc[a].sock = NoConn
  /\ proc' = [proc EXCEPT ![a] = Stopped(NoAgent)]
  /\ UNCHANGED <<conn, hubVars>>

(* socket.send, after a step of the connector that changed p.               *)
Sends(a, p, m) ==
  IF p.sock = NoConn
  THEN /\ proc' = [proc EXCEPT ![a] = [p EXCEPT !.buffer = Append(@, m)]]
       /\ UNCHANGED conn
  ELSE /\ proc' = [proc EXCEPT ![a] = p]
       /\ conn' = [conn EXCEPT ![p.sock] = Up(@, m)]

(* The connect handler goes on when multiplexers and host names are known,  *)
(* by then perhaps on no connection, or on the next one.                    *)
Greet(a) ==
  /\ proc[a].st = "up" /\ proc[a].hellos > 0
  /\ Sends(a, [proc[a] EXCEPT !.hellos = @ - 1, !.publishing = TRUE], Hello)
  /\ UNCHANGED hubVars

(* Inventories are volatile: dropped when the connection is busy.           *)
PublishInventory(a) ==
  LET k == proc[a].sock
  IN /\ proc[a].publishing /\ k # NoConn
     /\ \A i \in DOMAIN conn[k].up : conn[k].up[i] # Inventory
     /\ conn[k].hubOpen /\ ~ conn[k].cut
     /\ conn' = [conn EXCEPT ![k] = Up(@, Inventory)]
     /\ UNCHANGED <<proc, hubVars>>

(* Mutant of Lost.                                                          *)
LostKeepingSocket(p) == [p EXCEPT !.publishing = FALSE, !.uploads = FALSE]

(* The disconnect handler; p2 is what is left of the connector.             *)
Lost(p) == [p EXCEPT !.sock = NoConn, !.publishing = FALSE, !.uploads = FALSE]

Hangs(a, p2) ==
  /\ conn' = [conn EXCEPT ![proc[a].sock] =
                Settled([@ EXCEPT !.agentOpen = FALSE, !.down = <<>>])]
  /\ proc' = [proc EXCEPT ![a] = p2]

AgentReceives(a) ==
  LET k == proc[a].sock
      m == Head(conn[k].down)
      rest == [conn EXCEPT ![k].down = Tail(@)]
  IN /\ k # NoConn /\ conn[k].down # <<>>
     /\ \/ /\ m.t = "info"
           /\ proc' = [proc EXCEPT ![a].uploads = TRUE]
           /\ conn' = rest
        \/ /\ m.t = "req"
           /\ proc' = [proc EXCEPT ![a].ops = @ \union {m}]
           /\ conn' = rest
        \/ /\ m.t = "disconnect"
           /\ Hangs(a, Stopped(m.by))
     /\ UNCHANGED hubVars

(* The operation of a request completes, or fails.                          *)
Answers(a, op) ==
  /\ proc[a].st = "up" /\ op \in proc[a].ops
  /\ Sends(a, [proc[a] EXCEPT !.ops = @ \ {op}], Res(op))
  /\ UNCHANGED hubVars

AgentNotices(a) ==
  LET k == proc[a].sock
  IN /\ k # NoConn
     /\ conn[k].cut \/ (~ conn[k].hubOpen /\ conn[k].down = <<>>)
     /\ Hangs(a, Lost(proc[a]))
     /\ UNCHANGED hubVars

-----------------------------------------------------------------------------
(* Mutant of FailWaiters.                                                   *)
FailNobody(ks) == call' = call

(* The hub's disconnect handlers of the connections ks, which leave regs    *)
(* as the registry.                                                         *)
FailWaiters(ks) ==
  call' = [x \in Calls |-> IF \E k \in ks : Waiting(x, k)
                           THEN Failed ELSE call[x]]

Drop(k) ==
  LET r == RouteOf[conn[k].agent]
  IN IF machines[r] = k
     THEN /\ machines' = [machines EXCEPT ![r] = NoConn]
          /\ inventory' = inventory \ {r}
     ELSE UNCHANGED <<machines, inventory>>

HubCloses(k) ==
  /\ conn' = [conn EXCEPT ![k] = Settled([@ EXCEPT !.hubOpen = FALSE, !.up = <<>>])]
  /\ Drop(k)
  /\ FailWaiters({k})
  /\ UNCHANGED <<proc, rpcSeq, boot, overtaken>>

HubNotices(k) ==
  /\ conn[k].hubOpen
  /\ conn[k].cut \/ (~ conn[k].agentOpen /\ conn[k].up = <<>>)
  /\ HubCloses(k)

(* Mutant of Replaced.                                                      *)
ReplacedNever(k) == {}

Replaced(k) == {machines[RouteOf[conn[k].agent]]} \ {NoConn, k}

(* Mutant of Register.                                                      *)
RegisterUnlessTaken(k) ==
  LET r == RouteOf[conn[k].agent]
      free == machines[r] \in {NoConn, k}
      read == [conn[k] EXCEPT !.up = Tail(@)]
  IN /\ conn' = [conn EXCEPT ![k] =
                    IF free THEN Down([read EXCEPT !.greeted = TRUE], Info) ELSE read]
     /\ machines' = [machines EXCEPT ![r] = IF free THEN k ELSE @]
     /\ UNCHANGED <<inventory, call, rpcSeq, boot, overtaken>>

(* HELLO: the connection that was registered is disconnected, and told so.  *)
Register(k) ==
  LET a == conn[k].agent
      r == RouteOf[a]
      old == Replaced(k)
      closed(c) == Settled([Down(c, Disconnect(a)) EXCEPT !.hubOpen = FALSE, !.up = <<>>])
  IN /\ conn' = [j \in Conns |->
                   IF j \in old THEN closed(conn[j])
                   ELSE IF j = k
                        THEN Down([conn[k] EXCEPT !.greeted = TRUE, !.up = Tail(@)], Info)
                        ELSE conn[j]]
     /\ machines' = [machines EXCEPT ![r] = k]
     /\ inventory' = inventory \ {r}
     /\ FailWaiters(old)
     /\ overtaken' = (overtaken \/ (~ conn[k].agentOpen /\ old # {}))
     /\ UNCHANGED <<rpcSeq, boot>>

(* An answer goes to the caller that waits for its id on this connection,   *)
(* if there still is one.                                                   *)
Resolve(k, m) ==
  call' = [x \in Calls |->
             IF Waiting(x, k) /\ call[x].id = m.id
             THEN [Unanswered EXCEPT !.st = "answered", !.to = m.call, !.boot = m.boot]
             ELSE call[x]]

HubReceives(k) ==
  LET m == Head(conn[k].up)
      r == RouteOf[conn[k].agent]
  IN /\ conn[k].hubOpen /\ conn[k].up # <<>>
     /\ \/ m.t = "hello" /\ Register(k)
        \/ /\ m.t = "inventory"
           /\ inventory' = IF machines[r] = k THEN inventory \union {r} ELSE inventory
           /\ conn' = [conn EXCEPT ![k].up = Tail(@)]
           /\ UNCHANGED <<machines, call, rpcSeq, boot, overtaken>>
        \/ /\ m.t = "res"
           /\ Resolve(k, m)
           /\ conn' = [conn EXCEPT ![k].up = Tail(@)]
           /\ UNCHANGED <<machines, inventory, rpcSeq, boot, overtaken>>
     /\ UNCHANGED proc

(* rpcToMachine.                                                            *)
NextId == rpcSeq + 1

Unasked == {x \in Calls : call[x].st = "idle"}

Ask(r) ==
  LET k == machines[r]
      x == CHOOSE x \in Unasked : TRUE
  IN /\ Unasked # {}
     /\ \/ /\ k = NoConn
           /\ call' = [call EXCEPT ![x].st = "offline"]
           /\ UNCHANGED <<conn, rpcSeq>>
        \/ /\ k # NoConn
           /\ rpcSeq' = NextId
           /\ call' = [call EXCEPT ![x].st = "waiting", ![x].conn = k, ![x].id = NextId]
           /\ conn' = [conn EXCEPT ![k] = Down(@, Req(NextId, x))]
     /\ UNCHANGED <<proc, machines, inventory, boot, overtaken>>

TimesOut(x) ==
  /\ call[x].st = "waiting"
  /\ call' = [call EXCEPT ![x] = Failed]
  /\ UNCHANGED <<conn, proc, machines, inventory, rpcSeq, boot, overtaken>>

-----------------------------------------------------------------------------
(* Heartbeats fail at one end, the transport breaks, a process dies.        *)
AgentGivesUp(a) ==
  /\ proc[a].sock # NoConn
  /\ Hangs(a, Lost(proc[a]))
  /\ UNCHANGED hubVars

HubGivesUp(k) == conn[k].hubOpen /\ HubCloses(k)

Cut(k) ==
  /\ conn[k].agentOpen /\ conn[k].hubOpen /\ ~ conn[k].cut
  /\ conn' = [conn EXCEPT ![k].cut = TRUE, ![k].up = <<>>, ![k].down = <<>>]
  /\ UNCHANGED <<proc, hubVars>>

AgentEnds(a) ==
  /\ proc[a].st # "down"
  /\ proc' = [proc EXCEPT ![a] = Asleep]
  /\ conn' = IF proc[a].sock = NoConn THEN conn
             ELSE [conn EXCEPT ![proc[a].sock] =
                     Settled([@ EXCEPT !.agentOpen = FALSE, !.down = <<>>])]
  /\ UNCHANGED hubVars

(* The controller is replaced by another process, or shuts down and its     *)
(* successor takes over: no connector is told to stop.                      *)
HubRestarts ==
  /\ conn' = [k \in Conns |-> Settled([conn[k] EXCEPT !.hubOpen = FALSE, !.up = <<>>])]
  /\ machines' = [r \in Routes |-> NoConn]
  /\ inventory' = {}
  /\ FailWaiters(Conns)
  /\ rpcSeq' = 0
  /\ boot' = boot + 1
  /\ UNCHANGED <<proc, overtaken>>

Fault ==
  \/ \E a \in Agents : AuthRejected(a) \/ AgentGivesUp(a) \/ AgentEnds(a)
  \/ \E k \in Conns : HubGivesUp(k) \/ Cut(k)
  \/ \E x \in Calls : TimesOut(x)
  \/ HubRestarts

Connector(a) ==
  \/ Connect(a)
  \/ Greet(a)
  \/ PublishInventory(a)
  \/ AgentReceives(a)
  \/ \E op \in proc[a].ops : Answers(a, op)
  \/ AgentNotices(a)

Hub(k) == HubReceives(k) \/ HubNotices(k)

Next ==
  \/ \E a \in Agents : Starts(a) \/ Connector(a)
  \/ \E k \in Conns : Hub(k)
  \/ \E r \in Routes : Ask(r)
  \/ Fault

Spec == Init /\ [][Next]_vars

(* Live connectors dial and greet again and again and publish on a timer;   *)
(* both ends read what arrives and notice, by their heartbeats, when the    *)
(* other end is gone.                                                       *)
Fairness ==
  /\ \A a \in Agents :
       /\ WF_vars(Connect(a))
       /\ WF_vars(Greet(a))
       /\ WF_vars(PublishInventory(a))
       /\ WF_vars(AgentReceives(a))
       /\ WF_vars(AgentNotices(a))
  /\ \A k \in Conns : WF_vars(HubReceives(k)) /\ WF_vars(HubNotices(k))

-----------------------------------------------------------------------------
TypeOK ==
  /\ \A k \in Conns :
       /\ conn[k].agent \in Agents \union {NoAgent}
       /\ (conn[k].agent = NoAgent) = (conn[k] = Free)
       /\ conn[k].up \in Seq(Upward) /\ conn[k].down \in Seq(Downward)
  /\ \A a \in Agents :
       /\ proc[a].st \in {"down", "up", "stopped"}
       /\ proc[a].sock \in Conns \union {NoConn}
       /\ proc[a].hellos \in 0 .. MaxHandlers
       /\ {proc[a].publishing, proc[a].uploads} \subseteq BOOLEAN
       /\ proc[a].buffer \in Seq(Upward)
       /\ proc[a].ops \subseteq Requests
       /\ proc[a].stoppedBy \in Agents \union {NoAgent}
       /\ \A k \in Conns : proc[a].sock = k <=> conn[k].agent = a /\ conn[k].agentOpen
  /\ machines \in [Routes -> Conns \union {NoConn}]
  /\ inventory \subseteq Routes
  /\ \A x \in Calls :
       /\ call[x].st \in {"idle", "waiting", "offline", "failed", "answered"}
       /\ call[x].conn \in Conns \union {NoConn} /\ call[x].id \in Nat
  /\ rpcSeq \in Nat /\ boot \in Nat /\ overtaken \in BOOLEAN

(* The registry is exact: of a route's connections that said HELLO and are  *)
(* open at the hub one at most is left, and it is the one that is           *)
(* registered; a late disconnect of an older one does not unregister it.    *)
RegistryIsExact ==
  /\ \A k \in Conns :
       conn[k].hubOpen =>
         (conn[k].greeted <=> machines[RouteOf[conn[k].agent]] = k)
  /\ \A r \in Routes : machines[r] # NoConn => conn[machines[r]].hubOpen

(* Nobody waits for an answer on a connection that is gone: disconnect and  *)
(* replacement reject what is pending, and both ids and connections are     *)
(* those of the present controller process.                                 *)
WaitersAreConnected ==
  \A x \in Calls : call[x].st = "waiting" =>
    /\ conn[call[x].conn].hubOpen
    /\ \A y \in Calls : call[y].st = "waiting" /\ call[y].id = call[x].id => x = y

(* hub -> agent -> hub: an answer goes to the request it answers, also when *)
(* it is late, when its connection was replaced and when it was kept until  *)
(* the next one; only the answer to a request of an earlier controller      *)
(* process can be taken for another one's.                                  *)
AnswersMatch ==
  \A x \in Calls : call[x].st = "answered" => call[x].to = x \/ call[x].boot < boot

(* What becomes of a request: while it waits, its connector is there to     *)
(* answer it, and what it is answered is the answer to it.                  *)
RequestsAreAnswered == WaitersAreConnected /\ AnswersMatch

(* protocol.mjs: RES is "agent -> hub, answering a req by id".              *)
AnswersGoToTheirRequest == \A x \in Calls : call[x].st = "answered" => call[x].to = x

(* hub.mjs: capability negotiation happens after HELLO; agent.mjs: archive  *)
(* traffic stops with the control connection.                               *)
UploadsOnlyWhileGreeted ==
  \A a \in Agents : proc[a].uploads =>
    /\ proc[a].st = "up" /\ proc[a].sock # NoConn
    /\ conn[proc[a].sock].hubOpen => conn[proc[a].sock].greeted

(* agent.mjs: a connector is stopped because a newer connector registered   *)
(* the same machine; never because it did so itself.                        *)
StoppedByAnother == \A a \in Agents : proc[a].stoppedBy # a

(* ... which holds as long as no HELLO arrives after its connector has hung *)
(* up and has registered again.                                             *)
StoppedByAnotherUnlessOvertaken == ~ overtaken => StoppedByAnother

(* The life of a connection: traffic flows while it is greeted, and only    *)
(* another connector of its machine ends it for good.                       *)
ConnectionsAreSound == UploadsOnlyWhileGreeted /\ StoppedByAnotherUnlessOvertaken

(* When faults end, a route with a connector that runs and was not stopped  *)
(* is served: one such connector is registered, and its inventory is known. *)
Served(r) ==
  /\ r \in inventory
  /\ proc[conn[machines[r]].agent].sock = machines[r]

RouteIsServed ==
  \A r \in Routes :
    <>[]((\E a \in Agents : RouteOf[a] = r /\ proc[a].st = "up") => Served(r))
=============================================================================
