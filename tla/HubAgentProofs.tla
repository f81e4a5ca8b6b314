--------------------------- MODULE HubAgentProofs ---------------------------
(***************************************************************************)
(* For any connectors, routes, connections and requests: the registry is   *)
(* exact, nobody waits on a connection that is gone, an answer reaches the *)
(* request it answers unless it is an earlier controller's, archive        *)
(* traffic flows on greeted connections only, and a connector is stopped   *)
(* by another one unless a HELLO overtook its own disconnect.              *)
(***************************************************************************)
EXTENDS HubAgent, SequenceTheorems, TLAPS

Conn == [agent : Agents \union {NoAgent}, agentOpen : BOOLEAN, hubOpen : BOOLEAN,
         cut : BOOLEAN, greeted : BOOLEAN, up : Seq(Upward), down : Seq(Downward)]

Proc == [st : {"down", "up", "stopped"}, sock : Conns \union {NoConn},
         hellos : 0 .. MaxHandlers, publishing : BOOLEAN, uploads : BOOLEAN,
         buffer : Seq(Upward), ops : SUBSET Requests,
         stoppedBy : Agents \union {NoAgent}]

Call == [st : {"idle", "waiting", "offline", "failed", "answered"},
         conn : Conns \union {NoConn}, id : Nat, to : Calls \union {NoCall}, boot : Nat]

Types ==
  /\ conn \in [Conns -> Conn] /\ proc \in [Agents -> Proc]
  /\ machines \in [Routes -> Conns \union {NoConn}] /\ inventory \subseteq Routes
  /\ call \in [Calls -> Call]
  /\ rpcSeq \in Nat /\ boot \in Nat /\ overtaken \in BOOLEAN

(* The two ends of a connection agree on whose it is.                       *)
Linked ==
  /\ \A k \in Conns : conn[k].agent = NoAgent => conn[k] = Free
  /\ \A a \in Agents, k \in Conns :
       proc[a].sock = k <=> conn[k].agent = a /\ conn[k].agentOpen

(* Only a connector that runs has a connection, and uploads on a greeted one. *)
Running ==
  \A a \in Agents :
    /\ proc[a].st # "up" => proc[a].sock = NoConn /\ proc[a].ops = {}
    /\ proc[a].uploads =>
         /\ proc[a].sock # NoConn
         /\ conn[proc[a].sock].hubOpen => conn[proc[a].sock].greeted

(* A route is registered with an open connection of that route.             *)
Registered ==
  /\ \A k \in Conns :
       conn[k].hubOpen =>
         (conn[k].greeted <=> machines[RouteOf[conn[k].agent]] = k)
  /\ \A r \in Routes : machines[r] # NoConn =>
       conn[machines[r]].hubOpen /\ RouteOf[conn[machines[r]].agent] = r

Waiters ==
  \A x \in Calls : call[x].st = "waiting" =>
    /\ call[x].conn \in Conns /\ conn[call[x].conn].hubOpen
    /\ call[x].id <= rpcSeq
    /\ \A y \in Calls : call[y].st = "waiting" /\ call[y].id = call[x].id => x = y

(* A request or an answer under way says of which call it is, to all who    *)
(* wait for its id in this process of the controller.                       *)
Truthful(m) ==
  /\ m.boot <= boot
  /\ m.boot = boot =>
       /\ m.id <= rpcSeq
       /\ \A x \in Calls : call[x].st = "waiting" /\ call[x].id = m.id => m.call = x

Responses == [t : {"res"}, id : Nat, call : Calls, boot : Nat]

SoundOps == {m \in Requests : Truthful(m)}
SoundUp == {Hello, Inventory} \union {m \in Responses : Truthful(m)}
SoundDown(c) ==
  {m \in Downward :
     /\ m.t = "req" => Truthful(m)
     /\ m.t = "info" => (c.hubOpen => c.greeted)
     /\ m.t = "disconnect" => overtaken \/ m.by # c.agent}

Messages ==
  /\ \A k \in Conns : conn[k].up \in Seq(SoundUp) /\ conn[k].down \in Seq(SoundDown(conn[k]))
  /\ \A a \in Agents : proc[a].buffer \in Seq(SoundUp) /\ proc[a].ops \subseteq SoundOps

Stops == ~ overtaken => \A a \in Agents : proc[a].stoppedBy # a

HubInv == Types /\ Linked /\ Running /\ Registered /\ Waiters /\ Messages /\ AnswersMatch /\ Stops
-----------------------------------------------------------------------------
(* Sequences: what the steps do to buffers and connections.                 *)
LEMMA Queues ==
  ASSUME NEW S
  PROVE  /\ <<>> \in Seq(S)
         /\ \A q \in Seq(S) : \A m \in S : Append(q, m) \in Seq(S)
         /\ \A q \in Seq(S) : q # <<>> => Head(q) \in S /\ Tail(q) \in Seq(S)
         /\ \A T : S \subseteq T => Seq(S) \subseteq Seq(T)
<1>1. \A T : S \subseteq T => Seq(S) \subseteq Seq(T)
  BY SeqMonotonic
<1> QED
  BY <1>1

LEMMA Nulls == NoConn \notin Conns /\ NoAgent \notin Agents /\ NoCall \notin Calls
               /\ RouteOf \in [Agents -> Routes] /\ MaxHandlers \in Nat \ {0}
  BY HubAssumption

(* The kinds of messages.                                                   *)
LEMMA Kinds ==
  /\ Hello \in Upward /\ Inventory \in Upward /\ Info \in Downward
  /\ Responses \subseteq Upward /\ Requests \subseteq Downward
  /\ \A m \in Upward : /\ m.t = "hello" => m = Hello
                       /\ m.t = "inventory" => m = Inventory
                       /\ m.t = "res" => m \in Responses
  /\ \A m \in Downward : /\ m.t \in {"info", "req", "disconnect"}
                         /\ m.t = "req" => m \in Requests
                         /\ m.t = "disconnect" => m.by \in Agents
  BY DEF Upward, Downward, Hello, Inventory, Info, Requests, Responses

LEMMA SoundAreTyped ==
  /\ SoundOps \subseteq Requests /\ SoundUp \subseteq Upward
  /\ \A c : SoundDown(c) \subseteq Downward
  BY Kinds DEF SoundOps, SoundUp, SoundDown, Responses, Upward

LEMMA FreeTyped == Free \in Conn
  BY Queues DEF Free, Conn

(* The fields of a connection that a message sent on it leaves alone.       *)
SameEnds(c, d) ==
  /\ d.agent = c.agent /\ d.agentOpen = c.agentOpen /\ d.hubOpen = c.hubOpen
  /\ d.cut = c.cut /\ d.greeted = c.greeted

LEMMA UpSent ==
  ASSUME NEW c \in Conn, NEW S, S \subseteq Upward, c.up \in Seq(S), NEW m \in S
  PROVE  /\ Up(c, m) \in Conn /\ Up(c, m).up \in Seq(S)
         /\ SameEnds(c, Up(c, m)) /\ Up(c, m).down = c.down
<1>1. Append(c.up, m) \in Seq(S)
  BY Queues
<1>2. Append(c.up, m) \in Seq(Upward)
  BY <1>1, Queues
<1> QED
  BY <1>1, <1>2 DEF Up, Conn, SameEnds

LEMMA DownSent ==
  ASSUME NEW c \in Conn, NEW S, S \subseteq Downward, c.down \in Seq(S), NEW m \in S
  PROVE  /\ Down(c, m) \in Conn /\ Down(c, m).down \in Seq(S)
         /\ SameEnds(c, Down(c, m)) /\ Down(c, m).up = c.up
<1>1. Append(c.down, m) \in Seq(S)
  BY Queues
<1>2. Append(c.down, m) \in Seq(Downward)
  BY <1>1, Queues
<1> QED
  BY <1>1, <1>2 DEF Down, Conn, SameEnds

(* A connection that is closed at both ends is free; otherwise it stays.    *)
LEMMA SettledTyped ==
  ASSUME NEW c \in Conn
  PROVE  /\ Settled(c) \in Conn
         /\ c.agentOpen \/ c.hubOpen => Settled(c) = c
         /\ ~ (c.agentOpen \/ c.hubOpen) => Settled(c) = Free
  BY FreeTyped DEF Settled

(* What was sound stays sound.                                              *)
Grows ==
  /\ SoundOps \subseteq SoundOps' /\ SoundUp \subseteq SoundUp'
  /\ \A c, d \in Conn :
       d.agent = c.agent /\ (d.hubOpen => c.hubOpen /\ (c.greeted => d.greeted))
         => SoundDown(c) \subseteq SoundDown(d)'

(* It does while no call takes a number that was used.                      *)
LEMMA Sounder ==
  ASSUME Types, boot' \in Nat, rpcSeq' \in Nat, boot <= boot',
         boot' = boot => rpcSeq <= rpcSeq',
         boot' = boot => \A x \in Calls : call'[x].st = "waiting" =>
           \/ call[x].st = "waiting" /\ call'[x].id = call[x].id
           \/ call'[x].id > rpcSeq,
         overtaken => overtaken'
  PROVE  Grows
<1>1. ASSUME NEW m, m.id \in Nat, m.boot \in Nat, Truthful(m)
      PROVE  Truthful(m)'
  BY <1>1 DEF Truthful, Types
<1>2. \A m \in Requests \union Responses : m.id \in Nat /\ m.boot \in Nat
  BY DEF Requests, Responses
<1>3. SoundOps \subseteq SoundOps' /\ SoundUp \subseteq SoundUp'
  BY <1>1, <1>2 DEF SoundOps, SoundUp
<1>4. ASSUME NEW c \in Conn, NEW d \in Conn, d.agent = c.agent, d.hubOpen => c.hubOpen,
             d.hubOpen /\ c.greeted => d.greeted, NEW m \in SoundDown(c)
      PROVE  m \in SoundDown(d)'
  <2>1. m \in Downward /\ (m.t = "req" => m \in Requests)
    BY Kinds DEF SoundDown
  <2>2. m.t = "req" => Truthful(m)'
    BY <1>1, <1>2, <2>1 DEF SoundDown
  <2> QED
    BY <1>4, <2>1, <2>2 DEF SoundDown
<1> QED
  BY <1>3, <1>4 DEF Grows

LEMMA Unchanged ==
  ASSUME HubInv, UNCHANGED vars
  PROVE  HubInv'
<1> USE DEF HubInv, vars, hubVars
<1>1. Types' /\ Linked' /\ Running'
  BY DEF Types, Linked, Running
<1>2. Registered' /\ Waiters' /\ AnswersMatch' /\ Stops'
  BY DEF Registered, Waiters, AnswersMatch, Stops
<1>3. SoundUp' = SoundUp /\ SoundOps' = SoundOps /\ \A c : SoundDown(c)' = SoundDown(c)
  BY DEF SoundUp, SoundOps, SoundDown, Truthful
<1>4. Messages'
  BY <1>3 DEF Messages
<1> QED
  BY <1>1, <1>2, <1>4

(* What the invariant says of one connector, apart from its connection.     *)
Sound(a, p) ==
  /\ p \in Proc /\ p.buffer \in Seq(SoundUp) /\ p.ops \subseteq SoundOps
  /\ p.st # "up" => p.sock = NoConn /\ p.ops = {}
  /\ p.uploads => p.sock # NoConn
  /\ ~ overtaken => p.stoppedBy # a

(* What the hub sees of a connection stays; what is under way is sound.     *)
Kept(j) ==
  /\ conn'[j].hubOpen = conn[j].hubOpen
  /\ conn[j].hubOpen =>
       conn'[j].agent = conn[j].agent /\ conn'[j].greeted = conn[j].greeted
  /\ conn'[j].up \in Seq(SoundUp) /\ conn'[j].down \in Seq(SoundDown(conn'[j]))

(* A step of connector a, after which it is p: what has to be shown of it.  *)
LEMMA ConnectorStep ==
  ASSUME HubInv, NEW a \in Agents, NEW p \in Proc,
         proc' = [proc EXCEPT ![a] = p], UNCHANGED hubVars,
         conn' \in [Conns -> Conn],
         \A j \in Conns : Kept(j), Linked', Sound(a, p),
         p.uploads /\ conn'[p.sock].hubOpen => conn'[p.sock].greeted
  PROVE  HubInv'
<1> USE DEF HubInv, Kept, Sound
<1>1. Types'
  BY DEF Types, hubVars
<1>2. \A b \in Agents : proc'[b] = IF b = a THEN p ELSE proc[b]
  BY DEF Types
<1>3. Running'
  <2>1. \A b \in Agents : proc[b].sock # NoConn => proc[b].sock \in Conns
    BY DEF Types, Proc
  <2> QED
    BY <1>2, <2>1 DEF Running
<1>4. Registered'
  <2>1. UNCHANGED machines /\ \A r \in Routes : machines[r] # NoConn => machines[r] \in Conns
    BY DEF Types, hubVars
  <2> QED
    BY <2>1 DEF Registered
<1>5. Waiters' /\ AnswersMatch'
  BY DEF Waiters, AnswersMatch, hubVars
<1>6. SoundUp' = SoundUp /\ SoundOps' = SoundOps
      /\ \A c \in Conn : SoundDown(c)' = SoundDown(c)
  BY DEF SoundUp, SoundOps, SoundDown, Truthful, hubVars
<1>7. Messages'
  BY <1>2, <1>6 DEF Messages
<1>8. Stops'
  BY <1>2 DEF Stops, hubVars
<1> QED
  BY <1>1, <1>3, <1>4, <1>5, <1>7, <1>8

(* One connection of the hub's end, before and after a step.                *)
Succeeds(c, d) ==
  /\ d \in Conn
  /\ d = Free \/ (d.agent = c.agent /\ d.agentOpen = c.agentOpen)
  /\ c.agentOpen => d.agentOpen
  /\ d.hubOpen => c.hubOpen /\ (c.greeted => d.greeted)
  /\ d.agent = NoAgent => d = Free

LEMMA DownStays ==
  ASSUME HubInv, Grows, NEW j \in Conns, Succeeds(conn[j], conn'[j]),
         \/ conn'[j].down = <<>>
         \/ conn'[j].down = conn[j].down /\ conn'[j].agent = conn[j].agent
  PROVE  (conn[j].down \in Seq(SoundDown(conn[j])))'
<1>1. conn[j] \in Conn /\ conn[j].down \in Seq(SoundDown(conn[j]))
  BY DEF HubInv, Types, Messages
<1>2. CASE conn'[j].down = <<>>
  <2>1. <<>> \in Seq(SoundDown(conn[j])')
    BY Queues
  <2> QED
    BY <1>2, <2>1
<1>3. CASE conn'[j].down = conn[j].down /\ conn'[j].agent = conn[j].agent
  <2>1. SoundDown(conn[j]) \subseteq SoundDown(conn[j])'
    <3> DEFINE c == conn[j]
               d == conn'[j]
    <3>1. c \in Conn /\ d \in Conn /\ d.agent = c.agent /\ (d.hubOpen => c.hubOpen)
          /\ (c.greeted => d.greeted \/ ~ d.hubOpen)
      BY <1>1, <1>3 DEF Succeeds
    <3> QED
      BY <3>1 DEF Grows, SoundDown
  <2>2. Seq(SoundDown(conn[j])) \subseteq Seq(SoundDown(conn[j])')
    BY <2>1, Queues
  <2> QED
    BY <1>1, <1>3, <2>2
<1> QED
  BY <1>2, <1>3

(* A step of the hub, which changes no connector.                           *)
LEMMA HubStep ==
  ASSUME HubInv, UNCHANGED proc, Types', Grows, overtaken => overtaken',
         \A j \in Conns : Succeeds(conn[j], conn'[j]),
         \A j \in Conns :
           (conn[j].up \in Seq(SoundUp) /\ conn[j].down \in Seq(SoundDown(conn[j])))',
         Registered', Waiters', AnswersMatch'
  PROVE  HubInv'
<1> USE DEF HubInv, Succeeds, Grows
<1>1. Linked'
  <2>1. ASSUME NEW a \in Agents, NEW k \in Conns
        PROVE  proc[a].sock = k <=> conn'[k].agent = a /\ conn'[k].agentOpen
    BY Nulls DEF Linked, Free
  <2> QED
    BY <2>1 DEF Linked
<1>2. Running'
  <2>1. ASSUME NEW a \in Agents, proc[a].uploads
        PROVE  conn'[proc[a].sock].hubOpen => conn'[proc[a].sock].greeted
    BY <2>1 DEF Running, Types, Proc
  <2> QED
    BY <2>1 DEF Running
<1>3. Messages'
  <2>1. Seq(SoundUp) \subseteq Seq(SoundUp')
    BY Queues
  <2> QED
    BY <2>1 DEF Messages
<1>4. Stops'
  BY DEF Stops
<1> QED
  BY <1>1, <1>2, <1>3, <1>4

-----------------------------------------------------------------------------
(* The connector.                                                           *)
LEMMA ConnectorTyped ==
  ASSUME HubInv, NEW a \in Agents
  PROVE  /\ Sound(a, proc[a])
         /\ proc[a].sock # NoConn =>
              /\ proc[a].sock \in Conns
              /\ conn[proc[a].sock].agent = a /\ conn[proc[a].sock].agentOpen
         /\ proc[a].uploads /\ conn[proc[a].sock].hubOpen => conn[proc[a].sock].greeted
  BY DEF HubInv, Types, Messages, Running, Linked, Stops, Proc, Sound

LEMMA ConnTyped ==
  ASSUME HubInv, NEW k \in Conns
  PROVE  /\ conn[k] \in Conn
         /\ conn[k].up \in Seq(SoundUp) /\ conn[k].down \in Seq(SoundDown(conn[k]))
         /\ conn[k].agent = NoAgent => conn[k] = Free
         /\ conn[k].hubOpen => conn[k].agent \in Agents
         /\ UNCHANGED <<conn, hubVars>> => Kept(k)
  BY DEF HubInv, Types, Messages, Linked, Conn, Free, Kept

(* The connector that is not running has nothing.                           *)
LEMMA AsleepSound ==
  ASSUME NEW a \in Agents, NEW b \in Agents \union {NoAgent}, ~ overtaken => b # a
  PROVE  /\ Sound(a, Asleep) /\ Asleep.sock = NoConn /\ ~ Asleep.uploads
         /\ Sound(a, Stopped(b)) /\ Stopped(b).sock = NoConn /\ ~ Stopped(b).uploads
<1>1. Asleep \in Proc
  BY Nulls, Queues DEF Asleep, Proc
<1>2. Stopped(b) \in Proc
  BY <1>1 DEF Stopped, Proc
<1>3. <<>> \in Seq(SoundUp)
  BY Queues
<1> QED
  BY <1>1, <1>2, <1>3, Nulls DEF Sound, Asleep, Stopped

(* A step that leaves every connection to its agent, and a its own.         *)
LEMMA StaysLinked ==
  ASSUME HubInv, NEW a \in Agents, NEW p \in Proc, p.sock = proc[a].sock,
         proc' = [proc EXCEPT ![a] = p],
         \A j \in Conns : \/ conn'[j] = conn[j]
                          \/ /\ conn'[j].agent = conn[j].agent /\ conn[j].agent # NoAgent
                             /\ conn'[j].agentOpen = conn[j].agentOpen
  PROVE  Linked'
<1>1. \A b \in Agents : proc'[b].sock = proc[b].sock
  BY DEF HubInv, Types
<1> QED
  BY <1>1 DEF HubInv, Linked

LEMMA SendsKeeps ==
  ASSUME HubInv, NEW a \in Agents, NEW p \in Proc, NEW m \in SoundUp,
         p.sock = proc[a].sock, p.uploads = proc[a].uploads, Sound(a, p),
         Sends(a, p, m), UNCHANGED hubVars
  PROVE  HubInv'
<1>1. CASE p.sock = NoConn
  <2> DEFINE q == [p EXCEPT !.buffer = Append(@, m)]
  <2>1. Append(p.buffer, m) \in Seq(SoundUp)
    BY Queues DEF Sound
  <2>2. Append(p.buffer, m) \in Seq(Upward)
    BY <2>1, Queues, SoundAreTyped
  <2>3. /\ q \in Proc /\ q.buffer = Append(p.buffer, m)
        /\ q.sock = p.sock /\ q.st = p.st /\ q.uploads = p.uploads
        /\ q.stoppedBy = p.stoppedBy /\ q.ops = p.ops
    BY <2>2 DEF Proc
  <2>4. proc' = [proc EXCEPT ![a] = q] /\ UNCHANGED conn
    BY <1>1 DEF Sends
  <2> HIDE DEF q
  <2>5. Linked'
    BY <2>3, <2>4, StaysLinked
  <2>6. conn \in [Conns -> Conn]
    BY DEF HubInv, Types
  <2>7. Sound(a, q)
    BY <2>1, <2>3 DEF Sound
  <2>8. ~ q.uploads
    BY <1>1, <2>3 DEF Sound
  <2>9. \A j \in Conns : Kept(j)
    BY <2>4, ConnTyped
  <2> QED
    BY <2>3, <2>4, <2>5, <2>6, <2>7, <2>8, <2>9, ConnectorStep
<1>2. CASE p.sock # NoConn
  <2> DEFINE k == p.sock
             c == Up(conn[k], m)
  <2>1. k \in Conns /\ proc' = [proc EXCEPT ![a] = p] /\ conn' = [conn EXCEPT ![k] = c]
        /\ conn[k].agent = a
    BY <1>2, ConnectorTyped DEF Sends
  <2>2. c \in Conn /\ c.up \in Seq(SoundUp) /\ SameEnds(conn[k], c) /\ c.down = conn[k].down
    BY <2>1, UpSent, ConnTyped, SoundAreTyped
  <2>3. SoundDown(c) = SoundDown(conn[k])
    BY <2>2 DEF SoundDown, SameEnds
  <2> HIDE DEF c
  <2>4. conn \in [Conns -> Conn]
    BY DEF HubInv, Types
  <2>5. conn' \in [Conns -> Conn] /\ \A j \in Conns : conn'[j] = IF j = k THEN c ELSE conn[j]
    BY <2>1, <2>2, <2>4
  <2>6. Linked'
    BY <2>1, <2>2, <2>5, StaysLinked, Nulls DEF SameEnds
  <2>7. ASSUME NEW j \in Conns
        PROVE  Kept(j)
    BY <2>2, <2>3, <2>5, ConnTyped DEF SameEnds, Kept
  <2>8. p.uploads /\ conn'[k].hubOpen => conn'[k].greeted
    BY <2>1, <2>2, <2>5, ConnectorTyped DEF SameEnds
  <2> QED
    BY <2>1, <2>5, <2>6, <2>7, <2>8, ConnectorStep
<1> QED
  BY <1>1, <1>2

LEMMA GreetKeeps ==
  ASSUME HubInv, NEW a \in Agents, Greet(a)
  PROVE  HubInv'
<1> DEFINE p == [proc[a] EXCEPT !.hellos = @ - 1, !.publishing = TRUE]
<1>1. proc[a] \in Proc /\ Sound(a, proc[a])
  BY ConnectorTyped DEF Sound
<1>2. p \in Proc
  <2>1. proc[a].hellos \in 0 .. MaxHandlers /\ proc[a].hellos > 0
    BY <1>1 DEF Greet, Proc
  <2>2. proc[a].hellos - 1 \in 0 .. MaxHandlers
    BY <2>1, Nulls
  <2> QED
    BY <1>1, <2>2 DEF Proc
<1>3. p.sock = proc[a].sock /\ p.uploads = proc[a].uploads /\ Sound(a, p)
  BY <1>1, <1>2 DEF Sound, Proc
<1>4. Hello \in SoundUp
  BY DEF SoundUp
<1>5. Sends(a, p, Hello) /\ UNCHANGED hubVars
  BY DEF Greet
<1> HIDE DEF p
<1> QED
  BY <1>2, <1>3, <1>4, <1>5, SendsKeeps

LEMMA AnswersKeeps ==
  ASSUME HubInv, NEW a \in Agents, NEW op \in proc[a].ops, Answers(a, op)
  PROVE  HubInv'
<1> DEFINE p == [proc[a] EXCEPT !.ops = @ \ {op}]
<1>1. /\ p \in Proc /\ Sound(a, p) /\ p.sock = proc[a].sock
      /\ p.uploads = proc[a].uploads
  BY ConnectorTyped DEF Proc, Sound
<1>2. Res(op) \in SoundUp
  <2>1. op \in Requests /\ Truthful(op)
    BY ConnectorTyped DEF SoundOps, Sound
  <2>2. /\ Res(op) \in Responses /\ Res(op).id = op.id /\ Res(op).call = op.call
        /\ Res(op).boot = op.boot
    BY <2>1 DEF Res, Requests, Responses
  <2> QED
    BY <2>1, <2>2 DEF SoundUp, Truthful
<1>3. Sends(a, p, Res(op)) /\ UNCHANGED hubVars
  BY DEF Answers
<1> HIDE DEF p
<1> QED
  BY <1>1, <1>2, <1>3, SendsKeeps

LEMMA StartsKeeps ==
  ASSUME HubInv, NEW a \in Agents, Starts(a)
  PROVE  HubInv'
<1> DEFINE p == [proc[a] EXCEPT !.st = "up"]
<1>1. /\ p \in Proc /\ Sound(a, p) /\ p.sock = proc[a].sock /\ p.uploads = proc[a].uploads
  BY ConnectorTyped DEF Proc, Sound
<1>2. proc' = [proc EXCEPT ![a] = p] /\ UNCHANGED <<conn, hubVars>>
  BY DEF Starts
<1> HIDE DEF p
<1>3. Linked'
  BY <1>1, <1>2, StaysLinked
<1>4. conn \in [Conns -> Conn]
  BY DEF HubInv, Types
<1>5. \A j \in Conns : Kept(j)
  BY <1>2, ConnTyped
<1>6. p.uploads /\ conn'[p.sock].hubOpen => conn'[p.sock].greeted
  BY <1>1, <1>2, ConnectorTyped
<1> QED
  BY <1>1, <1>2, <1>3, <1>4, <1>5, <1>6, ConnectorStep

LEMMA AuthRejectedKeeps ==
  ASSUME HubInv, NEW a \in Agents, AuthRejected(a)
  PROVE  HubInv'
<1> DEFINE p == Stopped(NoAgent)
<1>1. Sound(a, p) /\ p \in Proc /\ p.sock = proc[a].sock /\ ~ p.uploads
  BY AsleepSound, Nulls DEF AuthRejected, Sound
<1>2. proc' = [proc EXCEPT ![a] = p] /\ UNCHANGED <<conn, hubVars>>
  BY DEF AuthRejected
<1> HIDE DEF p
<1>3. Linked'
  BY <1>1, <1>2, StaysLinked
<1>4. conn \in [Conns -> Conn]
  BY DEF HubInv, Types
<1>5. \A j \in Conns : Kept(j)
  BY <1>2, ConnTyped
<1> QED
  BY <1>1, <1>2, <1>3, <1>4, <1>5, ConnectorStep

LEMMA PublishKeeps ==
  ASSUME HubInv, NEW a \in Agents, PublishInventory(a)
  PROVE  HubInv'
<1> DEFINE p == proc[a]
<1>1. /\ Sound(a, p) /\ p \in Proc /\ p.sock \in Conns /\ conn[p.sock].agent = a
  BY ConnectorTyped DEF PublishInventory, Sound
<1>2. proc' = [proc EXCEPT ![a] = p]
  BY DEF PublishInventory, HubInv, Types
<1>3. Sends(a, p, Inventory) /\ UNCHANGED hubVars
  BY <1>2 DEF PublishInventory, Sends
<1>4. Inventory \in SoundUp
  BY DEF SoundUp
<1> QED
  BY <1>1, <1>3, <1>4, SendsKeeps

(* Connector a closes its connection, and is p then.                        *)
LEMMA HangsKeeps ==
  ASSUME HubInv, NEW a \in Agents, NEW p \in Proc, proc[a].sock # NoConn,
         Sound(a, p), p.sock = NoConn, Hangs(a, p), UNCHANGED hubVars
  PROVE  HubInv'
<1> DEFINE k == proc[a].sock
           d == [conn[k] EXCEPT !.agentOpen = FALSE, !.down = <<>>]
           c == Settled(d)
<1>1. k \in Conns /\ conn[k].agent = a /\ conn[k] \in Conn
      /\ conn[k].up \in Seq(SoundUp)
  BY ConnectorTyped, ConnTyped
<1>2. /\ d \in Conn /\ ~ d.agentOpen /\ d.down = <<>> /\ d.up = conn[k].up /\ d.agent = a
      /\ d.hubOpen = conn[k].hubOpen /\ d.greeted = conn[k].greeted
  BY <1>1, Queues DEF Conn
<1> HIDE DEF d
<1>3. /\ c \in Conn /\ c.hubOpen = d.hubOpen /\ ~ c.agentOpen
      /\ c.up \in Seq(SoundUp) /\ c.down = <<>>
      /\ c.hubOpen => c.agent = a /\ c.greeted = d.greeted
      /\ c.agent = NoAgent => c = Free
  <2>1. CASE d.hubOpen
    BY <1>1, <1>2, <2>1, SettledTyped, Nulls
  <2>2. CASE ~ d.hubOpen
    <3>1. c = Free /\ d.hubOpen = FALSE
      BY <1>2, <2>2, SettledTyped DEF Conn
    <3>2. <<>> \in Seq(SoundUp)
      BY Queues
    <3>3. Free.hubOpen = FALSE /\ Free.agentOpen = FALSE /\ Free.up = <<>> /\ Free.down = <<>>
      BY DEF Free
    <3> HIDE DEF c
    <3> QED
      BY <3>1, <3>2, <3>3, FreeTyped
  <2> QED
    BY <2>1, <2>2
<1> HIDE DEF c
<1>4. /\ proc' = [proc EXCEPT ![a] = p] /\ conn' = [conn EXCEPT ![k] = c]
  BY DEF Hangs, c, d
<1>5. conn \in [Conns -> Conn] /\ proc \in [Agents -> Proc]
  BY DEF HubInv, Types
<1>6. conn' \in [Conns -> Conn] /\ \A j \in Conns : conn'[j] = IF j = k THEN c ELSE conn[j]
  BY <1>1, <1>3, <1>4, <1>5
<1>7. Linked'
  <2>1. ASSUME NEW b \in Agents, NEW j \in Conns
        PROVE  proc'[b].sock = j <=> conn'[j].agent = b /\ conn'[j].agentOpen
    BY <1>1, <1>3, <1>4, <1>5, <1>6, Nulls DEF HubInv, Linked
  <2>2. ASSUME NEW j \in Conns, conn'[j].agent = NoAgent
        PROVE  conn'[j] = Free
    BY <1>3, <1>6, <2>2, ConnTyped
  <2> QED
    BY <2>1, <2>2 DEF Linked
<1>8. ASSUME NEW j \in Conns
      PROVE  Kept(j)
  <2>1. <<>> \in Seq(SoundDown(c))
    BY Queues
  <2> QED
    BY <1>1, <1>2, <1>3, <1>6, <2>1, ConnTyped DEF Kept
<1>9. ~ p.uploads
  BY DEF Sound
<1> QED
  BY <1>4, <1>6, <1>7, <1>8, <1>9, ConnectorStep

LEMMA LostKeeps ==
  ASSUME HubInv, NEW a \in Agents, proc[a].sock # NoConn, Hangs(a, Lost(proc[a])),
         UNCHANGED hubVars
  PROVE  HubInv'
<1>1. Sound(a, proc[a]) /\ proc[a] \in Proc
  BY ConnectorTyped DEF Sound
<1>2. Lost(proc[a]) \in Proc /\ Sound(a, Lost(proc[a])) /\ Lost(proc[a]).sock = NoConn
  BY <1>1 DEF Lost, Proc, Sound
<1> QED
  BY <1>2, HangsKeeps

LEMMA AgentEndsKeeps ==
  ASSUME HubInv, NEW a \in Agents, AgentEnds(a)
  PROVE  HubInv'
<1>1. Sound(a, Asleep) /\ Asleep \in Proc /\ Asleep.sock = NoConn /\ ~ Asleep.uploads
  BY AsleepSound, Nulls DEF Sound
<1>2. CASE proc[a].sock # NoConn
  BY <1>1, <1>2, HangsKeeps DEF AgentEnds, Hangs
<1>3. CASE proc[a].sock = NoConn
  <2>1. proc' = [proc EXCEPT ![a] = Asleep] /\ UNCHANGED <<conn, hubVars>>
    BY <1>3 DEF AgentEnds
  <2>2. Linked'
    BY <1>1, <1>3, <2>1, StaysLinked
  <2>3. conn \in [Conns -> Conn]
    BY DEF HubInv, Types
  <2>4. \A j \in Conns : Kept(j)
    BY <2>1, ConnTyped
  <2> QED
    BY <1>1, <2>1, <2>2, <2>3, <2>4, ConnectorStep
<1> QED
  BY <1>2, <1>3

LEMMA ConnectKeeps ==
  ASSUME HubInv, NEW a \in Agents, Connect(a)
  PROVE  HubInv'
<1> DEFINE k == CHOOSE k \in Unused : TRUE
           c == Opened(a)
           p == [proc[a] EXCEPT !.sock = k, !.buffer = <<>>, !.hellos = @ + 1]
<1>1. k \in Conns /\ conn[k] = Free
  BY DEF Connect, Unused
<1>2. proc[a] \in Proc /\ Sound(a, proc[a]) /\ proc[a].st = "up" /\ proc[a].sock = NoConn
      /\ ~ proc[a].uploads
  BY ConnectorTyped DEF Sound, Connect
<1>3. /\ conn' = [conn EXCEPT ![k] = c] /\ proc' = [proc EXCEPT ![a] = p]
      /\ UNCHANGED hubVars
  BY DEF Connect
<1> HIDE DEF k
<1>4. /\ c \in Conn /\ c.agent = a /\ c.agentOpen /\ c.hubOpen /\ ~ c.greeted
      /\ c.up = proc[a].buffer /\ c.down = <<>>
  BY <1>2, Queues DEF Opened, Free, Conn, Proc
<1>5. proc[a].hellos + 1 \in 0 .. MaxHandlers
  <2>1. proc[a].hellos \in 0 .. MaxHandlers
    BY <1>2 DEF Proc
  <2>2. proc[a].hellos < MaxHandlers
    BY DEF Connect
  <2> QED
    BY <2>1, <2>2, Nulls
<1>6. p \in Proc /\ Sound(a, p) /\ p.sock = k /\ ~ p.uploads
  BY <1>1, <1>2, <1>5, Queues DEF Sound, Proc
<1> HIDE DEF c, p
<1>7. conn \in [Conns -> Conn] /\ proc \in [Agents -> Proc]
  BY DEF HubInv, Types
<1>8. /\ \A j \in Conns : conn'[j] = IF j = k THEN c ELSE conn[j]
      /\ \A b \in Agents : proc'[b] = IF b = a THEN p ELSE proc[b]
  BY <1>1, <1>3, <1>7
<1>9. ~ conn[k].agentOpen /\ ~ conn[k].hubOpen
  BY <1>1 DEF Free
<1>10. \A b \in Agents : proc[b].sock # k
  BY <1>1, <1>9 DEF HubInv, Linked
<1>11. \A r \in Routes : machines[r] # k
  BY <1>1, <1>9, Nulls DEF HubInv, Registered
<1>12. Types'
  BY <1>1, <1>3, <1>4, <1>6, <1>7 DEF HubInv, Types, hubVars
<1>13. Linked'
  <2>1. ASSUME NEW b \in Agents, NEW j \in Conns
        PROVE  proc'[b].sock = j <=> conn'[j].agent = b /\ conn'[j].agentOpen
    BY <1>1, <1>2, <1>4, <1>6, <1>8, <1>10, Nulls DEF HubInv, Linked
  <2>2. ASSUME NEW j \in Conns, conn'[j].agent = NoAgent
        PROVE  conn'[j] = Free
    BY <1>4, <1>8, <2>2, ConnTyped, Nulls
  <2> QED
    BY <2>1, <2>2 DEF Linked
<1>14. Running'
  BY <1>2, <1>6, <1>8, <1>10, ConnectorTyped DEF Running, HubInv, Sound
<1>15. Registered'
  <2>1. \A r \in Routes : machines[r] # NoConn => machines[r] \in Conns
    BY DEF HubInv, Types
  <2>2. RouteOf[a] \in Routes
    BY Nulls
  <2>3. UNCHANGED machines
    BY <1>3 DEF hubVars
  <2> QED
    BY <1>4, <1>8, <1>11, <2>1, <2>2, <2>3 DEF HubInv, Registered
<1>16. Waiters' /\ AnswersMatch'
  <2>1. UNCHANGED <<call, rpcSeq, boot>>
    BY <1>3 DEF hubVars
  <2> QED
    BY <1>8, <1>9, <2>1 DEF HubInv, Waiters, AnswersMatch
<1>17. Messages'
  <2>1. /\ SoundUp' = SoundUp /\ SoundOps' = SoundOps
        /\ \A d \in Conn : SoundDown(d)' = SoundDown(d)
    BY <1>3 DEF SoundUp, SoundOps, SoundDown, Truthful, hubVars
  <2>2. ASSUME NEW j \in Conns
        PROVE  conn'[j].up \in Seq(SoundUp) /\ conn'[j].down \in Seq(SoundDown(conn'[j]))
    <3>1. <<>> \in Seq(SoundDown(c))
      BY Queues
    <3> QED
      BY <1>2, <1>4, <1>8, <3>1, ConnTyped DEF Sound
  <2>3. ASSUME NEW b \in Agents
        PROVE  proc'[b].buffer \in Seq(SoundUp) /\ proc'[b].ops \subseteq SoundOps
    BY <1>6, <1>8, ConnectorTyped DEF Sound
  <2>4. \A j \in Conns : conn'[j] \in Conn
    BY <1>12 DEF Types
  <2> QED
    BY <2>1, <2>2, <2>3, <2>4 DEF Messages
<1>18. Stops'
  BY <1>3, <1>6, <1>8 DEF HubInv, Stops, Sound, hubVars
<1> QED
  BY <1>12, <1>13, <1>14, <1>15, <1>16, <1>17, <1>18 DEF HubInv

LEMMA AgentReceivesKeeps ==
  ASSUME HubInv, NEW a \in Agents, AgentReceives(a)
  PROVE  HubInv'
<1> DEFINE k == proc[a].sock
           m == Head(conn[k].down)
           c == [conn[k] EXCEPT !.down = Tail(@)]
<1>1. /\ k # NoConn /\ k \in Conns /\ conn[k].agent = a /\ conn[k].agentOpen
      /\ conn[k].down # <<>> /\ UNCHANGED hubVars
  BY ConnectorTyped DEF AgentReceives
<1>2. proc[a] \in Proc /\ Sound(a, proc[a]) /\ proc[a].st = "up"
  BY <1>1, ConnectorTyped DEF Sound
<1>3. conn[k] \in Conn /\ conn[k].down \in Seq(SoundDown(conn[k]))
      /\ conn[k].up \in Seq(SoundUp)
  BY <1>1, ConnTyped
<1>4. m \in SoundDown(conn[k]) /\ Tail(conn[k].down) \in Seq(SoundDown(conn[k]))
  BY <1>1, <1>3, Queues
<1>5. m \in Downward /\ (m.t = "req" => m \in SoundOps)
      /\ (m.t = "info" => (conn[k].hubOpen => conn[k].greeted))
      /\ (m.t = "disconnect" => m.by \in Agents /\ (~ overtaken => m.by # a))
  BY <1>1, <1>4, Kinds DEF SoundDown, SoundOps
<1>6. Tail(conn[k].down) \in Seq(Downward)
  <2>1. SoundDown(conn[k]) \subseteq Downward
    BY SoundAreTyped
  <2>2. Seq(SoundDown(conn[k])) \subseteq Seq(Downward)
    BY <2>1, Queues
  <2> QED
    BY <1>4, <2>2
<1>7. /\ c \in Conn /\ SameEnds(conn[k], c) /\ c.up = conn[k].up
      /\ c.down = Tail(conn[k].down)
  BY <1>3, <1>6 DEF Conn, SameEnds
<1>8. SoundDown(c) = SoundDown(conn[k])
  BY <1>7 DEF SoundDown, SameEnds
<1>9. conn \in [Conns -> Conn] /\ proc \in [Agents -> Proc]
  BY DEF HubInv, Types
<1>10. ASSUME NEW p \in Proc, Sound(a, p), p.sock = k, proc' = [proc EXCEPT ![a] = p],
              conn' = [conn EXCEPT ![k] = c],
              p.uploads => proc[a].uploads \/ m.t = "info"
       PROVE  HubInv'
  <2> HIDE DEF c, m
  <2>1. conn' \in [Conns -> Conn] /\ \A j \in Conns : conn'[j] = IF j = k THEN c ELSE conn[j]
    BY <1>1, <1>7, <1>9, <1>10
  <2>2. Linked'
    BY <1>1, <1>7, <1>10, <2>1, StaysLinked, Nulls DEF SameEnds
  <2>3. ASSUME NEW j \in Conns
        PROVE  Kept(j)
    BY <1>3, <1>4, <1>7, <1>8, <2>1, ConnTyped DEF SameEnds, Kept
  <2>4. p.uploads /\ conn'[k].hubOpen => conn'[k].greeted
    BY <1>1, <1>5, <1>7, <1>10, <2>1, ConnectorTyped DEF SameEnds
  <2> QED
    BY <1>1, <1>10, <2>1, <2>2, <2>3, <2>4, ConnectorStep
<1>11. [conn EXCEPT ![k].down = Tail(@)] = [conn EXCEPT ![k] = c]
  BY <1>1, <1>9
<1>12. CASE m.t = "info" /\ proc' = [proc EXCEPT ![a].uploads = TRUE]
            /\ conn' = [conn EXCEPT ![k].down = Tail(@)]
  <2> DEFINE p == [proc[a] EXCEPT !.uploads = TRUE]
  <2>1. p \in Proc /\ Sound(a, p) /\ p.sock = k
    BY <1>1, <1>2 DEF Proc, Sound
  <2>2. proc' = [proc EXCEPT ![a] = p]
    BY <1>9, <1>12
  <2> HIDE DEF p
  <2> QED
    BY <1>10, <1>11, <1>12, <2>1, <2>2
<1>13. CASE m.t = "req" /\ proc' = [proc EXCEPT ![a].ops = @ \union {m}]
            /\ conn' = [conn EXCEPT ![k].down = Tail(@)]
  <2> DEFINE p == [proc[a] EXCEPT !.ops = @ \union {m}]
  <2>1. p \in Proc /\ Sound(a, p) /\ p.sock = k /\ p.uploads = proc[a].uploads
    BY <1>1, <1>2, <1>5, <1>13, SoundAreTyped DEF Proc, Sound
  <2>2. proc' = [proc EXCEPT ![a] = p]
    BY <1>9, <1>13
  <2> HIDE DEF p
  <2> QED
    BY <1>10, <1>11, <1>13, <2>1, <2>2
<1>14. CASE m.t = "disconnect" /\ Hangs(a, Stopped(m.by))
  <2> DEFINE p == Stopped(m.by)
  <2>1. Sound(a, p) /\ p \in Proc /\ p.sock = NoConn
    BY <1>5, <1>14, AsleepSound DEF Sound
  <2> HIDE DEF p
  <2>2. Hangs(a, p)
    BY <1>14 DEF p
  <2> QED
    BY <1>1, <2>1, <2>2, HangsKeeps
<1> QED
  BY <1>12, <1>13, <1>14 DEF AgentReceives

-----------------------------------------------------------------------------
(* The hub.  A connection that is closed at the hub: what is left of it.    *)
Closed(k) == Settled([conn[k] EXCEPT !.hubOpen = FALSE, !.up = <<>>])

(* What closes at the hub: c is the connection, or what it becomes when the *)
(* connector has been told.                                                 *)
LEMMA Closes ==
  ASSUME HubInv, NEW k \in Conns, NEW c \in Conn, conn[k].agent # NoAgent,
         c.agent = conn[k].agent, c.agentOpen = conn[k].agentOpen,
         c.greeted = conn[k].greeted
  PROVE  LET d == Settled([c EXCEPT !.hubOpen = FALSE, !.up = <<>>])
         IN /\ Succeeds(conn[k], d) /\ ~ d.hubOpen /\ d.up = <<>>
            /\ d.down = <<>> \/ (d.down = c.down /\ d.agent = c.agent)
<1> DEFINE b == [c EXCEPT !.hubOpen = FALSE, !.up = <<>>]
           d == Settled(b)
<1>1. /\ b \in Conn /\ b.hubOpen = FALSE /\ b.up = <<>> /\ b.down = c.down
      /\ b.agent = c.agent /\ b.agentOpen = c.agentOpen /\ b.greeted = c.greeted
  BY Queues DEF Conn
<1> HIDE DEF b
<1>2. /\ d \in Conn /\ (b.agentOpen => d = b) /\ (~ b.agentOpen => d = Free)
  BY <1>1, SettledTyped
<1> HIDE DEF d
<1>3. Free.hubOpen = FALSE /\ Free.up = <<>> /\ Free.down = <<>>
  BY DEF Free
<1>4. /\ Succeeds(conn[k], d) /\ ~ d.hubOpen /\ d.up = <<>>
      /\ d.down = <<>> \/ (d.down = c.down /\ d.agent = c.agent)
  <2>1. CASE b.agentOpen
    BY <1>1, <1>2, <2>1 DEF Succeeds
  <2>2. CASE ~ b.agentOpen
    <3>1. d = Free /\ ~ d.hubOpen /\ d.up = <<>> /\ d.down = <<>>
      BY <1>2, <1>3, <2>2
    <3>2. ~ conn[k].agentOpen
      BY <1>1, <2>2
    <3>3. d.hubOpen => conn[k].hubOpen /\ (conn[k].greeted => d.greeted)
      BY <3>1
    <3>4. Succeeds(conn[k], d)
      BY <1>2, <3>1, <3>2, <3>3 DEF Succeeds
    <3> QED
      BY <3>1, <3>4
  <2> QED
    BY <2>1, <2>2
<1> QED
  BY <1>4 DEF d, b

(* Failing the calls that wait on connections that are closed.              *)
LEMMA WaitersFailed ==
  ASSUME HubInv, NEW ks \in SUBSET Conns, FailWaiters(ks), UNCHANGED <<rpcSeq, boot>>,
         \A j \in Conns : j \notin ks /\ conn[j].hubOpen => conn'[j].hubOpen
  PROVE  /\ Waiters' /\ AnswersMatch' /\ call' \in [Calls -> Call]
         /\ \A x \in Calls : call'[x].st = "waiting" => call'[x] = call[x]
<1>1. Failed \in Call /\ Failed.st = "failed"
  BY DEF Failed, Unanswered, Call
<1>2. call \in [Calls -> Call]
  BY DEF HubInv, Types
<1>3. call' \in [Calls -> Call]
  BY <1>1, <1>2 DEF FailWaiters
<1>4. \A x \in Calls : call'[x] = call[x] \/ call'[x] = Failed
  BY DEF FailWaiters
<1>5. \A x \in Calls : call'[x].st = "waiting" =>
        call'[x] = call[x] /\ call[x].conn \notin ks
  BY <1>1, <1>4 DEF FailWaiters, Waiting
<1>6. Waiters'
  BY <1>5 DEF HubInv, Waiters
<1>7. AnswersMatch'
  BY <1>1, <1>4 DEF HubInv, AnswersMatch
<1> QED
  BY <1>3, <1>5, <1>6, <1>7

LEMMA HubClosesKeeps ==
  ASSUME HubInv, NEW k \in Conns, conn[k].hubOpen, HubCloses(k)
  PROVE  HubInv'
<1> DEFINE d == Closed(k)
           r == RouteOf[conn[k].agent]
<1>1. conn[k] \in Conn /\ conn[k].agent \in Agents /\ r \in Routes
  BY ConnTyped, Nulls
<1>2. /\ Succeeds(conn[k], d) /\ ~ d.hubOpen /\ d.up = <<>>
      /\ d.down = <<>> \/ (d.down = conn[k].down /\ d.agent = conn[k].agent)
  BY <1>1, Closes, Nulls DEF Closed
<1>3. conn \in [Conns -> Conn]
  BY DEF HubInv, Types
<1>4. conn' = [conn EXCEPT ![k] = d]
  BY DEF HubCloses, Closed
<1> HIDE DEF d
<1>5. /\ conn' \in [Conns -> Conn]
      /\ \A j \in Conns : conn'[j] = IF j = k THEN d ELSE conn[j]
  BY <1>2, <1>3, <1>4 DEF Succeeds
<1>6. FailWaiters({k}) /\ UNCHANGED <<rpcSeq, boot>> /\ UNCHANGED overtaken /\ UNCHANGED proc
  BY DEF HubCloses
<1>7. /\ Waiters' /\ AnswersMatch' /\ call' \in [Calls -> Call]
      /\ \A x \in Calls : call'[x].st = "waiting" => call'[x] = call[x]
  BY <1>5, <1>6, WaitersFailed
<1>8. /\ machines' \in [Routes -> Conns \union {NoConn}] /\ inventory' \subseteq Routes
      /\ \A q \in Routes : machines'[q] = IF machines[q] = k /\ q = r THEN NoConn ELSE machines[q]
  BY <1>1 DEF HubInv, Types, HubCloses, Drop
<1>9. Types'
  BY <1>5, <1>6, <1>7, <1>8 DEF HubInv, Types
<1>10. Registered'
  <2>1. \A q \in Routes : machines'[q] # k /\ (machines'[q] # NoConn => machines'[q] = machines[q])
    BY <1>1, <1>8, Nulls DEF HubInv, Registered
  <2>2. \A q \in Routes : machines'[q] # NoConn => machines'[q] \in Conns
    BY <1>8
  <2>3. ASSUME NEW j \in Conns, conn'[j].hubOpen
        PROVE  conn'[j].greeted <=> machines'[RouteOf[conn'[j].agent]] = j
    <3>1. j # k /\ conn'[j] = conn[j]
      BY <1>2, <1>5, <2>3
    <3>2. RouteOf[conn[j].agent] \in Routes
      BY <2>3, <3>1, ConnTyped, Nulls
    <3> QED
      BY <1>8, <2>3, <3>1, <3>2, Nulls DEF HubInv, Registered
  <2>4. \A q \in Routes : machines'[q] # NoConn =>
          conn'[machines'[q]].hubOpen /\ RouteOf[conn'[machines'[q]].agent] = q
    BY <1>5, <2>1, <2>2 DEF HubInv, Registered
  <2> QED
    BY <2>3, <2>4 DEF Registered
<1>11. Grows
  BY <1>6, <1>7, Sounder DEF HubInv, Types
<1>12. \A j \in Conns : Succeeds(conn[j], conn'[j])
  BY <1>2, <1>5, ConnTyped DEF Succeeds
<1>13. ASSUME NEW j \in Conns
       PROVE  (conn[j].up \in Seq(SoundUp) /\ conn[j].down \in Seq(SoundDown(conn[j])))'
  <2>1. Seq(SoundUp) \subseteq Seq(SoundUp') /\ <<>> \in Seq(SoundUp')
    BY <1>11, Queues DEF Grows
  <2>2. conn'[j].up \in Seq(SoundUp')
    BY <1>2, <1>5, <2>1, ConnTyped
  <2>3. (conn[j].down \in Seq(SoundDown(conn[j])))'
    BY <1>2, <1>5, <1>11, <1>12, DownStays
  <2> QED
    BY <2>2, <2>3
<1> QED
  BY <1>6, <1>7, <1>9, <1>10, <1>11, <1>12, <1>13, HubStep

(* A step that leaves the connections as they are.                          *)
LEMMA CallsStep ==
  ASSUME HubInv, UNCHANGED <<conn, proc, machines, inventory, rpcSeq, boot, overtaken>>,
         call' \in [Calls -> Call], AnswersMatch',
         \A x \in Calls : call'[x].st = "waiting" => call'[x] = call[x]
  PROVE  HubInv'
<1>1. Types' /\ Registered' /\ Waiters'
  BY DEF HubInv, Types, Registered, Waiters
<1>2. Grows
  BY Sounder DEF HubInv, Types
<1>3. ASSUME NEW j \in Conns
      PROVE  Succeeds(conn[j], conn'[j])
  BY ConnTyped DEF Succeeds
<1>4. ASSUME NEW j \in Conns
      PROVE  (conn[j].up \in Seq(SoundUp) /\ conn[j].down \in Seq(SoundDown(conn[j])))'
  <2>1. Seq(SoundUp) \subseteq Seq(SoundUp')
    BY <1>2, Queues DEF Grows
  <2>2. (conn[j].down \in Seq(SoundDown(conn[j])))'
    BY <1>2, <1>3, DownStays
  <2> QED
    BY <2>1, <2>2, ConnTyped
<1> QED
  BY <1>1, <1>2, <1>3, <1>4, HubStep

LEMMA TimesOutKeeps ==
  ASSUME HubInv, NEW x \in Calls, TimesOut(x)
  PROVE  HubInv'
<1>1. Failed \in Call /\ Failed.st = "failed"
  BY DEF Failed, Unanswered, Call
<1>2. call \in [Calls -> Call] /\ call' = [call EXCEPT ![x] = Failed]
  BY DEF HubInv, Types, TimesOut
<1>3. call' \in [Calls -> Call] /\ \A y \in Calls : call'[y] = call[y] \/ call'[y] = Failed
  BY <1>1, <1>2
<1>4. AnswersMatch'
  BY <1>1, <1>3 DEF HubInv, AnswersMatch, TimesOut
<1>5. \A y \in Calls : call'[y].st = "waiting" => call'[y] = call[y]
  BY <1>1, <1>3
<1> QED
  BY <1>3, <1>4, <1>5, CallsStep DEF TimesOut

(* A step that changes one connection and leaves its ends as they are.      *)
LEMMA OneConnStep ==
  ASSUME HubInv, Types', Grows, NEW k \in Conns, conn[k].agent # NoAgent, NEW c \in Conn,
         conn' = [conn EXCEPT ![k] = c],
         c.agent = conn[k].agent, c.agentOpen = conn[k].agentOpen,
         c.hubOpen = conn[k].hubOpen, c.greeted = conn[k].greeted,
         c.up \in Seq(SoundUp)', c.down \in Seq(SoundDown(c)'),
         UNCHANGED <<proc, machines>>, overtaken => overtaken',
         Waiters', AnswersMatch'
  PROVE  HubInv'
<1>1. conn \in [Conns -> Conn]
  BY DEF HubInv, Types
<1>2. \A j \in Conns : conn'[j] = IF j = k THEN c ELSE conn[j]
  BY <1>1
<1>3. ASSUME NEW j \in Conns
      PROVE  Succeeds(conn[j], conn'[j])
  BY <1>2, ConnTyped DEF Succeeds
<1>4. ASSUME NEW j \in Conns
      PROVE  (conn[j].up \in Seq(SoundUp) /\ conn[j].down \in Seq(SoundDown(conn[j])))'
  <2>1. CASE j = k
    BY <1>2, <2>1
  <2>2. CASE j # k
    <3>1. conn'[j] = conn[j]
      BY <1>2, <2>2
    <3>2. Seq(SoundUp) \subseteq Seq(SoundUp')
      BY Queues DEF Grows
    <3>3. (conn[j].down \in Seq(SoundDown(conn[j])))'
      BY <1>3, <3>1, DownStays
    <3> QED
      BY <3>1, <3>2, <3>3, ConnTyped
  <2> QED
    BY <2>1, <2>2
<1>5. Registered'
  <2>1. \A q \in Routes : machines[q] # NoConn => machines[q] \in Conns
    BY DEF HubInv, Types
  <2> QED
    BY <1>2, <2>1 DEF HubInv, Registered
<1> QED
  BY <1>3, <1>4, <1>5, HubStep

LEMMA CutKeeps ==
  ASSUME HubInv, NEW k \in Conns, Cut(k)
  PROVE  HubInv'
<1>1. conn[k] \in Conn /\ conn[k].agent \in Agents
  BY ConnTyped DEF Cut
<1> PICK c \in Conn : c = [conn[k] EXCEPT !.cut = TRUE, !.up = <<>>, !.down = <<>>]
  BY <1>1, Queues DEF Conn
<1>2. /\ c.up = <<>> /\ c.down = <<>>
      /\ c.agent = conn[k].agent /\ c.agentOpen = conn[k].agentOpen
      /\ c.hubOpen = conn[k].hubOpen /\ c.greeted = conn[k].greeted
  BY <1>1 DEF Conn
<1>3. conn \in [Conns -> Conn]
  BY DEF HubInv, Types
<1>4. conn' = [conn EXCEPT ![k] = c]
  BY <1>1, <1>3 DEF Cut
<1>5. Types'
  BY <1>2, <1>3, <1>4 DEF HubInv, Types, Cut, hubVars
<1>6. Grows
  BY Sounder DEF HubInv, Types, Cut, hubVars
<1>7. Waiters' /\ AnswersMatch'
  <2>1. \A j \in Conns : conn'[j].hubOpen = conn[j].hubOpen
    BY <1>2, <1>3, <1>4
  <2> QED
    BY <2>1 DEF HubInv, Waiters, AnswersMatch, Cut, hubVars
<1>8. c.up \in Seq(SoundUp') /\ c.down \in Seq(SoundDown(c)')
  BY <1>2, Queues
<1>9. UNCHANGED <<proc, machines, overtaken>>
  BY DEF Cut, hubVars
<1> QED
  BY <1>1, <1>2, <1>4, <1>5, <1>6, <1>7, <1>8, <1>9, Nulls, OneConnStep

(* The hub has read one message, which is no HELLO.                         *)
LEMMA ReadKeeps ==
  ASSUME HubInv, NEW k \in Conns, conn[k].hubOpen, conn[k].up # <<>>,
         conn' = [conn EXCEPT ![k].up = Tail(@)], inventory' \subseteq Routes,
         UNCHANGED <<proc, machines, rpcSeq, boot, overtaken>>,
         call' \in [Calls -> Call], AnswersMatch',
         \A x \in Calls : call'[x].st = "waiting" => call'[x] = call[x]
  PROVE  HubInv'
<1>1. /\ conn[k] \in Conn /\ conn[k].agent \in Agents /\ conn[k].up \in Seq(SoundUp)
      /\ conn[k].down \in Seq(SoundDown(conn[k]))
  BY ConnTyped
<1>2. Tail(conn[k].up) \in Seq(SoundUp) /\ Tail(conn[k].up) \in Seq(Upward)
  BY <1>1, Queues, SoundAreTyped
<1> PICK c \in Conn : c = [conn[k] EXCEPT !.up = Tail(@)]
  BY <1>1, <1>2 DEF Conn
<1>3. /\ c.up = Tail(conn[k].up) /\ c.down = conn[k].down
      /\ c.agent = conn[k].agent /\ c.agentOpen = conn[k].agentOpen
      /\ c.hubOpen = conn[k].hubOpen /\ c.greeted = conn[k].greeted
  BY <1>1 DEF Conn
<1>4. conn \in [Conns -> Conn]
  BY DEF HubInv, Types
<1>5. conn' = [conn EXCEPT ![k] = c]
  BY <1>4
<1>6. Types'
  BY <1>4, <1>5 DEF HubInv, Types
<1>7. Grows
  BY Sounder DEF HubInv, Types
<1>8. Waiters'
  <2>1. \A j \in Conns : conn'[j].hubOpen = conn[j].hubOpen
    BY <1>3, <1>4, <1>5
  <2> QED
    BY <2>1 DEF HubInv, Waiters
<1>9. c.up \in Seq(SoundUp')
  BY <1>2, <1>3, <1>7, Queues DEF Grows
<1>10. c.down \in Seq(SoundDown(c)')
  <2>1. SoundDown(conn[k]) \subseteq SoundDown(c)'
    BY <1>1, <1>3, <1>7 DEF Grows
  <2>2. Seq(SoundDown(conn[k])) \subseteq Seq(SoundDown(c)')
    BY <2>1, Queues
  <2> QED
    BY <1>1, <1>3, <2>2
<1> QED
  BY <1>1, <1>3, <1>5, <1>6, <1>7, <1>8, <1>9, <1>10, Nulls, OneConnStep

LEMMA InventoryKeeps ==
  ASSUME HubInv, NEW k \in Conns, conn[k].hubOpen, conn[k].up # <<>>,
         inventory' = IF machines[RouteOf[conn[k].agent]] = k
                      THEN inventory \union {RouteOf[conn[k].agent]} ELSE inventory,
         conn' = [conn EXCEPT ![k].up = Tail(@)],
         UNCHANGED <<proc, machines, call, rpcSeq, boot, overtaken>>
  PROVE  HubInv'
<1>1. conn[k].agent \in Agents /\ RouteOf[conn[k].agent] \in Routes
  BY ConnTyped, Nulls
<1>2. inventory \subseteq Routes /\ call \in [Calls -> Call] /\ AnswersMatch
  BY DEF HubInv, Types
<1>3. inventory' \subseteq Routes
  BY <1>1, <1>2
<1>4. AnswersMatch'
  BY <1>2 DEF AnswersMatch
<1> QED
  BY <1>2, <1>3, <1>4, ReadKeeps

(* An answer names the call that waits for its id, unless an earlier        *)
(* controller asked for it.                                                 *)
LEMMA ResolveKeeps ==
  ASSUME HubInv, NEW k \in Conns, conn[k].hubOpen, conn[k].up # <<>>,
         Head(conn[k].up).t = "res", Resolve(k, Head(conn[k].up)),
         conn' = [conn EXCEPT ![k].up = Tail(@)],
         UNCHANGED <<proc, machines, inventory, rpcSeq, boot, overtaken>>
  PROVE  HubInv'
<1> DEFINE m == Head(conn[k].up)
           answer == [Unanswered EXCEPT !.st = "answered", !.to = m.call, !.boot = m.boot]
<1>1. m \in SoundUp
  BY ConnTyped, Queues
<1>2. m \in Responses /\ Truthful(m)
  BY <1>1 DEF SoundUp, Hello, Inventory
<1>3. m.id \in Nat /\ m.call \in Calls /\ m.boot \in Nat
  BY <1>2 DEF Responses
<1>4. answer \in Call /\ answer.st = "answered" /\ answer.to = m.call /\ answer.boot = m.boot
  BY <1>3 DEF Unanswered, Call
<1>5. call \in [Calls -> Call] /\ inventory' \subseteq Routes /\ boot \in Nat
  BY DEF HubInv, Types
<1>6. \A x \in Calls : \/ call'[x] = call[x]
                       \/ call'[x] = answer /\ call[x].st = "waiting" /\ call[x].id = m.id
  BY DEF Resolve, Waiting
<1>7. call' \in [Calls -> Call]
  BY <1>4, <1>5 DEF Resolve
<1> HIDE DEF answer, m
<1>8. AnswersMatch'
  <2>1. ASSUME NEW x \in Calls, call'[x].st = "answered"
        PROVE  call'[x].to = x \/ call'[x].boot < boot
    <3>1. CASE call'[x] = call[x]
      BY <2>1, <3>1 DEF HubInv, AnswersMatch
    <3>2. CASE call'[x] = answer /\ call[x].st = "waiting" /\ call[x].id = m.id
      <4>1. m.boot = boot => m.call = x
        BY <1>2, <3>2 DEF Truthful
      <4>2. m.boot = boot \/ m.boot < boot
        BY <1>2, <1>3, <1>5 DEF Truthful
      <4> QED
        BY <1>4, <3>2, <4>1, <4>2
    <3> QED
      BY <1>6, <3>1, <3>2
  <2> QED
    BY <2>1 DEF AnswersMatch
<1>9. \A x \in Calls : call'[x].st = "waiting" => call'[x] = call[x]
  BY <1>4, <1>6
<1> QED
  BY <1>5, <1>7, <1>8, <1>9, ReadKeeps

LEMMA AskKeeps ==
  ASSUME HubInv, NEW r \in Routes, Ask(r)
  PROVE  HubInv'
<1> PICK x \in Calls : x = (CHOOSE y \in Unasked : TRUE) /\ call[x].st = "idle"
  BY DEF Ask, Unasked
<1>1. call \in [Calls -> Call] /\ rpcSeq \in Nat /\ boot \in Nat /\ conn \in [Conns -> Conn]
  BY DEF HubInv, Types
<1>2. UNCHANGED <<proc, machines, inventory, boot, overtaken>>
  BY DEF Ask
<1>3. CASE machines[r] = NoConn /\ call' = [call EXCEPT ![x].st = "offline"]
           /\ UNCHANGED <<conn, rpcSeq>>
  <2>1. \A y \in Calls : y # x => call'[y] = call[y]
    BY <1>1, <1>3
  <2>2. call'[x] = [call[x] EXCEPT !.st = "offline"]
    BY <1>1, <1>3
  <2>3. call[x] \in Call
    BY <1>1
  <2>4. call'[x] \in Call /\ call'[x].st = "offline"
    <3>1. \A d \in Call : /\ [d EXCEPT !.st = "offline"] \in Call
                         /\ [d EXCEPT !.st = "offline"].st = "offline"
      BY DEF Call
    <3> QED
      BY <2>2, <2>3, <3>1
  <2>5. call' \in [Calls -> Call]
    BY <1>1, <1>3, <2>1, <2>4
  <2>6. AnswersMatch'
    BY <1>2, <2>1, <2>4 DEF HubInv, AnswersMatch
  <2>7. \A y \in Calls : call'[y].st = "waiting" => call'[y] = call[y]
    BY <2>1, <2>4
  <2> QED
    BY <1>2, <1>3, <2>5, <2>6, <2>7, CallsStep
<1>4. CASE /\ machines[r] # NoConn /\ rpcSeq' = NextId
           /\ call' = [call EXCEPT ![x].st = "waiting", ![x].conn = machines[r],
                                   ![x].id = NextId]
           /\ conn' = [conn EXCEPT ![machines[r]] = Down(@, Req(NextId, x))]
  <2> PICK k \in Conns : k = machines[r]
    BY <1>4 DEF HubInv, Types
  <2>1. conn[k].hubOpen /\ conn[k] \in Conn /\ conn[k].agent \in Agents
        /\ conn[k].up \in Seq(SoundUp) /\ conn[k].down \in Seq(SoundDown(conn[k]))
    BY <1>4, ConnTyped DEF HubInv, Registered
  <2>2. rpcSeq' = rpcSeq + 1
    BY <1>4 DEF NextId
  <2>3. \A y \in Calls : y # x => call'[y] = call[y]
    BY <1>1, <1>4
  <2>4. call'[x] = [call[x] EXCEPT !.st = "waiting", !.conn = k, !.id = rpcSeq']
    BY <1>1, <1>4
  <2>5. call[x] \in Call /\ rpcSeq' \in Nat
    BY <1>1, <2>2
  <2>6. call'[x] \in Call /\ call'[x].st = "waiting" /\ call'[x].conn = k
        /\ call'[x].id = rpcSeq'
    <3> DEFINE e(d, n) == [d EXCEPT !.st = "waiting", !.conn = k, !.id = n]
    <3>1. \A d \in Call, n \in Nat :
            /\ e(d, n) \in Call /\ e(d, n).st = "waiting"
            /\ e(d, n).conn = k /\ e(d, n).id = n
      BY DEF Call
    <3>2. call'[x] = e(call[x], rpcSeq')
      BY <2>4
    <3> HIDE DEF e
    <3> QED
      BY <2>5, <3>1, <3>2
  <2>7. call' \in [Calls -> Call]
    BY <1>1, <1>4, <2>3, <2>6
  <2>8. Grows
    <3>1. \A y \in Calls : call'[y].st = "waiting" =>
             \/ call[y].st = "waiting" /\ call'[y].id = call[y].id
             \/ call'[y].id > rpcSeq
      <4>1. call'[x].id > rpcSeq
        BY <1>1, <2>2, <2>6
      <4> QED
        BY <2>3, <4>1
    <3>2. boot' = boot /\ overtaken' = overtaken /\ rpcSeq <= rpcSeq' /\ boot <= boot'
      BY <1>1, <1>2, <2>2
    <3> QED
      BY <1>1, <2>5, <3>1, <3>2, Sounder DEF HubInv
  <2>9. AnswersMatch'
    BY <1>2, <2>3, <2>6 DEF HubInv, AnswersMatch
  <2>10. \A y \in Calls : call[y].st = "waiting" => call[y].id \in Nat /\ call[y].id < rpcSeq'
    BY <1>1, <2>2 DEF HubInv, Waiters, Call
  <2> PICK q \in Requests : q = [t |-> "req", id |-> rpcSeq', call |-> x, boot |-> boot]
    BY <1>1, <2>5 DEF Requests
  <2>11. Truthful(q)'
    <3>1. \A y \in Calls : call'[y].st = "waiting" /\ call'[y].id = rpcSeq' => y = x
      BY <2>3, <2>5, <2>10
    <3> QED
      BY <1>1, <1>2, <2>5, <3>1 DEF Truthful
  <2>12. q.t = "req" /\ q \in Downward
    BY Kinds
  <2> PICK c \in Conn : c = Down(conn[k], q)
    <3>1. conn[k].down \in Seq(Downward)
      BY <2>1 DEF Conn
    <3> QED
      BY <2>1, <2>12, <3>1, DownSent
  <2>13. SameEnds(conn[k], c) /\ c.up = conn[k].up /\ c.down \in Seq(SoundDown(c)')
    <3>1. \A b \in Conn : b.agent = conn[k].agent /\ b.hubOpen = conn[k].hubOpen
                          /\ b.greeted = conn[k].greeted => 
             conn[k].down \in Seq(SoundDown(b)') /\ q \in SoundDown(b)'
             /\ SoundDown(b)' \subseteq Downward
      <4> SUFFICES ASSUME NEW b \in Conn, b.agent = conn[k].agent,
                          b.hubOpen = conn[k].hubOpen, b.greeted = conn[k].greeted
                   PROVE  /\ conn[k].down \in Seq(SoundDown(b)') /\ q \in SoundDown(b)'
                          /\ SoundDown(b)' \subseteq Downward
        OBVIOUS
      <4>1. SoundDown(conn[k]) \subseteq SoundDown(b)'
        BY <2>1, <2>8 DEF Grows
      <4>2. Seq(SoundDown(conn[k])) \subseteq Seq(SoundDown(b)')
        BY <4>1, Queues
      <4>3. q \in SoundDown(b)'
        BY <2>11, <2>12 DEF SoundDown
      <4>4. SoundDown(b)' \subseteq Downward
        BY DEF SoundDown, Downward, Requests
      <4> QED
        BY <2>1, <4>2, <4>3, <4>4
    <3>2. conn[k].down \in Seq(Downward)
      BY <2>1 DEF Conn
    <3>3. SameEnds(conn[k], c) /\ c.up = conn[k].up
      BY <2>1, <2>12, <3>2, DownSent
    <3>4. /\ conn[k].down \in Seq(SoundDown(c)') /\ q \in SoundDown(c)'
          /\ SoundDown(c)' \subseteq Downward
      BY <3>1, <3>3 DEF SameEnds
    <3>5. c.down \in Seq(SoundDown(c)')
      BY <2>1, <3>4, DownSent
    <3> QED
      BY <3>3, <3>5
  <2>14. Req(NextId, x) = q /\ conn' = [conn EXCEPT ![k] = c]
    BY <1>1, <1>4, <2>2 DEF Req, NextId
  <2>15. \A j \in Conns : conn'[j].hubOpen = conn[j].hubOpen
    BY <1>1, <2>13, <2>14 DEF SameEnds
  <2>16. Waiters'
    <3>1. ASSUME NEW y \in Calls, call'[y].st = "waiting"
          PROVE  /\ call'[y].conn \in Conns /\ conn'[call'[y].conn].hubOpen
                 /\ call'[y].id <= rpcSeq'
      <4>1. CASE y = x
        BY <2>1, <2>5, <2>6, <2>15, <4>1
      <4>2. CASE y # x
        <5>1. call[y].st = "waiting" /\ call'[y] = call[y]
          BY <2>3, <3>1, <4>2
        <5>2. call[y].id <= rpcSeq'
          BY <2>5, <2>10, <5>1
        <5> QED
          BY <2>15, <5>1, <5>2 DEF HubInv, Waiters
      <4> QED
        BY <4>1, <4>2
    <3>2. ASSUME NEW y \in Calls, NEW z \in Calls, call'[y].st = "waiting",
                 call'[z].st = "waiting", call'[z].id = call'[y].id
          PROVE  y = z
      <4>1. \A w \in Calls : w # x /\ call'[w].st = "waiting" =>
              call'[w] = call[w] /\ call'[w].id # rpcSeq'
        BY <2>3, <2>5, <2>10
      <4> QED
        BY <2>6, <3>2, <4>1 DEF HubInv, Waiters
    <3> QED
      BY <3>1, <3>2 DEF Waiters
  <2>17. Types'
    BY <1>1, <1>2, <2>5, <2>7, <2>14 DEF HubInv, Types
  <2>18. c.up \in Seq(SoundUp')
    BY <2>1, <2>8, <2>13, Queues DEF Grows
  <2> QED
    BY <1>2, <2>1, <2>8, <2>9, <2>13, <2>14, <2>16, <2>17, <2>18, Nulls, OneConnStep
       DEF SameEnds
<1> QED
  BY <1>3, <1>4 DEF Ask

(* What a HELLO of connector a makes of the connection c that it replaces.  *)
Displaced(c, a) == Settled([Down(c, Disconnect(a)) EXCEPT !.hubOpen = FALSE, !.up = <<>>])

(* The connection that a HELLO replaces: its connector is told, unless the  *)
(* connector has hung up there.  A connector that is told by its own HELLO  *)
(* has hung up on both connections, so the HELLO was overtaken.             *)
LEMMA ReplacedCloses ==
  ASSUME HubInv, Grows, NEW k \in Conns, conn[k].hubOpen, NEW j \in Replaced(k),
         overtaken' = (overtaken \/ (~ conn[k].agentOpen /\ Replaced(k) # {})),
         NEW d, d = Displaced(conn[j], conn[k].agent)
  PROVE  /\ j \in Conns /\ j # k /\ conn[j].hubOpen
         /\ RouteOf[conn[j].agent] = RouteOf[conn[k].agent]
         /\ Succeeds(conn[j], d) /\ ~ d.hubOpen /\ d.up = <<>>
         /\ d.down \in Seq(SoundDown(d)')
<1> DEFINE a == conn[k].agent
           r == RouteOf[a]
<1>1. a \in Agents /\ r \in Routes
  BY ConnTyped, Nulls
<1>2. j = machines[r] /\ j # NoConn /\ j # k
  BY DEF Replaced
<1>3. j \in Conns /\ conn[j].hubOpen /\ RouteOf[conn[j].agent] = r
  BY <1>1, <1>2 DEF HubInv, Registered, Types
<1>4. /\ conn[j] \in Conn /\ conn[j].agent \in Agents
      /\ conn[j].down \in Seq(SoundDown(conn[j]))
  BY <1>3, ConnTyped
<1> PICK m \in Downward : m = Disconnect(a)
  BY <1>1 DEF Disconnect, Downward
<1>5. m.t = "disconnect" /\ m.by = a
  BY DEF Disconnect
<1> PICK c \in Conn : c = Down(conn[j], m) /\ SameEnds(conn[j], c)
  <2>1. conn[j].down \in Seq(Downward)
    BY <1>4 DEF Conn
  <2> QED
    BY <1>4, <2>1, DownSent
<1>6. d = Settled([c EXCEPT !.hubOpen = FALSE, !.up = <<>>])
  BY Zenon DEF Displaced
<1>7. /\ Succeeds(conn[j], d) /\ ~ d.hubOpen /\ d.up = <<>>
      /\ d.down = <<>> \/ (d.down = c.down /\ d.agent = c.agent)
  <2>1. conn[j].agent # NoAgent
    BY <1>4, Nulls
  <2>2. c.agent = conn[j].agent /\ c.agentOpen = conn[j].agentOpen
        /\ c.greeted = conn[j].greeted
    BY DEF SameEnds
  <2> QED
    BY <1>3, <1>6, <2>1, <2>2, Closes
<1>8. d \in Conn
  BY <1>7 DEF Succeeds
<1>9. d.down \in Seq(SoundDown(d)')
  <2>1. CASE d.down = <<>>
    BY <2>1, Queues
  <2>2. CASE d.down = c.down /\ d.agent = c.agent
    <3>1. d.agent = conn[j].agent
      BY <2>2 DEF SameEnds
    <3>2. SoundDown(conn[j]) \subseteq SoundDown(d)'
      BY <1>4, <1>7, <1>8, <3>1 DEF Grows
    <3>3. conn[j].down \in Seq(SoundDown(d)')
      BY <1>4, <3>2, Queues
    <3>4. CASE ~ (conn[j].agentOpen /\ ~ conn[j].cut)
      BY <2>2, <3>3, <3>4 DEF Down
    <3>5. CASE conn[j].agentOpen
      <4>1. overtaken' \/ a # d.agent
        <5>1. CASE ~ conn[k].agentOpen
          BY <5>1
        <5>2. CASE conn[k].agentOpen
          <6>1. proc[a].sock = k
            BY <1>1, <5>2 DEF HubInv, Linked
          <6>2. conn[j].agent # a
            BY <1>1, <1>2, <1>3, <3>5, <6>1 DEF HubInv, Linked
          <6> QED
            BY <3>1, <6>2
        <5> QED
          BY <5>1, <5>2
      <4>2. m \in SoundDown(d)'
        BY <1>5, <4>1 DEF SoundDown
      <4>3. SoundDown(d)' \subseteq Downward
        BY DEF SoundDown, Downward, Requests
      <4>4. c.down \in Seq(SoundDown(d)')
        BY <1>4, <3>3, <4>2, <4>3, DownSent
      <4> QED
        BY <2>2, <4>4
    <3> QED
      BY <3>4, <3>5
  <2> QED
    BY <1>7, <2>1, <2>2
<1> QED
  BY <1>2, <1>3, <1>7, <1>9

(* The connection that says HELLO.                                          *)
LEMMA GreetedTyped ==
  ASSUME HubInv, Grows, NEW k \in Conns, conn[k].hubOpen, conn[k].up # <<>>,
         NEW d, d = Down([conn[k] EXCEPT !.greeted = TRUE, !.up = Tail(@)], Info)
  PROVE  /\ Succeeds(conn[k], d) /\ d.hubOpen /\ d.greeted /\ d.agent = conn[k].agent
         /\ d.up \in Seq(SoundUp') /\ d.down \in Seq(SoundDown(d)')
<1>1. /\ conn[k] \in Conn /\ conn[k].agent \in Agents /\ conn[k].up \in Seq(SoundUp)
      /\ conn[k].down \in Seq(SoundDown(conn[k]))
  BY ConnTyped
<1>2. Tail(conn[k].up) \in Seq(SoundUp) /\ Tail(conn[k].up) \in Seq(Upward)
  BY <1>1, Queues, SoundAreTyped
<1> PICK c \in Conn : c = [conn[k] EXCEPT !.greeted = TRUE, !.up = Tail(@)]
  BY <1>1, <1>2 DEF Conn
<1>3. /\ c.up = Tail(conn[k].up) /\ c.down = conn[k].down
      /\ c.agent = conn[k].agent /\ c.agentOpen = conn[k].agentOpen
      /\ c.hubOpen /\ c.greeted
  BY <1>1 DEF Conn
<1>4. Info \in Downward /\ c.down \in Seq(Downward) /\ d = Down(c, Info)
  BY Kinds DEF Conn
<1>5. d \in Conn /\ SameEnds(c, d) /\ d.up = c.up
  <2>1. Down(c, Info) \in Conn /\ SameEnds(c, Down(c, Info)) /\ Down(c, Info).up = c.up
    BY <1>4, DownSent
  <2> QED
    BY <1>4, <2>1
<1>6. /\ d.agent = conn[k].agent /\ d.agentOpen = conn[k].agentOpen
      /\ d.hubOpen /\ d.greeted
  BY <1>3, <1>5 DEF SameEnds
<1>7. Succeeds(conn[k], d)
  <2>1. d.agent # NoAgent
    BY <1>1, <1>6, Nulls
  <2>2. conn[k].agentOpen => d.agentOpen
    BY <1>6
  <2> QED
    BY <1>5, <1>6, <2>1, <2>2 DEF Succeeds
<1>8. d.up \in Seq(SoundUp')
  <2>1. Tail(conn[k].up) \in Seq(SoundUp')
    BY <1>2, Queues DEF Grows
  <2> QED
    BY <1>3, <1>5, <2>1
<1>9. d.down \in Seq(SoundDown(d)')
  <2>1. SoundDown(conn[k]) \subseteq SoundDown(d)'
    BY <1>1, <1>5, <1>6 DEF Grows
  <2>2. c.down \in Seq(SoundDown(d)')
    BY <1>1, <1>3, <2>1, Queues
  <2>3. Info \in SoundDown(d)'
    BY <1>4, <1>6 DEF SoundDown, Info
  <2>4. SoundDown(d)' \subseteq Downward
    BY DEF SoundDown, Downward, Requests
  <2> QED
    BY <1>4, <2>2, <2>3, <2>4, DownSent
<1> QED
  BY <1>6, <1>7, <1>8, <1>9

LEMMA RegisterKeeps ==
  ASSUME HubInv, NEW k \in Conns, conn[k].hubOpen, conn[k].up # <<>>,
         Register(k), UNCHANGED proc
  PROVE  HubInv'
<1> DEFINE a == conn[k].agent
           r == RouteOf[a]
           old == Replaced(k)
           greeted == Down([conn[k] EXCEPT !.greeted = TRUE, !.up = Tail(@)], Info)
<1>1. conn[k] \in Conn /\ a \in Agents /\ r \in Routes
  BY ConnTyped, Nulls
<1>2. /\ conn' = [j \in Conns |-> IF j \in old THEN Displaced(conn[j], a)
                                  ELSE IF j = k THEN greeted ELSE conn[j]]
      /\ machines' = [machines EXCEPT ![r] = k]
      /\ inventory' = inventory \ {r}
      /\ FailWaiters(old)
      /\ overtaken' = (overtaken \/ (~ conn[k].agentOpen /\ old # {}))
      /\ UNCHANGED <<rpcSeq, boot>>
  BY Zenon DEF Register, Displaced
<1>3. old \subseteq Conns /\ k \notin old
  BY <1>1 DEF Replaced, HubInv, Types
<1>4. /\ \A j \in old : conn'[j] = Displaced(conn[j], a)
      /\ conn'[k] = greeted
      /\ \A j \in Conns : j \notin old /\ j # k => conn'[j] = conn[j]
  BY <1>2, <1>3
<1>5. \A x \in Calls : call'[x].st = "waiting" => call'[x] = call[x]
  <2>1. Failed.st = "failed"
    BY DEF Failed, Unanswered
  <2> QED
    BY <1>2, <2>1 DEF FailWaiters
<1>6. Grows
  <2>1. overtaken => overtaken'
    BY <1>2
  <2>2. Types /\ boot' = boot /\ rpcSeq' = rpcSeq /\ boot \in Nat /\ rpcSeq \in Nat
    BY <1>2 DEF HubInv, Types
  <2>3. boot <= boot' /\ rpcSeq <= rpcSeq' /\ boot' \in Nat /\ rpcSeq' \in Nat
    BY <2>2
  <2> QED
    BY <1>5, <2>1, <2>2, <2>3, Sounder
<1>7. ASSUME NEW j \in old
      PROVE  /\ conn[j].hubOpen /\ RouteOf[conn[j].agent] = r
             /\ Succeeds(conn[j], conn'[j]) /\ ~ conn'[j].hubOpen /\ conn'[j].up = <<>>
             /\ (conn[j].down \in Seq(SoundDown(conn[j])))'
  <2>1. conn'[j] = Displaced(conn[j], a)
    BY <1>4
  <2>2. overtaken' = (overtaken \/ (~ conn[k].agentOpen /\ Replaced(k) # {}))
    BY <1>2
  <2> HIDE <1>2, <1>4
  <2> QED
    BY <1>6, <2>1, <2>2, ReplacedCloses
<1>8. /\ Succeeds(conn[k], conn'[k]) /\ conn'[k].hubOpen /\ conn'[k].greeted
      /\ conn'[k].agent = a
      /\ (conn[k].up \in Seq(SoundUp) /\ conn[k].down \in Seq(SoundDown(conn[k])))'
  BY <1>4, <1>6, GreetedTyped
<1> HIDE DEF greeted
<1>9. ASSUME NEW j \in Conns
      PROVE  Succeeds(conn[j], conn'[j])
  <2>1. CASE j \in old
    BY <1>7, <2>1
  <2>2. CASE j = k
    BY <1>8, <2>2
  <2>3. CASE j \notin old /\ j # k
    BY <1>4, <2>3, ConnTyped DEF Succeeds
  <2> QED
    BY <2>1, <2>2, <2>3
<1>10. ASSUME NEW j \in Conns
       PROVE  (conn[j].up \in Seq(SoundUp) /\ conn[j].down \in Seq(SoundDown(conn[j])))'
  <2>1. CASE j \in old
    <3>1. conn'[j].up \in Seq(SoundUp')
      BY <1>7, <2>1, Queues
    <3> QED
      BY <1>7, <2>1, <3>1
  <2>2. CASE j = k
    BY <1>8, <2>2
  <2>3. CASE j \notin old /\ j # k
    <3>1. conn'[j] = conn[j]
      BY <1>4, <2>3
    <3>2. conn'[j].up \in Seq(SoundUp')
      BY <1>6, <3>1, ConnTyped, Queues DEF Grows
    <3>3. (conn[j].down \in Seq(SoundDown(conn[j])))'
      BY <1>6, <1>9, <3>1, DownStays
    <3> QED
      BY <3>2, <3>3
  <2> QED
    BY <2>1, <2>2, <2>3
<1>11. Waiters' /\ AnswersMatch' /\ call' \in [Calls -> Call]
  <2>1. \A j \in Conns : j \notin old /\ conn[j].hubOpen => conn'[j].hubOpen
    BY <1>4, <1>8
  <2> QED
    BY <1>2, <1>3, <2>1, WaitersFailed
<1>12. Types'
  <2>1. conn' \in [Conns -> Conn]
    BY <1>2, <1>9 DEF Succeeds
  <2>2. machines' \in [Routes -> Conns \union {NoConn}] /\ inventory' \subseteq Routes
    BY <1>1, <1>2 DEF HubInv, Types
  <2>3. overtaken' \in BOOLEAN
    BY <1>2
  <2> QED
    BY <1>2, <1>11, <2>1, <2>2, <2>3 DEF HubInv, Types
<1>13. Registered'
  <2>1. machines'[r] = k /\ \A q \in Routes : q # r => machines'[q] = machines[q]
    BY <1>1, <1>2 DEF HubInv, Types
  <2>2. ASSUME NEW j \in Conns, conn'[j].hubOpen
        PROVE  conn'[j].greeted <=> machines'[RouteOf[conn'[j].agent]] = j
    <3>1. CASE j = k
      BY <1>8, <2>1, <3>1
    <3>2. CASE j # k
      <4>1. j \notin old /\ conn'[j] = conn[j]
        BY <1>4, <1>7, <2>2, <3>2
      <4>2. RouteOf[conn[j].agent] \in Routes
        BY <2>2, <4>1, ConnTyped, Nulls
      <4>3. conn[j].greeted <=> machines[RouteOf[conn[j].agent]] = j
        BY <2>2, <4>1 DEF HubInv, Registered
      <4>4. RouteOf[conn[j].agent] = r => machines[r] # j
        BY <3>2, <4>1, Nulls DEF Replaced
      <4> QED
        BY <2>1, <3>2, <4>1, <4>2, <4>3, <4>4
    <3> QED
      BY <3>1, <3>2
  <2>3. ASSUME NEW q \in Routes, machines'[q] # NoConn
        PROVE  conn'[machines'[q]].hubOpen /\ RouteOf[conn'[machines'[q]].agent] = q
    <3>1. CASE q = r
      BY <1>8, <2>1, <3>1
    <3>2. CASE q # r
      <4>1. PICK j \in Conns : j = machines[q]
        BY <2>1, <2>3, <3>2 DEF HubInv, Types
      <4>2. conn[j].hubOpen /\ RouteOf[conn[j].agent] = q
        BY <2>1, <2>3, <3>2, <4>1 DEF HubInv, Registered
      <4>3. j \notin old /\ j # k
        BY <1>7, <3>2, <4>2
      <4> QED
        BY <1>4, <2>1, <3>2, <4>1, <4>2, <4>3
    <3> QED
      BY <3>1, <3>2
  <2> QED
    BY <2>2, <2>3 DEF Registered
<1>14. overtaken => overtaken'
  BY <1>2
<1> QED
  BY <1>6, <1>9, <1>10, <1>11, <1>12, <1>13, <1>14, HubStep

LEMMA HubReceivesKeeps ==
  ASSUME HubInv, NEW k \in Conns, HubReceives(k)
  PROVE  HubInv'
<1>1. conn[k].hubOpen /\ conn[k].up # <<>> /\ UNCHANGED proc
  BY DEF HubReceives
<1>2. CASE Register(k)
  BY <1>1, <1>2, RegisterKeeps
<1>3. CASE /\ inventory' = IF machines[RouteOf[conn[k].agent]] = k
                           THEN inventory \union {RouteOf[conn[k].agent]} ELSE inventory
           /\ conn' = [conn EXCEPT ![k].up = Tail(@)]
           /\ UNCHANGED <<machines, call, rpcSeq, boot, overtaken>>
  BY <1>1, <1>3, InventoryKeeps
<1>4. CASE /\ Head(conn[k].up).t = "res" /\ Resolve(k, Head(conn[k].up))
           /\ conn' = [conn EXCEPT ![k].up = Tail(@)]
           /\ UNCHANGED <<machines, inventory, rpcSeq, boot, overtaken>>
  BY <1>1, <1>4, ResolveKeeps
<1> QED
  BY <1>2, <1>3, <1>4 DEF HubReceives

LEMMA HubRestartsKeeps ==
  ASSUME HubInv, HubRestarts
  PROVE  HubInv'
<1>1. /\ boot \in Nat /\ rpcSeq \in Nat /\ boot' = boot + 1 /\ rpcSeq' = 0
      /\ UNCHANGED <<proc, overtaken>>
  BY DEF HubInv, Types, HubRestarts
<1>2. Failed \in Call /\ Failed.st = "failed"
  BY DEF Failed, Unanswered, Call
<1>3. call \in [Calls -> Call] /\ FailWaiters(Conns)
  BY DEF HubInv, Types, HubRestarts
<1>4. call' \in [Calls -> Call] /\ \A x \in Calls : call'[x] = call[x] \/ call'[x] = Failed
  BY <1>2, <1>3 DEF FailWaiters
<1>5. \A x \in Calls : call'[x].st # "waiting"
  <2>1. \A x \in Calls : call[x].st = "waiting" => call'[x] = Failed
    BY <1>3 DEF FailWaiters, Waiting, HubInv, Waiters
  <2> QED
    BY <1>2, <1>4, <2>1
<1>6. boot' \in Nat /\ rpcSeq' \in Nat /\ boot < boot' /\ boot <= boot'
  BY <1>1
<1>7. Grows
  BY <1>1, <1>6, Sounder DEF HubInv
<1>8. AnswersMatch'
  <2>1. ASSUME NEW x \in Calls, call'[x].st = "answered"
        PROVE  call'[x].to = x \/ call'[x].boot < boot'
    <3>1. call'[x] = call[x] /\ call[x].boot \in Nat
      BY <1>2, <1>3, <1>4, <2>1 DEF Call
    <3>2. call[x].to = x \/ call[x].boot < boot
      BY <2>1, <3>1 DEF HubInv, AnswersMatch
    <3> QED
      BY <1>1, <1>6, <3>1, <3>2
  <2> QED
    BY <2>1 DEF AnswersMatch
<1>9. ASSUME NEW k \in Conns
      PROVE  /\ Succeeds(conn[k], conn'[k]) /\ ~ conn'[k].hubOpen /\ conn'[k].up = <<>>
             /\ conn'[k].down = <<>> \/ (conn'[k].down = conn[k].down
                                         /\ conn'[k].agent = conn[k].agent)
  <2>1. conn'[k] = Closed(k)
    BY DEF HubRestarts, Closed
  <2>2. CASE conn[k].agent # NoAgent
    BY <2>1, <2>2, ConnTyped, Closes DEF Closed
  <2>3. CASE conn[k].agent = NoAgent
    <3>1. conn[k] = Free
      BY <2>3, ConnTyped
    <3>2. conn'[k] = Free
      BY <2>1, <3>1 DEF Closed, Settled, Free
    <3> QED
      BY <3>1, <3>2, FreeTyped DEF Succeeds, Free
  <2> QED
    BY <2>2, <2>3
<1>10. ASSUME NEW k \in Conns
       PROVE  (conn[k].up \in Seq(SoundUp) /\ conn[k].down \in Seq(SoundDown(conn[k])))'
  <2>1. conn'[k].up \in Seq(SoundUp')
    BY <1>9, Queues
  <2>2. (conn[k].down \in Seq(SoundDown(conn[k])))'
    BY <1>7, <1>9, DownStays
  <2> QED
    BY <2>1, <2>2
<1>11. Types'
  <2>1. conn' \in [Conns -> Conn]
    BY <1>9 DEF HubRestarts, Succeeds
  <2>2. machines' \in [Routes -> Conns \union {NoConn}] /\ inventory' \subseteq Routes
    BY DEF HubRestarts
  <2> QED
    BY <1>1, <1>4, <1>6, <2>1, <2>2 DEF HubInv, Types
<1>12. Registered'
  BY <1>9 DEF HubRestarts, Registered
<1>13. Waiters'
  BY <1>5 DEF Waiters
<1> QED
  BY <1>1, <1>7, <1>8, <1>9, <1>10, <1>11, <1>12, <1>13, HubStep

-----------------------------------------------------------------------------
LEMMA InitSound ==
  ASSUME Init
  PROVE  HubInv
<1>1. Types
  <2>1. Asleep \in Proc
    BY Nulls, Queues DEF Asleep, Proc
  <2>2. Unanswered \in Call
    BY DEF Unanswered, Call
  <2> QED
    BY <2>1, <2>2, FreeTyped DEF Init, Types
<1>2. Linked
  BY Nulls DEF Init, Linked, Free, Asleep
<1>3. Running /\ Registered /\ Waiters /\ AnswersMatch
  BY Nulls DEF Init, Running, Registered, Waiters, AnswersMatch, Free, Asleep, Unanswered
<1>4. Messages
  <2>1. <<>> \in Seq(SoundUp) /\ \A k \in Conns : <<>> \in Seq(SoundDown(conn[k]))
    BY Queues
  <2> QED
    BY <2>1 DEF Init, Messages, Free, Asleep
<1>5. Stops
  BY Nulls DEF Init, Stops, Asleep
<1> QED
  BY <1>1, <1>2, <1>3, <1>4, <1>5 DEF HubInv

LEMMA NextSound ==
  ASSUME HubInv, Next
  PROVE  HubInv'
<1>1. ASSUME NEW a \in Agents, Starts(a) \/ Connector(a) \/ AuthRejected(a)
                               \/ AgentGivesUp(a) \/ AgentEnds(a)
      PROVE  HubInv'
  <2>1. CASE Starts(a)
    BY <2>1, StartsKeeps
  <2>2. CASE Connect(a)
    BY <2>2, ConnectKeeps
  <2>3. CASE Greet(a)
    BY <2>3, GreetKeeps
  <2>4. CASE PublishInventory(a)
    BY <2>4, PublishKeeps
  <2>5. CASE AgentReceives(a)
    BY <2>5, AgentReceivesKeeps
  <2>6. ASSUME NEW op \in proc[a].ops, Answers(a, op)
        PROVE  HubInv'
    BY <2>6, AnswersKeeps
  <2>7. CASE AgentNotices(a) \/ AgentGivesUp(a)
    BY <2>7, LostKeeps DEF AgentNotices, AgentGivesUp
  <2>8. CASE AuthRejected(a)
    BY <2>8, AuthRejectedKeeps
  <2>9. CASE AgentEnds(a)
    BY <2>9, AgentEndsKeeps
  <2> QED
    BY <1>1, <2>1, <2>2, <2>3, <2>4, <2>5, <2>6, <2>7, <2>8, <2>9 DEF Connector
<1>2. ASSUME NEW k \in Conns, Hub(k) \/ HubGivesUp(k) \/ Cut(k)
      PROVE  HubInv'
  <2>1. CASE HubReceives(k)
    BY <2>1, HubReceivesKeeps
  <2>2. CASE HubNotices(k) \/ HubGivesUp(k)
    BY <2>2, HubClosesKeeps DEF HubNotices, HubGivesUp
  <2>3. CASE Cut(k)
    BY <2>3, CutKeeps
  <2> QED
    BY <1>2, <2>1, <2>2, <2>3 DEF Hub
<1>3. ASSUME NEW r \in Routes, Ask(r)
      PROVE  HubInv'
  BY <1>3, AskKeeps
<1>4. ASSUME NEW x \in Calls, TimesOut(x)
      PROVE  HubInv'
  BY <1>4, TimesOutKeeps
<1>5. CASE HubRestarts
  BY <1>5, HubRestartsKeeps
<1> QED
  BY <1>1, <1>2, <1>3, <1>4, <1>5 DEF Next, Fault

(* The invariant holds in every reachable state of the control channel.     *)
THEOREM HubIsSound == Spec => []HubInv
<1>1. Init => HubInv
  BY InitSound
<1>2. HubInv /\ [Next]_vars => HubInv'
  BY NextSound, Unchanged
<1> QED
  BY <1>1, <1>2, PTL DEF Spec

(* Type correctness: queues hold what their end may send, and a connector's *)
(* socket is the connection it has open (agent.mjs, hub.mjs).               *)
THEOREM HubTypeCorrect == Spec => []TypeOK
<1>1. ASSUME HubInv
      PROVE  TypeOK
  <2>1. ASSUME NEW k \in Conns
        PROVE  /\ conn[k].agent \in Agents \union {NoAgent}
               /\ (conn[k].agent = NoAgent) = (conn[k] = Free)
               /\ conn[k].up \in Seq(Upward) /\ conn[k].down \in Seq(Downward)
    <3>1. conn[k] \in Conn
      BY <1>1, ConnTyped
    <3>2. (conn[k].agent = NoAgent) <=> (conn[k] = Free)
      <4>1. Free.agent = NoAgent
        BY DEF Free
      <4> QED
        BY <1>1, <4>1, ConnTyped
    <3>3. (conn[k].agent = NoAgent) = (conn[k] = Free)
      BY <3>2
    <3>4. /\ conn[k].agent \in Agents \union {NoAgent}
          /\ conn[k].up \in Seq(Upward) /\ conn[k].down \in Seq(Downward)
      BY <3>1 DEF Conn
    <3> QED
      BY <3>3, <3>4
  <2>2. ASSUME NEW a \in Agents
        PROVE  /\ proc[a].st \in {"down", "up", "stopped"}
               /\ proc[a].sock \in Conns \union {NoConn}
               /\ proc[a].hellos \in 0 .. MaxHandlers
               /\ {proc[a].publishing, proc[a].uploads} \subseteq BOOLEAN
               /\ proc[a].buffer \in Seq(Upward)
               /\ proc[a].ops \subseteq Requests
               /\ proc[a].stoppedBy \in Agents \union {NoAgent}
               /\ \A k \in Conns : proc[a].sock = k <=> conn[k].agent = a /\ conn[k].agentOpen
    <3>1. proc[a] \in Proc
      BY <1>1 DEF HubInv, Types
    <3>2. \A k \in Conns : proc[a].sock = k <=> conn[k].agent = a /\ conn[k].agentOpen
      BY <1>1 DEF HubInv, Linked
    <3> QED
      BY <3>1, <3>2 DEF Proc
  <2>3. ASSUME NEW x \in Calls
        PROVE  /\ call[x].st \in {"idle", "waiting", "offline", "failed", "answered"}
               /\ call[x].conn \in Conns \union {NoConn} /\ call[x].id \in Nat
    BY <1>1 DEF HubInv, Types, Call
  <2>4. /\ machines \in [Routes -> Conns \union {NoConn}] /\ inventory \subseteq Routes
        /\ rpcSeq \in Nat /\ boot \in Nat /\ overtaken \in BOOLEAN
    BY <1>1 DEF HubInv, Types
  <2> QED
    BY <2>1, <2>2, <2>3, <2>4 DEF TypeOK
<1> QED
  BY <1>1, HubIsSound, PTL

(* The hub routes to the connection of the last HELLO and to no other: what *)
(* register, replace and the disconnect handlers leave behind (hub.mjs).    *)
THEOREM HubRegistryIsExact == Spec => []RegistryIsExact
<1>1. HubInv => RegistryIsExact
  BY DEF HubInv, Registered, RegistryIsExact
<1> QED
  BY <1>1, HubIsSound, PTL

(* Nobody waits on a connection that is closed, no two calls wait under one *)
(* id, and an answer is the answer to the caller's own request unless an    *)
(* earlier controller process had asked for it (rpcToMachine).              *)
THEOREM HubRequestsAreAnswered == Spec => []RequestsAreAnswered
<1>1. HubInv => RequestsAreAnswered
  BY DEF HubInv, Waiters, RequestsAreAnswered, WaitersAreConnected
<1> QED
  BY <1>1, HubIsSound, PTL

(* A connector uploads on a greeted connection only, and is stopped by      *)
(* another connector unless its own HELLO was overtaken (agent.mjs).        *)
THEOREM HubConnectionsAreSound == Spec => []ConnectionsAreSound
<1>1. ASSUME HubInv
      PROVE  UploadsOnlyWhileGreeted
  <2>1. ASSUME NEW a \in Agents, proc[a].uploads
        PROVE  proc[a].st = "up"
    <3>1. proc[a].sock # NoConn
      BY <1>1, <2>1 DEF HubInv, Running
    <3> QED
      BY <1>1, <3>1 DEF HubInv, Running
  <2> QED
    BY <1>1, <2>1 DEF HubInv, Running, UploadsOnlyWhileGreeted
<1>2. HubInv => StoppedByAnotherUnlessOvertaken
  BY DEF HubInv, Stops, StoppedByAnotherUnlessOvertaken, StoppedByAnother
<1> QED
  BY <1>1, <1>2, HubIsSound, PTL DEF ConnectionsAreSound
=============================================================================
