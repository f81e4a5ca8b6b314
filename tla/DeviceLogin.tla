----------------------------- MODULE DeviceLogin -----------------------------
(***************************************************************************)
(* Device login: how a connector (lib/agent.mjs, started by server.mjs) and *)
(* the terminal clients (tools/terminal-app.mjs, tools/terminal-tui) obtain *)
(* a token from the controller (/auth/device/* in server.mjs) and keep it  *)
(* in a file that every client of the machine reads, changes and rewrites  *)
(* whole.                                                                  *)
(*                                                                         *)
(* A connector also keeps its identity there: it reads it, or makes one up *)
(* and writes it, BEFORE it takes the lock that is named after it, and     *)
(* reads it again when it registers.  A connector re-reads the file before *)
(* it saves a token; a terminal client saves the copy it loaded when it    *)
(* started, minutes earlier.  "raced" records that a file was written from *)
(* a copy that was no longer what it held, or was left half written.       *)
(***************************************************************************)
EXTENDS Naturals, FiniteSets

CONSTANTS
    Controllers,    \* keys of the file
    Connectors, Terminals,
    KeyOf,          \* the controller each client is started for
    MaxLogins,      \* bound: device logins begun
    MaxIds,         \* bound: identities made up
    MaxStarts       \* bound: starts of clients

Programs == Connectors \union Terminals

DeviceLoginAssumption ==
    /\ Connectors \intersect Terminals = {}
    /\ KeyOf \in [Programs -> Controllers]
    /\ {MaxLogins, MaxIds, MaxStarts} \subseteq Nat

VARIABLES
    files,      \* agent.json and terminal.json: what every controller's entry has
    clients,    \* the processes
    server,     \* deviceSessions, and what Google says of each device code
    world       \* counters, raced files, and what was saved and registered

vars == <<files, clients, server, world>>

Kinds == {"agent", "terminal"}
KindOf(c) == IF c \in Connectors THEN "agent" ELSE "terminal"
Entry == [id : 0..MaxIds, token : 0..MaxLogins]      \* 0: there is none
NoEntries == [k \in Controllers |-> [id |-> 0, token |-> 0]]
Stages == {"off", "reading", "minting", "locking", "starting", "waiting",
           "exchanging", "verifying", "rereading", "saving", "running"}
Off == [stage |-> "off", config |-> NoEntries, login |-> 0, lock |-> 0]

TypeOK ==
    /\ files \in [Kinds -> [Controllers -> Entry]]
    /\ clients \in [Programs -> [stage : Stages, config : [Controllers -> Entry],
                                login : 0..MaxLogins, lock : 0..MaxIds]]
    /\ server \in [devices : SUBSET (1..MaxLogins),
                   google : [1..MaxLogins -> {"waiting", "approved", "over"}]]
    /\ world \in [starts : 0..MaxStarts, logins : 0..MaxLogins, ids : 0..MaxIds,
                  raced : SUBSET Kinds, saved : [Kinds -> [Controllers -> 0..MaxLogins]],
                  registered : [Controllers -> SUBSET (1..MaxIds)]]

Init ==
    /\ files = [f \in Kinds |-> NoEntries]
    /\ clients = [c \in Programs |-> Off]
    /\ server = [devices |-> {}, google |-> [n \in 1..MaxLogins |-> "waiting"]]
    /\ world = [starts |-> 0, logins |-> 0, ids |-> 0, raced |-> {},
                saved |-> [f \in Kinds |-> [k \in Controllers |-> 0]],
                registered |-> [k \in Controllers |-> {}]]

-----------------------------------------------------------------------------
(* The file.                                                               *)

OnFile(c) == files[KindOf(c)]
Mine(c) == clients[c].config[KeyOf[c]]

\* Mutant: an entry is written anew, without what it had.
EntryAfresh(e, token) == [id |-> 0, token |-> token]

\* saveStoredAgentToken and storeSession: the token replaces the one in the
\* entry of its controller; a connector's entry keeps its identity.
EntryWith(e, token) == [e EXCEPT !.token = token]

\* A write replaces the whole file by the copy in hand.
Writes(c, entry) ==
    /\ files' = [files EXCEPT ![KindOf(c)] = [clients[c].config EXCEPT ![KeyOf[c]] = entry]]

RacedBy(c) == IF OnFile(c) = clients[c].config THEN world.raced
                                               ELSE world.raced \union {KindOf(c)}

To(c, stage) == [clients EXCEPT ![c].stage = stage]
Ends(c) == [clients EXCEPT ![c] = Off]

-----------------------------------------------------------------------------
(* Starting.                                                               *)

Starts(c) ==
    /\ clients[c].stage = "off"
    /\ world.starts < MaxStarts
    /\ world' = [world EXCEPT !.starts = @ + 1]
    /\ UNCHANGED <<files, server>>

\* "--register": the connector begins with its identity.
StartConnector(c) ==
    /\ c \in Connectors
    /\ Starts(c)
    /\ clients' = To(c, "reading")

\* main and ensureRuntime: the stored session is used unless it is refused
\* (or a login is asked for).
StartTerminal(c) ==
    /\ c \in Terminals
    /\ Starts(c)
    /\ \E stage \in {"running", "starting"} :
         /\ stage = "running" => OnFile(c)[KeyOf[c]].token # 0
         /\ clients' = [clients EXCEPT ![c].stage = stage, ![c].config = OnFile(c)]

Registered(c, id) ==
    [world EXCEPT !.registered[KeyOf[c]] = @ \union {id}]

\* ensureStoredAgentId: the identity on file.  It names the lock; read again
\* by runAgent, it is what the connector registers under.
ReadIdentity(c) ==
    /\ clients[c].stage = "reading"
    /\ LET id == OnFile(c)[KeyOf[c]].id
           next == IF id = 0 THEN "minting"
                   ELSE IF clients[c].lock = 0 THEN "locking" ELSE "running"
       IN /\ clients' = [clients EXCEPT ![c].stage = next, ![c].config = OnFile(c)]
          /\ world' = IF next = "running" THEN Registered(c, id) ELSE world
    /\ UNCHANGED <<files, server>>

\* ... or a new one, written to the file as it was when it was read.
MintIdentity(c) ==
    /\ clients[c].stage = "minting"
    /\ world.ids < MaxIds
    /\ LET id == world.ids + 1
           entry == [Mine(c) EXCEPT !.id = id]
           minted == [world EXCEPT !.ids = id, !.raced = RacedBy(c)]
       IN /\ Writes(c, entry)
          /\ clients' = [clients EXCEPT
                           ![c].stage = IF clients[c].lock = 0 THEN "locking" ELSE "running",
                           ![c].config[KeyOf[c]] = entry]
          /\ world' = IF clients[c].lock = 0 THEN minted
                      ELSE [minted EXCEPT !.registered[KeyOf[c]] = @ \union {id}]
    /\ UNCHANGED server

\* Mutant: nobody else is asked for.
LockIsFree(c, id) == TRUE

\* acquireConnectorLock (ConnectorLock): one live process per controller and identity.
LockIsMine(c, id) ==
    \A d \in Connectors \ {c} : KeyOf[d] = KeyOf[c] => clients[d].lock # id

TakeLock(c) ==
    /\ clients[c].stage = "locking"
    /\ LET id == Mine(c).id
       IN IF LockIsMine(c, id)
            THEN \E stage \in {"reading", "starting"} :
                   /\ stage = "reading" => OnFile(c)[KeyOf[c]].token # 0
                   /\ clients' = [clients EXCEPT ![c].lock = id, ![c].stage = stage]
            ELSE clients' = Ends(c)
    /\ UNCHANGED <<files, server, world>>

-----------------------------------------------------------------------------
(* The login.                                                              *)

\* /auth/device/start.
StartLogin(c) ==
    /\ clients[c].stage = "starting"
    /\ world.logins < MaxLogins
    /\ LET n == world.logins + 1
       IN /\ world' = [world EXCEPT !.logins = n]
          /\ server' = [server EXCEPT !.devices = @ \union {n}]
          /\ clients' = [clients EXCEPT ![c].stage = "waiting", ![c].login = n]
    /\ UNCHANGED files

\* The user approves or refuses the code at Google.
Decide(n) ==
    /\ n <= world.logins
    /\ server.google[n] = "waiting"
    /\ \E verdict \in {"approved", "over"} : server' = [server EXCEPT !.google[n] = verdict]
    /\ UNCHANGED <<files, clients, world>>

\* /auth/device/poll: an unknown or expired login ends the client; a poll that
\* comes too soon is put off (the client stays where it is).
Poll(c) ==
    /\ clients[c].stage = "waiting"
    /\ clients' = IF clients[c].login \in server.devices THEN To(c, "exchanging") ELSE Ends(c)
    /\ UNCHANGED <<files, server, world>>

\* exchangeDeviceCode: Google gives the token of an approved code once.
Exchanged(c) ==
    /\ clients[c].stage = "exchanging"
    /\ LET n == clients[c].login
       IN CASE server.google[n] = "waiting"  -> /\ clients' = To(c, "waiting")
                                                /\ UNCHANGED server
            [] server.google[n] = "approved" -> /\ clients' = To(c, "verifying")
                                                /\ server' = [server EXCEPT !.google[n] = "over"]
            [] server.google[n] = "over"     -> /\ clients' = Ends(c)
                                                /\ UNCHANGED server
    /\ UNCHANGED <<files, world>>

\* googleTokenInfo accepts the user: the login is over and the tokens go out.
Verified(c) ==
    /\ clients[c].stage = "verifying"
    /\ server' = [server EXCEPT !.devices = @ \ {clients[c].login}]
    /\ clients' = To(c, IF c \in Connectors THEN "rereading" ELSE "saving")
    /\ UNCHANGED <<files, world>>

\* Device sessions expire, and live in the controller's memory.
Expire(n) ==
    /\ n \in server.devices
    /\ server' = [server EXCEPT !.devices = @ \ {n}]
    /\ UNCHANGED <<files, clients, world>>

Restart ==
    /\ server.devices # {}
    /\ server' = [server EXCEPT !.devices = {}]
    /\ clients' = [c \in Programs |-> IF clients[c].stage \in {"exchanging", "verifying"}
                                     THEN Off ELSE clients[c]]
    /\ UNCHANGED <<files, world>>

-----------------------------------------------------------------------------
(* Saving.                                                                 *)

\* readAgentConfig: a connector reads the file again; a terminal client keeps
\* the copy it loaded.
Copy(c) == IF c \in Connectors THEN OnFile(c) ELSE clients[c].config

Reread(c) ==
    /\ clients[c].stage = "rereading"
    /\ clients' = [clients EXCEPT ![c].stage = "saving", ![c].config = Copy(c)]
    /\ UNCHANGED <<files, server, world>>

Save(c) ==
    /\ clients[c].stage = "saving"
    /\ LET token == clients[c].login
           entry == EntryWith(Mine(c), token)
       IN /\ Writes(c, entry)
          /\ clients' = [clients EXCEPT ![c].config[KeyOf[c]] = entry,
                           ![c].stage = IF c \in Connectors THEN "reading" ELSE "running"]
          /\ world' = [world EXCEPT !.raced = RacedBy(c),
                                    !.saved[KindOf(c)][KeyOf[c]] = token]
    /\ UNCHANGED server

\* A process can end anywhere; one that ends in a write leaves a file that does
\* not parse, which every client reads as empty.
Quit(c) ==
    /\ clients[c].stage # "off"
    /\ clients' = Ends(c)
    /\ UNCHANGED <<files, server, world>>

Tear(c) ==
    /\ clients[c].stage \in {"minting", "saving"}
    /\ clients' = Ends(c)
    /\ files' = [files EXCEPT ![KindOf(c)] = NoEntries]
    /\ world' = [world EXCEPT !.raced = @ \union {KindOf(c)}]
    /\ UNCHANGED server

-----------------------------------------------------------------------------
Step(c) ==
    \/ StartConnector(c) \/ StartTerminal(c)
    \/ ReadIdentity(c) \/ MintIdentity(c) \/ TakeLock(c)
    \/ StartLogin(c) \/ Poll(c) \/ Exchanged(c) \/ Verified(c)
    \/ Reread(c) \/ Save(c)
    \/ Quit(c) \/ Tear(c)

Next ==
    \/ \E c \in Programs : Step(c)
    \/ \E n \in 1..MaxLogins : Decide(n) \/ Expire(n)
    \/ Restart

Spec == Init /\ [][Next]_vars

-----------------------------------------------------------------------------
\* A login is not lost: unless the file was written from an old copy, the token
\* saved last for every controller is on file for the next start to reuse,
\* whichever clients logged in to others in between (README.md, "Future starts
\* reuse the stored token").
LoginsAreKept ==
    \A f \in Kinds \ world.raced, k \in Controllers : files[f][k].token = world.saved[f][k]

\* The identity is durable: through logins, restarts and refused starts a
\* connector registers under one, and no two of one controller run at a time.
IdentityIsKept ==
    "agent" \notin world.raced =>
        /\ \A k \in Controllers : Cardinality(world.registered[k]) <= 1
        /\ \A c, d \in Connectors :
             clients[c].lock # 0 /\ clients[d].lock # 0 /\ KeyOf[c] = KeyOf[d] => c = d

\* What clients keep in the shared files survives each other's starts, logins,
\* refusals and restarts of the controller (lib/agent.mjs, tools/terminal-app.mjs).
LoginIsSound == LoginsAreKept /\ IdentityIsKept
=============================================================================
