--------------------------- MODULE InstallProofs ---------------------------
(***************************************************************************)
(* What is installed and read on a machine.  For any number of connectors, *)
(* terminal clients, controllers and logins: a login and an identity on    *)
(* file survive what the other clients do.  For any number of updates at   *)
(* one time, and any manager of services: an update leaves a connector     *)
(* that runs the new code, or a service that will start one.  For any      *)
(* transcript and any restarts: no event is told twice, every turn that    *)
(* ended is told, and none that went on is told as completed.              *)
(***************************************************************************)
EXTENDS MCStores, FiniteSetTheorems, WellFoundedInduction, TLAPS

(* The least and the greatest of a set of numbers.                          *)
Below == {ss \in Nat \X Nat : ss[1] < ss[2]}

LEMMA Least ==
  ASSUME NEW T, T \subseteq Nat, T # {}
  PROVE  \E x \in T : \A y \in T : x <= y
<1>1. IsWellFoundedOn(Below, Nat)
  <2>1. Below = OpToRel(<, Nat)
    BY Zenon DEF OpToRel, Below
  <2> QED
    BY <2>1, NatLessThanWellFounded, Zenon
<1>2. PICK x \in T : \A y \in T : ~ (<<y, x>> \in Below)
  BY <1>1, WFMin
<1>3. ASSUME NEW y \in T, y < x PROVE FALSE
  BY <1>2, <1>3 DEF Below
<1> QED
  BY <1>3

LEMMA Greatest ==
  ASSUME NEW m \in Nat, NEW T, T \subseteq 0..m, T # {}
  PROVE  \E x \in T : \A y \in T : y <= x
<1> DEFINE U == {n \in Nat : \E y \in T : n = m - y}
<1>1. PICK y \in T : TRUE
  OBVIOUS
<1>2. m - y \in U
  BY <1>1
<1>3. PICK n \in U : \A k \in U : n <= k
  <2>1. U \subseteq Nat /\ U # {}
    BY <1>2
  <2> HIDE DEF U
  <2> QED
    BY <2>1, Least
<1>4. PICK x \in T : n = m - x
  BY <1>3
<1>5. ASSUME NEW z \in T PROVE z <= x
  <2>1. z \in 0..m /\ x \in 0..m /\ m - z \in U
    BY <1>5
  <2>2. n <= m - z
    BY <1>3, <2>1
  <2> QED
    BY <1>4, <2>1, <2>2
<1> QED
  BY <1>5

-----------------------------------------------------------------------------
(* The logins and identities (DeviceLogin).                                  *)

(* Only a connector reads, makes up and locks an identity; one that makes   *)
(* one up has read that there is none; a login under way has a number.      *)
StagesFit ==
  \A c \in Logins!Programs :
    /\ clients[c].stage \in {"reading", "minting", "locking", "rereading"} => c \in Connectors
    /\ clients[c].stage = "minting" => clients[c].config[KeyOf[c]].id = 0
    /\ clients[c].stage \in {"waiting", "exchanging", "verifying"} => clients[c].login # 0

(* As long as no copy was stale, the identity on file is the one every      *)
(* connector registers under, holds the lock of, or is about to lock.       *)
IdentityOnFile(k) == logins["agent"][k].id
IdentityFits ==
  "agent" \notin people.raced =>
    /\ \A k \in Keys : people.registered[k] \subseteq {IdentityOnFile(k)}
    /\ \A c \in Connectors :
         /\ clients[c].stage = "locking" =>
              clients[c].config[KeyOf[c]].id = IdentityOnFile(KeyOf[c])
         /\ clients[c].stage = "locking" => clients[c].config[KeyOf[c]].id # 0
         /\ clients[c].lock # 0 => clients[c].lock = IdentityOnFile(KeyOf[c])
    /\ \A c, d \in Connectors :
         clients[c].lock # 0 /\ clients[d].lock # 0 /\ KeyOf[c] = KeyOf[d] => c = d

LoginInv == Logins!TypeOK /\ Logins!LoginsAreKept /\ StagesFit /\ IdentityFits

LoginNumbers == 0..MaxLogins
IdNumbers == 0..MaxIds
Entries == [id : IdNumbers, token : LoginNumbers]
LoginClients == [stage : Logins!Stages, config : [Keys -> Entries],
                 login : LoginNumbers, lock : IdNumbers]
LoginServers == [devices : SUBSET (1..MaxLogins),
                 google : [1..MaxLogins -> {"waiting", "approved", "over"}]]
LoginWorlds == [starts : 0..MaxStarts, logins : LoginNumbers, ids : IdNumbers,
                raced : SUBSET Logins!Kinds,
                saved : [Logins!Kinds -> [Keys -> LoginNumbers]],
                registered : [Keys -> SUBSET (1..MaxIds)]]

LoginTyped ==
  /\ logins \in [Logins!Kinds -> [Keys -> Entries]]
  /\ clients \in [Logins!Programs -> LoginClients]
  /\ server \in LoginServers /\ people \in LoginWorlds

LEMMA LoginTypes == Logins!TypeOK <=> LoginTyped
  BY DEF Logins!TypeOK, LoginTyped, Logins!Entry, Entries, LoginNumbers, IdNumbers,
         LoginClients, LoginServers, LoginWorlds

(* What a client may become while the files stay.                           *)
ClientFits(c, q) ==
  /\ q.stage \in {"reading", "minting", "locking", "rereading"} => c \in Connectors
  /\ q.stage = "minting" => q.config[KeyOf[c]].id = 0
  /\ q.stage \in {"waiting", "exchanging", "verifying"} => q.login # 0
  /\ c \in Connectors /\ "agent" \notin people.raced =>
       /\ q.stage = "locking" => /\ q.config[KeyOf[c]].id = IdentityOnFile(KeyOf[c])
                                 /\ q.config[KeyOf[c]].id # 0
       /\ q.lock # 0 => q.lock = IdentityOnFile(KeyOf[c])
  /\ q.lock \in {0, clients[c].lock} \/ Logins!LockIsMine(c, q.lock)

LEMMA LoginClientMoves ==
  ASSUME Logins!DeviceLoginAssumption, LoginInv, NEW c \in Logins!Programs,
         NEW q \in LoginClients, ClientFits(c, q),
         clients' = [clients EXCEPT ![c] = q],
         logins' = logins, server' \in LoginServers, people' \in LoginWorlds,
         people'.raced = people.raced, people'.saved = people.saved,
         "agent" \notin people.raced =>
           \A k \in Keys : people'.registered[k] \subseteq {IdentityOnFile(k)}
  PROVE  LoginInv'
<1>1. LoginTyped /\ LoginTyped'
  BY LoginTypes DEF LoginInv, LoginTyped
<1>2. Logins!LoginsAreKept'
  BY DEF LoginInv, Logins!LoginsAreKept
<1>3. /\ clients'[c] = q
      /\ \A d \in Logins!Programs : d # c => clients'[d] = clients[d]
      /\ Connectors \subseteq Logins!Programs
  BY <1>1 DEF LoginTyped, Logins!Programs
<1>4. StagesFit'
  BY <1>3 DEF LoginInv, StagesFit, ClientFits
<1>5. IdentityFits'
  <2> SUFFICES ASSUME "agent" \notin people.raced PROVE IdentityFits'
    BY DEF IdentityFits
  <2>1. \A k \in Keys : people'.registered[k] \subseteq {IdentityOnFile(k)}'
    BY DEF IdentityFits, IdentityOnFile
  <2>2. \A d \in Connectors :
          /\ clients'[d].stage = "locking" =>
               clients'[d].config[KeyOf[d]].id = IdentityOnFile(KeyOf[d])
          /\ clients'[d].stage = "locking" => clients'[d].config[KeyOf[d]].id # 0
          /\ clients'[d].lock # 0 => clients'[d].lock = IdentityOnFile(KeyOf[d])
    BY <1>3 DEF LoginInv, IdentityFits, ClientFits
  <2>3. ASSUME NEW d \in Connectors, NEW e \in Connectors,
               clients'[d].lock # 0, clients'[e].lock # 0, KeyOf[d] = KeyOf[e]
        PROVE  d = e
    <3>1. clients'[d].lock = clients'[e].lock
      BY <2>2, <2>3
    <3>2. CASE d # c /\ e # c
      BY <1>3, <2>3, <3>2 DEF LoginInv, IdentityFits
    <3>3. CASE d = c /\ e # c
      BY <1>3, <2>3, <3>1, <3>3 DEF LoginInv, IdentityFits, ClientFits, Logins!LockIsMine
    <3>4. CASE d # c /\ e = c
      BY <1>3, <2>3, <3>1, <3>4 DEF LoginInv, IdentityFits, ClientFits, Logins!LockIsMine
    <3> QED
      BY <3>2, <3>3, <3>4
  <2> QED
    BY <2>1, <2>2, <2>3 DEF IdentityFits, IdentityOnFile
<1>6. Logins!TypeOK'
  BY <1>1, LoginTypes, PTL
<1> QED
  BY <1>2, <1>4, <1>5, <1>6 DEF LoginInv

(* What a client is, where the files are as they were read.                 *)
LEMMA LoginFacts ==
  ASSUME Logins!DeviceLoginAssumption, LoginInv, NEW c \in Logins!Programs
  PROVE  /\ LoginTyped /\ clients[c] \in LoginClients /\ KeyOf[c] \in Keys
         /\ logins[Logins!KindOf(c)] \in [Keys -> Entries]
         /\ Logins!KindOf(c) \in Logins!Kinds
         /\ c \in Connectors => Logins!KindOf(c) = "agent"
         /\ "agent" \notin people.raced =>
              \A k \in Keys : people.registered[k] \subseteq {IdentityOnFile(k)}
         /\ ClientFits(c, clients[c])
<1>1. LoginTyped
  BY LoginTypes DEF LoginInv
<1>2. c \in Connectors => c \in Logins!Programs
  BY DEF Logins!Programs
<1>3. /\ clients[c].lock \in {0, clients[c].lock}
      /\ Connectors \subseteq Logins!Programs
  BY DEF Logins!Programs
<1>4. ClientFits(c, clients[c])
  BY <1>3 DEF ClientFits, LoginInv, StagesFit, IdentityFits
<1> QED
  BY <1>1, <1>4 DEF LoginTyped, LoginClients, LoginInv, IdentityFits, Logins!DeviceLoginAssumption,
                    Logins!KindOf, Logins!Kinds

(* The steps of a client that leave the files and the numbers alone.        *)
LEMMA LoginMoves ==
  ASSUME Logins!DeviceLoginAssumption, LoginInv, NEW c \in Logins!Programs,
         NEW q \in LoginClients, ClientFits(c, q),
         clients' = [clients EXCEPT ![c] = q],
         logins' = logins, server' \in LoginServers, people' = people
  PROVE  LoginInv'
<1>1. /\ "agent" \notin people.raced =>
              \A k \in Keys : people.registered[k] \subseteq {IdentityOnFile(k)}
      /\ people \in LoginWorlds
  BY LoginFacts DEF LoginTyped
<1> QED
  BY <1>1, LoginClientMoves

LEMMA LoginStarts ==
  ASSUME Logins!DeviceLoginAssumption, LoginInv, NEW c \in Logins!Programs,
         Logins!StartConnector(c) \/ Logins!StartTerminal(c)
  PROVE  LoginInv'
<1>1. /\ LoginTyped /\ clients[c] \in LoginClients /\ ClientFits(c, clients[c])
      /\ logins[Logins!KindOf(c)] \in [Keys -> Entries]
      /\ "agent" \notin people.raced =>
              \A k \in Keys : people.registered[k] \subseteq {IdentityOnFile(k)}
  BY LoginFacts
<1>2. /\ logins' = logins /\ server' = server
      /\ people' = [people EXCEPT !.starts = @ + 1] /\ people.starts < MaxStarts
  BY DEF Logins!StartConnector, Logins!StartTerminal, Logins!Starts
<1>3. people.starts + 1 \in 0..MaxStarts
  BY <1>1, <1>2 DEF LoginTyped, LoginWorlds, Logins!DeviceLoginAssumption
<1>4. people' \in LoginWorlds /\ people'.raced = people.raced /\ people'.saved = people.saved
      /\ people'.registered = people.registered
  BY <1>1, <1>2, <1>3 DEF LoginTyped, LoginWorlds
<1>5. \E q \in LoginClients : clients' = [clients EXCEPT ![c] = q] /\ ClientFits(c, q)
  <2>1. CASE Logins!StartConnector(c)
    <3> DEFINE q == [clients[c] EXCEPT !.stage = "reading"]
    <3>1. q \in LoginClients /\ clients' = [clients EXCEPT ![c] = q]
      BY <1>1, <2>1 DEF Logins!StartConnector, Logins!To, LoginClients, LoginTyped, Logins!Stages
    <3>2. ClientFits(c, q)
      BY <1>1, <2>1 DEF Logins!StartConnector, ClientFits, LoginClients
    <3> QED
      BY <3>1, <3>2
  <2>2. CASE Logins!StartTerminal(c)
    <3>1. PICK s \in {"running", "starting"} :
            clients' = [clients EXCEPT ![c].stage = s, ![c].config = Logins!OnFile(c)]
      BY <2>2 DEF Logins!StartTerminal
    <3> DEFINE q == [clients[c] EXCEPT !.stage = s, !.config = Logins!OnFile(c)]
    <3>2. q \in LoginClients /\ clients' = [clients EXCEPT ![c] = q]
      BY <1>1, <3>1 DEF Logins!OnFile, LoginClients, LoginTyped, Logins!Stages
    <3>3. ClientFits(c, q)
      BY <1>1, <3>1 DEF ClientFits, LoginClients
    <3> QED
      BY <3>2, <3>3
  <2> QED
    BY <2>1, <2>2
<1> QED
  BY <1>1, <1>2, <1>4, <1>5, LoginClientMoves DEF LoginTyped

(* A refusal, an end, and the login at the controller.                      *)
LEMMA LoginTalks ==
  ASSUME Logins!DeviceLoginAssumption, LoginInv, NEW c \in Logins!Programs,
         \/ Logins!Poll(c) \/ Logins!Exchanged(c) \/ Logins!Verified(c)
         \/ Logins!Reread(c) \/ Logins!Quit(c)
  PROVE  LoginInv'
<1>1. /\ LoginTyped /\ clients[c] \in LoginClients /\ ClientFits(c, clients[c])
      /\ logins[Logins!KindOf(c)] \in [Keys -> Entries]
  BY LoginFacts
<1>2. /\ logins' = logins /\ people' = people
  BY DEF Logins!Poll, Logins!Exchanged, Logins!Verified, Logins!Reread, Logins!Quit
<1>3. Logins!Off \in LoginClients /\ ClientFits(c, Logins!Off)
  <2>1. 0 \in LoginNumbers /\ 0 \in IdNumbers
    BY DEF LoginNumbers, IdNumbers, Logins!DeviceLoginAssumption
  <2> QED
    BY <2>1 DEF Logins!Off, Logins!NoEntries, LoginClients, Entries, Logins!Stages, ClientFits
<1>4. ASSUME NEW s \in {"waiting", "exchanging", "verifying", "rereading", "saving"},
             s = "rereading" => c \in Connectors, clients[c].login # 0, clients' = Logins!To(c, s),
             server' \in LoginServers
      PROVE  LoginInv'
  <2> DEFINE q == [clients[c] EXCEPT !.stage = s]
  <2>1. q \in LoginClients /\ clients' = [clients EXCEPT ![c] = q]
    BY <1>1, <1>4 DEF Logins!To, LoginClients, LoginTyped, Logins!Stages
  <2>2. ClientFits(c, q)
    BY <1>1, <1>4 DEF ClientFits, LoginClients
  <2> HIDE DEF q
  <2> QED
    BY <1>2, <1>4, <2>1, <2>2, LoginMoves
<1>5. ASSUME clients' = Logins!Ends(c), server' \in LoginServers PROVE LoginInv'
  BY <1>2, <1>3, <1>5, LoginMoves DEF Logins!Ends
<1>6. server \in LoginServers
  BY <1>1 DEF LoginTyped
<1>7. CASE Logins!Poll(c)
  <2>1. clients[c].login # 0
    BY <1>1, <1>7 DEF Logins!Poll, ClientFits
  <2> QED
    BY <1>4, <1>5, <1>6, <1>7, <2>1 DEF Logins!Poll
<1>8. CASE Logins!Exchanged(c)
  <2> DEFINE n == clients[c].login
             over == [server EXCEPT !.google[n] = "over"]
  <2>1. n # 0 /\ n \in 1..MaxLogins
    BY <1>1, <1>8 DEF Logins!Exchanged, ClientFits, LoginClients, LoginNumbers,
                      Logins!DeviceLoginAssumption
  <2>2. server.google[n] \in {"waiting", "approved", "over"} /\ over \in LoginServers
    BY <1>6, <2>1 DEF LoginServers
  <2>3. CASE server.google[n] = "waiting"
    BY <1>4, <1>6, <1>8, <2>1, <2>3 DEF Logins!Exchanged
  <2>4. CASE server.google[n] = "approved"
    BY <1>4, <1>8, <2>1, <2>2, <2>4 DEF Logins!Exchanged
  <2>5. CASE server.google[n] = "over"
    BY <1>5, <1>6, <1>8, <2>5 DEF Logins!Exchanged
  <2> QED
    BY <2>2, <2>3, <2>4, <2>5
<1>9. CASE Logins!Verified(c)
  <2>1. server' = [server EXCEPT !.devices = @ \ {clients[c].login}]
    BY <1>9 DEF Logins!Verified
  <2>2. server' \in LoginServers
    BY <1>6, <2>1 DEF LoginServers
  <2>3. clients[c].login # 0
    BY <1>1, <1>9 DEF Logins!Verified, ClientFits
  <2> QED
    BY <1>4, <1>9, <2>2, <2>3 DEF Logins!Verified
<1>10. CASE Logins!Reread(c)
  <2> DEFINE q == [clients[c] EXCEPT !.stage = "saving", !.config = Logins!Copy(c)]
  <2>1. Logins!Copy(c) \in [Keys -> Entries]
    BY <1>1 DEF Logins!Copy, Logins!OnFile, LoginClients
  <2>2. q \in LoginClients /\ clients' = [clients EXCEPT ![c] = q] /\ server' = server
    BY <1>1, <1>10, <2>1 DEF Logins!Reread, LoginClients, LoginTyped, Logins!Stages
  <2>3. ClientFits(c, q)
    BY <1>1 DEF ClientFits, LoginClients
  <2> HIDE DEF q
  <2> QED
    BY <1>2, <1>6, <2>2, <2>3, LoginMoves
<1>11. CASE Logins!Quit(c)
  BY <1>5, <1>6, <1>11 DEF Logins!Quit
<1> QED
  BY <1>7, <1>8, <1>9, <1>10, <1>11

LEMMA LoginBegins ==
  ASSUME Logins!DeviceLoginAssumption, LoginInv, NEW c \in Logins!Programs, Logins!StartLogin(c)
  PROVE  LoginInv'
<1> DEFINE n == people.logins + 1
           q == [clients[c] EXCEPT !.stage = "waiting", !.login = n]
<1>1. /\ LoginTyped /\ clients[c] \in LoginClients /\ ClientFits(c, clients[c])
      /\ "agent" \notin people.raced =>
              \A k \in Keys : people.registered[k] \subseteq {IdentityOnFile(k)}
  BY LoginFacts
<1>2. n \in LoginNumbers /\ n # 0 /\ n \in 1..MaxLogins
  BY <1>1 DEF Logins!StartLogin, LoginTyped, LoginWorlds, LoginNumbers,
              Logins!DeviceLoginAssumption
<1>3. /\ people' = [people EXCEPT !.logins = n]
      /\ server' = [server EXCEPT !.devices = @ \union {n}]
      /\ clients' = [clients EXCEPT ![c] = q] /\ logins' = logins
  BY <1>1 DEF Logins!StartLogin, LoginTyped
<1> HIDE DEF n
<1>4. q \in LoginClients /\ ClientFits(c, q)
  BY <1>1, <1>2 DEF LoginClients, Logins!Stages, ClientFits
<1>5. people' \in LoginWorlds /\ people'.raced = people.raced /\ people'.saved = people.saved
      /\ people'.registered = people.registered
  BY <1>1, <1>2, <1>3 DEF LoginTyped, LoginWorlds
<1>6. server' \in LoginServers
  <2> DEFINE D == SUBSET (1..MaxLogins)
             G == [1..MaxLogins -> {"waiting", "approved", "over"}]
             e == server.devices \union {n}
  <2>1. server \in [devices : D, google : G] /\ server' = [server EXCEPT !.devices = e]
    BY <1>1, <1>3 DEF LoginTyped, LoginServers
  <2>2. LoginServers = [devices : D, google : G]
    BY DEF LoginServers
  <2> HIDE DEF D, G, e
  <2>3. server.devices \in D
    BY <2>1
  <2>4. e \in D
    <3> SUFFICES ASSUME NEW m \in e PROVE m \in 1..MaxLogins
      BY DEF D
    <3>1. m \in server.devices \/ m = n
      BY Zenon DEF e
    <3> QED
      BY <1>2, <2>3, <3>1, Zenon DEF D
  <2> QED
    BY <2>1, <2>2, <2>4
<1> HIDE DEF q
<1> QED
  BY <1>1, <1>3, <1>4, <1>5, <1>6, LoginClientMoves

LEMMA IdentityIsRead ==
  ASSUME Logins!DeviceLoginAssumption, LoginInv, NEW c \in Logins!Programs,
         Logins!ReadIdentity(c)
  PROVE  LoginInv'
<1> DEFINE k == KeyOf[c]
           id == logins["agent"][k].id
           next == IF id = 0 THEN "minting"
                   ELSE IF clients[c].lock = 0 THEN "locking" ELSE "running"
           q == [clients[c] EXCEPT !.stage = next, !.config = logins["agent"]]
<1>1. /\ LoginTyped /\ clients[c] \in LoginClients /\ k \in Keys /\ ClientFits(c, clients[c])
      /\ c \in Connectors => Logins!KindOf(c) = "agent"
      /\ "agent" \notin people.raced =>
              \A j \in Keys : people.registered[j] \subseteq {IdentityOnFile(j)}
  BY LoginFacts
<1>2. c \in Connectors /\ Logins!OnFile(c) = logins["agent"]
  BY <1>1 DEF Logins!ReadIdentity, ClientFits, Logins!OnFile
<1>3. /\ clients' = [clients EXCEPT ![c] = q] /\ logins' = logins /\ server' = server
      /\ people' = IF next = "running" THEN Logins!Registered(c, id) ELSE people
  BY <1>1, <1>2 DEF Logins!ReadIdentity, LoginTyped
<1>4. logins["agent"] \in [Keys -> Entries] /\ id \in IdNumbers
  BY <1>1 DEF LoginTyped, Logins!Kinds, Entries
<1>5. next \in {"minting", "locking", "running"} /\ (next = "minting" <=> id = 0)
  OBVIOUS
<1> HIDE DEF next
<1>6. q \in LoginClients
  BY <1>1, <1>4, <1>5 DEF LoginClients, Logins!Stages
<1>7. ClientFits(c, q)
  BY <1>1, <1>2, <1>5 DEF LoginClients, ClientFits, IdentityOnFile
<1>8. /\ people' \in LoginWorlds /\ people'.raced = people.raced /\ people'.saved = people.saved
      /\ "agent" \notin people.raced =>
           \A j \in Keys : people'.registered[j] \subseteq {IdentityOnFile(j)}
  <2>1. CASE next = "running"
    <3>1. id \in 1..MaxIds
      BY <1>4, <1>5, <2>1 DEF IdNumbers, Logins!DeviceLoginAssumption
    <3>2. people' = [people EXCEPT !.registered[k] = @ \union {id}]
      BY <1>3, <2>1 DEF Logins!Registered
    <3>3. people \in LoginWorlds /\ people.registered \in [Keys -> SUBSET (1..MaxIds)]
      BY <1>1 DEF LoginTyped, LoginWorlds
    <3>4. people'.registered = [people.registered EXCEPT ![k] = @ \union {id}]
      BY <3>2, <3>3 DEF LoginWorlds
    <3>5. people'.registered \in [Keys -> SUBSET (1..MaxIds)]
      BY <3>1, <3>3, <3>4
    <3>6. people' \in LoginWorlds /\ people'.raced = people.raced /\ people'.saved = people.saved
      BY <3>2, <3>3, <3>5 DEF LoginWorlds
    <3>7. ASSUME "agent" \notin people.raced, NEW j \in Keys
          PROVE  people'.registered[j] \subseteq {IdentityOnFile(j)}
      <4>1. CASE j = k
        BY <1>1, <3>3, <3>4, <3>7, <4>1 DEF IdentityOnFile
      <4>2. CASE j # k
        BY <1>1, <3>3, <3>4, <3>7, <4>2 DEF IdentityOnFile
      <4> QED
        BY <4>1, <4>2
    <3> QED
      BY <3>6, <3>7
  <2>2. CASE next # "running"
    BY <1>1, <1>3, <2>2 DEF LoginTyped
  <2> QED
    BY <2>1, <2>2
<1> HIDE DEF q
<1> QED
  BY <1>1, <1>3, <1>6, <1>7, <1>8, LoginClientMoves DEF LoginTyped

LEMMA LockIsTaken ==
  ASSUME Logins!DeviceLoginAssumption, LoginInv, NEW c \in Logins!Programs, Logins!TakeLock(c)
  PROVE  LoginInv'
<1> DEFINE id == clients[c].config[KeyOf[c]].id
<1>1. /\ LoginTyped /\ clients[c] \in LoginClients /\ KeyOf[c] \in Keys
      /\ ClientFits(c, clients[c])
  BY LoginFacts
<1>2. /\ logins' = logins /\ people' = people /\ server' = server
      /\ clients[c].stage = "locking" /\ c \in Connectors
  BY <1>1 DEF Logins!TakeLock, ClientFits
<1>3. id \in IdNumbers
  BY <1>1 DEF LoginClients, Entries
<1>4. \E q \in LoginClients : clients' = [clients EXCEPT ![c] = q] /\ ClientFits(c, q)
  <2>1. CASE Logins!LockIsMine(c, id)
    <3>1. PICK s \in {"reading", "starting"} :
            clients' = [clients EXCEPT ![c].lock = id, ![c].stage = s]
      BY <2>1 DEF Logins!TakeLock, Logins!Mine
    <3> DEFINE q == [clients[c] EXCEPT !.lock = id, !.stage = s]
    <3> HIDE DEF id
    <3>2. q \in LoginClients /\ clients' = [clients EXCEPT ![c] = q]
      BY <1>1, <1>3, <3>1 DEF LoginClients, LoginTyped, Logins!Stages
    <3>3. q.lock = id /\ q.stage = s /\ q.config = clients[c].config /\ q.login = clients[c].login
      BY <1>1 DEF LoginClients
    <3> USE DEF id
    <3>4. ClientFits(c, q)
      BY <1>1, <1>2, <2>1, <3>3 DEF ClientFits
    <3> QED
      BY <3>2, <3>4
  <2>2. CASE ~ Logins!LockIsMine(c, id)
    <3>1. 0 \in LoginNumbers /\ 0 \in IdNumbers
      BY DEF LoginNumbers, IdNumbers, Logins!DeviceLoginAssumption
    <3>2. Logins!Off \in LoginClients /\ ClientFits(c, Logins!Off)
      BY <3>1 DEF Logins!Off, Logins!NoEntries, LoginClients, Entries, Logins!Stages, ClientFits
    <3>3. clients' = [clients EXCEPT ![c] = Logins!Off]
      BY <2>2 DEF Logins!TakeLock, Logins!Mine, Logins!Ends
    <3> QED
      BY <3>2, <3>3
  <2> QED
    BY <2>1, <2>2
<1> QED
  BY <1>1, <1>2, <1>4, LoginMoves DEF LoginTyped

(* A file is written by one client: what it saves must agree with the file  *)
(* only where the copy it was written from was not stale.                   *)
LEMMA FileIsWritten ==
  ASSUME Logins!DeviceLoginAssumption, LoginInv, NEW c \in Logins!Programs,
         NEW f \in [Keys -> Entries], logins' = [logins EXCEPT ![Logins!KindOf(c)] = f],
         NEW q \in LoginClients, clients' = [clients EXCEPT ![c] = q],
         q.lock \in {0, clients[c].lock}, q.stage \notin {"minting", "rereading", "waiting",
           "exchanging", "verifying"},
         q.stage \in {"reading", "locking"} => c \in Connectors,
         server' = server, people' \in LoginWorlds, people.raced \subseteq people'.raced,
         \A g \in Logins!Kinds : g # Logins!KindOf(c) => people'.saved[g] = people.saved[g],
         Logins!KindOf(c) \notin people'.raced =>
           \A k \in Keys : f[k].token = people'.saved[Logins!KindOf(c)][k],
         c \notin Connectors => people'.registered = people.registered,
         c \in Connectors /\ "agent" \notin people'.raced =>
           /\ \A k \in Keys : /\ people'.registered[k] \subseteq {f[k].id}
                              /\ IdentityOnFile(k) \in {0, f[k].id}
           /\ q.stage = "locking" => /\ q.config[KeyOf[c]].id = f[KeyOf[c]].id
                                     /\ q.config[KeyOf[c]].id # 0
  PROVE  LoginInv'
<1> DEFINE kind == Logins!KindOf(c)
<1>1. /\ LoginTyped /\ ClientFits(c, clients[c]) /\ kind \in Logins!Kinds
      /\ kind = IF c \in Connectors THEN "agent" ELSE "terminal"
  BY LoginFacts DEF Logins!KindOf
<1>2. LoginTyped'
  BY <1>1 DEF LoginTyped
<1>3. /\ clients'[c] = q
      /\ \A d \in Logins!Programs : d # c => clients'[d] = clients[d]
      /\ Connectors \subseteq Logins!Programs
      /\ \A d \in Connectors : KeyOf[d] \in Keys
      /\ logins'[kind] = f
      /\ \A g \in Logins!Kinds : g # kind => logins'[g] = logins[g]
  BY <1>1 DEF LoginTyped, Logins!Programs, Logins!DeviceLoginAssumption
<1> HIDE DEF kind
<1>4. Logins!LoginsAreKept'
  <2> SUFFICES ASSUME NEW g \in Logins!Kinds, g \notin people'.raced, NEW k \in Keys
               PROVE  logins'[g][k].token = people'.saved[g][k]
    BY DEF Logins!LoginsAreKept
  <2>1. CASE g = kind
    BY <1>3, <2>1 DEF kind
  <2>2. CASE g # kind
    <3>1. logins[g][k].token = people.saved[g][k]
      BY DEF LoginInv, Logins!LoginsAreKept
    <3> QED
      BY <1>3, <2>2, <3>1 DEF kind
  <2> QED
    BY <2>1, <2>2
<1>5. StagesFit'
  <2> SUFFICES ASSUME NEW d \in Logins!Programs
               PROVE  /\ clients'[d].stage \in {"reading", "minting", "locking", "rereading"}
                          => d \in Connectors
                      /\ clients'[d].stage = "minting" => clients'[d].config[KeyOf[d]].id = 0
                      /\ clients'[d].stage \in {"waiting", "exchanging", "verifying"}
                          => clients'[d].login # 0
    BY DEF StagesFit
  <2> QED
    BY <1>3 DEF LoginInv, StagesFit
<1>6. IdentityFits'
  <2> SUFFICES ASSUME "agent" \notin people'.raced PROVE IdentityFits'
    BY DEF IdentityFits
  <2>0. "agent" \notin people.raced
    OBVIOUS
  <2>1. \A k \in Keys : /\ people'.registered[k] \subseteq {logins'["agent"][k].id}
                        /\ IdentityOnFile(k) \in {0, logins'["agent"][k].id}
    <3>1. CASE c \in Connectors
      BY <1>1, <1>3, <3>1
    <3>2. CASE c \notin Connectors
      BY <1>1, <1>3, <2>0, <3>2 DEF LoginInv, IdentityFits, IdentityOnFile, Logins!Kinds
    <3> QED
      BY <3>1, <3>2
  <2>2. ASSUME NEW d \in Connectors
        PROVE  /\ clients'[d].stage = "locking" =>
                   /\ clients'[d].config[KeyOf[d]].id = logins'["agent"][KeyOf[d]].id
                   /\ clients'[d].config[KeyOf[d]].id # 0
               /\ clients'[d].lock # 0 => clients'[d].lock = logins'["agent"][KeyOf[d]].id
    <3>1. /\ clients[d].stage = "locking" =>
               /\ clients[d].config[KeyOf[d]].id = IdentityOnFile(KeyOf[d])
               /\ clients[d].config[KeyOf[d]].id # 0
          /\ clients[d].lock # 0 => clients[d].lock = IdentityOnFile(KeyOf[d])
      BY <2>0 DEF LoginInv, IdentityFits
    <3>2. IdentityOnFile(KeyOf[d]) \in {0, logins'["agent"][KeyOf[d]].id}
      BY <1>3, <2>1
    <3>3. CASE d # c
      BY <1>3, <3>1, <3>2, <3>3
    <3>4. CASE d = c
      <4>1. clients'[d].lock \in {0, clients[d].lock}
        BY <1>3, <3>4
      <4>2. clients'[d].stage = "locking" =>
               /\ clients'[d].config[KeyOf[d]].id = logins'["agent"][KeyOf[d]].id
               /\ clients'[d].config[KeyOf[d]].id # 0
        BY <1>1, <1>3, <3>4
      <4> QED
        BY <3>1, <3>2, <4>1, <4>2
    <3> QED
      BY <3>3, <3>4
  <2>3. ASSUME NEW d \in Connectors, NEW e \in Connectors,
               clients'[d].lock # 0, clients'[e].lock # 0, KeyOf[d] = KeyOf[e]
        PROVE  d = e
    <3>1. clients[d].lock # 0 /\ clients[e].lock # 0
      BY <1>3, <2>3
    <3> QED
      BY <2>0, <2>3, <3>1 DEF LoginInv, IdentityFits
  <2> QED
    BY <2>1, <2>2, <2>3 DEF IdentityFits, IdentityOnFile
<1>7. Logins!TypeOK'
  BY <1>2, LoginTypes, PTL
<1> QED
  BY <1>4, <1>5, <1>6, <1>7 DEF LoginInv

LEMMA IdentityIsMinted ==
  ASSUME Logins!DeviceLoginAssumption, LoginInv, NEW c \in Logins!Programs,
         Logins!MintIdentity(c)
  PROVE  LoginInv'
<1> DEFINE k == KeyOf[c]
           id == people.ids + 1
           entry == [clients[c].config[k] EXCEPT !.id = id]
           f == [clients[c].config EXCEPT ![k] = entry]
           next == IF clients[c].lock = 0 THEN "locking" ELSE "running"
           q == [clients[c] EXCEPT !.stage = next, !.config = f]
           R == Logins!RacedBy(c)
<1>1. /\ LoginTyped /\ clients[c] \in LoginClients /\ k \in Keys /\ ClientFits(c, clients[c])
      /\ c \in Connectors => Logins!KindOf(c) = "agent"
      /\ Logins!KindOf(c) \in Logins!Kinds
      /\ "agent" \notin people.raced =>
              \A j \in Keys : people.registered[j] \subseteq {IdentityOnFile(j)}
  BY LoginFacts
<1>2. /\ c \in Connectors /\ Logins!KindOf(c) = "agent" /\ server' = server
      /\ clients[c].config[k].id = 0 /\ people.ids < MaxIds
  BY <1>1 DEF Logins!MintIdentity, ClientFits
<1>3. id \in IdNumbers /\ id # 0 /\ id \in 1..MaxIds
  BY <1>1, <1>2 DEF LoginTyped, LoginWorlds, IdNumbers, Logins!DeviceLoginAssumption
<1>4. /\ clients' = [clients EXCEPT ![c].stage = next, ![c].config[k] = entry]
      /\ logins' = [logins EXCEPT !["agent"] = f]
      /\ people' = IF clients[c].lock = 0 THEN [people EXCEPT !.ids = id, !.raced = R]
                   ELSE [[people EXCEPT !.ids = id, !.raced = R] EXCEPT
                            !.registered[k] = @ \union {id}]
  BY <1>2 DEF Logins!MintIdentity, Logins!Writes, Logins!Mine
<1>5. R \subseteq Logins!Kinds /\ people.raced \subseteq R
      /\ ("agent" \notin R => logins["agent"] = clients[c].config)
  BY <1>1, <1>2 DEF Logins!RacedBy, Logins!OnFile, LoginTyped, LoginWorlds
<1>6. next \in {"locking", "running"}
  OBVIOUS
<1>7. clients[c].config \in [Keys -> Entries] /\ clients[c].config[k] \in Entries
  BY <1>1 DEF LoginClients
<1> HIDE DEF next, R, id
<1>8. entry \in Entries /\ entry.id = id /\ entry.token = clients[c].config[k].token
  BY <1>3, <1>7 DEF Entries
<1> HIDE DEF entry
<1>9. /\ f \in [Keys -> Entries] /\ f[k] = entry
      /\ \A j \in Keys : j # k => f[j] = clients[c].config[j]
  BY <1>1, <1>7, <1>8
<1>10. clients' = [clients EXCEPT ![c] = q]
  BY <1>1, <1>4 DEF LoginTyped, LoginClients
<1> HIDE DEF f
<1>11. q \in LoginClients /\ q.stage = next /\ q.lock = clients[c].lock /\ q.config = f
  BY <1>1, <1>6, <1>9 DEF LoginClients, Logins!Stages
<1> HIDE DEF q
<1>12. /\ people' \in LoginWorlds /\ people'.raced = R /\ people'.saved = people.saved
       /\ people'.registered = IF clients[c].lock = 0 THEN people.registered
                               ELSE [people.registered EXCEPT ![k] = @ \union {id}]
  <2>1. people \in LoginWorlds /\ people.registered \in [Keys -> SUBSET (1..MaxIds)]
    BY <1>1 DEF LoginTyped, LoginWorlds
  <2>2. [people.registered EXCEPT ![k] = @ \union {id}] \in [Keys -> SUBSET (1..MaxIds)]
    BY <1>3, <2>1
  <2>3. CASE clients[c].lock = 0
    BY <1>3, <1>4, <1>5, <2>1, <2>3 DEF LoginWorlds
  <2>4. CASE clients[c].lock # 0
    BY <1>3, <1>4, <1>5, <2>1, <2>2, <2>4 DEF LoginWorlds
  <2> QED
    BY <2>3, <2>4
<1>13. ASSUME "agent" \notin R
       PROVE  /\ \A j \in Keys : f[j].token = people'.saved["agent"][j]
              /\ \A j \in Keys : /\ people'.registered[j] \subseteq {f[j].id}
                                 /\ IdentityOnFile(j) \in {0, f[j].id}
  <2>1. "agent" \notin people.raced /\ logins["agent"] = clients[c].config
    BY <1>5, <1>13
  <2>2. \A j \in Keys : logins["agent"][j].token = people.saved["agent"][j]
    BY <2>1 DEF LoginInv, Logins!LoginsAreKept, Logins!Kinds
  <2>3. clients[c].lock = 0
    BY <1>1, <1>2, <2>1 DEF ClientFits, IdentityOnFile
  <2>4. people.registered[k] \subseteq {0} /\ people.registered[k] \subseteq 1..MaxIds
    BY <1>1, <1>2, <2>1 DEF IdentityOnFile, LoginTyped, LoginWorlds
  <2>5. people.registered[k] = {}
    BY <2>4
  <2>6. \A j \in Keys : f[j].token = people'.saved["agent"][j]
    BY <1>8, <1>9, <1>12, <2>1, <2>2
  <2>7. ASSUME NEW j \in Keys
        PROVE  people'.registered[j] \subseteq {f[j].id} /\ IdentityOnFile(j) \in {0, f[j].id}
    <3>1. CASE j = k
      BY <1>2, <1>9, <1>12, <2>1, <2>3, <2>5, <3>1 DEF IdentityOnFile
    <3>2. CASE j # k
      BY <1>1, <1>9, <1>12, <2>1, <2>3, <3>2 DEF IdentityOnFile
    <3> QED
      BY <3>1, <3>2
  <2> QED
    BY <2>6, <2>7
<1> HIDE DEF k
<1>14. /\ logins' = [logins EXCEPT ![Logins!KindOf(c)] = f]
       /\ q.lock \in {0, clients[c].lock}
       /\ q.stage \notin {"minting", "rereading", "waiting", "exchanging", "verifying"}
       /\ q.stage \in {"reading", "locking"} => c \in Connectors
       /\ people.raced \subseteq people'.raced
       /\ \A g \in Logins!Kinds : g # Logins!KindOf(c) => people'.saved[g] = people.saved[g]
       /\ c \notin Connectors => people'.registered = people.registered
  BY <1>2, <1>4, <1>5, <1>6, <1>11, <1>12
<1>15. Logins!KindOf(c) \notin people'.raced =>
           \A j \in Keys : f[j].token = people'.saved[Logins!KindOf(c)][j]
  BY <1>2, <1>12, <1>13
<1>16. q.config[KeyOf[c]].id = f[KeyOf[c]].id /\ q.config[KeyOf[c]].id # 0
  BY <1>3, <1>8, <1>9, <1>11 DEF k
<1>17. c \in Connectors /\ "agent" \notin people'.raced =>
           /\ \A j \in Keys : /\ people'.registered[j] \subseteq {f[j].id}
                              /\ IdentityOnFile(j) \in {0, f[j].id}
           /\ q.stage = "locking" => /\ q.config[KeyOf[c]].id = f[KeyOf[c]].id
                                     /\ q.config[KeyOf[c]].id # 0
  BY <1>12, <1>13, <1>16
<1> QED
  BY <1>2, <1>9, <1>10, <1>11, <1>12, <1>14, <1>15, <1>17, FileIsWritten

LEMMA TokenIsSaved ==
  ASSUME Logins!DeviceLoginAssumption, LoginInv, NEW c \in Logins!Programs, Logins!Save(c)
  PROVE  LoginInv'
<1> DEFINE k == KeyOf[c]
           kind == Logins!KindOf(c)
           token == clients[c].login
           entry == [clients[c].config[k] EXCEPT !.token = token]
           f == [clients[c].config EXCEPT ![k] = entry]
           next == IF c \in Connectors THEN "reading" ELSE "running"
           q == [clients[c] EXCEPT !.stage = next, !.config = f]
           R == Logins!RacedBy(c)
<1>1. /\ LoginTyped /\ clients[c] \in LoginClients /\ k \in Keys /\ ClientFits(c, clients[c])
      /\ kind \in Logins!Kinds /\ (c \in Connectors => kind = "agent")
      /\ "agent" \notin people.raced =>
              \A j \in Keys : people.registered[j] \subseteq {IdentityOnFile(j)}
  BY LoginFacts
<1>2. /\ clients' = [clients EXCEPT ![c].config[k] = entry, ![c].stage = next]
      /\ logins' = [logins EXCEPT ![kind] = f] /\ server' = server
      /\ people' = [people EXCEPT !.raced = R, !.saved[kind][k] = token]
  BY DEF Logins!Save, Logins!Writes, Logins!Mine, Logins!EntryWith
<1>3. R \subseteq Logins!Kinds /\ people.raced \subseteq R
      /\ (kind \notin R => logins[kind] = clients[c].config)
  BY <1>1 DEF Logins!RacedBy, Logins!OnFile, LoginTyped, LoginWorlds
<1>4. next \in {"reading", "running"} /\ (next = "reading" => c \in Connectors)
  OBVIOUS
<1>5. clients[c].config \in [Keys -> Entries] /\ clients[c].config[k] \in Entries
      /\ token \in LoginNumbers
  BY <1>1 DEF LoginClients
<1> HIDE DEF next, R, token, kind
<1>6. entry \in Entries /\ entry.token = token /\ entry.id = clients[c].config[k].id
  BY <1>5 DEF Entries
<1> HIDE DEF entry
<1>7. /\ f \in [Keys -> Entries] /\ f[k] = entry
      /\ \A j \in Keys : j # k => f[j] = clients[c].config[j]
  BY <1>1, <1>5, <1>6
<1>8. clients' = [clients EXCEPT ![c] = q]
  BY <1>1, <1>2 DEF LoginTyped, LoginClients
<1> HIDE DEF f
<1>9. q \in LoginClients /\ q.stage = next /\ q.lock = clients[c].lock
  BY <1>1, <1>4, <1>7 DEF LoginClients, Logins!Stages
<1> HIDE DEF q
<1>10. /\ people' \in LoginWorlds /\ people'.raced = R /\ people'.registered = people.registered
       /\ people'.saved = [people.saved EXCEPT ![kind] = [people.saved[kind] EXCEPT ![k] = token]]
  <2>1. people \in LoginWorlds /\ people.saved \in [Logins!Kinds -> [Keys -> LoginNumbers]]
    BY <1>1 DEF LoginTyped, LoginWorlds
  <2> DEFINE S == [people.saved EXCEPT ![kind] = [people.saved[kind] EXCEPT ![k] = token]]
  <2>2. people.saved[kind] \in [Keys -> LoginNumbers]
    BY <1>1, <2>1
  <2>3. [people.saved[kind] EXCEPT ![k] = token] \in [Keys -> LoginNumbers]
    BY <1>5, <2>2
  <2>4. S \in [Logins!Kinds -> [Keys -> LoginNumbers]]
    BY <1>1, <2>1, <2>3
  <2>5. people' = [people EXCEPT !.raced = R, !.saved = S]
    BY <1>2, <2>1 DEF LoginWorlds
  <2> HIDE DEF S
  <2> QED
    BY <1>3, <2>1, <2>4, <2>5 DEF LoginWorlds, S
<1>11. people.saved \in [Logins!Kinds -> [Keys -> LoginNumbers]]
  BY <1>1 DEF LoginTyped, LoginWorlds
<1>12. kind \notin R => \A j \in Keys : f[j].token = people'.saved[kind][j]
  <2> SUFFICES ASSUME kind \notin R, NEW j \in Keys PROVE f[j].token = people'.saved[kind][j]
    OBVIOUS
  <2>1. logins[kind] = clients[c].config /\ kind \notin people.raced
    BY <1>3
  <2>2. logins[kind][j].token = people.saved[kind][j]
    BY <1>1, <2>1 DEF LoginInv, Logins!LoginsAreKept
  <2>3. people'.saved[kind] = [people.saved[kind] EXCEPT ![k] = token]
        /\ people.saved[kind] \in [Keys -> LoginNumbers]
    BY <1>1, <1>10, <1>11
  <2> QED
    BY <1>1, <1>6, <1>7, <2>1, <2>2, <2>3
<1>13. c \in Connectors /\ "agent" \notin R =>
           \A j \in Keys : /\ people'.registered[j] \subseteq {f[j].id}
                           /\ IdentityOnFile(j) \in {0, f[j].id}
  <2> SUFFICES ASSUME c \in Connectors, "agent" \notin R, NEW j \in Keys
               PROVE  /\ people'.registered[j] \subseteq {f[j].id}
                      /\ IdentityOnFile(j) \in {0, f[j].id}
    OBVIOUS
  <2>1. logins["agent"] = clients[c].config /\ "agent" \notin people.raced
    BY <1>1, <1>3
  <2>2. f[j].id = logins["agent"][j].id
    BY <1>6, <1>7, <2>1
  <2> QED
    BY <1>1, <1>10, <2>1, <2>2 DEF IdentityOnFile
<1> HIDE DEF k
<1>14. /\ q.lock \in {0, clients[c].lock}
       /\ q.stage \notin {"minting", "rereading", "waiting", "exchanging", "verifying", "locking"}
       /\ q.stage \in {"reading", "locking"} => c \in Connectors
       /\ people.raced \subseteq people'.raced
       /\ \A g \in Logins!Kinds : g # kind => people'.saved[g] = people.saved[g]
       /\ c \notin Connectors => people'.registered = people.registered
  BY <1>1, <1>3, <1>4, <1>9, <1>10, <1>11
<1>15. /\ kind \notin people'.raced => \A j \in Keys : f[j].token = people'.saved[kind][j]
       /\ c \in Connectors /\ "agent" \notin people'.raced =>
           /\ \A j \in Keys : /\ people'.registered[j] \subseteq {f[j].id}
                              /\ IdentityOnFile(j) \in {0, f[j].id}
           /\ q.stage = "locking" => /\ q.config[KeyOf[c]].id = f[KeyOf[c]].id
                                     /\ q.config[KeyOf[c]].id # 0
  BY <1>10, <1>12, <1>13, <1>14
<1>16. server' = server /\ people' \in LoginWorlds /\ logins' = [logins EXCEPT ![kind] = f]
  BY <1>2, <1>10
<1>17. q.stage \notin {"minting", "rereading", "waiting", "exchanging", "verifying"}
  BY <1>14
<1> QED
  BY <1>7, <1>8, <1>9, <1>14, <1>15, <1>16, <1>17, FileIsWritten DEF kind

LEMMA FileIsTorn ==
  ASSUME Logins!DeviceLoginAssumption, LoginInv, NEW c \in Logins!Programs, Logins!Tear(c)
  PROVE  LoginInv'
<1> DEFINE kind == Logins!KindOf(c)
<1>1. /\ LoginTyped /\ kind \in Logins!Kinds /\ (c \in Connectors => kind = "agent")
  BY LoginFacts
<1>2. 0 \in LoginNumbers /\ 0 \in IdNumbers
  BY DEF LoginNumbers, IdNumbers, Logins!DeviceLoginAssumption
<1>3. Logins!Off \in LoginClients /\ Logins!NoEntries \in [Keys -> Entries]
      /\ Logins!Off.lock = 0 /\ Logins!Off.stage = "off"
  BY <1>2 DEF Logins!Off, Logins!NoEntries, LoginClients, Entries, Logins!Stages
<1>4. /\ clients' = [clients EXCEPT ![c] = Logins!Off] /\ server' = server
      /\ logins' = [logins EXCEPT ![kind] = Logins!NoEntries]
      /\ people' = [people EXCEPT !.raced = @ \union {kind}]
  BY DEF Logins!Tear, Logins!Ends
<1>5. people' \in LoginWorlds /\ people'.raced = people.raced \union {kind}
      /\ people'.saved = people.saved /\ people'.registered = people.registered
  BY <1>1, <1>4 DEF LoginTyped, LoginWorlds
<1> QED
  BY <1>1, <1>3, <1>4, <1>5, FileIsWritten

(* The controller, and what the user says to Google.                        *)
LEMMA LoginServerSteps ==
  ASSUME Logins!DeviceLoginAssumption, LoginInv,
         \/ \E n \in 1..MaxLogins : Logins!Decide(n) \/ Logins!Expire(n)
         \/ Logins!Restart
  PROVE  LoginInv'
<1>1. LoginTyped
  BY LoginTypes DEF LoginInv
<1>2. logins' = logins /\ people' = people
  BY DEF Logins!Decide, Logins!Expire, Logins!Restart
<1>3. server' \in LoginServers
  <2>1. ASSUME NEW n \in 1..MaxLogins, Logins!Decide(n) PROVE server' \in LoginServers
    <3>1. PICK verdict \in {"approved", "over"} :
            server' = [server EXCEPT !.google[n] = verdict]
      BY <2>1 DEF Logins!Decide
    <3> QED
      BY <1>1, <3>1 DEF LoginTyped, LoginServers
  <2>2. ASSUME NEW n \in 1..MaxLogins, Logins!Expire(n) PROVE server' \in LoginServers
    BY <1>1, <2>2 DEF Logins!Expire, LoginTyped, LoginServers
  <2>3. CASE Logins!Restart
    BY <1>1, <2>3 DEF Logins!Restart, LoginTyped, LoginServers
  <2> QED
    BY <2>1, <2>2, <2>3
<1>4. /\ DOMAIN clients = Logins!Programs /\ DOMAIN clients' = Logins!Programs
      /\ clients' = [c \in Logins!Programs |-> clients'[c]]
      /\ \A c \in Logins!Programs : clients'[c] \in {clients[c], Logins!Off}
  BY <1>1 DEF Logins!Decide, Logins!Expire, Logins!Restart, LoginTyped
<1>5. Logins!Off \in LoginClients /\ Logins!Off.lock = 0 /\ Logins!Off.stage = "off"
  <2>1. 0 \in LoginNumbers /\ 0 \in IdNumbers
    BY DEF LoginNumbers, IdNumbers, Logins!DeviceLoginAssumption
  <2> QED
    BY <2>1 DEF Logins!Off, Logins!NoEntries, LoginClients, Entries, Logins!Stages
<1>6. LoginTyped'
  BY <1>1, <1>2, <1>3, <1>4, <1>5 DEF LoginTyped
<1>7. Logins!LoginsAreKept'
  BY <1>2 DEF LoginInv, Logins!LoginsAreKept
<1>8. StagesFit'
  BY <1>4, <1>5 DEF LoginInv, StagesFit
<1>9. IdentityFits'
  <2>1. Connectors \subseteq Logins!Programs
    BY DEF Logins!Programs
  <2> QED
    BY <1>2, <1>4, <1>5, <2>1 DEF LoginInv, IdentityFits, IdentityOnFile
<1>10. Logins!TypeOK'
  BY <1>6, LoginTypes, PTL
<1> QED
  BY <1>7, <1>8, <1>9, <1>10 DEF LoginInv

LEMMA LoginInit == ASSUME Logins!DeviceLoginAssumption PROVE Logins!Init => LoginInv
<1> SUFFICES ASSUME Logins!Init PROVE LoginInv
  OBVIOUS
<1>1. 0 \in LoginNumbers /\ 0 \in IdNumbers /\ 0 \in 0..MaxStarts
  BY DEF LoginNumbers, IdNumbers, Logins!DeviceLoginAssumption
<1>2. Logins!Off \in LoginClients /\ Logins!Off.lock = 0 /\ Logins!Off.stage = "off"
      /\ Logins!NoEntries \in [Keys -> Entries]
  BY <1>1 DEF Logins!Off, Logins!NoEntries, LoginClients, Entries, Logins!Stages
<1>3. LoginTyped
  <2>1. logins \in [Logins!Kinds -> [Keys -> Entries]]
        /\ clients \in [Logins!Programs -> LoginClients]
    BY <1>2 DEF Logins!Init
  <2>2. server \in LoginServers
    BY DEF Logins!Init, LoginServers
  <2>3. people \in LoginWorlds
    BY <1>1 DEF Logins!Init, LoginWorlds
  <2> QED
    BY <2>1, <2>2, <2>3 DEF LoginTyped
<1>4. Logins!LoginsAreKept
  BY DEF Logins!Init, Logins!LoginsAreKept, Logins!NoEntries
<1>5. StagesFit
  BY <1>2 DEF Logins!Init, StagesFit
<1>6. IdentityFits
  <2>1. \A c \in Connectors : clients[c] = Logins!Off
    BY DEF Logins!Init, Logins!Programs
  <2> QED
    BY <1>2, <2>1 DEF Logins!Init, IdentityFits
<1> QED
  BY <1>3, <1>4, <1>5, <1>6, LoginTypes DEF LoginInv

LEMMA LoginNext ==
  ASSUME Logins!DeviceLoginAssumption, LoginInv, [Logins!Next]_devices PROVE LoginInv'
<1>1. ASSUME NEW c \in Logins!Programs, Logins!Step(c) PROVE LoginInv'
  BY <1>1, LoginStarts, LoginTalks, LoginBegins, IdentityIsRead, LockIsTaken, IdentityIsMinted,
     TokenIsSaved, FileIsTorn DEF Logins!Step
<1>2. CASE UNCHANGED devices
  BY <1>2 DEF devices, LoginInv, Logins!TypeOK, Logins!LoginsAreKept, StagesFit, IdentityFits,
              IdentityOnFile
<1> QED
  BY <1>1, <1>2, LoginServerSteps DEF Logins!Next

(* The identity that fits is the only one a connector has registered under. *)
LEMMA LoginIsSoundThen ==
  ASSUME LoginInv, Logins!DeviceLoginAssumption PROVE Logins!LoginIsSound
<1>1. LoginTyped
  BY LoginTypes DEF LoginInv
<1>2. ASSUME "agent" \notin people.raced, NEW k \in Keys
      PROVE  Logins!Cardinality(people.registered[k]) <= 1
  <2>1. people.registered[k] \subseteq {IdentityOnFile(k)}
    BY <1>2 DEF LoginInv, IdentityFits
  <2>2. IsFiniteSet({IdentityOnFile(k)}) /\ Cardinality({IdentityOnFile(k)}) = 1
    BY FS_Singleton
  <2>3. Cardinality(people.registered[k]) <= 1
    BY <2>1, <2>2, FS_Subset
  <2> QED
    BY <2>3 DEF Logins!Cardinality, Cardinality
<1>3. Logins!IdentityIsKept
  BY <1>2 DEF Logins!IdentityIsKept, LoginInv, IdentityFits
<1> QED
  BY <1>3 DEF LoginInv, Logins!LoginIsSound

-----------------------------------------------------------------------------
(* The update of the connector (ConnectorUpdate).                            *)

Active(u) == upd[u].at \notin Updates!Resting
Good(p) == p.code \in {"old", "new"}

(* The holder of the lock was started by hand.                              *)
HeldByHand == \E p \in procs : p.pid = lock /\ ~p.managed

(* The service is configured to run the bundle, and no updater will take    *)
(* that back.                                                               *)
BundleForGood ==
  /\ conf = "bundle"
  /\ \A u \in Updaters :
       manager = "launchd" /\ upd[u].at \in {"unload", "load", "verify", "recover"}
         => upd[u].orig = "bundle"

(* Processes are told apart by their numbers, and only one that runs holds  *)
(* the lock; what a manager has started it still has loaded.                *)
ProcessesFit ==
  /\ lock <= pids /\ \A p \in procs : p.pid <= pids
  /\ \A p, q \in procs : p.pid = q.pid => p = q
  /\ \A p \in procs : p.pid = lock => Good(p)
  /\ \A p \in procs : p.managed => job.loaded
  /\ manager = "nobody" => ~job.loaded

(* The place that a service is configured for, or will be, is not empty,    *)
(* and an old bundle is what it has always run.                             *)
DiskFits ==
  /\ disk["repo"] # "none"
  /\ disk["bundle"] = "none" =>
       /\ conf = "repo" /\ job.runs = "repo"
       /\ \A u \in Updaters : /\ upd[u].orig = "repo"
                              /\ Active(u) /\ upd[u].kind = "bundle" => upd[u].at = "fetch"
  /\ disk["bundle"] = "old" => BundleForGood /\ job.runs = "bundle"

(* What an updater is at depends on what it updates and on the manager.     *)
PhasesFit ==
  \A u \in Updaters :
    LET at == upd[u].at IN
    /\ at \in {"fetch", "check", "list"} => ~upd[u].managed
    /\ at = "configure" => manager # "nobody"
    /\ at \in {"unload", "load"} => upd[u].kind = "bundle" /\ manager = "launchd"
    /\ at = "verify" => upd[u].kind = "bundle" /\ manager # "nobody"
    /\ at \in {"recover", "reload"} => manager = "launchd"
    /\ upd[u].kind = "repo" \/ manager = "nobody" => upd[u].keep = {}

OneAtATime == ~overlap => \A u, v \in Updaters : Active(u) /\ Active(v) => u = v

(* Nothing of the old revision runs but what was missed, or will be started *)
(* again.                                                                   *)
Replaced(kind, missed) ==
  LET none == \A p \in procs : p.code # "old" \/ p.pid \in missed IN
  \/ manager = "nobody" /\ none
  \/ disk["repo"] # "old" /\ disk["bundle"] # "old" /\ none
  \/ /\ manager # "nobody" /\ BundleForGood
     /\ kind = "bundle" => job.runs = "bundle" /\ disk["bundle"] # "old" /\ none

(* An updater that is alone has listed what is to be stopped, but for what   *)
(* it misses: every connector started by hand, and of the service what is   *)
(* of the old revision.                                                     *)
Replacing(u) ==
  LET at == upd[u].at
      kind == upd[u].kind
      listed == upd[u].old \union upd[u].missed
  IN
  /\ at \in {"list", "configure", "unload", "load", "verify", "recover", "reload",
             "stop", "kill", "spawn"} => disk[kind] = "new"
  /\ at \in {"configure", "unload", "load", "verify", "stop", "kill"} =>
       \A p \in procs : p.managed \/ p.pid \in listed
  /\ at \in {"stop", "kill"} => \A p \in procs : p.managed \/ p.pid \notin upd[u].keep
  /\ at \in {"configure", "stop", "kill"} /\ kind = "repo" /\ conf = "repo" =>
       \A p \in procs : p.code = "old" => p.pid \in listed
  /\ at \in {"unload", "load"} => conf = "bundle"
  /\ at = "load" => ~job.loaded
  /\ at \in {"verify", "stop", "kill"} /\ kind = "bundle" /\ manager # "nobody" =>
       /\ conf = "bundle" /\ job.runs = "bundle"
       /\ \A p \in procs : p.managed => p.code # "old"
  /\ at \in {"spawn", "done"} => Replaced(kind, upd[u].missed)

(* There is a connector, or a service that starts one; and an updater that  *)
(* takes its replacement back brings back what there was.                   *)
Serving(u) ==
  LET at == upd[u].at IN
  /\ at \in {"fetch", "check", "list", "configure"} => job.loaded \/ HeldByHand
  /\ at = "unload" => upd[u].was
  /\ at \in {"load", "recover"} => upd[u].was \/ HeldByHand
  /\ at = "verify" => job.loaded /\ (manager = "launchd" => upd[u].was \/ HeldByHand)
  /\ at \in {"stop", "kill"} /\ upd[u].managed => job.loaded

UpdateInv ==
  /\ Updates!TypeOK
  /\ ProcessesFit /\ DiskFits /\ PhasesFit /\ OneAtATime
  /\ ~overlap => \A u \in Updaters : Replacing(u)
  /\ ~overlap /\ ~accident =>
       /\ \A u \in Updaters : Serving(u)
       /\ Updates!Quiet => job.loaded \/ \E p \in procs : Good(p)

-----------------------------------------------------------------------------
ProcessIds == 1..MaxPid
Stages == Updates!Resting \union {"fetch", "check", "list", "configure", "unload", "load",
                                  "verify", "recover", "reload", "stop", "kill", "spawn"}
UpdateRecords == [at : Stages, kind : Updates!Kinds, old : SUBSET ProcessIds,
                  missed : SUBSET ProcessIds, keep : SUBSET ProcessIds, was : BOOLEAN, orig : Updates!Kinds,
                  managed : BOOLEAN]
Processes == [pid : ProcessIds, kind : Updates!Kinds, code : Updates!Revisions, managed : BOOLEAN]

ServiceRecords == [loaded : BOOLEAN, runs : Updates!Kinds]

UpdateTyped ==
  /\ manager \in {"launchd", "systemd", "nobody"}
  /\ disk \in [Updates!Kinds -> Updates!Revisions] /\ conf \in Updates!Kinds
  /\ job \in ServiceRecords
  /\ procs \subseteq Processes
  /\ lock \in 0..MaxPid /\ pids \in 0..MaxPid
  /\ upd \in [Updaters -> UpdateRecords]
  /\ overlap \in BOOLEAN /\ accident \in BOOLEAN

LEMMA UpdateTypes == Updates!TypeOK <=> UpdateTyped
  BY DEF Updates!TypeOK, UpdateTyped, UpdateRecords, ProcessIds, Processes, Stages,
         ServiceRecords

LEMMA ServiceUnloads ==
  ASSUME NEW j \in ServiceRecords
  PROVE  LET k == [j EXCEPT !.loaded = FALSE]
         IN k \in ServiceRecords /\ ~k.loaded /\ k.runs = j.runs
  BY DEF ServiceRecords

LEMMA ServiceLoads ==
  ASSUME NEW r \in Updates!Kinds, NEW b \in BOOLEAN
  PROVE  LET k == [loaded |-> b, runs |-> r]
         IN k \in ServiceRecords /\ k.loaded = b /\ k.runs = r
  BY DEF ServiceRecords

(* What an updater has noted, and what the others have.                     *)
LEMMA UpdaterGoes ==
  ASSUME UpdateTyped, NEW u \in Updaters, NEW a \in Stages, Updates!Goes(u, a)
  PROVE  /\ upd' \in [Updaters -> UpdateRecords]
         /\ \A v \in Updaters : v # u => upd'[v] = upd[v]
         /\ upd'[u].at = a /\ upd'[u].kind = upd[u].kind
         /\ upd'[u].missed = upd[u].missed
         /\ upd'[u].old = upd[u].old /\ upd'[u].keep = upd[u].keep
         /\ upd'[u].was = upd[u].was /\ upd'[u].orig = upd[u].orig
         /\ upd'[u].managed = upd[u].managed
  BY DEF UpdateTyped, UpdateRecords, Updates!Goes

LEMMA UpdatersNote ==
  ASSUME UpdateTyped, NEW u \in Updaters, NEW w \in UpdateRecords,
         upd' = [upd EXCEPT ![u] = w]
  PROVE  /\ upd' \in [Updaters -> UpdateRecords]
         /\ \A v \in Updaters : v # u => upd'[v] = upd[v]
         /\ upd'[u] = w
  BY DEF UpdateTyped

(* The effects of each step, in so far as they concern the updater.         *)
LEMMA BeginEffect ==
  ASSUME UpdateTyped, NEW u \in Updaters, Updates!Begin(u)
  PROVE  /\ upd' \in [Updaters -> UpdateRecords]
         /\ \A v \in Updaters : v # u => upd'[v] = upd[v]
         /\ upd'[u].at = "fetch" /\ upd'[u].keep = {} /\ upd'[u].orig = "repo"
         /\ upd'[u].managed = FALSE
<1>1. PICK k \in Updates!Kinds :
        upd' = [upd EXCEPT ![u] = [Updates!NoUpdate EXCEPT !.at = "fetch", !.kind = k]]
  BY DEF Updates!Begin
<1> DEFINE w == [Updates!NoUpdate EXCEPT !.at = "fetch", !.kind = k]
<1>2. w \in UpdateRecords /\ w.at = "fetch" /\ w.keep = {} /\ w.orig = "repo"
      /\ w.managed = FALSE
  BY DEF Updates!NoUpdate, UpdateRecords, Stages, Updates!Kinds
<1> HIDE DEF w
<1> QED
  BY <1>1, <1>2, UpdatersNote DEF w

LEMMA ListEffect ==
  ASSUME UpdateTyped, NEW u \in Updaters, Updates!ListPids(u)
  PROVE  /\ upd' \in [Updaters -> UpdateRecords]
         /\ \A v \in Updaters : v # u => upd'[v] = upd[v]
         /\ upd'[u].at \in {"stop", "configure"}
         /\ upd'[u].at = "stop" <=> manager = "nobody"
         /\ \A p \in procs : p.pid \in upd'[u].old \union upd'[u].missed
         /\ upd'[u].kind = upd[u].kind /\ upd'[u].keep = upd[u].keep
         /\ upd'[u].was = upd[u].was /\ upd'[u].orig = upd[u].orig
         /\ upd'[u].managed = upd[u].managed
<1>0. PICK P \in {{p \in procs : Updates!Sees(u, p)}, {}} :
        upd' = [upd EXCEPT ![u].old = {p.pid : p \in P},
                  ![u].missed = {p.pid : p \in procs \ P},
                  ![u].at = IF manager = "nobody" THEN "stop" ELSE "configure"]
  BY DEF Updates!ListPids
<1> DEFINE S == {p.pid : p \in P}
           M == {p.pid : p \in procs \ P}
           a == IF manager = "nobody" THEN "stop" ELSE "configure"
           w == [upd[u] EXCEPT !.old = S, !.missed = M, !.at = a]
<1>1. upd' = [upd EXCEPT ![u] = w]
  BY <1>0 DEF UpdateTyped, UpdateRecords
<1>2. /\ S \subseteq ProcessIds /\ M \subseteq ProcessIds /\ a \in Stages
      /\ \A p \in procs : p.pid \in S \union M
  BY <1>0 DEF UpdateTyped, Processes, Stages
<1> HIDE DEF S, M, a
<1>3. /\ w \in UpdateRecords /\ w.at = a /\ w.old = S /\ w.missed = M
      /\ w.kind = upd[u].kind /\ w.keep = upd[u].keep
      /\ w.was = upd[u].was /\ w.orig = upd[u].orig /\ w.managed = upd[u].managed
  BY <1>2 DEF UpdateTyped, UpdateRecords
<1> HIDE DEF w
<1> QED
  BY <1>1, <1>2, <1>3, UpdatersNote DEF S, a

LEMMA ConfigureEffect ==
  ASSUME UpdateTyped, NEW u \in Updaters, Updates!Configure(u)
  PROVE  /\ upd' \in [Updaters -> UpdateRecords]
         /\ \A v \in Updaters : v # u => upd'[v] = upd[v]
         /\ upd'[u].at = IF job.loaded THEN "unload" ELSE "load"
         /\ upd'[u].was = job.loaded /\ upd'[u].orig = conf
         /\ upd'[u].kind = upd[u].kind /\ upd'[u].keep = upd[u].keep
         /\ upd'[u].missed = upd[u].missed
         /\ upd'[u].old = upd[u].old /\ upd'[u].managed = upd[u].managed
<1> DEFINE a == IF job.loaded THEN "unload" ELSE "load"
           w == [upd[u] EXCEPT !.at = a, !.was = job.loaded, !.orig = conf]
<1>1. upd' = [upd EXCEPT ![u] = w]
  BY DEF Updates!Configure, UpdateTyped, UpdateRecords
<1>2. a \in Stages /\ job.loaded \in BOOLEAN /\ conf \in Updates!Kinds
  BY DEF UpdateTyped, ServiceRecords, Stages
<1> HIDE DEF a
<1>3. /\ w \in UpdateRecords /\ w.at = a /\ w.was = job.loaded /\ w.orig = conf
      /\ w.kind = upd[u].kind /\ w.keep = upd[u].keep
      /\ w.missed = upd[u].missed
      /\ w.old = upd[u].old /\ w.managed = upd[u].managed
  BY <1>2 DEF UpdateTyped, UpdateRecords
<1> HIDE DEF w
<1> QED
  BY <1>1, <1>3, UpdatersNote DEF a

LEMMA VerifyEffect ==
  ASSUME UpdateTyped, NEW u \in Updaters, Updates!Verify(u)
  PROVE  /\ upd' \in [Updaters -> UpdateRecords]
         /\ \A v \in Updaters : v # u => upd'[v] = upd[v]
         /\ \/ /\ Updates!Managed # {} /\ upd'[u].at = "stop" /\ upd'[u].managed = TRUE
               /\ upd'[u].keep = {p.pid : p \in Updates!Managed}
            \/ /\ upd'[u].at = IF manager = "launchd" THEN "recover" ELSE "failed"
               /\ upd'[u].keep = upd[u].keep
         /\ upd'[u].missed = upd[u].missed
         /\ upd'[u].kind = upd[u].kind /\ upd'[u].old = upd[u].old
         /\ upd'[u].was = upd[u].was /\ upd'[u].orig = upd[u].orig
<1> DEFINE S == {p.pid : p \in Updates!Managed}
           w == [upd[u] EXCEPT !.keep = S, !.managed = TRUE, !.at = "stop"]
           a == IF manager = "launchd" THEN "recover" ELSE "failed"
<1>1. CASE upd' = [upd EXCEPT ![u].keep = S, ![u].managed = TRUE, ![u].at = "stop"]
           /\ Updates!Managed # {}
  <2>1. upd' = [upd EXCEPT ![u] = w]
    BY <1>1 DEF UpdateTyped, UpdateRecords
  <2>2. S \subseteq ProcessIds
    BY DEF UpdateTyped, Processes, Updates!Managed
  <2> HIDE DEF S
  <2>3. /\ w \in UpdateRecords /\ w.at = "stop" /\ w.keep = S /\ w.managed = TRUE
        /\ w.missed = upd[u].missed
        /\ w.kind = upd[u].kind /\ w.old = upd[u].old
        /\ w.was = upd[u].was /\ w.orig = upd[u].orig
    BY <2>2 DEF UpdateTyped, UpdateRecords, Stages
  <2> HIDE DEF w
  <2> QED
    BY <1>1, <2>1, <2>3, UpdatersNote DEF S
<1>2. CASE Updates!Goes(u, a)
  <2>1. a \in Stages
    BY DEF Stages, Updates!Resting
  <2> QED
    BY <1>2, <2>1, UpdaterGoes
<1> QED
  BY <1>1, <1>2 DEF Updates!Verify

LEMMA RepoEffect ==
  ASSUME UpdateTyped, NEW u \in Updaters, Updates!RepoLaunchd(u)
  PROVE  /\ upd' \in [Updaters -> UpdateRecords]
         /\ \A v \in Updaters : v # u => upd'[v] = upd[v]
         /\ upd'[u].at = "stop"
         /\ upd'[u].managed \in BOOLEAN
         /\ \/ job' = [loaded |-> upd'[u].managed, runs |-> conf]
                 /\ procs' = procs \ Updates!Managed
            \/ job' = job /\ job.loaded /\ procs' = procs \ Updates!Managed
            \/ job' = job /\ job.loaded /\ procs' = procs
         /\ upd'[u].kind = upd[u].kind /\ upd'[u].keep = upd[u].keep
         /\ upd'[u].missed = upd[u].missed
         /\ upd'[u].old = upd[u].old
         /\ upd'[u].was = upd[u].was /\ upd'[u].orig = upd[u].orig
<1>1. PICK done \in BOOLEAN, reload \in BOOLEAN :
       /\ ~job.loaded => reload
       /\ job' = IF reload THEN [loaded |-> done, runs |-> conf] ELSE job
       /\ procs' = IF reload \/ done THEN procs \ Updates!Managed ELSE procs
       /\ upd' = [upd EXCEPT ![u].managed = done, ![u].at = "stop"]
  BY DEF Updates!RepoLaunchd
<1> DEFINE w == [upd[u] EXCEPT !.managed = done, !.at = "stop"]
<1>2. upd' = [upd EXCEPT ![u] = w]
  BY <1>1 DEF UpdateTyped, UpdateRecords
<1>3. /\ w \in UpdateRecords /\ w.at = "stop" /\ w.managed = done
      /\ w.missed = upd[u].missed
      /\ w.kind = upd[u].kind /\ w.keep = upd[u].keep /\ w.old = upd[u].old
      /\ w.was = upd[u].was /\ w.orig = upd[u].orig
  BY DEF UpdateTyped, UpdateRecords, Stages
<1> HIDE DEF w
<1>4. /\ upd' \in [Updaters -> UpdateRecords] /\ upd'[u] = w
      /\ \A v \in Updaters : v # u => upd'[v] = upd[v]
  BY <1>2, <1>3, UpdatersNote
<1>5. \/ job' = [loaded |-> done, runs |-> conf] /\ procs' = procs \ Updates!Managed
      \/ job' = job /\ job.loaded /\ procs' = procs \ Updates!Managed
      \/ job' = job /\ job.loaded /\ procs' = procs
  <2>1. CASE reload
    BY <1>1, <2>1
  <2>2. CASE ~reload
    BY <1>1, <2>2
  <2> QED
    BY <2>1, <2>2
<1> QED
  BY <1>3, <1>4, <1>5

LEMMA UnitEffect ==
  ASSUME UpdateTyped, NEW u \in Updaters, Updates!RestartUnit(u)
  PROVE  /\ upd' \in [Updaters -> UpdateRecords]
         /\ \A v \in Updaters : v # u => upd'[v] = upd[v]
         /\ upd'[u].at = IF upd[u].kind = "bundle" THEN "verify" ELSE "stop"
         /\ upd'[u].managed = TRUE
         /\ upd'[u].kind = upd[u].kind /\ upd'[u].keep = upd[u].keep
         /\ upd'[u].missed = upd[u].missed
         /\ upd'[u].old = upd[u].old
         /\ upd'[u].was = upd[u].was /\ upd'[u].orig = upd[u].orig
<1> DEFINE a == IF upd[u].kind = "bundle" THEN "verify" ELSE "stop"
           w == [upd[u] EXCEPT !.at = a, !.managed = TRUE]
<1>1. upd' = [upd EXCEPT ![u] = w]
  BY DEF Updates!RestartUnit, UpdateTyped, UpdateRecords
<1>2. a \in Stages
  BY DEF Stages
<1> HIDE DEF a
<1>3. /\ w \in UpdateRecords /\ w.at = a /\ w.managed = TRUE
      /\ w.missed = upd[u].missed
      /\ w.kind = upd[u].kind /\ w.keep = upd[u].keep /\ w.old = upd[u].old
      /\ w.was = upd[u].was /\ w.orig = upd[u].orig
  BY <1>2 DEF UpdateTyped, UpdateRecords
<1> HIDE DEF w
<1> QED
  BY <1>1, <1>3, UpdatersNote DEF a

LEMMA RebootEffect ==
  ASSUME UpdateTyped, Updates!Reboot
  PROVE  /\ upd' \in [Updaters -> UpdateRecords]
         /\ \A v \in Updaters : /\ upd'[v].at \in {"idle", "failed"}
                                /\ upd'[v].kind = upd[v].kind /\ upd'[v].keep = upd[v].keep
                                /\ upd'[v].orig = upd[v].orig
<1> DEFINE w(v) == [upd[v] EXCEPT !.at = IF @ \in Updates!Resting THEN "idle" ELSE "failed"]
<1>1. upd' = [v \in Updaters |-> w(v)]
  BY DEF Updates!Reboot
<1>2. ASSUME NEW v \in Updaters
      PROVE  /\ w(v) \in UpdateRecords /\ w(v).at \in {"idle", "failed"}
             /\ w(v).kind = upd[v].kind /\ w(v).keep = upd[v].keep /\ w(v).orig = upd[v].orig
  BY DEF UpdateTyped, UpdateRecords, Stages, Updates!Resting
<1> HIDE DEF w
<1> QED
  BY <1>1, <1>2

-----------------------------------------------------------------------------
(* A step of one updater.  When it is alone the others rest, and all they   *)
(* have to keep is that what one has replaced stays replaced.               *)
LEMMA UpdaterSteps ==
  ASSUME UpdateInv, NEW u \in Updaters, Active(u), overlap' = overlap, accident => accident',
         UpdateTyped', ProcessesFit', DiskFits', PhasesFit',
         \A v \in Updaters : v # u => upd'[v] = upd[v],
         ~overlap => Replacing(u)',
         ~overlap => \A k \in Updates!Kinds, M \in SUBSET ProcessIds :
           Replaced(k, M) => Replaced(k, M)',
         ~overlap /\ ~accident' => Serving(u)',
         ~overlap /\ ~accident' /\ upd'[u].at \in Updates!Resting =>
           job'.loaded \/ \E p \in procs' : Good(p)
  PROVE  UpdateInv'
<1>1. Updates!TypeOK'
  BY UpdateTypes, PTL
<1>2. UpdateTyped
  BY UpdateTypes DEF UpdateInv
<1>3. ~overlap => \A v \in Updaters : v # u => ~Active(v)
  BY DEF UpdateInv, OneAtATime
<1>4. OneAtATime'
  BY <1>3 DEF OneAtATime, Active
<1>5. ASSUME ~overlap, NEW v \in Updaters PROVE Replacing(v)'
  <2>1. CASE v = u
    BY <1>5, <2>1
  <2>2. CASE v # u
    <3>1. /\ ~Active(v) /\ upd'[v] = upd[v] /\ upd[v].kind \in Updates!Kinds
          /\ upd[v].missed \in SUBSET ProcessIds
      BY <1>2, <1>3, <1>5, <2>2 DEF UpdateTyped, UpdateRecords
    <3>2. PICK k \in Updates!Kinds, M \in SUBSET ProcessIds :
            k = upd[v].kind /\ M = upd[v].missed
      BY <3>1
    <3>3. upd[v].at = "done" => Replaced(k, M)
      BY <1>5, <3>2 DEF UpdateInv, Replacing
    <3>4. upd[v].at = "done" => Replaced(k, M)'
      BY <1>5, <3>3
    <3>5. upd[v].at \in {"idle", "done", "failed"}
      BY <3>1 DEF Active, Updates!Resting
    <3>6. Replaced(k, M)' => Replaced(upd[v].kind, upd[v].missed)'
      BY <3>1, <3>2 DEF Replaced, BundleForGood
    <3> QED
      BY <3>1, <3>4, <3>5, <3>6 DEF Replacing
  <2> QED
    BY <2>1, <2>2
<1>6. ASSUME ~overlap, ~accident', NEW v \in Updaters PROVE Serving(v)'
  <2>1. CASE v = u
    BY <1>6, <2>1
  <2>2. CASE v # u
    <3>1. ~Active(v) /\ upd'[v] = upd[v]
      BY <1>3, <1>6, <2>2
    <3> QED
      BY <3>1 DEF Active, Updates!Resting, Serving
  <2> QED
    BY <2>1, <2>2
<1>7. ~overlap /\ ~accident' /\ Updates!Quiet' => job'.loaded \/ \E p \in procs' : Good(p)
  BY DEF Updates!Quiet
<1> QED
  BY <1>1, <1>4, <1>5, <1>6, <1>7 DEF UpdateInv, Good

(* The processes, when there are no new ones.                               *)
LEMMA ProcessesEnd ==
  ASSUME ProcessesFit, procs' \subseteq procs, lock' = lock, pids' = pids, manager' = manager,
         \A p \in procs' : p.managed => job'.loaded, manager = "nobody" => ~job'.loaded
  PROVE  ProcessesFit'
  BY DEF ProcessesFit, Good

(* What an updater does with the processes leaves the places as they were.  *)
LEMMA DiskStays ==
  ASSUME DiskFits, NEW u \in Updaters,
         \A v \in Updaters : v # u => upd'[v] = upd[v],
         upd'[u].kind = upd[u].kind, upd'[u].orig = upd[u].orig,
         Active(u), upd[u].at # "fetch",
         upd'[u].at \in {"unload", "load", "verify", "recover"} =>
           upd[u].at \in {"unload", "load", "verify", "recover"},
         disk' = disk, conf' = conf, manager' = manager, job'.runs = job.runs
  PROVE  DiskFits'
<1>1. BundleForGood => BundleForGood'
  BY DEF BundleForGood
<1>2. ASSUME disk["bundle"] = "none", NEW v \in Updaters
      PROVE  /\ upd'[v].orig = "repo"
             /\ Active(v)' /\ upd'[v].kind = "bundle" => upd'[v].at = "fetch"
  BY <1>2 DEF DiskFits, Active
<1> QED
  BY <1>1, <1>2 DEF DiskFits

(* What is fetched takes the place of what was there.                       *)
LEMMA FetchStep ==
  ASSUME Updates!UpdateAssumption, UpdateInv, NEW u \in Updaters, Updates!Fetch(u)
  PROVE  UpdateInv'
<1>1. UpdateTyped /\ ProcessesFit /\ DiskFits /\ PhasesFit
  BY UpdateTypes DEF UpdateInv
<1>2. /\ upd' \in [Updaters -> UpdateRecords]
      /\ \A v \in Updaters : v # u => upd'[v] = upd[v]
      /\ upd'[u].at = "check" /\ upd'[u].kind = upd[u].kind
      /\ upd'[u].missed = upd[u].missed
      /\ upd'[u].old = upd[u].old /\ upd'[u].keep = upd[u].keep
      /\ upd'[u].was = upd[u].was /\ upd'[u].orig = upd[u].orig
      /\ upd'[u].managed = upd[u].managed
  <2>1. "check" \in Stages
    BY DEF Stages, Updates!Resting
  <2>2. Updates!Goes(u, "check")
    BY DEF Updates!Fetch
  <2> QED
    BY <1>1, <2>1, <2>2, UpdaterGoes
<1>3. Active(u)
  BY DEF Updates!Fetch, Active, Updates!Resting
<1>4. UpdateTyped'
  <2>1. disk' \in [Updates!Kinds -> Updates!Revisions]
    BY <1>1 DEF Updates!Fetch, UpdateTyped, Updates!Revisions
  <2>2. UNCHANGED <<manager, conf, job, procs, lock, pids, overlap, accident>>
    BY DEF Updates!Fetch, Updates!machine
  <2> QED
    BY <1>1, <1>2, <2>1, <2>2 DEF UpdateTyped
<1>5. ProcessesFit'
  BY <1>1, <1>2, <1>3 DEF Updates!Fetch, Updates!machine, Updates!Managed, ProcessesFit, Good,
                          PhasesFit, UpdateTyped
<1>6. DiskFits'
  BY <1>1, <1>2, <1>3 DEF Updates!Fetch, Updates!machine, Updates!Managed, DiskFits,
                          BundleForGood, PhasesFit, Active, Updates!Resting, UpdateTyped,
                          UpdateRecords, ServiceRecords, Updates!Kinds, Updates!Revisions
<1>7. PhasesFit'
  BY <1>1, <1>2, <1>3 DEF Updates!Fetch, Updates!machine, Updates!Managed, PhasesFit,
                          UpdateTyped, UpdateRecords, Updates!Kinds
<1>8. ~overlap => Replacing(u)
  BY DEF UpdateInv
<1>9. ~overlap => Replacing(u)'
  BY <1>1, <1>2, <1>3, <1>8 DEF Updates!Fetch, Updates!machine, Updates!Managed, Replacing,
                                Replaced, BundleForGood, PhasesFit, DiskFits, ProcessesFit,
                                UpdateTyped, UpdateRecords, ServiceRecords, Updates!Kinds,
                                Updates!Revisions
<1>10. ~overlap => \A k \in Updates!Kinds, M \in SUBSET ProcessIds :
         Replaced(k, M) => Replaced(k, M)'
  BY <1>1, <1>2, <1>3 DEF Updates!Fetch, Updates!machine, Updates!Managed, Replaced,
                          BundleForGood, DiskFits, ProcessesFit, PhasesFit, UpdateTyped,
                          Updates!Kinds
<1>11. ~overlap /\ ~accident => Serving(u)
  BY DEF UpdateInv
<1>12. ~overlap /\ ~accident' => Serving(u)'
  BY <1>1, <1>2, <1>3, <1>11 DEF Updates!Fetch, Updates!machine, Updates!Managed, Serving,
                                 HeldByHand, PhasesFit, ProcessesFit, UpdateTyped,
                                 UpdateRecords, Updates!Kinds
<1>13. ~overlap /\ ~accident' /\ upd'[u].at \in Updates!Resting =>
        job'.loaded \/ \E p \in procs' : Good(p)
  BY <1>1, <1>2, <1>3, <1>11 DEF Updates!Fetch, Updates!machine, Updates!Managed, Serving,
                                 HeldByHand, Good, Updates!Resting, ProcessesFit, PhasesFit
<1>14. overlap' = overlap /\ (accident => accident')
  BY DEF Updates!Fetch
<1> QED
  BY <1>2, <1>3, <1>4, <1>5, <1>6, <1>7, <1>9, <1>10, <1>12, <1>13, <1>14, UpdaterSteps

(* Only a new revision goes on.                                             *)
LEMMA CheckStep ==
  ASSUME Updates!UpdateAssumption, UpdateInv, NEW u \in Updaters, Updates!Check(u)
  PROVE  UpdateInv'
<1>1. UpdateTyped /\ ProcessesFit /\ DiskFits /\ PhasesFit
  BY UpdateTypes DEF UpdateInv
<1>2. /\ upd' \in [Updaters -> UpdateRecords]
      /\ \A v \in Updaters : v # u => upd'[v] = upd[v]
      /\ upd'[u].kind = upd[u].kind
      /\ upd'[u].missed = upd[u].missed
      /\ upd'[u].old = upd[u].old /\ upd'[u].keep = upd[u].keep
      /\ upd'[u].was = upd[u].was /\ upd'[u].orig = upd[u].orig
      /\ upd'[u].managed = upd[u].managed
      /\ \/ upd'[u].at = "list" /\ disk[upd[u].kind] = "new"
         \/ upd'[u].at = "failed"
  <2>1. "list" \in Stages /\ "failed" \in Stages
    BY DEF Stages, Updates!Resting
  <2>2. \/ Updates!Goes(u, "list") /\ disk[upd[u].kind] = "new"
        \/ Updates!Goes(u, "failed")
    BY <1>1, ServiceUnloads, ServiceLoads DEF Updates!Check, Updates!Fails, UpdateTyped
  <2>3. CASE Updates!Goes(u, "list") /\ disk[upd[u].kind] = "new"
    BY <1>1, <2>1, <2>3, UpdaterGoes
  <2>4. CASE Updates!Goes(u, "failed")
    BY <1>1, <2>1, <2>4, UpdaterGoes
  <2> QED
    BY <2>2, <2>3, <2>4
<1>3. Active(u)
  BY DEF Updates!Check, Active, Updates!Resting
<1>4. UpdateTyped'
  BY <1>1, <1>2, <1>3 DEF Updates!Check, Updates!machine, Updates!Managed, UpdateTyped,
                          Processes, Updates!Kinds, Updates!Revisions, Updates!UpdateAssumption,
                          ProcessIds
<1>5. ProcessesFit'
  BY <1>1, <1>2, <1>3 DEF Updates!Check, Updates!machine, Updates!Managed, ProcessesFit, Good,
                          PhasesFit, UpdateTyped
<1>6. DiskFits'
  BY <1>1, <1>2, <1>3 DEF Updates!Check, Updates!machine, Updates!Managed, DiskFits,
                          BundleForGood, PhasesFit, Active, Updates!Resting, UpdateTyped,
                          UpdateRecords, ServiceRecords, Updates!Kinds, Updates!Revisions
<1>7. PhasesFit'
  BY <1>1, <1>2, <1>3 DEF Updates!Check, Updates!machine, Updates!Managed, PhasesFit,
                          UpdateTyped, UpdateRecords, Updates!Kinds
<1>8. ~overlap => Replacing(u)
  BY DEF UpdateInv
<1>9. ~overlap => Replacing(u)'
  BY <1>1, <1>2, <1>3, <1>8 DEF Updates!Check, Updates!machine, Updates!Managed, Replacing,
                                Replaced, BundleForGood, PhasesFit, DiskFits, ProcessesFit,
                                UpdateTyped, UpdateRecords, ServiceRecords, Updates!Kinds,
                                Updates!Revisions
<1>10. ~overlap => \A k \in Updates!Kinds, M \in SUBSET ProcessIds :
         Replaced(k, M) => Replaced(k, M)'
  BY <1>1, <1>2, <1>3 DEF Updates!Check, Updates!machine, Updates!Managed, Replaced,
                          BundleForGood, DiskFits, ProcessesFit, PhasesFit, UpdateTyped,
                          Updates!Kinds
<1>11. ~overlap /\ ~accident => Serving(u)
  BY DEF UpdateInv
<1>12. ~overlap /\ ~accident' => Serving(u)'
  BY <1>1, <1>2, <1>3, <1>11 DEF Updates!Check, Updates!machine, Updates!Managed, Serving,
                                 HeldByHand, PhasesFit, ProcessesFit, UpdateTyped,
                                 UpdateRecords, Updates!Kinds
<1>13. ~overlap /\ ~accident' /\ upd'[u].at \in Updates!Resting =>
        job'.loaded \/ \E p \in procs' : Good(p)
  BY <1>1, <1>2, <1>3, <1>11 DEF Updates!Check, Updates!machine, Updates!Managed, Serving,
                                 HeldByHand, Good, Updates!Resting, ProcessesFit, PhasesFit
<1>14. overlap' = overlap /\ (accident => accident')
  BY DEF Updates!Check
<1> QED
  BY <1>2, <1>3, <1>4, <1>5, <1>6, <1>7, <1>9, <1>10, <1>12, <1>13, <1>14, UpdaterSteps

(* The connector has not been touched.                                      *)
LEMMA GivesUpStep ==
  ASSUME Updates!UpdateAssumption, UpdateInv, NEW u \in Updaters, Updates!GivesUp(u)
  PROVE  UpdateInv'
<1>1. UpdateTyped /\ ProcessesFit /\ DiskFits /\ PhasesFit
  BY UpdateTypes DEF UpdateInv
<1>2. /\ upd' \in [Updaters -> UpdateRecords]
      /\ \A v \in Updaters : v # u => upd'[v] = upd[v]
      /\ upd'[u].at = "failed" /\ upd'[u].kind = upd[u].kind
      /\ upd'[u].missed = upd[u].missed
      /\ upd'[u].old = upd[u].old /\ upd'[u].keep = upd[u].keep
      /\ upd'[u].was = upd[u].was /\ upd'[u].orig = upd[u].orig
      /\ upd'[u].managed = upd[u].managed
  <2>1. "failed" \in Stages
    BY DEF Stages, Updates!Resting
  <2>2. Updates!Goes(u, "failed")
    BY DEF Updates!GivesUp, Updates!Fails
  <2> QED
    BY <1>1, <2>1, <2>2, UpdaterGoes
<1>3. Active(u)
  BY DEF Updates!GivesUp, Active, Updates!Resting
<1>4. UpdateTyped'
  BY <1>1, <1>2, <1>3 DEF Updates!GivesUp, Updates!machine, Updates!Managed, UpdateTyped,
                          Processes, Updates!Kinds, Updates!Revisions, Updates!UpdateAssumption,
                          ProcessIds
<1>5. ProcessesFit'
  BY <1>1, <1>2, <1>3 DEF Updates!GivesUp, Updates!machine, Updates!Managed, ProcessesFit, Good,
                          PhasesFit, UpdateTyped
<1>6. DiskFits'
  BY <1>1, <1>2, <1>3 DEF Updates!GivesUp, Updates!machine, Updates!Managed, DiskFits,
                          BundleForGood, PhasesFit, Active, Updates!Resting, UpdateTyped,
                          UpdateRecords, ServiceRecords, Updates!Kinds, Updates!Revisions
<1>7. PhasesFit'
  BY <1>1, <1>2, <1>3 DEF Updates!GivesUp, Updates!machine, Updates!Managed, PhasesFit,
                          UpdateTyped, UpdateRecords, Updates!Kinds
<1>8. ~overlap => Replacing(u)
  BY DEF UpdateInv
<1>9. ~overlap => Replacing(u)'
  BY <1>1, <1>2, <1>3, <1>8 DEF Updates!GivesUp, Updates!machine, Updates!Managed, Replacing,
                                Replaced, BundleForGood, PhasesFit, DiskFits, ProcessesFit,
                                UpdateTyped, UpdateRecords, ServiceRecords, Updates!Kinds,
                                Updates!Revisions
<1>10. ~overlap => \A k \in Updates!Kinds, M \in SUBSET ProcessIds :
         Replaced(k, M) => Replaced(k, M)'
  BY <1>1, <1>2, <1>3 DEF Updates!GivesUp, Updates!machine, Updates!Managed, Replaced,
                          BundleForGood, DiskFits, ProcessesFit, PhasesFit, UpdateTyped,
                          Updates!Kinds
<1>11. ~overlap /\ ~accident => Serving(u)
  BY DEF UpdateInv
<1>12. ~overlap /\ ~accident' => Serving(u)'
  BY <1>1, <1>2, <1>3, <1>11 DEF Updates!GivesUp, Updates!machine, Updates!Managed, Serving,
                                 HeldByHand, PhasesFit, ProcessesFit, UpdateTyped,
                                 UpdateRecords, Updates!Kinds
<1>13. ~overlap /\ ~accident' /\ upd'[u].at \in Updates!Resting =>
        job'.loaded \/ \E p \in procs' : Good(p)
  BY <1>1, <1>2, <1>3, <1>11 DEF Updates!GivesUp, Updates!machine, Updates!Managed, Serving,
                                 HeldByHand, Good, Updates!Resting, ProcessesFit, PhasesFit
<1>14. overlap' = overlap /\ (accident => accident')
  BY DEF Updates!GivesUp
<1> QED
  BY <1>2, <1>3, <1>4, <1>5, <1>6, <1>7, <1>9, <1>10, <1>12, <1>13, <1>14, UpdaterSteps

(* An accident, after which nothing is said of what serves.                 *)
LEMMA UpdaterDiesStep ==
  ASSUME Updates!UpdateAssumption, UpdateInv, NEW u \in Updaters, Updates!UpdaterDies(u)
  PROVE  UpdateInv'
<1>1. UpdateTyped /\ ProcessesFit /\ DiskFits /\ PhasesFit
  BY UpdateTypes DEF UpdateInv
<1>2. /\ upd' \in [Updaters -> UpdateRecords]
      /\ \A v \in Updaters : v # u => upd'[v] = upd[v]
      /\ upd'[u].at = "failed" /\ upd'[u].kind = upd[u].kind
      /\ upd'[u].missed = upd[u].missed
      /\ upd'[u].old = upd[u].old /\ upd'[u].keep = upd[u].keep
      /\ upd'[u].was = upd[u].was /\ upd'[u].orig = upd[u].orig
      /\ upd'[u].managed = upd[u].managed
  <2>1. "failed" \in Stages
    BY DEF Stages, Updates!Resting
  <2>2. Updates!Goes(u, "failed")
    BY DEF Updates!UpdaterDies, Updates!Fails
  <2> QED
    BY <1>1, <2>1, <2>2, UpdaterGoes
<1>3. Active(u)
  BY DEF Updates!UpdaterDies, Active, Updates!Resting
<1>4. UpdateTyped'
  BY <1>1, <1>2, <1>3 DEF Updates!UpdaterDies, Updates!machine, Updates!Managed, UpdateTyped,
                          Processes, Updates!Kinds, Updates!Revisions, Updates!UpdateAssumption,
                          ProcessIds
<1>5. ProcessesFit'
  BY <1>1, <1>2, <1>3 DEF Updates!UpdaterDies, Updates!machine, Updates!Managed, ProcessesFit,
                          Good, PhasesFit, UpdateTyped
<1>6. DiskFits'
  BY <1>1, <1>2, <1>3 DEF Updates!UpdaterDies, Updates!machine, Updates!Managed, DiskFits,
                          BundleForGood, PhasesFit, Active, Updates!Resting, UpdateTyped,
                          UpdateRecords, ServiceRecords, Updates!Kinds, Updates!Revisions
<1>7. PhasesFit'
  BY <1>1, <1>2, <1>3 DEF Updates!UpdaterDies, Updates!machine, Updates!Managed, PhasesFit,
                          UpdateTyped, UpdateRecords, Updates!Kinds
<1>8. ~overlap => Replacing(u)
  BY DEF UpdateInv
<1>9. ~overlap => Replacing(u)'
  BY <1>1, <1>2, <1>3, <1>8 DEF Updates!UpdaterDies, Updates!machine, Updates!Managed,
                                Replacing, Replaced, BundleForGood, PhasesFit, DiskFits,
                                ProcessesFit, UpdateTyped, UpdateRecords, ServiceRecords,
                                Updates!Kinds, Updates!Revisions
<1>10. ~overlap => \A k \in Updates!Kinds, M \in SUBSET ProcessIds :
         Replaced(k, M) => Replaced(k, M)'
  BY <1>1, <1>2, <1>3 DEF Updates!UpdaterDies, Updates!machine, Updates!Managed, Replaced,
                          BundleForGood, DiskFits, ProcessesFit, PhasesFit, UpdateTyped,
                          Updates!Kinds
<1>11. ~overlap /\ ~accident => Serving(u)
  BY DEF UpdateInv
<1>12. ~overlap /\ ~accident' => Serving(u)'
  BY <1>1, <1>2, <1>3, <1>11 DEF Updates!UpdaterDies, Updates!machine, Updates!Managed, Serving,
                                 HeldByHand, PhasesFit, ProcessesFit, UpdateTyped,
                                 UpdateRecords, Updates!Kinds
<1>13. ~overlap /\ ~accident' /\ upd'[u].at \in Updates!Resting =>
        job'.loaded \/ \E p \in procs' : Good(p)
  BY <1>1, <1>2, <1>3, <1>11 DEF Updates!UpdaterDies, Updates!machine, Updates!Managed, Serving,
                                 HeldByHand, Good, Updates!Resting, ProcessesFit, PhasesFit
<1>14. overlap' = overlap /\ (accident => accident')
  BY DEF Updates!UpdaterDies
<1> QED
  BY <1>2, <1>3, <1>4, <1>5, <1>6, <1>7, <1>9, <1>10, <1>12, <1>13, <1>14, UpdaterSteps

(* All that run are to be stopped.                                          *)
LEMMA ListPidsStep ==
  ASSUME Updates!UpdateAssumption, UpdateInv, NEW u \in Updaters, Updates!ListPids(u)
  PROVE  UpdateInv'
<1>1. UpdateTyped /\ ProcessesFit /\ DiskFits /\ PhasesFit
  BY UpdateTypes DEF UpdateInv
<1>2. /\ upd' \in [Updaters -> UpdateRecords]
      /\ \A v \in Updaters : v # u => upd'[v] = upd[v]
      /\ \/ upd'[u].at = "stop" /\ manager = "nobody"
         \/ upd'[u].at = "configure" /\ manager # "nobody"
      /\ \A p \in procs : p.pid \in upd'[u].old \union upd'[u].missed
      /\ upd'[u].kind = upd[u].kind /\ upd'[u].keep = upd[u].keep
      /\ upd'[u].was = upd[u].was /\ upd'[u].orig = upd[u].orig
      /\ upd'[u].managed = upd[u].managed
  BY <1>1, ListEffect
<1>3. Active(u)
  BY DEF Updates!ListPids, Active, Updates!Resting
<1>4. UpdateTyped'
  BY <1>1, <1>2, <1>3 DEF Updates!ListPids, Updates!machine, Updates!Managed, UpdateTyped,
                          Processes, Updates!Kinds, Updates!Revisions, Updates!UpdateAssumption,
                          ProcessIds
<1>5. ProcessesFit'
  BY <1>1, <1>2, <1>3 DEF Updates!ListPids, Updates!machine, Updates!Managed, ProcessesFit,
                          Good, PhasesFit, UpdateTyped
<1>6. DiskFits'
  <2>1. /\ disk' = disk /\ conf' = conf /\ manager' = manager /\ job'.runs = job.runs
        /\ upd[u].at # "fetch"
        /\ upd'[u].at \in {"unload", "load", "verify", "recover"} =>
             upd[u].at \in {"unload", "load", "verify", "recover"}
    BY <1>2 DEF Updates!ListPids, Updates!machine
  <2> QED
    BY <1>1, <1>2, <1>3, <2>1, DiskStays
<1>7. PhasesFit'
  <2> SUFFICES ASSUME NEW v \in Updaters
               PROVE  LET at == upd'[v].at IN
                      /\ at \in {"fetch", "check", "list"} => ~upd'[v].managed
                      /\ at = "configure" => manager' # "nobody"
                      /\ at \in {"unload", "load"} =>
                           upd'[v].kind = "bundle" /\ manager' = "launchd"
                      /\ at = "verify" => upd'[v].kind = "bundle" /\ manager' # "nobody"
                      /\ at \in {"recover", "reload"} => manager' = "launchd"
                      /\ upd'[v].kind = "repo" \/ manager' = "nobody" => upd'[v].keep = {}
    BY DEF PhasesFit
  <2>1. manager' = manager
    BY DEF Updates!ListPids
  <2>2. CASE v = u
    BY <1>1, <1>2, <2>1, <2>2 DEF PhasesFit
  <2>3. CASE v # u
    BY <1>1, <1>2, <2>1, <2>3 DEF PhasesFit
  <2> QED
    BY <2>2, <2>3
<1>8. ~overlap => Replacing(u)
  BY DEF UpdateInv
<1>9. ~overlap => Replacing(u)'
  BY <1>1, <1>2, <1>3, <1>8 DEF Updates!ListPids, Updates!machine, Updates!Managed, Replacing,
                                Replaced, BundleForGood, PhasesFit, DiskFits, ProcessesFit,
                                UpdateTyped, UpdateRecords, ServiceRecords, Updates!Kinds,
                                Updates!Revisions
<1>10. ~overlap => \A k \in Updates!Kinds, M \in SUBSET ProcessIds :
         Replaced(k, M) => Replaced(k, M)'
  <2>1. UNCHANGED <<manager, disk, conf, job, procs>>
    BY DEF Updates!ListPids, Updates!machine
  <2>2. BundleForGood => BundleForGood'
    BY <1>2, <2>1 DEF BundleForGood
  <2> QED
    BY <2>1, <2>2 DEF Replaced
<1>11. ~overlap /\ ~accident => Serving(u)
  BY DEF UpdateInv
<1>12. ~overlap /\ ~accident' => Serving(u)'
  <2> SUFFICES ASSUME ~overlap, ~accident' PROVE Serving(u)'
    OBVIOUS
  <2>1. upd[u].at = "list" /\ UNCHANGED <<manager, job, procs, lock, accident>>
    BY DEF Updates!ListPids, Updates!machine
  <2>2. job.loaded \/ HeldByHand
    BY <1>11, <2>1 DEF Serving
  <2>3. HeldByHand => HeldByHand'
    BY <2>1 DEF HeldByHand
  <2>4. CASE upd'[u].at = "configure"
    BY <2>1, <2>2, <2>3, <2>4 DEF Serving
  <2>5. CASE upd'[u].at = "stop"
    BY <1>1, <1>2, <2>1, <2>5 DEF Serving, PhasesFit
  <2> QED
    BY <1>2, <2>4, <2>5
<1>13. ~overlap /\ ~accident' /\ upd'[u].at \in Updates!Resting =>
        job'.loaded \/ \E p \in procs' : Good(p)
  BY <1>1, <1>2, <1>3, <1>11 DEF Updates!ListPids, Updates!machine, Updates!Managed, Serving,
                                 HeldByHand, Good, Updates!Resting, ProcessesFit, PhasesFit
<1>14. overlap' = overlap /\ (accident => accident')
  BY DEF Updates!ListPids
<1> QED
  BY <1>2, <1>3, <1>4, <1>5, <1>6, <1>7, <1>9, <1>10, <1>12, <1>13, <1>14, UpdaterSteps

(* What was loaded and configured is noted.                                 *)
LEMMA ConfigureStep ==
  ASSUME Updates!UpdateAssumption, UpdateInv, NEW u \in Updaters, Updates!Configure(u)
  PROVE  UpdateInv'
<1>1. UpdateTyped /\ ProcessesFit /\ DiskFits /\ PhasesFit
  BY UpdateTypes DEF UpdateInv
<1>2. /\ upd' \in [Updaters -> UpdateRecords]
      /\ \A v \in Updaters : v # u => upd'[v] = upd[v]
      /\ upd'[u].at = IF job.loaded THEN "unload" ELSE "load"
      /\ upd'[u].was = job.loaded /\ upd'[u].orig = conf
      /\ upd'[u].kind = upd[u].kind /\ upd'[u].keep = upd[u].keep
      /\ upd'[u].missed = upd[u].missed
      /\ upd'[u].old = upd[u].old /\ upd'[u].managed = upd[u].managed
  BY <1>1, ConfigureEffect
<1>3. Active(u)
  BY DEF Updates!Configure, Active, Updates!Resting, Updates!Launchd
<1>4. UpdateTyped'
  BY <1>1, <1>2, <1>3 DEF Updates!Configure, Updates!machine, Updates!Managed, Updates!Launchd,
                          UpdateTyped, Processes, Updates!Kinds, Updates!Revisions,
                          Updates!UpdateAssumption, ProcessIds
<1>5. ProcessesFit'
  BY <1>1, <1>2, <1>3 DEF Updates!Configure, Updates!machine, Updates!Managed, Updates!Launchd,
                          ProcessesFit, Good, PhasesFit, UpdateTyped
<1>6. DiskFits'
  BY <1>1, <1>2, <1>3 DEF Updates!Configure, Updates!machine, Updates!Managed, Updates!Launchd,
                          DiskFits, BundleForGood, PhasesFit, Active, Updates!Resting,
                          UpdateTyped, UpdateRecords, ServiceRecords, Updates!Kinds,
                          Updates!Revisions
<1>7. PhasesFit'
  BY <1>1, <1>2, <1>3 DEF Updates!Configure, Updates!machine, Updates!Managed, Updates!Launchd,
                          PhasesFit, UpdateTyped, UpdateRecords, Updates!Kinds
<1>8. ~overlap => Replacing(u)
  BY DEF UpdateInv
<1>9. ~overlap => Replacing(u)'
  BY <1>1, <1>2, <1>3, <1>8 DEF Updates!Configure, Updates!machine, Updates!Managed,
                                Updates!Launchd, Replacing, Replaced, BundleForGood, PhasesFit,
                                DiskFits, ProcessesFit, UpdateTyped, UpdateRecords,
                                ServiceRecords, Updates!Kinds, Updates!Revisions
<1>10. ~overlap => \A k \in Updates!Kinds, M \in SUBSET ProcessIds :
         Replaced(k, M) => Replaced(k, M)'
  BY <1>1, <1>2, <1>3 DEF Updates!Configure, Updates!machine, Updates!Managed, Updates!Launchd,
                          Replaced, BundleForGood, DiskFits, ProcessesFit, PhasesFit,
                          UpdateTyped, Updates!Kinds
<1>11. ~overlap /\ ~accident => Serving(u)
  BY DEF UpdateInv
<1>12. ~overlap /\ ~accident' => Serving(u)'
  BY <1>1, <1>2, <1>3, <1>11 DEF Updates!Configure, Updates!machine, Updates!Managed,
                                 Updates!Launchd, Serving, HeldByHand, PhasesFit, ProcessesFit,
                                 UpdateTyped, UpdateRecords, Updates!Kinds
<1>13. ~overlap /\ ~accident' /\ upd'[u].at \in Updates!Resting =>
        job'.loaded \/ \E p \in procs' : Good(p)
  BY <1>1, <1>2, <1>3, <1>11 DEF Updates!Configure, Updates!machine, Updates!Managed,
                                 Updates!Launchd, Serving, HeldByHand, Good, Updates!Resting,
                                 ProcessesFit, PhasesFit
<1>14. overlap' = overlap /\ (accident => accident')
  BY DEF Updates!Configure
<1> QED
  BY <1>2, <1>3, <1>4, <1>5, <1>6, <1>7, <1>9, <1>10, <1>12, <1>13, <1>14, UpdaterSteps

(* The old service and what it runs are gone, or seen to be still there.    *)
LEMMA UnloadStep ==
  ASSUME Updates!UpdateAssumption, UpdateInv, NEW u \in Updaters, Updates!Unload(u)
  PROVE  UpdateInv'
<1>1. UpdateTyped /\ ProcessesFit /\ DiskFits /\ PhasesFit
  BY UpdateTypes DEF UpdateInv
<1>2. /\ upd' \in [Updaters -> UpdateRecords]
      /\ \A v \in Updaters : v # u => upd'[v] = upd[v]
      /\ upd'[u].kind = upd[u].kind
      /\ upd'[u].missed = upd[u].missed
      /\ upd'[u].old = upd[u].old /\ upd'[u].keep = upd[u].keep
      /\ upd'[u].was = upd[u].was /\ upd'[u].orig = upd[u].orig
      /\ upd'[u].managed = upd[u].managed
      /\ \/ upd'[u].at = "load" /\ job' \in ServiceRecords /\ ~job'.loaded /\ job'.runs = job.runs
              /\ procs' = procs \ Updates!Managed
         \/ upd'[u].at = "recover" /\ job' = job /\ procs' = procs
  <2>1. "load" \in Stages /\ "recover" \in Stages
    BY DEF Stages, Updates!Resting
  <2>2. \/ Updates!Goes(u, "load") /\ job' \in ServiceRecords /\ ~job'.loaded /\ job'.runs = job.runs
              /\ procs' = procs \ Updates!Managed
        \/ Updates!Goes(u, "recover") /\ job' = job /\ procs' = procs
    BY <1>1, ServiceUnloads, ServiceLoads
       DEF Updates!Unload, Updates!Fails, UpdateTyped, Updates!Launchd
  <2>3. CASE Updates!Goes(u, "load") /\ job' \in ServiceRecords /\ ~job'.loaded /\ job'.runs = job.runs
              /\ procs' = procs \ Updates!Managed
    BY <1>1, <2>1, <2>3, UpdaterGoes
  <2>4. CASE Updates!Goes(u, "recover") /\ job' = job /\ procs' = procs
    BY <1>1, <2>1, <2>4, UpdaterGoes
  <2> QED
    BY <2>2, <2>3, <2>4
<1>3. Active(u)
  BY DEF Updates!Unload, Active, Updates!Resting, Updates!Launchd
<1>4. UpdateTyped'
  BY <1>1, <1>2, <1>3 DEF Updates!Unload, Updates!machine, Updates!Managed, Updates!Launchd,
                          UpdateTyped, Processes, Updates!Kinds, Updates!Revisions,
                          Updates!UpdateAssumption, ProcessIds
<1>5. ProcessesFit'
  BY <1>1, <1>2, <1>3 DEF Updates!Unload, Updates!machine, Updates!Managed, Updates!Launchd,
                          ProcessesFit, Good, PhasesFit, UpdateTyped
<1>6. DiskFits'
  <2>1. /\ disk' = disk /\ conf' = conf /\ manager' = manager /\ job'.runs = job.runs
        /\ upd[u].at # "fetch"
        /\ upd'[u].at \in {"unload", "load", "verify", "recover"} =>
             upd[u].at \in {"unload", "load", "verify", "recover"}
    BY <1>2 DEF Updates!Unload, Updates!machine, Updates!Launchd
  <2> QED
    BY <1>1, <1>2, <1>3, <2>1, DiskStays
<1>7. PhasesFit'
  BY <1>1, <1>2, <1>3 DEF Updates!Unload, Updates!machine, Updates!Managed, Updates!Launchd,
                          PhasesFit, UpdateTyped, UpdateRecords, Updates!Kinds
<1>8. ~overlap => Replacing(u)
  BY DEF UpdateInv
<1>9. ~overlap => Replacing(u)'
  BY <1>1, <1>2, <1>3, <1>8 DEF Updates!Unload, Updates!machine, Updates!Managed,
                                Updates!Launchd, Replacing, Replaced, BundleForGood, PhasesFit,
                                DiskFits, ProcessesFit, UpdateTyped, UpdateRecords,
                                ServiceRecords, Updates!Kinds, Updates!Revisions
<1>10. ~overlap => \A k \in Updates!Kinds, M \in SUBSET ProcessIds :
         Replaced(k, M) => Replaced(k, M)'
  BY <1>1, <1>2, <1>3 DEF Updates!Unload, Updates!machine, Updates!Managed, Updates!Launchd,
                          Replaced, BundleForGood, DiskFits, ProcessesFit, PhasesFit,
                          UpdateTyped, Updates!Kinds
<1>11. ~overlap /\ ~accident => Serving(u)
  BY DEF UpdateInv
<1>12. ~overlap /\ ~accident' => Serving(u)'
  BY <1>1, <1>2, <1>3, <1>11 DEF Updates!Unload, Updates!machine, Updates!Managed,
                                 Updates!Launchd, Serving, HeldByHand, PhasesFit, ProcessesFit,
                                 UpdateTyped, UpdateRecords, Updates!Kinds
<1>13. ~overlap /\ ~accident' /\ upd'[u].at \in Updates!Resting =>
        job'.loaded \/ \E p \in procs' : Good(p)
  BY <1>1, <1>2, <1>3, <1>11 DEF Updates!Unload, Updates!machine, Updates!Managed,
                                 Updates!Launchd, Serving, HeldByHand, Good, Updates!Resting,
                                 ProcessesFit, PhasesFit
<1>14. overlap' = overlap /\ (accident => accident')
  BY DEF Updates!Unload
<1> QED
  BY <1>2, <1>3, <1>4, <1>5, <1>6, <1>7, <1>9, <1>10, <1>12, <1>13, <1>14, UpdaterSteps

(* The service is loaded as it is configured, or not at all.                *)
LEMMA LoadStep ==
  ASSUME Updates!UpdateAssumption, UpdateInv, NEW u \in Updaters, Updates!Load(u)
  PROVE  UpdateInv'
<1>1. UpdateTyped /\ ProcessesFit /\ DiskFits /\ PhasesFit
  BY UpdateTypes DEF UpdateInv
<1>2. /\ upd' \in [Updaters -> UpdateRecords]
      /\ \A v \in Updaters : v # u => upd'[v] = upd[v]
      /\ upd'[u].kind = upd[u].kind
      /\ upd'[u].missed = upd[u].missed
      /\ upd'[u].old = upd[u].old /\ upd'[u].keep = upd[u].keep
      /\ upd'[u].was = upd[u].was /\ upd'[u].orig = upd[u].orig
      /\ upd'[u].managed = upd[u].managed
      /\ \/ upd'[u].at = "verify" /\ job' \in ServiceRecords /\ job'.loaded /\ job'.runs = conf
         \/ upd'[u].at = "recover" /\ job' = job
  <2>1. "verify" \in Stages /\ "recover" \in Stages
    BY DEF Stages, Updates!Resting
  <2>2. \/ Updates!Goes(u, "verify") /\ job' \in ServiceRecords /\ job'.loaded /\ job'.runs = conf
        \/ Updates!Goes(u, "recover") /\ job' = job
    BY <1>1, ServiceUnloads, ServiceLoads
       DEF Updates!Load, Updates!Fails, UpdateTyped, Updates!Launchd
  <2>3. CASE Updates!Goes(u, "verify") /\ job' \in ServiceRecords /\ job'.loaded /\ job'.runs = conf
    BY <1>1, <2>1, <2>3, UpdaterGoes
  <2>4. CASE Updates!Goes(u, "recover") /\ job' = job
    BY <1>1, <2>1, <2>4, UpdaterGoes
  <2> QED
    BY <2>2, <2>3, <2>4
<1>3. Active(u)
  BY DEF Updates!Load, Active, Updates!Resting, Updates!Launchd
<1>4. UpdateTyped'
  BY <1>1, <1>2, <1>3 DEF Updates!Load, Updates!machine, Updates!Managed, Updates!Launchd,
                          UpdateTyped, Processes, Updates!Kinds, Updates!Revisions,
                          Updates!UpdateAssumption, ProcessIds
<1>5. ProcessesFit'
  BY <1>1, <1>2, <1>3 DEF Updates!Load, Updates!machine, Updates!Managed, Updates!Launchd,
                          ProcessesFit, Good, PhasesFit, UpdateTyped
<1>6. DiskFits'
  BY <1>1, <1>2, <1>3 DEF Updates!Load, Updates!machine, Updates!Managed, Updates!Launchd,
                          DiskFits, BundleForGood, PhasesFit, Active, Updates!Resting,
                          UpdateTyped, UpdateRecords, ServiceRecords, Updates!Kinds,
                          Updates!Revisions
<1>7. PhasesFit'
  BY <1>1, <1>2, <1>3 DEF Updates!Load, Updates!machine, Updates!Managed, Updates!Launchd,
                          PhasesFit, UpdateTyped, UpdateRecords, Updates!Kinds
<1>8. ~overlap => Replacing(u)
  BY DEF UpdateInv
<1>9. ~overlap => Replacing(u)'
  BY <1>1, <1>2, <1>3, <1>8 DEF Updates!Load, Updates!machine, Updates!Managed, Updates!Launchd,
                                Replacing, Replaced, BundleForGood, PhasesFit, DiskFits,
                                ProcessesFit, UpdateTyped, UpdateRecords, ServiceRecords,
                                Updates!Kinds, Updates!Revisions
<1>10. ~overlap => \A k \in Updates!Kinds, M \in SUBSET ProcessIds :
         Replaced(k, M) => Replaced(k, M)'
  BY <1>1, <1>2, <1>3 DEF Updates!Load, Updates!machine, Updates!Managed, Updates!Launchd,
                          Replaced, BundleForGood, DiskFits, ProcessesFit, PhasesFit,
                          UpdateTyped, Updates!Kinds
<1>11. ~overlap /\ ~accident => Serving(u)
  BY DEF UpdateInv
<1>12. ~overlap /\ ~accident' => Serving(u)'
  BY <1>1, <1>2, <1>3, <1>11 DEF Updates!Load, Updates!machine, Updates!Managed,
                                 Updates!Launchd, Serving, HeldByHand, PhasesFit, ProcessesFit,
                                 UpdateTyped, UpdateRecords, Updates!Kinds
<1>13. ~overlap /\ ~accident' /\ upd'[u].at \in Updates!Resting =>
        job'.loaded \/ \E p \in procs' : Good(p)
  BY <1>1, <1>2, <1>3, <1>11 DEF Updates!Load, Updates!machine, Updates!Managed,
                                 Updates!Launchd, Serving, HeldByHand, Good, Updates!Resting,
                                 ProcessesFit, PhasesFit
<1>14. overlap' = overlap /\ (accident => accident')
  BY DEF Updates!Load
<1> QED
  BY <1>2, <1>3, <1>4, <1>5, <1>6, <1>7, <1>9, <1>10, <1>12, <1>13, <1>14, UpdaterSteps

(* What the new service runs is to be kept.                                 *)
LEMMA VerifyStep ==
  ASSUME Updates!UpdateAssumption, UpdateInv, NEW u \in Updaters, Updates!Verify(u)
  PROVE  UpdateInv'
<1>1. UpdateTyped /\ ProcessesFit /\ DiskFits /\ PhasesFit
  BY UpdateTypes DEF UpdateInv
<1>2. /\ upd' \in [Updaters -> UpdateRecords]
      /\ \A v \in Updaters : v # u => upd'[v] = upd[v]
      /\ \/ /\ Updates!Managed # {} /\ upd'[u].at = "stop" /\ upd'[u].managed = TRUE
            /\ upd'[u].keep = {p.pid : p \in Updates!Managed}
         \/ /\ upd'[u].at = IF manager = "launchd" THEN "recover" ELSE "failed"
            /\ upd'[u].keep = upd[u].keep
      /\ upd'[u].missed = upd[u].missed
      /\ upd'[u].kind = upd[u].kind /\ upd'[u].old = upd[u].old
      /\ upd'[u].was = upd[u].was /\ upd'[u].orig = upd[u].orig
  BY <1>1, VerifyEffect
<1>3. Active(u)
  BY DEF Updates!Verify, Active, Updates!Resting
<1>4. UpdateTyped'
  BY <1>1, <1>2, <1>3 DEF Updates!Verify, Updates!machine, Updates!Managed, UpdateTyped,
                          Processes, Updates!Kinds, Updates!Revisions, Updates!UpdateAssumption,
                          ProcessIds
<1>5. ProcessesFit'
  BY <1>1, <1>2, <1>3 DEF Updates!Verify, Updates!machine, Updates!Managed, ProcessesFit, Good,
                          PhasesFit, UpdateTyped
<1>6. DiskFits'
  <2>1. /\ disk' = disk /\ conf' = conf /\ manager' = manager /\ job'.runs = job.runs
        /\ upd[u].at # "fetch"
        /\ upd'[u].at \in {"unload", "load", "verify", "recover"} =>
             upd[u].at \in {"unload", "load", "verify", "recover"}
    BY <1>2 DEF Updates!Verify, Updates!machine
  <2> QED
    BY <1>1, <1>2, <1>3, <2>1, DiskStays
<1>7. PhasesFit'
  <2>1. upd[u].at = "verify" /\ manager' = manager
    BY DEF Updates!Verify
  <2>2. upd[u].kind = "bundle" /\ manager # "nobody" /\ upd[u].kind \in Updates!Kinds
    BY <1>1, <2>1 DEF PhasesFit, UpdateTyped, UpdateRecords
  <2> QED
    BY <1>1, <1>2, <2>1, <2>2 DEF PhasesFit
<1>8. ~overlap => Replacing(u)
  BY DEF UpdateInv
<1>9. ~overlap => Replacing(u)'
  <2> SUFFICES ASSUME ~overlap PROVE Replacing(u)'
    OBVIOUS
  <2>1. /\ upd[u].at = "verify" /\ UNCHANGED <<manager, disk, conf, job, procs>>
    BY DEF Updates!Verify, Updates!machine
  <2>2. \A p, q \in procs : q.managed /\ p.pid = q.pid => p.managed
    BY <1>1 DEF ProcessesFit
  <2>3. \A p \in procs : p.managed \/ p.pid \notin {q.pid : q \in Updates!Managed}
    BY <2>2 DEF Updates!Managed
  <2>4. upd[u].kind = "bundle" /\ manager # "nobody"
    BY <1>1, <2>1 DEF PhasesFit
  <2>5. CASE upd'[u].at = "stop" /\ upd'[u].keep = {q.pid : q \in Updates!Managed}
    BY <1>2, <1>8, <2>1, <2>3, <2>4, <2>5 DEF Replacing
  <2>6. CASE upd'[u].at \in {"recover", "failed"}
    BY <1>2, <1>8, <2>1, <2>6 DEF Replacing
  <2> QED
    BY <1>2, <2>5, <2>6
<1>10. ~overlap => \A k \in Updates!Kinds, M \in SUBSET ProcessIds :
         Replaced(k, M) => Replaced(k, M)'
  BY <1>1, <1>2, <1>3 DEF Updates!Verify, Updates!machine, Updates!Managed, Replaced,
                          BundleForGood, DiskFits, ProcessesFit, PhasesFit, UpdateTyped,
                          Updates!Kinds
<1>11. ~overlap /\ ~accident => Serving(u)
  BY DEF UpdateInv
<1>12. ~overlap /\ ~accident' => Serving(u)'
  BY <1>1, <1>2, <1>3, <1>11 DEF Updates!Verify, Updates!machine, Updates!Managed, Serving,
                                 HeldByHand, PhasesFit, ProcessesFit, UpdateTyped,
                                 UpdateRecords, Updates!Kinds
<1>13. ~overlap /\ ~accident' /\ upd'[u].at \in Updates!Resting =>
        job'.loaded \/ \E p \in procs' : Good(p)
  BY <1>1, <1>2, <1>3, <1>11 DEF Updates!Verify, Updates!machine, Updates!Managed, Serving,
                                 HeldByHand, Good, Updates!Resting, ProcessesFit, PhasesFit
<1>14. overlap' = overlap /\ (accident => accident')
  BY DEF Updates!Verify
<1> QED
  BY <1>2, <1>3, <1>4, <1>5, <1>6, <1>7, <1>9, <1>10, <1>12, <1>13, <1>14, UpdaterSteps

(* What was loaded will be loaded again; what was started by hand is there. *)
LEMMA RecoverStep ==
  ASSUME Updates!UpdateAssumption, UpdateInv, NEW u \in Updaters, Updates!Recover(u)
  PROVE  UpdateInv'
<1>1. UpdateTyped /\ ProcessesFit /\ DiskFits /\ PhasesFit
  BY UpdateTypes DEF UpdateInv
<1>2. /\ upd' \in [Updaters -> UpdateRecords]
      /\ \A v \in Updaters : v # u => upd'[v] = upd[v]
      /\ upd'[u].kind = upd[u].kind
      /\ upd'[u].missed = upd[u].missed
      /\ upd'[u].old = upd[u].old /\ upd'[u].keep = upd[u].keep
      /\ upd'[u].was = upd[u].was /\ upd'[u].orig = upd[u].orig
      /\ upd'[u].managed = upd[u].managed
      /\ \/ upd'[u].at = "reload" /\ job' \in ServiceRecords /\ ~job'.loaded /\ job'.runs = job.runs
              /\ procs' = procs \ Updates!Managed
         \/ upd'[u].at = "failed" /\ ~upd[u].was /\ job' \in ServiceRecords /\ ~job'.loaded /\ job'.runs = job.runs
              /\ procs' = procs \ Updates!Managed
         \/ upd'[u].at = "failed" /\ accident' /\ job' = job /\ procs' = procs
  <2>1. "reload" \in Stages /\ "failed" \in Stages /\ "failed" \in Stages
    BY DEF Stages, Updates!Resting
  <2>2. \/ Updates!Goes(u, "reload") /\ job' \in ServiceRecords /\ ~job'.loaded /\ job'.runs = job.runs
              /\ procs' = procs \ Updates!Managed
        \/ Updates!Goes(u, "failed") /\ ~upd[u].was /\ job' \in ServiceRecords /\ ~job'.loaded /\ job'.runs = job.runs
              /\ procs' = procs \ Updates!Managed
        \/ Updates!Goes(u, "failed") /\ accident' /\ job' = job /\ procs' = procs
    BY <1>1, ServiceUnloads, ServiceLoads DEF Updates!Recover, Updates!Fails, UpdateTyped
  <2>3. CASE Updates!Goes(u, "reload") /\ job' \in ServiceRecords /\ ~job'.loaded /\ job'.runs = job.runs
              /\ procs' = procs \ Updates!Managed
    BY <1>1, <2>1, <2>3, UpdaterGoes
  <2>4. CASE Updates!Goes(u, "failed") /\ ~upd[u].was /\ job' \in ServiceRecords /\ ~job'.loaded /\ job'.runs = job.runs
              /\ procs' = procs \ Updates!Managed
    BY <1>1, <2>1, <2>4, UpdaterGoes
  <2>5. CASE Updates!Goes(u, "failed") /\ accident' /\ job' = job /\ procs' = procs
    BY <1>1, <2>1, <2>5, UpdaterGoes
  <2> QED
    BY <2>2, <2>3, <2>4, <2>5
<1>3. Active(u)
  BY DEF Updates!Recover, Active, Updates!Resting
<1>4. UpdateTyped'
  BY <1>1, <1>2, <1>3 DEF Updates!Recover, Updates!machine, Updates!Managed, UpdateRecords,
                          UpdateTyped, Processes, Updates!Kinds, Updates!Revisions,
                          Updates!UpdateAssumption, ProcessIds
<1>5. ProcessesFit'
  BY <1>1, <1>2, <1>3 DEF Updates!Recover, Updates!machine, Updates!Managed, ProcessesFit, Good,
                          PhasesFit, UpdateTyped
<1>6. DiskFits'
  BY <1>1, <1>2, <1>3 DEF Updates!Recover, Updates!machine, Updates!Managed, DiskFits,
                          BundleForGood, PhasesFit, Active, Updates!Resting, UpdateTyped,
                          UpdateRecords, ServiceRecords, Updates!Kinds, Updates!Revisions
<1>7. PhasesFit'
  BY <1>1, <1>2, <1>3 DEF Updates!Recover, Updates!machine, Updates!Managed, PhasesFit,
                          UpdateTyped, UpdateRecords, Updates!Kinds
<1>8. ~overlap => Replacing(u)
  BY DEF UpdateInv
<1>9. ~overlap => Replacing(u)'
  BY <1>1, <1>2, <1>3, <1>8 DEF Updates!Recover, Updates!machine, Updates!Managed, Replacing,
                                Replaced, BundleForGood, PhasesFit, DiskFits, ProcessesFit,
                                UpdateTyped, UpdateRecords, ServiceRecords, Updates!Kinds,
                                Updates!Revisions
<1>10. ~overlap => \A k \in Updates!Kinds, M \in SUBSET ProcessIds :
         Replaced(k, M) => Replaced(k, M)'
  BY <1>1, <1>2, <1>3 DEF Updates!Recover, Updates!machine, Updates!Managed, Replaced,
                          BundleForGood, DiskFits, ProcessesFit, PhasesFit, UpdateTyped,
                          Updates!Kinds
<1>11. ~overlap /\ ~accident => Serving(u)
  BY DEF UpdateInv
<1>12. ~overlap /\ ~accident' => Serving(u)'
  BY <1>1, <1>2, <1>3, <1>11 DEF Updates!Recover, Updates!machine, Updates!Managed, Serving,
                                 HeldByHand, PhasesFit, ProcessesFit, UpdateTyped,
                                 UpdateRecords, Updates!Kinds
<1>13. ~overlap /\ ~accident' /\ upd'[u].at \in Updates!Resting =>
        job'.loaded \/ \E p \in procs' : Good(p)
  BY <1>1, <1>2, <1>3, <1>11 DEF Updates!Recover, Updates!machine, Updates!Managed, Serving,
                                 HeldByHand, Good, Updates!Resting, ProcessesFit, PhasesFit
<1>14. overlap' = overlap /\ (accident => accident')
  BY DEF Updates!Recover
<1> QED
  BY <1>2, <1>3, <1>4, <1>5, <1>6, <1>7, <1>9, <1>10, <1>12, <1>13, <1>14, UpdaterSteps

(* The service is back, or it is an accident.                               *)
LEMMA ReloadStep ==
  ASSUME Updates!UpdateAssumption, UpdateInv, NEW u \in Updaters, Updates!Reload(u)
  PROVE  UpdateInv'
<1>1. UpdateTyped /\ ProcessesFit /\ DiskFits /\ PhasesFit
  BY UpdateTypes DEF UpdateInv
<1>2. /\ upd' \in [Updaters -> UpdateRecords]
      /\ \A v \in Updaters : v # u => upd'[v] = upd[v]
      /\ upd'[u].kind = upd[u].kind
      /\ upd'[u].missed = upd[u].missed
      /\ upd'[u].old = upd[u].old /\ upd'[u].keep = upd[u].keep
      /\ upd'[u].was = upd[u].was /\ upd'[u].orig = upd[u].orig
      /\ upd'[u].managed = upd[u].managed
      /\ \/ upd'[u].at = "failed" /\ job' \in ServiceRecords /\ job'.loaded /\ job'.runs = conf
         \/ upd'[u].at = "failed" /\ accident' /\ job' = job
  <2>1. "failed" \in Stages /\ "failed" \in Stages
    BY DEF Stages, Updates!Resting
  <2>2. \/ Updates!Goes(u, "failed") /\ job' \in ServiceRecords /\ job'.loaded /\ job'.runs = conf
        \/ Updates!Goes(u, "failed") /\ accident' /\ job' = job
    BY <1>1, ServiceUnloads, ServiceLoads DEF Updates!Reload, Updates!Fails, UpdateTyped
  <2>3. CASE Updates!Goes(u, "failed") /\ job' \in ServiceRecords /\ job'.loaded /\ job'.runs = conf
    BY <1>1, <2>1, <2>3, UpdaterGoes
  <2>4. CASE Updates!Goes(u, "failed") /\ accident' /\ job' = job
    BY <1>1, <2>1, <2>4, UpdaterGoes
  <2> QED
    BY <2>2, <2>3, <2>4
<1>3. Active(u)
  BY DEF Updates!Reload, Active, Updates!Resting
<1>4. UpdateTyped'
  BY <1>1, <1>2, <1>3 DEF Updates!Reload, Updates!machine, Updates!Managed, UpdateTyped,
                          Processes, Updates!Kinds, Updates!Revisions, Updates!UpdateAssumption,
                          ProcessIds
<1>5. ProcessesFit'
  BY <1>1, <1>2, <1>3 DEF Updates!Reload, Updates!machine, Updates!Managed, ProcessesFit, Good,
                          PhasesFit, UpdateTyped
<1>6. DiskFits'
  BY <1>1, <1>2, <1>3 DEF Updates!Reload, Updates!machine, Updates!Managed, DiskFits,
                          BundleForGood, PhasesFit, Active, Updates!Resting, UpdateTyped,
                          UpdateRecords, ServiceRecords, Updates!Kinds, Updates!Revisions
<1>7. PhasesFit'
  BY <1>1, <1>2, <1>3 DEF Updates!Reload, Updates!machine, Updates!Managed, PhasesFit,
                          UpdateTyped, UpdateRecords, Updates!Kinds
<1>8. ~overlap => Replacing(u)
  BY DEF UpdateInv
<1>9. ~overlap => Replacing(u)'
  BY <1>1, <1>2, <1>3, <1>8 DEF Updates!Reload, Updates!machine, Updates!Managed, Replacing,
                                Replaced, BundleForGood, PhasesFit, DiskFits, ProcessesFit,
                                UpdateTyped, UpdateRecords, ServiceRecords, Updates!Kinds,
                                Updates!Revisions
<1>10. ~overlap => \A k \in Updates!Kinds, M \in SUBSET ProcessIds :
         Replaced(k, M) => Replaced(k, M)'
  BY <1>1, <1>2, <1>3 DEF Updates!Reload, Updates!machine, Updates!Managed, Replaced,
                          BundleForGood, DiskFits, ProcessesFit, PhasesFit, UpdateTyped,
                          Updates!Kinds
<1>11. ~overlap /\ ~accident => Serving(u)
  BY DEF UpdateInv
<1>12. ~overlap /\ ~accident' => Serving(u)'
  BY <1>1, <1>2, <1>3, <1>11 DEF Updates!Reload, Updates!machine, Updates!Managed, Serving,
                                 HeldByHand, PhasesFit, ProcessesFit, UpdateTyped,
                                 UpdateRecords, Updates!Kinds
<1>13. ~overlap /\ ~accident' /\ upd'[u].at \in Updates!Resting =>
        job'.loaded \/ \E p \in procs' : Good(p)
  BY <1>1, <1>2, <1>3, <1>11 DEF Updates!Reload, Updates!machine, Updates!Managed, Serving,
                                 HeldByHand, Good, Updates!Resting, ProcessesFit, PhasesFit
<1>14. overlap' = overlap /\ (accident => accident')
  BY DEF Updates!Reload
<1> QED
  BY <1>2, <1>3, <1>4, <1>5, <1>6, <1>7, <1>9, <1>10, <1>12, <1>13, <1>14, UpdaterSteps

(* The service of a checkout, whatever it runs.                             *)
LEMMA RepoLaunchdStep ==
  ASSUME Updates!UpdateAssumption, UpdateInv, NEW u \in Updaters, Updates!RepoLaunchd(u)
  PROVE  UpdateInv'
<1>1. UpdateTyped /\ ProcessesFit /\ DiskFits /\ PhasesFit
  BY UpdateTypes DEF UpdateInv
<1>2. /\ upd' \in [Updaters -> UpdateRecords]
      /\ \A v \in Updaters : v # u => upd'[v] = upd[v]
      /\ upd'[u].at = "stop"
      /\ upd'[u].managed \in BOOLEAN
      /\ \/ job' = [loaded |-> upd'[u].managed, runs |-> conf]
              /\ procs' = procs \ Updates!Managed
         \/ job' = job /\ job.loaded /\ procs' = procs \ Updates!Managed
         \/ job' = job /\ job.loaded /\ procs' = procs
      /\ upd'[u].kind = upd[u].kind /\ upd'[u].keep = upd[u].keep
      /\ upd'[u].missed = upd[u].missed
      /\ upd'[u].old = upd[u].old
      /\ upd'[u].was = upd[u].was /\ upd'[u].orig = upd[u].orig
  BY <1>1, RepoEffect
<1>3. Active(u)
  BY DEF Updates!RepoLaunchd, Active, Updates!Resting, Updates!Launchd
<1>4. UpdateTyped'
  BY <1>1, <1>2, <1>3 DEF Updates!RepoLaunchd, Updates!machine, Updates!Managed,
                          Updates!Launchd, ServiceRecords, UpdateTyped, Processes,
                          Updates!Kinds, Updates!Revisions, Updates!UpdateAssumption, ProcessIds
<1>5. ProcessesFit'
  BY <1>1, <1>2, <1>3 DEF Updates!RepoLaunchd, Updates!machine, Updates!Managed,
                          Updates!Launchd, ProcessesFit, Good, PhasesFit, UpdateTyped
<1>6. DiskFits'
  BY <1>1, <1>2, <1>3 DEF Updates!RepoLaunchd, Updates!machine, Updates!Managed,
                          Updates!Launchd, DiskFits, BundleForGood, PhasesFit, Active,
                          Updates!Resting, UpdateTyped, UpdateRecords, ServiceRecords,
                          Updates!Kinds, Updates!Revisions
<1>7. PhasesFit'
  BY <1>1, <1>2, <1>3 DEF Updates!RepoLaunchd, Updates!machine, Updates!Managed,
                          Updates!Launchd, PhasesFit, UpdateTyped, UpdateRecords, Updates!Kinds
<1>8. ~overlap => Replacing(u)
  BY DEF UpdateInv
<1>9. ~overlap => Replacing(u)'
  BY <1>1, <1>2, <1>3, <1>8 DEF Updates!RepoLaunchd, Updates!machine, Updates!Managed,
                                Updates!Launchd, Replacing, Replaced, BundleForGood, PhasesFit,
                                DiskFits, ProcessesFit, UpdateTyped, UpdateRecords,
                                ServiceRecords, Updates!Kinds, Updates!Revisions
<1>10. ~overlap => \A k \in Updates!Kinds, M \in SUBSET ProcessIds :
         Replaced(k, M) => Replaced(k, M)'
  BY <1>1, <1>2, <1>3 DEF Updates!RepoLaunchd, Updates!machine, Updates!Managed,
                          Updates!Launchd, Replaced, BundleForGood, DiskFits, ProcessesFit,
                          PhasesFit, UpdateTyped, Updates!Kinds
<1>11. ~overlap /\ ~accident => Serving(u)
  BY DEF UpdateInv
<1>12. ~overlap /\ ~accident' => Serving(u)'
  BY <1>1, <1>2, <1>3, <1>11 DEF Updates!RepoLaunchd, Updates!machine, Updates!Managed,
                                 Updates!Launchd, Serving, HeldByHand, PhasesFit, ProcessesFit,
                                 UpdateTyped, UpdateRecords, Updates!Kinds
<1>13. ~overlap /\ ~accident' /\ upd'[u].at \in Updates!Resting =>
        job'.loaded \/ \E p \in procs' : Good(p)
  BY <1>1, <1>2, <1>3, <1>11 DEF Updates!RepoLaunchd, Updates!machine, Updates!Managed,
                                 Updates!Launchd, Serving, HeldByHand, Good, Updates!Resting,
                                 ProcessesFit, PhasesFit
<1>14. overlap' = overlap /\ (accident => accident')
  BY DEF Updates!RepoLaunchd
<1> QED
  BY <1>2, <1>3, <1>4, <1>5, <1>6, <1>7, <1>9, <1>10, <1>12, <1>13, <1>14, UpdaterSteps

(* systemd runs what is configured.                                         *)
LEMMA RestartUnitStep ==
  ASSUME Updates!UpdateAssumption, UpdateInv, NEW u \in Updaters, Updates!RestartUnit(u)
  PROVE  UpdateInv'
<1>1. UpdateTyped /\ ProcessesFit /\ DiskFits /\ PhasesFit
  BY UpdateTypes DEF UpdateInv
<1>2. /\ upd' \in [Updaters -> UpdateRecords]
      /\ \A v \in Updaters : v # u => upd'[v] = upd[v]
      /\ upd'[u].at = IF upd[u].kind = "bundle" THEN "verify" ELSE "stop"
      /\ upd'[u].managed = TRUE
      /\ upd'[u].kind = upd[u].kind /\ upd'[u].keep = upd[u].keep
      /\ upd'[u].missed = upd[u].missed
      /\ upd'[u].old = upd[u].old
      /\ upd'[u].was = upd[u].was /\ upd'[u].orig = upd[u].orig
  BY <1>1, UnitEffect
<1>3. Active(u)
  BY DEF Updates!RestartUnit, Active, Updates!Resting
<1>4. UpdateTyped'
  BY <1>1, <1>2, <1>3 DEF Updates!RestartUnit, Updates!machine, Updates!Managed, ServiceRecords,
                          UpdateTyped, Processes, Updates!Kinds, Updates!Revisions,
                          Updates!UpdateAssumption, ProcessIds
<1>5. ProcessesFit'
  BY <1>1, <1>2, <1>3 DEF Updates!RestartUnit, Updates!machine, Updates!Managed, ProcessesFit,
                          Good, PhasesFit, UpdateTyped
<1>6. DiskFits'
  BY <1>1, <1>2, <1>3 DEF Updates!RestartUnit, Updates!machine, Updates!Managed, DiskFits,
                          BundleForGood, PhasesFit, Active, Updates!Resting, UpdateTyped,
                          UpdateRecords, ServiceRecords, Updates!Kinds, Updates!Revisions
<1>7. PhasesFit'
  BY <1>1, <1>2, <1>3 DEF Updates!RestartUnit, Updates!machine, Updates!Managed, PhasesFit,
                          UpdateTyped, UpdateRecords, Updates!Kinds
<1>8. ~overlap => Replacing(u)
  BY DEF UpdateInv
<1>9. ~overlap => Replacing(u)'
  BY <1>1, <1>2, <1>3, <1>8 DEF Updates!RestartUnit, Updates!machine, Updates!Managed,
                                Replacing, Replaced, BundleForGood, PhasesFit, DiskFits,
                                ProcessesFit, UpdateTyped, UpdateRecords, ServiceRecords,
                                Updates!Kinds, Updates!Revisions
<1>10. ~overlap => \A k \in Updates!Kinds, M \in SUBSET ProcessIds :
         Replaced(k, M) => Replaced(k, M)'
  BY <1>1, <1>2, <1>3 DEF Updates!RestartUnit, Updates!machine, Updates!Managed, Replaced,
                          BundleForGood, DiskFits, ProcessesFit, PhasesFit, UpdateTyped,
                          Updates!Kinds
<1>11. ~overlap /\ ~accident => Serving(u)
  BY DEF UpdateInv
<1>12. ~overlap /\ ~accident' => Serving(u)'
  BY <1>1, <1>2, <1>3, <1>11 DEF Updates!RestartUnit, Updates!machine, Updates!Managed, Serving,
                                 HeldByHand, PhasesFit, ProcessesFit, UpdateTyped,
                                 UpdateRecords, Updates!Kinds
<1>13. ~overlap /\ ~accident' /\ upd'[u].at \in Updates!Resting =>
        job'.loaded \/ \E p \in procs' : Good(p)
  BY <1>1, <1>2, <1>3, <1>11 DEF Updates!RestartUnit, Updates!machine, Updates!Managed, Serving,
                                 HeldByHand, Good, Updates!Resting, ProcessesFit, PhasesFit
<1>14. overlap' = overlap /\ (accident => accident')
  BY DEF Updates!RestartUnit
<1> QED
  BY <1>2, <1>3, <1>4, <1>5, <1>6, <1>7, <1>9, <1>10, <1>12, <1>13, <1>14, UpdaterSteps

(* Some of the old connectors end by themselves.                            *)
LEMMA StopStep ==
  ASSUME Updates!UpdateAssumption, UpdateInv, NEW u \in Updaters, Updates!Stop(u)
  PROVE  UpdateInv'
<1>1. UpdateTyped /\ ProcessesFit /\ DiskFits /\ PhasesFit
  BY UpdateTypes DEF UpdateInv
<1>2. /\ upd' \in [Updaters -> UpdateRecords]
      /\ \A v \in Updaters : v # u => upd'[v] = upd[v]
      /\ upd'[u].at = "kill" /\ upd'[u].kind = upd[u].kind
      /\ upd'[u].missed = upd[u].missed
      /\ upd'[u].old = upd[u].old /\ upd'[u].keep = upd[u].keep
      /\ upd'[u].was = upd[u].was /\ upd'[u].orig = upd[u].orig
      /\ upd'[u].managed = upd[u].managed
  <2>1. "kill" \in Stages
    BY DEF Stages, Updates!Resting
  <2>2. Updates!Goes(u, "kill")
    BY DEF Updates!Stop
  <2> QED
    BY <1>1, <2>1, <2>2, UpdaterGoes
<1>3. Active(u)
  BY DEF Updates!Stop, Active, Updates!Resting
<1>4. UpdateTyped'
  BY <1>1, <1>2, <1>3 DEF Updates!Stop, Updates!machine, Updates!Managed, Updates!Old,
                          UpdateTyped, Processes, Updates!Kinds, Updates!Revisions,
                          Updates!UpdateAssumption, ProcessIds
<1>5. ProcessesFit'
  BY <1>1, <1>2, <1>3 DEF Updates!Stop, Updates!machine, Updates!Managed, Updates!Old,
                          ProcessesFit, Good, PhasesFit, UpdateTyped
<1>6. DiskFits'
  <2>1. /\ disk' = disk /\ conf' = conf /\ manager' = manager /\ job'.runs = job.runs
        /\ upd[u].at # "fetch"
        /\ upd'[u].at \in {"unload", "load", "verify", "recover"} =>
             upd[u].at \in {"unload", "load", "verify", "recover"}
    BY <1>2 DEF Updates!Stop, Updates!machine
  <2> QED
    BY <1>1, <1>2, <1>3, <2>1, DiskStays
<1>7. PhasesFit'
  BY <1>1, <1>2, <1>3 DEF Updates!Stop, Updates!machine, Updates!Managed, Updates!Old,
                          PhasesFit, UpdateTyped, UpdateRecords, Updates!Kinds
<1>8. ~overlap => Replacing(u)
  BY DEF UpdateInv
<1>9. ~overlap => Replacing(u)'
  BY <1>1, <1>2, <1>3, <1>8 DEF Updates!Stop, Updates!machine, Updates!Managed, Updates!Old,
                                Replacing, Replaced, BundleForGood, PhasesFit, DiskFits,
                                ProcessesFit, UpdateTyped, UpdateRecords, ServiceRecords,
                                Updates!Kinds, Updates!Revisions
<1>10. ~overlap => \A k \in Updates!Kinds, M \in SUBSET ProcessIds :
         Replaced(k, M) => Replaced(k, M)'
  BY <1>1, <1>2, <1>3 DEF Updates!Stop, Updates!machine, Updates!Managed, Updates!Old, Replaced,
                          BundleForGood, DiskFits, ProcessesFit, PhasesFit, UpdateTyped,
                          Updates!Kinds
<1>11. ~overlap /\ ~accident => Serving(u)
  BY DEF UpdateInv
<1>12. ~overlap /\ ~accident' => Serving(u)'
  BY <1>1, <1>2, <1>3, <1>11 DEF Updates!Stop, Updates!machine, Updates!Managed, Updates!Old,
                                 Serving, HeldByHand, PhasesFit, ProcessesFit, UpdateTyped,
                                 UpdateRecords, Updates!Kinds
<1>13. ~overlap /\ ~accident' /\ upd'[u].at \in Updates!Resting =>
        job'.loaded \/ \E p \in procs' : Good(p)
  BY <1>1, <1>2, <1>3, <1>11 DEF Updates!Stop, Updates!machine, Updates!Managed, Updates!Old,
                                 Serving, HeldByHand, Good, Updates!Resting, ProcessesFit,
                                 PhasesFit
<1>14. overlap' = overlap /\ (accident => accident')
  BY DEF Updates!Stop
<1> QED
  BY <1>2, <1>3, <1>4, <1>5, <1>6, <1>7, <1>9, <1>10, <1>12, <1>13, <1>14, UpdaterSteps

(* None of the old connectors is left.                                      *)
LEMMA KillStep ==
  ASSUME Updates!UpdateAssumption, UpdateInv, NEW u \in Updaters, Updates!Kill(u)
  PROVE  UpdateInv'
<1>1. UpdateTyped /\ ProcessesFit /\ DiskFits /\ PhasesFit
  BY UpdateTypes DEF UpdateInv
<1>2. /\ upd' \in [Updaters -> UpdateRecords]
      /\ \A v \in Updaters : v # u => upd'[v] = upd[v]
      /\ upd'[u].kind = upd[u].kind
      /\ upd'[u].missed = upd[u].missed
      /\ upd'[u].old = upd[u].old /\ upd'[u].keep = upd[u].keep
      /\ upd'[u].was = upd[u].was /\ upd'[u].orig = upd[u].orig
      /\ upd'[u].managed = upd[u].managed
      /\ \/ upd'[u].at = "done" /\ upd[u].managed
         \/ upd'[u].at = "spawn" /\ ~upd[u].managed
  <2>1. "done" \in Stages /\ "spawn" \in Stages
    BY DEF Stages, Updates!Resting
  <2>2. \/ Updates!Goes(u, "done") /\ upd[u].managed
        \/ Updates!Goes(u, "spawn") /\ ~upd[u].managed
    BY <1>1, ServiceUnloads, ServiceLoads DEF Updates!Kill, Updates!Fails, UpdateTyped
  <2>3. CASE Updates!Goes(u, "done") /\ upd[u].managed
    BY <1>1, <2>1, <2>3, UpdaterGoes
  <2>4. CASE Updates!Goes(u, "spawn") /\ ~upd[u].managed
    BY <1>1, <2>1, <2>4, UpdaterGoes
  <2> QED
    BY <2>2, <2>3, <2>4
<1>3. Active(u)
  BY DEF Updates!Kill, Active, Updates!Resting
<1>4. UpdateTyped'
  BY <1>1, <1>2, <1>3 DEF Updates!Kill, Updates!machine, Updates!Managed, Updates!Old,
                          UpdateTyped, Processes, Updates!Kinds, Updates!Revisions,
                          Updates!UpdateAssumption, ProcessIds
<1>5. ProcessesFit'
  BY <1>1, <1>2, <1>3 DEF Updates!Kill, Updates!machine, Updates!Managed, Updates!Old,
                          ProcessesFit, Good, PhasesFit, UpdateTyped
<1>6. DiskFits'
  <2>1. /\ disk' = disk /\ conf' = conf /\ manager' = manager /\ job'.runs = job.runs
        /\ upd[u].at # "fetch"
        /\ upd'[u].at \in {"unload", "load", "verify", "recover"} =>
             upd[u].at \in {"unload", "load", "verify", "recover"}
    BY <1>2 DEF Updates!Kill, Updates!machine
  <2> QED
    BY <1>1, <1>2, <1>3, <2>1, DiskStays
<1>7. PhasesFit'
  BY <1>1, <1>2, <1>3 DEF Updates!Kill, Updates!machine, Updates!Managed, Updates!Old,
                          PhasesFit, UpdateTyped, UpdateRecords, Updates!Kinds
<1>8. ~overlap => Replacing(u)
  BY DEF UpdateInv
<1>9. ~overlap => Replacing(u)'
  <2> SUFFICES ASSUME ~overlap PROVE Replacing(u)'
    OBVIOUS
  <2>1. /\ upd[u].at = "kill" /\ procs' = procs \ Updates!Old(u) /\ disk' = disk /\ conf' = conf
        /\ job' = job /\ manager' = manager
    BY DEF Updates!Kill
  <2>2. /\ disk[upd[u].kind] = "new"
        /\ \A p \in procs : \/ p.managed
                             \/ p.pid \in (upd[u].old \union upd[u].missed) \ upd[u].keep
        /\ upd[u].kind = "repo" /\ conf = "repo" =>
             \A p \in procs : p.code = "old" => p.pid \in upd[u].old \union upd[u].missed
        /\ upd[u].kind = "bundle" /\ manager # "nobody" =>
             /\ conf = "bundle" /\ job.runs = "bundle"
             /\ \A p \in procs : p.managed => p.code # "old"
    BY <1>8, <2>1 DEF Replacing
  <2>3. \A p \in procs' : p \in procs /\ p.pid \notin upd[u].old \ upd[u].keep
    BY <2>1 DEF Updates!Old
  <2>4. conf = "bundle" => BundleForGood'
    <3>1. \A v \in Updaters : upd'[v].at \notin {"unload", "load", "verify", "recover"}
      BY <1>2, <1>3 DEF UpdateInv, OneAtATime, Active, Updates!Resting
    <3> QED
      BY <2>1, <3>1 DEF BundleForGood
  <2>5. Replaced(upd[u].kind, upd[u].missed)'
    <3>1. CASE manager = "nobody"
      BY <1>1, <1>2, <2>1, <2>2, <2>3, <3>1 DEF Replaced, ProcessesFit
    <3>2. CASE manager # "nobody" /\ upd[u].kind = "repo" /\ conf = "repo"
      <4>1. upd[u].keep = {} /\ disk["bundle"] # "old"
        BY <1>1, <3>2 DEF PhasesFit, DiskFits, BundleForGood
      <4> QED
        BY <1>2, <2>1, <2>2, <2>3, <3>2, <4>1 DEF Replaced
    <3>3. CASE manager # "nobody" /\ upd[u].kind = "repo" /\ conf = "bundle"
      BY <1>2, <2>1, <2>4, <3>3 DEF Replaced
    <3>4. CASE manager # "nobody" /\ upd[u].kind = "bundle"
      BY <1>2, <2>1, <2>2, <2>3, <2>4, <3>4 DEF Replaced
    <3> QED
      BY <1>1, <3>1, <3>2, <3>3, <3>4 DEF UpdateTyped, UpdateRecords, Updates!Kinds
  <2> QED
    BY <1>2, <2>1, <2>2, <2>5 DEF Replacing
<1>10. ~overlap => \A k \in Updates!Kinds, M \in SUBSET ProcessIds :
         Replaced(k, M) => Replaced(k, M)'
  BY <1>1, <1>2, <1>3 DEF Updates!Kill, Updates!machine, Updates!Managed, Updates!Old, Replaced,
                          BundleForGood, DiskFits, ProcessesFit, PhasesFit, UpdateTyped,
                          Updates!Kinds
<1>11. ~overlap /\ ~accident => Serving(u)
  BY DEF UpdateInv
<1>12. ~overlap /\ ~accident' => Serving(u)'
  BY <1>1, <1>2, <1>3, <1>11 DEF Updates!Kill, Updates!machine, Updates!Managed, Updates!Old,
                                 Serving, HeldByHand, PhasesFit, ProcessesFit, UpdateTyped,
                                 UpdateRecords, Updates!Kinds
<1>13. ~overlap /\ ~accident' /\ upd'[u].at \in Updates!Resting =>
        job'.loaded \/ \E p \in procs' : Good(p)
  BY <1>1, <1>2, <1>3, <1>11 DEF Updates!Kill, Updates!machine, Updates!Managed, Updates!Old,
                                 Serving, HeldByHand, Good, Updates!Resting, ProcessesFit,
                                 PhasesFit
<1>14. overlap' = overlap /\ (accident => accident')
  BY DEF Updates!Kill
<1> QED
  BY <1>2, <1>3, <1>4, <1>5, <1>6, <1>7, <1>9, <1>10, <1>12, <1>13, <1>14, UpdaterSteps

(* The new connector, where there is no service.                            *)
LEMMA SpawnStep ==
  ASSUME Updates!UpdateAssumption, UpdateInv, NEW u \in Updaters, Updates!Spawn(u)
  PROVE  UpdateInv'
<1>1. UpdateTyped /\ ProcessesFit /\ DiskFits /\ PhasesFit
  BY UpdateTypes DEF UpdateInv
<1>2. /\ upd' \in [Updaters -> UpdateRecords]
      /\ \A v \in Updaters : v # u => upd'[v] = upd[v]
      /\ upd'[u].at = "done" /\ upd'[u].kind = upd[u].kind
      /\ upd'[u].missed = upd[u].missed
      /\ upd'[u].old = upd[u].old /\ upd'[u].keep = upd[u].keep
      /\ upd'[u].was = upd[u].was /\ upd'[u].orig = upd[u].orig
      /\ upd'[u].managed = upd[u].managed
  <2>1. "done" \in Stages
    BY DEF Stages, Updates!Resting
  <2>2. Updates!Goes(u, "done")
    BY DEF Updates!Spawn
  <2> QED
    BY <1>1, <2>1, <2>2, UpdaterGoes
<1>3. Active(u)
  BY DEF Updates!Spawn, Active, Updates!Resting
<1> DEFINE new == [pid |-> pids + 1, kind |-> upd[u].kind,
                   code |-> disk[upd[u].kind], managed |-> FALSE]
<1>20. /\ procs' = procs \union {new} /\ pids' = pids + 1 /\ pids < MaxPid /\ lock' = lock
       /\ job' = job /\ manager' = manager /\ disk' = disk /\ conf' = conf
       /\ upd[u].at = "spawn" /\ overlap' = overlap
  BY DEF Updates!Spawn
<1>21. pids + 1 \in 1..MaxPid /\ pids \in Nat /\ new.pid = pids + 1 /\ ~new.managed
       /\ new.code = disk[upd[u].kind] /\ new \in Processes
  BY <1>1, <1>20 DEF UpdateTyped, UpdateRecords, Updates!UpdateAssumption, Processes, ProcessIds
<1> HIDE DEF new
<1>4. UpdateTyped'
  BY <1>1, <1>2, <1>20, <1>21 DEF UpdateTyped, Updates!Spawn, Updates!UpdateAssumption
<1>5. ProcessesFit'
  <2>1. \A p \in procs : p.pid \in Nat /\ p.pid <= pids
    BY <1>1 DEF UpdateTyped, ProcessesFit, Processes, ProcessIds
  <2>2. lock \in Nat /\ lock <= pids
    BY <1>1 DEF UpdateTyped, ProcessesFit
  <2> QED
    BY <1>1, <1>20, <1>21, <2>1, <2>2 DEF ProcessesFit, Good
<1>6. DiskFits'
  BY <1>1, <1>2, <1>3 DEF Updates!Spawn, Updates!machine, Updates!Managed, DiskFits,
                          BundleForGood, PhasesFit, Active, Updates!Resting, UpdateTyped,
                          UpdateRecords, ServiceRecords, Updates!Kinds, Updates!Revisions
<1>7. PhasesFit'
  BY <1>1, <1>2, <1>3 DEF Updates!Spawn, Updates!machine, Updates!Managed, PhasesFit,
                          UpdateTyped, UpdateRecords, Updates!Kinds
<1>8. ~overlap => Replacing(u)
  BY DEF UpdateInv
<1>9. ~overlap => Replacing(u)'
  <2> SUFFICES ASSUME ~overlap PROVE Replacing(u)'
    OBVIOUS
  <2>1. PICK k \in Updates!Kinds, M \in SUBSET ProcessIds :
          k = upd[u].kind /\ M = upd[u].missed
    BY <1>1 DEF UpdateTyped, UpdateRecords
  <2>2. Replaced(k, M)
    BY <1>8, <1>20, <2>1 DEF Replacing
  <2>3. new.code = "new"
    BY <1>8, <1>20, <1>21 DEF Replacing
  <2>4. BundleForGood => BundleForGood'
    BY <1>2, <1>20 DEF BundleForGood
  <2>5. Replaced(k, M)'
    BY <1>20, <2>2, <2>3, <2>4 DEF Replaced
  <2>6. Replaced(upd[u].kind, upd[u].missed)'
    BY <1>2, <2>1, <2>5 DEF Replaced
  <2> QED
    BY <1>2, <2>6 DEF Replacing
<1>10. ~overlap => \A k \in Updates!Kinds, M \in SUBSET ProcessIds :
         Replaced(k, M) => Replaced(k, M)'
  <2> SUFFICES ASSUME ~overlap, NEW k \in Updates!Kinds, NEW M \in SUBSET ProcessIds,
                      Replaced(k, M)
               PROVE  Replaced(k, M)'
    OBVIOUS
  <2>1. new.code = "new"
    BY <1>8, <1>20, <1>21 DEF Replacing
  <2>2. BundleForGood => BundleForGood'
    BY <1>2, <1>20 DEF BundleForGood
  <2> QED
    BY <1>20, <2>1, <2>2 DEF Replaced
<1>11. ~overlap /\ ~accident => Serving(u)
  BY DEF UpdateInv
<1>12. ~overlap /\ ~accident' => Serving(u)'
  BY <1>1, <1>2, <1>3, <1>11 DEF Updates!Spawn, Updates!machine, Updates!Managed, Serving,
                                 HeldByHand, PhasesFit, ProcessesFit, UpdateTyped,
                                 UpdateRecords, Updates!Kinds
<1>13. ~overlap /\ ~accident' /\ upd'[u].at \in Updates!Resting =>
        job'.loaded \/ \E p \in procs' : Good(p)
  BY <1>8, <1>20, <1>21 DEF Replacing, Good
<1>14. overlap' = overlap /\ (accident => accident')
  BY DEF Updates!Spawn
<1> QED
  BY <1>2, <1>3, <1>4, <1>5, <1>6, <1>7, <1>9, <1>10, <1>12, <1>13, <1>14, UpdaterSteps


-----------------------------------------------------------------------------
(* The connectors and the manager.  What the manager starts is what the     *)
(* service runs, and the updaters reckon with it.                           *)
LEMMA ServiceSteps ==
  ASSUME UpdateInv, UNCHANGED <<manager, disk, conf, job, upd, overlap>>, accident => accident',
         UpdateTyped', ProcessesFit',
         \A p \in procs' : p \in procs \/ (p.managed /\ job.loaded /\ p.code = disk[job.runs]),
         ~accident' => (HeldByHand => HeldByHand'),
         ~accident' /\ ~job.loaded /\ (\E p \in procs : Good(p)) => \E p \in procs' : Good(p)
  PROVE  UpdateInv'
<1>1. Updates!TypeOK'
  BY UpdateTypes, PTL
<1>2. UpdateTyped /\ ProcessesFit /\ DiskFits /\ PhasesFit
  BY UpdateTypes DEF UpdateInv
<1>3. BundleForGood' = BundleForGood
  BY DEF BundleForGood
<1>4. DiskFits' /\ PhasesFit' /\ OneAtATime'
  BY <1>2, <1>3 DEF DiskFits, PhasesFit, OneAtATime, UpdateInv, Active
<1>5. \A k, M : Replaced(k, M) => Replaced(k, M)'
  BY <1>2, <1>3 DEF Replaced, ProcessesFit, UpdateTyped, ServiceRecords, Updates!Kinds
<1>6. ASSUME ~overlap, NEW u \in Updaters PROVE Replacing(u)'
  <2>1. Replacing(u)
    BY <1>6 DEF UpdateInv
  <2>2. PICK k, M : k = upd[u].kind /\ M = upd[u].missed
    OBVIOUS
  <2>3. upd[u].at \in {"spawn", "done"} => Replaced(upd[u].kind, upd[u].missed)'
    <3>1. upd[u].at \in {"spawn", "done"} => Replaced(k, M)
      BY <2>1, <2>2 DEF Replacing
    <3>2. upd[u].at \in {"spawn", "done"} => Replaced(k, M)'
      BY <1>5, <3>1
    <3> QED
      BY <2>2, <3>2 DEF Replaced
  <2>4. upd[u].at \in {"configure", "stop", "kill"} /\ upd[u].kind = "repo" /\ conf = "repo" =>
          \A p \in procs' : p.code = "old" => p.pid \in upd[u].old \union upd[u].missed
    BY <1>2, <2>1 DEF Replacing, DiskFits, BundleForGood, UpdateTyped, ServiceRecords,
                      Updates!Kinds
  <2>5. upd[u].at \in {"verify", "stop", "kill"} /\ upd[u].kind = "bundle" /\ manager # "nobody" =>
          /\ conf = "bundle" /\ job.runs = "bundle"
          /\ \A p \in procs' : p.managed => p.code # "old"
    BY <2>1 DEF Replacing
  <2>6. /\ upd[u].at \in {"configure", "unload", "load", "verify", "stop", "kill"} =>
             \A p \in procs' : p.managed \/ p.pid \in upd[u].old \union upd[u].missed
        /\ upd[u].at \in {"stop", "kill"} =>
             \A p \in procs' : p.managed \/ p.pid \notin upd[u].keep
    BY <2>1 DEF Replacing
  <2> QED
    BY <2>1, <2>3, <2>4, <2>5, <2>6 DEF Replacing
<1>7. ASSUME ~overlap, ~accident', NEW u \in Updaters PROVE Serving(u)'
  <2>1. Serving(u) /\ (HeldByHand => HeldByHand')
    BY <1>7 DEF UpdateInv
  <2> QED
    BY <2>1 DEF Serving
<1>8. ~overlap /\ ~accident' /\ Updates!Quiet' => job'.loaded \/ \E p \in procs' : Good(p)
  BY DEF UpdateInv, Updates!Quiet
<1> QED
  BY <1>1, <1>4, <1>6, <1>7, <1>8 DEF UpdateInv, Good

LEMMA ManagerStartsStep ==
  ASSUME Updates!UpdateAssumption, UpdateInv, Updates!ManagerStarts PROVE UpdateInv'
<1> DEFINE new == [pid |-> pids + 1, kind |-> job.runs,
                   code |-> disk[job.runs], managed |-> TRUE]
<1>1. UpdateTyped /\ ProcessesFit
  BY UpdateTypes DEF UpdateInv
<1>2. /\ UNCHANGED <<manager, disk, conf, job, upd, overlap, accident, lock>>
      /\ procs' = procs \union {new} /\ pids' = pids + 1 /\ pids < MaxPid /\ job.loaded
  BY DEF Updates!ManagerStarts
<1>3. pids + 1 \in 1..MaxPid /\ pids \in Nat /\ new \in Processes /\ new.pid = pids + 1
      /\ new.managed /\ new.code = disk[job.runs]
  BY <1>1, <1>2 DEF UpdateTyped, ServiceRecords, Updates!UpdateAssumption, Processes, ProcessIds
<1> HIDE DEF new
<1>4. UpdateTyped'
  BY <1>1, <1>2, <1>3 DEF UpdateTyped, Updates!UpdateAssumption
<1>5. ProcessesFit'
  <2>1. \A p \in procs : p.pid \in Nat /\ p.pid <= pids
    BY <1>1 DEF UpdateTyped, ProcessesFit, Processes, ProcessIds
  <2>2. lock \in Nat /\ lock <= pids
    BY <1>1 DEF UpdateTyped, ProcessesFit
  <2> QED
    BY <1>1, <1>2, <1>3, <2>1, <2>2 DEF ProcessesFit, Good
<1>6. HeldByHand => HeldByHand'
  BY <1>2 DEF HeldByHand
<1> QED
  BY <1>2, <1>3, <1>4, <1>5, <1>6, ServiceSteps

LEMMA LockStep ==
  ASSUME UpdateInv, NEW p \in procs, Updates!TakeLock(p) PROVE UpdateInv'
<1>1. UpdateTyped /\ ProcessesFit
  BY UpdateTypes DEF UpdateInv
<1>2. /\ UNCHANGED <<manager, disk, conf, job, procs, pids, upd, overlap, accident>>
      /\ lock' = p.pid /\ Good(p) /\ ~HeldByHand
  BY DEF Updates!TakeLock, Updates!LockIsHeld, Good, HeldByHand
<1>3. UpdateTyped'
  BY <1>1, <1>2 DEF UpdateTyped, Processes, ProcessIds
<1>4. ProcessesFit'
  BY <1>1, <1>2 DEF ProcessesFit, Good
<1> QED
  BY <1>2, <1>3, <1>4, ServiceSteps

LEMMA EndStep ==
  ASSUME UpdateInv, NEW p \in procs, Updates!Exit(p) \/ Updates!Crash(p) PROVE UpdateInv'
<1>1. UpdateTyped /\ ProcessesFit
  BY UpdateTypes DEF UpdateInv
<1>2. /\ UNCHANGED <<manager, disk, conf, job, lock, pids, upd, overlap>>
      /\ procs' = procs \ {p}
      /\ accident' = accident \/ accident' = (accident \/ ~p.managed)
  BY DEF Updates!Exit, Updates!Crash
<1>3. UpdateTyped'
  <2>1. accident' \in BOOLEAN
    BY <1>1, <1>2 DEF UpdateTyped
  <2> QED
    BY <1>1, <1>2, <2>1 DEF UpdateTyped
<1>4. ProcessesFit'
  BY <1>1, <1>2, ProcessesEnd DEF ProcessesFit
<1>5. ASSUME ~accident', HeldByHand PROVE HeldByHand'
  <2>1. PICK q \in procs : q.pid = lock /\ ~q.managed
    BY <1>5 DEF HeldByHand
  <2>2. q # p
    BY <1>1, <1>5, <2>1 DEF Updates!Exit, Updates!Crash, ProcessesFit, Good
  <2> QED
    BY <1>2, <2>1, <2>2 DEF HeldByHand
<1>6. ASSUME ~accident', ~job.loaded, \E q \in procs : Good(q)
      PROVE  \E q \in procs' : Good(q)
  <2>1. PICK q \in procs : Good(q)
    BY <1>6
  <2>2. CASE Updates!Exit(p)
    <3>1. CASE ~Good(p)
      BY <1>2, <2>1, <3>1
    <3>2. CASE Updates!LockIsHeld /\ lock # p.pid
      BY <1>1, <1>2, <3>2 DEF Updates!LockIsHeld, ProcessesFit
    <3> QED
      BY <2>2, <3>1, <3>2 DEF Updates!Exit, Good
  <2>3. CASE Updates!Crash(p)
    BY <1>1, <1>6, <2>3 DEF Updates!Crash, ProcessesFit
  <2> QED
    BY <2>2, <2>3
<1>7. accident => accident'
  BY <1>2
<1> QED
  BY <1>2, <1>3, <1>4, <1>5, <1>6, <1>7, ServiceSteps

(* The machine comes up again, with nobody at work.                         *)
LEMMA RebootStep ==
  ASSUME UpdateInv, Updates!Reboot PROVE UpdateInv'
<1>1. UpdateTyped /\ ProcessesFit /\ DiskFits /\ PhasesFit
  BY UpdateTypes DEF UpdateInv
<1>2. /\ upd' \in [Updaters -> UpdateRecords]
      /\ \A v \in Updaters : /\ upd'[v].at \in {"idle", "failed"}
                             /\ upd'[v].kind = upd[v].kind /\ upd'[v].keep = upd[v].keep
                             /\ upd'[v].orig = upd[v].orig
  BY <1>1, RebootEffect
<1>3. /\ procs' = {} /\ UNCHANGED <<manager, disk, conf, lock, pids, overlap>>
      /\ job' = [loaded |-> manager # "nobody", runs |-> conf]
      /\ accident' = (accident \/ manager = "nobody")
  BY DEF Updates!Reboot
<1>4. job' \in ServiceRecords /\ job'.runs = conf /\ (job'.loaded <=> manager # "nobody")
  BY <1>1, <1>3 DEF UpdateTyped, ServiceRecords
<1>5. UpdateTyped'
  <2>1. accident' \in BOOLEAN
    BY <1>1, <1>3 DEF UpdateTyped
  <2> QED
    BY <1>1, <1>2, <1>3, <1>4, <2>1 DEF UpdateTyped
<1>6. ProcessesFit'
  BY <1>1, <1>3, <1>4, ProcessesEnd
<1>7. DiskFits'
  BY <1>1, <1>2, <1>3, <1>4 DEF DiskFits, BundleForGood, Active, Updates!Resting
<1>8. PhasesFit'
  BY <1>1, <1>2, <1>3 DEF PhasesFit
<1>9. OneAtATime'
  BY <1>2 DEF OneAtATime, Active, Updates!Resting
<1>10. \A u \in Updaters : Replacing(u)' /\ Serving(u)'
  BY <1>2 DEF Replacing, Serving
<1>11. ~accident' => job'.loaded
  BY <1>3, <1>4
<1>12. Updates!TypeOK'
  BY <1>5, UpdateTypes, PTL
<1> QED
  BY <1>6, <1>7, <1>8, <1>9, <1>10, <1>11, <1>12 DEF UpdateInv, Good

(* An update begins; that it is the only one is forgotten if it is not.     *)
LEMMA BeginStep ==
  ASSUME UpdateInv, NEW u \in Updaters, Updates!Begin(u) PROVE UpdateInv'
<1>1. UpdateTyped /\ ProcessesFit /\ DiskFits /\ PhasesFit
  BY UpdateTypes DEF UpdateInv
<1>2. /\ upd' \in [Updaters -> UpdateRecords]
      /\ \A v \in Updaters : v # u => upd'[v] = upd[v]
      /\ upd'[u].at = "fetch" /\ upd'[u].keep = {} /\ upd'[u].orig = "repo"
      /\ upd'[u].managed = FALSE
  BY <1>1, BeginEffect
<1>3. /\ UNCHANGED <<manager, disk, conf, job, procs, lock, pids, accident>>
      /\ overlap' = (overlap \/ Updates!Others(u) # {})
      /\ ~Active(u) /\ Updates!LockIsHeld
  BY DEF Updates!Begin, Updates!machine, Active
<1>4. UpdateTyped'
  <2>1. overlap' \in BOOLEAN
    BY <1>1, <1>3 DEF UpdateTyped
  <2> QED
    BY <1>1, <1>2, <1>3, <2>1 DEF UpdateTyped
<1>5. ProcessesFit'
  BY <1>1, <1>3 DEF ProcessesFit, Good
<1>6. BundleForGood => BundleForGood'
  BY <1>2, <1>3 DEF BundleForGood
<1>7. DiskFits'
  BY <1>1, <1>2, <1>3, <1>6 DEF DiskFits, Active
<1>8. PhasesFit'
  BY <1>1, <1>2, <1>3 DEF PhasesFit
<1>9. ~overlap' => ~overlap /\ \A v \in Updaters : v # u => ~Active(v)
  BY <1>3 DEF Updates!Others, Active
<1>10. OneAtATime'
  BY <1>2, <1>9 DEF OneAtATime, Active
<1>11. ASSUME ~overlap', NEW v \in Updaters PROVE Replacing(v)'
  <2>1. CASE v = u
    BY <1>2, <2>1 DEF Replacing
  <2>2. CASE v # u
    <3>1. Replacing(v) /\ upd'[v] = upd[v]
      BY <1>2, <1>9, <1>11, <2>2 DEF UpdateInv
    <3>2. upd[v].at \in {"idle", "done", "failed"}
      BY <1>9, <1>11, <2>2 DEF Active, Updates!Resting
    <3>3. upd[v].at = "done" => Replaced(upd[v].kind, upd[v].missed)'
      BY <1>3, <1>6, <3>1 DEF Replacing, Replaced
    <3> QED
      BY <3>1, <3>2, <3>3 DEF Replacing
  <2> QED
    BY <2>1, <2>2
<1>12. ASSUME ~overlap', ~accident', NEW v \in Updaters PROVE Serving(v)'
  <2>1. job.loaded \/ HeldByHand
    BY <1>1, <1>3 DEF Updates!LockIsHeld, HeldByHand, ProcessesFit
  <2>2. HeldByHand => HeldByHand'
    BY <1>3 DEF HeldByHand
  <2>3. CASE v = u
    BY <1>2, <1>3, <2>1, <2>2, <2>3 DEF Serving
  <2>4. CASE v # u
    BY <1>2, <1>9, <1>12, <2>4 DEF Serving, Active, Updates!Resting
  <2> QED
    BY <2>3, <2>4
<1>13. ~Updates!Quiet'
  BY <1>2 DEF Updates!Quiet, Updates!Resting
<1>14. Updates!TypeOK'
  BY <1>4, UpdateTypes, PTL
<1> QED
  BY <1>5, <1>7, <1>8, <1>10, <1>11, <1>12, <1>13, <1>14 DEF UpdateInv

LEMMA UpdateInit == ASSUME Updates!UpdateAssumption PROVE Updates!Init => UpdateInv
<1> SUFFICES ASSUME Updates!Init PROVE UpdateInv
  OBVIOUS
<1>1. PICK managed \in BOOLEAN :
        /\ manager = "nobody" => ~managed
        /\ job = [loaded |-> managed, runs |-> conf]
        /\ procs = {[pid |-> 1, kind |-> conf, code |-> "old", managed |-> managed]}
  BY DEF Updates!Init
<1>2. /\ manager \in {"launchd", "systemd", "nobody"} /\ conf \in Updates!Kinds
      /\ disk = [repo |-> "old", bundle |-> IF conf = "bundle" THEN "old" ELSE "none"]
      /\ lock = 1 /\ pids = 1 /\ upd = [u \in Updaters |-> Updates!NoUpdate]
      /\ overlap = FALSE /\ accident = FALSE
  BY DEF Updates!Init
<1>3. disk \in [Updates!Kinds -> Updates!Revisions] /\ disk["repo"] = "old"
      /\ disk["bundle"] = IF conf = "bundle" THEN "old" ELSE "none"
  BY <1>2 DEF Updates!Kinds, Updates!Revisions
<1>4. /\ Updates!NoUpdate \in UpdateRecords /\ Updates!NoUpdate.at = "idle"
      /\ Updates!NoUpdate.keep = {} /\ Updates!NoUpdate.orig = "repo"
  BY DEF Updates!NoUpdate, UpdateRecords, Stages, Updates!Resting, Updates!Kinds
<1>5. job \in ServiceRecords /\ job.loaded = managed /\ job.runs = conf
  BY <1>1, <1>2 DEF ServiceRecords
<1>6. \A p \in procs : p \in Processes /\ p.pid = 1 /\ p.code = "old" /\ p.managed = managed
  BY <1>1, <1>2 DEF Processes, ProcessIds, Updates!Revisions, Updates!UpdateAssumption
<1>7. UpdateTyped
  <2>1. lock \in 0..MaxPid /\ pids \in 0..MaxPid
    BY <1>2 DEF Updates!UpdateAssumption
  <2>2. overlap \in BOOLEAN /\ accident \in BOOLEAN /\ upd \in [Updaters -> UpdateRecords]
    BY <1>2, <1>4
  <2> QED
    BY <1>2, <1>3, <1>5, <1>6, <2>1, <2>2 DEF UpdateTyped
<1>8. ProcessesFit
  BY <1>1, <1>2, <1>5, <1>6 DEF ProcessesFit, Good
<1>9. DiskFits
  BY <1>2, <1>3, <1>4, <1>5 DEF DiskFits, BundleForGood, Active, Updates!Resting, Updates!Kinds
<1>10. PhasesFit
  BY <1>2, <1>4 DEF PhasesFit
<1>11. OneAtATime
  BY <1>2, <1>4 DEF OneAtATime, Active, Updates!Resting
<1>12. \A u \in Updaters : Replacing(u) /\ Serving(u)
  BY <1>2, <1>4 DEF Replacing, Serving
<1>13. \E p \in procs : Good(p)
  BY <1>1 DEF Good
<1> QED
  BY <1>7, <1>8, <1>9, <1>10, <1>11, <1>12, <1>13, UpdateTypes DEF UpdateInv

LEMMA UpdateNext ==
  ASSUME Updates!UpdateAssumption, UpdateInv, [Updates!Next]_updates PROVE UpdateInv'
<1>1. ASSUME NEW u \in Updaters, Updates!Steps(u) PROVE UpdateInv'
  BY <1>1, FetchStep, CheckStep, ListPidsStep, ConfigureStep, UnloadStep, LoadStep, VerifyStep,
     RecoverStep, ReloadStep, RepoLaunchdStep, RestartUnitStep, StopStep, KillStep, SpawnStep
     DEF Updates!Steps
<1>2. CASE Updates!Lives
  BY <1>2, ManagerStartsStep, LockStep, EndStep DEF Updates!Lives
<1>3. CASE Updates!Faults
  BY <1>3, GivesUpStep, UpdaterDiesStep, EndStep, RebootStep DEF Updates!Faults
<1>4. CASE UNCHANGED updates
  <2>1. UpdateTyped /\ ProcessesFit
    BY UpdateTypes DEF UpdateInv
  <2>2. UpdateTyped' /\ ProcessesFit' /\ (HeldByHand => HeldByHand')
    BY <1>4, <2>1 DEF updates, UpdateTyped, ProcessesFit, Good, HeldByHand
  <2> QED
    BY <1>4, <2>2, ServiceSteps DEF updates
<1> QED
  BY <1>1, <1>2, <1>3, <1>4, BeginStep DEF Updates!Next

LEMMA UpdatesEndWellThen == ASSUME UpdateInv PROVE Updates!UpdatesEndWell
<1>1. UpdateTyped /\ DiskFits
  BY UpdateTypes DEF UpdateInv
<1>2. Updates!SomethingServes
  <2> SUFFICES ASSUME Updates!Quiet, ~accident, ~overlap
               PROVE  \/ \E p \in procs : p.code \in {"old", "new"}
                      \/ job.loaded /\ disk[job.runs] \in {"old", "new"}
                      \/ job.loaded /\ \E k \in Updates!Kinds : disk[k] = "bad"
    BY DEF Updates!SomethingServes
  <2>1. job.loaded \/ \E p \in procs : Good(p)
    BY DEF UpdateInv
  <2>2. job.runs \in Updates!Kinds /\ disk[job.runs] \in Updates!Revisions \ {"none"}
    BY <1>1 DEF UpdateTyped, ServiceRecords, DiskFits, Updates!Kinds
  <2> QED
    BY <2>1, <2>2 DEF Good, Updates!Revisions
<1>3. Updates!FinishedMeansReplaced
  <2> SUFFICES ASSUME NEW u \in Updaters, upd[u].at = "done", ~overlap,
                      manager = "nobody" \/ conf = upd[u].kind, NEW p \in procs
               PROVE  p.code # "old" \/ p.pid \in upd[u].missed
    BY DEF Updates!FinishedMeansReplaced
  <2>1. Replaced(upd[u].kind, upd[u].missed) /\ upd[u].kind \in Updates!Kinds
    BY <1>1 DEF UpdateInv, Replacing, UpdateTyped, UpdateRecords
  <2> QED
    BY <2>1 DEF Replaced, BundleForGood
<1> QED
  BY <1>2, <1>3 DEF Updates!UpdatesEndWell

-----------------------------------------------------------------------------
(* The steps of a behaviour are steps of the module, or none.               *)
LEMMA LoginsStep == [MCNext]_all => [Logins!Next]_devices
  BY DEF MCNext, RecordSteps, InstallSteps, ConnectSteps, LogInSteps, installed, all

LEMMA UpdatesStep == [MCNext]_all => [Updates!Next]_updates
  BY DEF MCNext, RecordSteps, InstallSteps, UpdateSteps, Updates!Next, installed, all

(* For any numbers of clients, controllers and keys: the logins and         *)
(* identities on file are those of LoginInv.                                *)
THEOREM LoginsAreSound == Logins!Spec => []LoginInv
<1>1. Logins!Init => LoginInv
  BY LoginInit, LoginBounds
<1>2. LoginInv /\ [Logins!Next]_devices => LoginInv'
  BY LoginNext, LoginBounds
<1>3. [Logins!Next]_(Logins!vars) => [Logins!Next]_devices
  BY DEF Logins!vars, devices
<1> QED
  BY <1>1, <1>2, <1>3, PTL DEF Logins!Spec

(* For any number of updates at one time, and with any manager of services: *)
(* processes, places and configuration are those of UpdateInv.              *)
THEOREM UpdatesAreSound == Updates!Spec => []UpdateInv
<1>1. Updates!Init => UpdateInv
  BY UpdateInit, UpdateBounds
<1>2. UpdateInv /\ [Updates!Next]_updates => UpdateInv'
  BY UpdateNext, UpdateBounds
<1>3. [Updates!Next]_(Updates!vars) => [Updates!Next]_updates
  BY DEF Updates!vars, updates
<1> QED
  BY <1>1, <1>2, <1>3, PTL DEF Updates!Spec

(* A login and an identity that are on file survive the other clients, and  *)
(* an update leaves a connector that runs the new code, or a service that   *)
(* will start one.                                                          *)
THEOREM InstallationStaysSound == MCSpec => []InstallationIsSound
<1>1. MCInit => LoginInv /\ UpdateInv
  BY LoginInit, LoginBounds, UpdateInit, UpdateBounds DEF MCInit
<1>2. LoginInv /\ [MCNext]_all => LoginInv'
  BY LoginsStep, LoginNext, LoginBounds
<1>3. UpdateInv /\ [MCNext]_all => UpdateInv'
  BY UpdatesStep, UpdateNext, UpdateBounds
<1>4. LoginInv /\ UpdateInv => InstallationIsSound
  BY LoginIsSoundThen, LoginBounds, UpdatesEndWellThen DEF InstallationIsSound
<1> QED
  BY <1>1, <1>2, <1>3, <1>4, PTL DEF MCSpec

-----------------------------------------------------------------------------
(* The events of a transcript (TranscriptEvents).                           *)

Log == transcript.records
Named == Sessions \union {NoSession}
Tellings == [event : Events!Event, at : Nat, life : Nat]
Identities == Named \X Nat \X {"terminal", "needs_input"}
Decoders == [session : Named, pending : Events!Event, emitted : SUBSET Identities]

ToldIds == {Events!EventId(told[i].event) : i \in DOMAIN told}

(* After the record at n the end_turn at i may still be what ends its turn. *)
MayEnd(i, n) ==
  /\ Log[i].type = "end_turn"
  /\ Events!OnlyAside(Log[i].session, i, n + 1)

(* What a decoder that has read up to n knows: the session, and the         *)
(* end_turn that may be the last of its turn, unless that was told.         *)
DecoderFits(d, n, ids) ==
  /\ d.session = Events!SessionAt(n)
  /\ d.emitted \subseteq ids
  /\ d.pending # Events!NoEvent =>
       /\ transcript.agent = "claude"
       /\ \E i \in 1..n : /\ d.pending = Events!Completed(d.session, i)
                          /\ MayEnd(i, n) /\ Log[i].session = d.session
  /\ transcript.agent = "claude" =>
       \A i \in 1..n : MayEnd(i, n) =>
         \/ d.pending = Events!Completed(Log[i].session, i)
         \/ <<Log[i].session, i, "terminal">> \in ids

EventsTyped ==
  /\ transcript = [agent |-> transcript.agent, records |-> transcript.records]
  /\ transcript.agent \in Events!Kinds
  /\ Log \in Seq(Events!Turning(transcript.agent))
  /\ decoder \in Decoders
  /\ caller \in [at : 0..Len(Log), quiet : SUBSET (1..Len(Log)), life : 0..MaxRestarts]
  /\ saved \in [decoder : Decoders, at : 0..caller.at]
  /\ told \in Seq(Tellings)

ToldFits ==
  \A i \in DOMAIN told :
    /\ told[i].at <= Len(Log) /\ told[i].life <= caller.life
    /\ told[i].life = caller.life => Events!EventId(told[i].event) \in decoder.emitted
    /\ transcript.agent = "claude" /\ told[i].event.outcome = "completed" =>
         told[i].event.turn \in 1..told[i].at

EventsInv ==
  /\ EventsTyped /\ ToldFits
  /\ DecoderFits(decoder, caller.at, ToldIds)
  /\ DecoderFits(saved.decoder, saved.at, ToldIds)
  /\ Events!EventsAreSound

(* The parts of what is claimed, for one entry and for one record.          *)
IsOver(x) ==
  x.event.outcome = "completed" =>
    \/ /\ x.at > 0 /\ Log[x.at].type = "prompt" /\ x.event.turn \in Events!Ends(x.at)
    \/ /\ x.life = caller.life => x.event.turn \in caller.quiet
       /\ Log[x.event.turn].type = "end_turn" /\ Log[x.event.turn].session = x.event.session
       /\ Events!OnlyAside(x.event.session, x.event.turn, x.at + 1)

TurnIsKnown(n, ids) ==
  /\ Log[n].type = "prompt" =>
       \A i \in Events!Ends(n) : <<Log[n].session, i, "terminal">> \in ids
  /\ Log[n].type = "interrupt" =>
       \E i \in Events!Ends(n) \union {Events!Parent(Log, n)} :
         <<Log[n].session, i, "terminal">> \in ids
  /\ Log[n].type = "question" => <<Log[n].session, n, "needs_input">> \in ids
  /\ Log[n].type \in {"task_complete", "turn_aborted"} /\ Log[n].turn # 0 =>
       <<Events!SessionAt(n), Log[n].turn, "terminal">> \in ids
  /\ Log[n].type \in {"stop", "aborted"} => <<Events!SessionAt(n), n, "terminal">> \in ids

-----------------------------------------------------------------------------
LEMMA SoundParts ==
  /\ Events!CompletedTurnsAreOver <=>
       (transcript.agent = "claude" => \A i \in DOMAIN told : IsOver(told[i]))
  /\ Events!NoTurnIsMissed <=> \A n \in 1..caller.at : TurnIsKnown(n, ToldIds)
<1>1. Events!CompletedTurnsAreOver <=>
        (transcript.agent = "claude" => \A i \in DOMAIN told : IsOver(told[i]))
  BY DEF Events!CompletedTurnsAreOver, IsOver, Log
<1>2. Events!NoTurnIsMissed <=> \A n \in 1..caller.at : TurnIsKnown(n, ToldIds)
  BY DEF Events!NoTurnIsMissed, TurnIsKnown, Log, ToldIds
<1> QED
  BY <1>1, <1>2

LEMMA SoundPartsNext ==
  /\ Events!CompletedTurnsAreOver' <=>
       (transcript.agent = "claude" => \A i \in DOMAIN told : IsOver(told[i]))'
  /\ Events!NoTurnIsMissed' <=> (\A n \in 1..caller.at : TurnIsKnown(n, ToldIds))'
<1>1. Events!CompletedTurnsAreOver' <=>
        (transcript.agent = "claude" => \A i \in DOMAIN told : IsOver(told[i]))'
  BY DEF Events!CompletedTurnsAreOver, IsOver, Log
<1>2. Events!NoTurnIsMissed' <=> (\A n \in 1..caller.at : TurnIsKnown(n, ToldIds))'
  BY DEF Events!NoTurnIsMissed, TurnIsKnown, Log, ToldIds
<1> QED
  BY <1>1, <1>2

(* A record is of the agent whose transcript it is in.                      *)
LEMMA RecordTyped ==
  ASSUME EventsTyped, NEW n \in 1..Len(Log)
  PROVE  /\ Log[n].session \in Named
         /\ transcript.agent = "claude" =>
              \/ Log[n].type = "sidechain" /\ Log[n].session = NoSession
              \/ /\ Log[n].type \in {"end_turn", "fragment", "question", "prompt", "tool_result",
                                     "note", "interrupt"}
                 /\ Log[n].session \in Sessions
         /\ transcript.agent = "codex" =>
              \/ Log[n].type = "session_meta" /\ Log[n].turn = 0
              \/ Log[n].type \in {"task_complete", "turn_aborted"} /\ Log[n].turn \in TurnIds \union {0}
         /\ transcript.agent = "pi" => Log[n].type \in {"session", "stop", "aborted", "toolCall"}
<1>1. Log[n] \in Events!Turning(transcript.agent)
  BY DEF EventsTyped
<1>2. CASE transcript.agent = "claude"
  BY <1>1, <1>2 DEF Events!Turning, Named
<1>3. CASE transcript.agent = "codex"
  BY <1>1, <1>3 DEF Events!Turning, Named
<1>4. CASE transcript.agent = "pi"
  BY <1>1, <1>4 DEF Events!Turning, Named
<1> QED
  BY <1>2, <1>3, <1>4 DEF EventsTyped, Events!Kinds

LEMMA SessionMoves ==
  ASSUME EventsTyped, NEW n \in 1..Len(Log)
  PROVE  Events!SessionAt(n) = IF Log[n].session = NoSession THEN Events!SessionAt(n - 1)
                               ELSE Log[n].session
<1> DEFINE S(m) == {i \in 1..m : Log[i].session # NoSession}
           Last(T) == CHOOSE x \in T : \A y \in T : x >= y
<1>1. n \in Nat /\ n >= 1
  BY DEF EventsTyped
<1>2. \A m : Events!SessionAt(m) = IF S(m) = {} THEN NoSession ELSE Log[Last(S(m))].session
  BY DEF Events!SessionAt, Events!Max, Log
<1>3. CASE Log[n].session = NoSession
  <2>1. S(n) = S(n - 1)
    BY <1>1, <1>3
  <2> HIDE DEF S, Last
  <2>2. Events!SessionAt(n) = Events!SessionAt(n - 1)
    BY <1>2, <2>1
  <2> QED
    BY <1>3, <2>2
<1>4. CASE Log[n].session # NoSession
  <2>1. n \in S(n) /\ \A y \in S(n) : n >= y /\ y \in Nat
    BY <1>1, <1>4
  <2>2. \A x \in S(n) : (\A y \in S(n) : x >= y) => x = n
    BY <1>1, <2>1
  <2> HIDE DEF S
  <2>3. Last(S(n)) = n
    BY <2>1, <2>2
  <2> QED
    BY <1>2, <1>4, <2>1, <2>3
<1> QED
  BY <1>3, <1>4

LEMMA MayEndMoves ==
  ASSUME EventsTyped, NEW n \in 1..Len(Log), NEW i \in 1..n
  PROVE  MayEnd(i, n) <=>
           \/ i = n /\ Log[n].type = "end_turn"
           \/ /\ i < n /\ MayEnd(i, n - 1)
              /\ \/ Log[n].type = "sidechain"
                 \/ Log[n].type = "note" /\ Log[n].session = Log[i].session
<1>1. n \in Nat /\ n >= 1 /\ i \in Nat /\ i <= n
  BY DEF EventsTyped
<1>2. CASE i = n
  <2>1. i + 1 .. (n + 1) - 1 = {}
    BY <1>1, <1>2
  <2> QED
    BY <1>1, <1>2, <2>1 DEF MayEnd, Events!OnlyAside
<1>3. CASE i < n
  <2>1. i + 1 .. (n + 1) - 1 = (i + 1 .. ((n - 1) + 1) - 1) \union {n}
    BY <1>1, <1>3
  <2> QED
    BY <1>1, <1>3, <2>1 DEF MayEnd, Events!OnlyAside, Log
<1> QED
  BY <1>1, <1>2, <1>3

LEMMA EndsAre ==
  ASSUME EventsTyped, NEW n \in 1..Len(Log), NEW i
  PROVE  i \in Events!Ends(n) <=>
           i \in 1 .. n - 1 /\ MayEnd(i, n - 1) /\ Log[i].session = Log[n].session
<1>1. (n - 1) + 1 = n
  BY DEF EventsTyped
<1> QED
  BY <1>1 DEF Events!Ends, MayEnd, Log

(* What a step of a decoder gives.                                          *)
Emitted(r) == {Events!EventId(r.events[i]) : i \in DOMAIN r.events}

Emits(d, r) ==
  /\ r.decoder \in Decoders
  /\ \/ r.events = <<>> /\ r.decoder.emitted = d.emitted
     \/ \E e \in Events!Event : /\ r.events = <<e>> /\ Events!EventId(e) \notin d.emitted
                                /\ r.decoder.emitted = d.emitted \union {Events!EventId(e)}

LEMMA EmitsOnce ==
  ASSUME NEW d \in Decoders, NEW e \in Events!Event
  PROVE  LET r == Events!EmitOnce(d, e) IN
         /\ Emits(d, r) /\ r.decoder.session = d.session /\ r.decoder.pending = d.pending
         /\ Events!EventId(e) \in d.emitted \union Emitted(r)
         /\ \A i \in DOMAIN r.events : r.events[i] = e
<1> DEFINE r == Events!EmitOnce(d, e)
<1>1. Events!EventId(e) \in Identities
  BY DEF Events!EventId, Events!Event, Identities, Named
<1>2. CASE Events!EventId(e) \in d.emitted
  <2>1. r = [decoder |-> d, events |-> <<>>]
    BY <1>2 DEF Events!EmitOnce, Events!Silent
  <2> QED
    BY <1>2, <2>1 DEF Emits
<1>3. CASE Events!EventId(e) \notin d.emitted
  <2>1. /\ r.events = <<e>> /\ DOMAIN r.events = {1} /\ r.events[1] = e
        /\ r.decoder = [d EXCEPT !.emitted = @ \union {Events!EventId(e)}]
    BY <1>3 DEF Events!EmitOnce
  <2>2. /\ r.decoder \in Decoders /\ r.decoder.session = d.session
        /\ r.decoder.pending = d.pending
        /\ r.decoder.emitted = d.emitted \union {Events!EventId(e)}
    BY <1>1, <2>1 DEF Decoders
  <2> HIDE DEF r
  <2>3. Events!EventId(e) \in Emitted(r)
    BY <2>1 DEF Emitted
  <2>4. Emits(d, r)
    BY <1>3, <2>1, <2>2 DEF Emits
  <2>5. \A i \in DOMAIN r.events : r.events[i] = e
    BY <2>1
  <2> QED
    BY <2>2, <2>3, <2>4, <2>5 DEF r
<1> QED
  BY <1>2, <1>3

LEMMA EventsMade ==
  ASSUME NEW s \in Named, NEW i \in Nat
  PROVE  /\ Events!Completed(s, i) \in Events!Event /\ Events!Aborted(s, i) \in Events!Event
         /\ Events!Asked(s, i) \in Events!Event /\ Events!NoEvent \in Events!Event
         /\ Events!EventId(Events!Completed(s, i)) = <<s, i, "terminal">>
         /\ Events!EventId(Events!Aborted(s, i)) = <<s, i, "terminal">>
         /\ Events!EventId(Events!Asked(s, i)) = <<s, i, "needs_input">>
         /\ Events!Completed(s, i).turn = i /\ Events!Completed(s, i).session = s
         /\ Events!Completed(s, i).outcome = "completed"
         /\ Events!Aborted(s, i).outcome = "aborted" /\ Events!Asked(s, i).outcome = "needs_input"
         /\ s \in Sessions /\ NoSession \notin Sessions => Events!Completed(s, i) # Events!NoEvent
  BY DEF Events!Completed, Events!Aborted, Events!Asked, Events!NoEvent, Events!Event,
         Events!EventId, Named

(* The record first says which session it is of.                            *)
LEMMA InContextFits ==
  ASSUME Events!TranscriptEventsAssumption, EventsTyped,
         NEW n \in 1..Len(Log), NEW m \in {n - 1, n}, NEW d \in Decoders, NEW ids,
         DecoderFits(d, m, ids)
  PROVE  LET k == Events!InContext(d, Log[n]) IN
         /\ k \in Decoders /\ k.emitted = d.emitted /\ k.session = Events!SessionAt(n)
         /\ k.pending # Events!NoEvent =>
              /\ transcript.agent = "claude"
              /\ \E i \in 1..n : /\ k.pending = Events!Completed(k.session, i)
                                 /\ Log[i].session = k.session
                                 /\ \/ i < n /\ MayEnd(i, n - 1)
                                    \/ i = n /\ Log[n].type = "end_turn"
         /\ transcript.agent = "claude" =>
              \A i \in 1 .. n - 1 :
                /\ MayEnd(i, n - 1) /\ Log[n].session \in {NoSession, Log[i].session}
                /\ m = n - 1 \/ MayEnd(i, n)
                => \/ k.pending = Events!Completed(Log[i].session, i)
                   \/ <<Log[i].session, i, "terminal">> \in ids
<1> DEFINE k == Events!InContext(d, Log[n])
<1>1. n \in Nat /\ n >= 1 /\ NoSession \notin Sessions
  BY DEF Events!TranscriptEventsAssumption
<1>2. /\ d.session = Events!SessionAt(m) /\ d.session \in Named
      /\ Log[n].session \in Named
      /\ \A i \in 1..m : i \in Nat /\ i \in 1..n /\ Log[i].session \in Named
      /\ Events!NoEvent \in Events!Event
  BY <1>1, RecordTyped, EventsMade DEF DecoderFits, Decoders, Named
<1>3. Events!SessionAt(n) = IF Log[n].session = NoSession THEN Events!SessionAt(n - 1)
                            ELSE Log[n].session
  BY SessionMoves
<1>4. d.pending # Events!NoEvent =>
        \E i \in 1..m : /\ d.pending = Events!Completed(d.session, i)
                        /\ MayEnd(i, m) /\ Log[i].session = d.session
  BY DEF DecoderFits
<1>5. ASSUME NEW i \in 1..m, d.pending = Events!Completed(Log[i].session, i),
             Log[i].session # NoSession
      PROVE  d.session = Log[i].session
  <2>1. Log[i].session \in Sessions /\ i \in Nat
    BY <1>2, <1>5 DEF Named
  <2>2. d.pending # Events!NoEvent
    BY <1>1, <1>5, <2>1, EventsMade DEF Named
  <2>3. PICK j \in 1..m : d.pending = Events!Completed(d.session, j)
    BY <1>4, <2>2
  <2> QED
    BY <1>5, <2>3 DEF Events!Completed
<1>6. transcript.agent = "claude" =>
        \A i \in 1..m : Log[i].type = "end_turn" => Log[i].session \in Sessions
  BY <1>2, RecordTyped, <1>1
<1>7. CASE Log[n].session \in {NoSession, d.session}
  <2>1. k = d
    BY <1>7 DEF Events!InContext
  <2>2. d.session = Events!SessionAt(n)
    BY <1>2, <1>3, <1>7
  <2>3. ASSUME d.pending # Events!NoEvent
        PROVE  /\ transcript.agent = "claude"
               /\ \E i \in 1..n : /\ d.pending = Events!Completed(d.session, i)
                                  /\ Log[i].session = d.session
                                  /\ \/ i < n /\ MayEnd(i, n - 1)
                                     \/ i = n /\ Log[n].type = "end_turn"
    <3>1. PICK i \in 1..m : /\ d.pending = Events!Completed(d.session, i)
                            /\ MayEnd(i, m) /\ Log[i].session = d.session
      BY <1>4, <2>3
    <3>2. i \in 1..n /\ ((i < n /\ MayEnd(i, n - 1)) \/ (i = n /\ Log[n].type = "end_turn"))
      BY <1>1, <1>2, <3>1, MayEndMoves
    <3> QED
      BY <2>3, <3>1, <3>2 DEF DecoderFits
  <2>4. ASSUME transcript.agent = "claude", NEW i \in 1 .. n - 1, MayEnd(i, n - 1),
               m = n - 1 \/ MayEnd(i, n)
        PROVE  \/ d.pending = Events!Completed(Log[i].session, i)
               \/ <<Log[i].session, i, "terminal">> \in ids
    <3>1. i \in 1..m /\ MayEnd(i, m)
      BY <1>1, <2>4
    <3> QED
      BY <2>4, <3>1 DEF DecoderFits
  <2> HIDE DEF k
  <2> QED
    BY <2>1, <2>2, <2>3, <2>4 DEF k
<1>8. CASE Log[n].session \notin {NoSession, d.session}
  <2>1. m = n - 1 /\ Events!SessionAt(n) = Log[n].session
    BY <1>1, <1>2, <1>3, <1>8
  <2>2. d.session = NoSession => d.pending = Events!NoEvent
    <3>1. ASSUME d.session = NoSession, d.pending # Events!NoEvent PROVE FALSE
      <4>1. PICK i \in 1..m : MayEnd(i, m) /\ Log[i].session = NoSession
        BY <1>4, <3>1
      <4> QED
        BY <1>1, <1>6, <3>1, <4>1 DEF MayEnd, DecoderFits
    <3> QED
      BY <3>1
  <2>3. /\ k \in Decoders /\ k.emitted = d.emitted /\ k.session = Log[n].session
        /\ k.pending = Events!NoEvent
    <3>1. CASE d.session = NoSession
      <4>1. k = [d EXCEPT !.session = Log[n].session]
        BY <1>8, <3>1 DEF Events!InContext
      <4> HIDE DEF k
      <4> QED
        BY <1>2, <2>2, <3>1, <4>1 DEF Decoders
    <3>2. CASE d.session # NoSession
      <4>1. k = [Events!Freed(d) EXCEPT !.session = Log[n].session]
        BY <1>8, <3>2 DEF Events!InContext
      <4>2. Events!Freed(d) \in Decoders /\ Events!Freed(d).emitted = d.emitted
            /\ Events!Freed(d).pending = Events!NoEvent
        BY <1>2 DEF Events!Freed, Decoders
      <4> HIDE DEF k
      <4> QED
        BY <1>2, <4>1, <4>2 DEF Decoders
    <3> QED
      BY <3>1, <3>2
  <2>4. ASSUME transcript.agent = "claude", NEW i \in 1 .. n - 1, MayEnd(i, n - 1),
               Log[n].session \in {NoSession, Log[i].session}
        PROVE  <<Log[i].session, i, "terminal">> \in ids
    <3>1. i \in 1..m /\ Log[i].session = Log[n].session
      BY <1>8, <2>1, <2>4
    <3>2. d.pending # Events!Completed(Log[i].session, i)
      BY <1>5, <1>8, <3>1
    <3> QED
      BY <2>1, <2>4, <3>1, <3>2 DEF DecoderFits
  <2> HIDE DEF k
  <2> QED
    BY <2>1, <2>3, <2>4 DEF k
<1> QED
  BY <1>7, <1>8

(* What a record, decoded for the first time or again, leaves and gives.    *)
Decodes(d, m, n, r, ids) ==
  /\ Emits(d, r) /\ DecoderFits(r.decoder, n, ids \union Emitted(r))
  /\ m = n - 1 => TurnIsKnown(n, ids \union Emitted(r))
  /\ \A i \in DOMAIN r.events : r.events[i].outcome = "completed" /\ transcript.agent = "claude" =>
       Log[n].type = "prompt" /\ r.events[i].turn \in Events!Ends(n)

LEMMA TellsOnce ==
  ASSUME NEW k \in Decoders, NEW ids, k.emitted \subseteq ids, NEW e \in Events!Event
  PROVE  LET r == Events!EmitOnce(k, e) IN
         /\ Emits(k, r) /\ r.decoder.emitted \subseteq ids \union Emitted(r)
         /\ Events!EventId(e) \in ids \union Emitted(r)
         /\ r.decoder.session = k.session /\ r.decoder.pending = k.pending
         /\ \A i \in DOMAIN r.events : r.events[i] = e
<1> DEFINE r == Events!EmitOnce(k, e)
<1>1. /\ Emits(k, r) /\ r.decoder.session = k.session /\ r.decoder.pending = k.pending
      /\ Events!EventId(e) \in k.emitted \union Emitted(r)
      /\ \A i \in DOMAIN r.events : r.events[i] = e
  BY EmitsOnce
<1> HIDE DEF r
<1>2. ASSUME r.decoder.emitted = k.emitted PROVE r.decoder.emitted \subseteq ids \union Emitted(r)
  BY <1>2
<1>3. ASSUME NEW f \in Events!Event, r.events = <<f>>,
             r.decoder.emitted = k.emitted \union {Events!EventId(f)}
      PROVE  r.decoder.emitted \subseteq ids \union Emitted(r)
  BY <1>3 DEF Emitted
<1>4. r.decoder.emitted \subseteq ids \union Emitted(r)
  BY <1>1, <1>2, <1>3 DEF Emits
<1> QED
  BY <1>1, <1>4 DEF r

LEMMA CodexDecodes ==
  ASSUME Events!TranscriptEventsAssumption, EventsTyped, transcript.agent = "codex",
         NEW n \in 1..Len(Log), NEW m \in {n - 1, n}, NEW d \in Decoders, NEW ids,
         DecoderFits(d, m, ids)
  PROVE  Decodes(d, m, n, Events!Decode(d, Log, n), ids)
<1> DEFINE k == Events!InContext(d, Log[n])
           r == Events!Decode(d, Log, n)
<1>1. /\ k \in Decoders /\ k.emitted = d.emitted /\ k.session = Events!SessionAt(n)
      /\ k.session \in Named /\ k.pending = Events!NoEvent /\ d.emitted \subseteq ids
  BY InContextFits DEF Decoders, DecoderFits
<1>2. r = Events!DecodeCodex(k, Log[n])
  BY DEF Events!Decode
<1>3. CASE Log[n].turn = 0
  <2>1. r = [decoder |-> k, events |-> <<>>]
    BY <1>2, <1>3 DEF Events!DecodeCodex, Events!Silent
  <2>2. TurnIsKnown(n, ids \union Emitted(r))
    BY <1>3, RecordTyped DEF TurnIsKnown
  <2> HIDE DEF k
  <2> QED
    BY <1>1, <2>1, <2>2 DEF Decodes, Emits, DecoderFits, r
<1>4. CASE Log[n].turn # 0
  <2>1. /\ Log[n].type \in {"task_complete", "turn_aborted"} /\ Log[n].turn \in Nat
        /\ Log[n].type \notin {"prompt", "interrupt", "question", "stop", "aborted"}
    BY <1>4, RecordTyped DEF Events!TranscriptEventsAssumption
  <2>2. PICK e \in {Events!Completed(k.session, Log[n].turn), Events!Aborted(k.session, Log[n].turn)} :
          r = Events!EmitOnce(k, e)
    BY <1>2, <1>4 DEF Events!DecodeCodex
  <2>3. e \in Events!Event /\ Events!EventId(e) = <<k.session, Log[n].turn, "terminal">>
    BY <1>1, <2>1, <2>2, EventsMade
  <2> HIDE DEF k, r
  <2>4. /\ Emits(k, r) /\ r.decoder.emitted \subseteq ids \union Emitted(r)
        /\ Events!EventId(e) \in ids \union Emitted(r)
        /\ r.decoder.session = k.session /\ r.decoder.pending = k.pending
    BY <1>1, <2>2, <2>3, TellsOnce
  <2>5. DecoderFits(r.decoder, n, ids \union Emitted(r))
    BY <1>1, <2>4 DEF DecoderFits
  <2>6. TurnIsKnown(n, ids \union Emitted(r))
    BY <1>1, <2>1, <2>3, <2>4 DEF TurnIsKnown
  <2> QED
    BY <1>1, <2>4, <2>5, <2>6 DEF Decodes, Emits, r
<1> QED
  BY <1>3, <1>4

LEMMA PiDecodes ==
  ASSUME Events!TranscriptEventsAssumption, EventsTyped, transcript.agent = "pi",
         NEW n \in 1..Len(Log), NEW m \in {n - 1, n}, NEW d \in Decoders, NEW ids,
         DecoderFits(d, m, ids)
  PROVE  Decodes(d, m, n, Events!Decode(d, Log, n), ids)
<1> DEFINE k == Events!InContext(d, Log[n])
           r == Events!Decode(d, Log, n)
<1>1. /\ k \in Decoders /\ k.emitted = d.emitted /\ k.session = Events!SessionAt(n)
      /\ k.session \in Named /\ k.pending = Events!NoEvent /\ d.emitted \subseteq ids
  BY InContextFits DEF Decoders, DecoderFits
<1>2. r = Events!DecodePi(k, Log[n], n)
  BY DEF Events!Decode
<1>3. /\ Log[n].type \in {"session", "stop", "aborted", "toolCall"} /\ n \in Nat
  BY RecordTyped
<1>4. CASE Log[n].type \in {"session", "toolCall"}
  <2>1. r = [decoder |-> k, events |-> <<>>]
    BY <1>2, <1>4 DEF Events!DecodePi, Events!Silent
  <2>2. TurnIsKnown(n, ids \union Emitted(r))
    BY <1>4 DEF TurnIsKnown
  <2> HIDE DEF k
  <2> QED
    BY <1>1, <2>1, <2>2 DEF Decodes, Emits, DecoderFits, r
<1>5. CASE Log[n].type \in {"stop", "aborted"}
  <2>2. PICK e \in {Events!Completed(k.session, n), Events!Aborted(k.session, n)} :
          r = Events!EmitOnce(k, e)
    BY <1>2, <1>5 DEF Events!DecodePi
  <2>3. e \in Events!Event /\ Events!EventId(e) = <<k.session, n, "terminal">>
    BY <1>1, <1>3, <2>2, EventsMade
  <2> HIDE DEF k, r
  <2>4. /\ Emits(k, r) /\ r.decoder.emitted \subseteq ids \union Emitted(r)
        /\ Events!EventId(e) \in ids \union Emitted(r)
        /\ r.decoder.session = k.session /\ r.decoder.pending = k.pending
    BY <1>1, <2>2, <2>3, TellsOnce
  <2>5. DecoderFits(r.decoder, n, ids \union Emitted(r))
    BY <1>1, <2>4 DEF DecoderFits
  <2>6. TurnIsKnown(n, ids \union Emitted(r))
    BY <1>1, <1>5, <2>3, <2>4 DEF TurnIsKnown
  <2> QED
    BY <1>1, <2>4, <2>5, <2>6 DEF Decodes, Emits, r
<1> QED
  BY <1>3, <1>4, <1>5

LEMMA MaxIs ==
  ASSUME NEW n \in Nat, NEW T, T \subseteq 0..n, T # {}
  PROVE  Events!Max(T) \in T
<1>1. PICK x \in T : \A y \in T : y <= x
  BY Greatest
<1>2. \A y \in T : x >= y
  BY <1>1
<1> QED
  BY <1>2 DEF Events!Max

LEMMA ParentTyped ==
  ASSUME EventsTyped, NEW n \in 1..Len(Log)
  PROVE  Events!Parent(Log, n) \in 1..n
<1> DEFINE before == {i \in 1 .. n - 1 : Log[i].type # "sidechain"}
<1>1. n \in Nat /\ n >= 1
  BY DEF EventsTyped
<1>2. CASE before = {}
  BY <1>1, <1>2 DEF Events!Parent
<1>3. CASE before # {}
  <2>1. before \subseteq 0..n
    BY <1>1
  <2> HIDE DEF before
  <2>2. Events!Max(before) \in before
    BY <1>1, <1>3, <2>1, MaxIs
  <2>3. Events!Parent(Log, n) = Events!Max(before)
    BY <1>3 DEF before, Events!Parent
  <2> QED
    BY <1>1, <2>2, <2>3 DEF before
<1> QED
  BY <1>2, <1>3

LEMMA ClaudeDecodes ==
  ASSUME Events!TranscriptEventsAssumption, EventsTyped, transcript.agent = "claude",
         NEW n \in 1..Len(Log), NEW m \in {n - 1, n}, NEW d \in Decoders, NEW ids,
         DecoderFits(d, m, ids)
  PROVE  Decodes(d, m, n, Events!Decode(d, Log, n), ids)
<1> DEFINE k == Events!InContext(d, Log[n])
           r == Events!Decode(d, Log, n)
           held == k.pending # Events!NoEvent
           s == k.session
           Open(i) == k.pending = Events!Completed(Log[i].session, i)
           Said(i) == <<Log[i].session, i, "terminal">> \in ids
<1>1. /\ k \in Decoders /\ k.emitted = d.emitted /\ s = Events!SessionAt(n)
      /\ s \in Named /\ d.emitted \subseteq ids /\ k.pending \in Events!Event
  <2>1. k \in Decoders /\ k.emitted = d.emitted /\ s = Events!SessionAt(n)
    BY InContextFits
  <2> HIDE DEF k
  <2> QED
    BY <2>1 DEF Decoders, DecoderFits
<1>2. ASSUME held
      PROVE  \E i \in 1..n : /\ k.pending = Events!Completed(s, i) /\ Log[i].session = s
                             /\ \/ i < n /\ MayEnd(i, n - 1)
                                \/ i = n /\ Log[n].type = "end_turn"
  BY <1>2, InContextFits
<1>3. ASSUME NEW i \in 1 .. n - 1, MayEnd(i, n - 1), Log[n].session \in {NoSession, Log[i].session},
             m = n - 1 \/ MayEnd(i, n)
      PROVE  Open(i) \/ Said(i)
  BY <1>3, InContextFits
<1>4. r = Events!DecodeClaude(k, Log, n)
  BY DEF Events!Decode
<1>5. /\ n \in Nat /\ n >= 1 /\ NoSession \notin Sessions
      /\ \/ Log[n].type = "sidechain" /\ Log[n].session = NoSession
         \/ /\ Log[n].type \in {"end_turn", "fragment", "question", "prompt", "tool_result",
                                "note", "interrupt"}
            /\ Log[n].session \in Sessions /\ s = Log[n].session
  BY <1>1, RecordTyped, SessionMoves DEF Events!TranscriptEventsAssumption
<1>6. /\ Events!Freed(k) \in Decoders /\ Events!Freed(k).pending = Events!NoEvent
      /\ Events!Freed(k).emitted = d.emitted /\ Events!Freed(k).session = s
  BY <1>1, EventsMade DEF Events!Freed, Decoders
<1> HIDE DEF k, r
<1>7. CASE Log[n].type \in {"sidechain", "note"}
  <2>1. r = [decoder |-> k, events |-> <<>>]
    BY <1>4, <1>7 DEF Events!DecodeClaude, Events!Silent
  <2>2. ASSUME held PROVE \E i \in 1..n : /\ k.pending = Events!Completed(s, i)
                                          /\ MayEnd(i, n) /\ Log[i].session = s
    BY <1>2, <1>5, <1>7, <2>2, MayEndMoves
  <2>3. ASSUME NEW i \in 1..n, MayEnd(i, n) PROVE Open(i) \/ Said(i)
    <3>1. i \in 1 .. n - 1 /\ MayEnd(i, n - 1) /\ Log[n].session \in {NoSession, Log[i].session}
      BY <1>5, <1>7, <2>3, MayEndMoves
    <3> QED
      BY <1>3, <2>3, <3>1
  <2>4. DecoderFits(k, n, ids \union Emitted(r))
    BY <1>1, <2>2, <2>3 DEF DecoderFits
  <2>5. TurnIsKnown(n, ids \union Emitted(r))
    BY <1>7 DEF TurnIsKnown
  <2> QED
    BY <1>1, <2>1, <2>4, <2>5 DEF Decodes, Emits, r
<1>8. ASSUME Log[n].type \notin {"sidechain", "note", "end_turn"}, NEW q \in Decoders,
             q.pending = Events!NoEvent, q.session = s, q.emitted \subseteq ids \union Emitted(r)
      PROVE  DecoderFits(q, n, ids \union Emitted(r))
  <2>1. \A i \in 1..n : ~MayEnd(i, n)
    BY <1>8, MayEndMoves
  <2> QED
    BY <1>1, <1>8, <2>1 DEF DecoderFits
<1>9. CASE Log[n].type \in {"fragment", "tool_result"}
  <2>1. r = [decoder |-> Events!Freed(k), events |-> <<>>]
    BY <1>4, <1>9 DEF Events!DecodeClaude, Events!Silent
  <2>2. DecoderFits(Events!Freed(k), n, ids \union Emitted(r))
    BY <1>1, <1>6, <1>8, <1>9
  <2>3. TurnIsKnown(n, ids \union Emitted(r))
    BY <1>9 DEF TurnIsKnown
  <2> QED
    BY <1>6, <2>1, <2>2, <2>3 DEF Decodes, Emits, r
<1>10. ASSUME NEW q \in Decoders, q.pending = Events!NoEvent, q.session = s, q.emitted = d.emitted,
              NEW e \in Events!Event, r = Events!EmitOnce(q, e),
              Log[n].type \notin {"sidechain", "note", "end_turn"}
       PROVE  /\ Emits(d, r) /\ DecoderFits(r.decoder, n, ids \union Emitted(r))
              /\ Events!EventId(e) \in ids \union Emitted(r)
              /\ \A i \in DOMAIN r.events : r.events[i] = e
  <2>1. q.emitted \subseteq ids
    BY <1>1, <1>10
  <2> DEFINE p == Events!EmitOnce(q, e)
  <2>2. /\ Emits(q, p) /\ p.decoder.emitted \subseteq ids \union Emitted(p)
        /\ Events!EventId(e) \in ids \union Emitted(p)
        /\ p.decoder.session = q.session /\ p.decoder.pending = q.pending
        /\ \A i \in DOMAIN p.events : p.events[i] = e
    BY <2>1, TellsOnce
  <2> HIDE DEF p
  <2>3. /\ Emits(q, r) /\ r.decoder.emitted \subseteq ids \union Emitted(r)
        /\ Events!EventId(e) \in ids \union Emitted(r)
        /\ r.decoder.session = s /\ r.decoder.pending = Events!NoEvent
        /\ \A i \in DOMAIN r.events : r.events[i] = e
    <3>1. r = p
      BY <1>10 DEF p
    <3> QED
      BY <1>10, <2>2, <3>1
  <2>4. r.decoder \in Decoders
    BY <2>3 DEF Emits
  <2>5. Emits(d, r)
    BY <1>10, <2>3 DEF Emits
  <2> QED
    BY <1>8, <1>10, <2>3, <2>4, <2>5
<1>11. ASSUME held, Log[n].type \notin {"end_turn", "sidechain"}
       PROVE  /\ k.pending.turn \in Events!Ends(n) /\ k.pending.turn \in Nat
              /\ k.pending = Events!Completed(s, k.pending.turn)
  <2>1. PICK i \in 1..n : /\ k.pending = Events!Completed(s, i) /\ Log[i].session = s
                          /\ i < n /\ MayEnd(i, n - 1)
    BY <1>2, <1>11
  <2>2. i \in 1 .. n - 1 /\ i \in Nat
    BY <1>5, <2>1
  <2>3. k.pending.turn = i
    BY <1>1, <2>1, <2>2, EventsMade
  <2>4. Log[i].session = Log[n].session
    BY <1>5, <1>11, <2>1
  <2>5. i \in Events!Ends(n)
    BY <2>1, <2>2, <2>4, EndsAre
  <2> QED
    BY <2>1, <2>2, <2>3, <2>5
<1>12. CASE Log[n].type = "prompt"
  <2>1. CASE ~held
    <3>1. r = [decoder |-> k, events |-> <<>>]
      BY <1>4, <1>12, <2>1 DEF Events!DecodeClaude, Events!Silent
    <3>2. DecoderFits(k, n, ids \union Emitted(r))
      BY <1>1, <1>8, <1>12, <2>1
    <3>3. m = n - 1 => TurnIsKnown(n, ids \union Emitted(r))
      <4>1. ASSUME m = n - 1, NEW i \in Events!Ends(n)
            PROVE  <<Log[n].session, i, "terminal">> \in ids
        <5>1. i \in 1 .. n - 1 /\ MayEnd(i, n - 1) /\ Log[i].session = Log[n].session
          BY EndsAre
        <5>2. Open(i) \/ Said(i)
          BY <1>3, <4>1, <5>1
        <5>3. ~Open(i)
          BY <1>5, <1>12, <2>1, <5>1, EventsMade DEF Named
        <5> QED
          BY <5>1, <5>2, <5>3
      <4> QED
        BY <1>12, <4>1 DEF TurnIsKnown
    <3> QED
      BY <1>1, <3>1, <3>2, <3>3 DEF Decodes, Emits, r
  <2>2. CASE held
    <3>1. r = Events!EmitOnce(Events!Freed(k), k.pending)
      BY <1>4, <1>12, <2>2 DEF Events!DecodeClaude
    <3>2. /\ Emits(d, r) /\ DecoderFits(r.decoder, n, ids \union Emitted(r))
          /\ Events!EventId(k.pending) \in ids \union Emitted(r)
          /\ \A i \in DOMAIN r.events : r.events[i] = k.pending
      BY <1>1, <1>6, <1>10, <1>12, <3>1
    <3>3. /\ k.pending.turn \in Events!Ends(n)
          /\ Events!EventId(k.pending) = <<s, k.pending.turn, "terminal">>
      <4>1. /\ k.pending.turn \in Events!Ends(n) /\ k.pending.turn \in Nat
            /\ k.pending = Events!Completed(s, k.pending.turn)
        BY <1>11, <1>12, <2>2
      <4> QED
        BY <1>1, <4>1, EventsMade
    <3>4. m = n - 1 => TurnIsKnown(n, ids \union Emitted(r))
      <4>1. ASSUME m = n - 1, NEW i \in Events!Ends(n)
            PROVE  <<Log[n].session, i, "terminal">> \in ids \union Emitted(r)
        <5>1. i \in 1 .. n - 1 /\ MayEnd(i, n - 1) /\ Log[i].session = Log[n].session /\ i \in Nat
          BY EndsAre
        <5>2. Open(i) \/ Said(i)
          BY <1>3, <4>1, <5>1
        <5>3. Open(i) => Events!EventId(k.pending) = <<Log[n].session, i, "terminal">>
          BY <1>1, <1>5, <1>12, <5>1, EventsMade
        <5> QED
          BY <3>2, <5>1, <5>2, <5>3
      <4> QED
        BY <1>12, <4>1 DEF TurnIsKnown
    <3> QED
      BY <1>12, <3>2, <3>3, <3>4 DEF Decodes, r
  <2> QED
    BY <2>1, <2>2
<1>13. CASE Log[n].type = "interrupt"
  <2> DEFINE t == IF held THEN k.pending.turn ELSE Events!Parent(Log, n)
             e == Events!Aborted(s, t)
  <2>1. r = Events!EmitOnce(Events!Freed(k), e)
    BY <1>4, <1>13 DEF Events!DecodeClaude
  <2>2. t \in Events!Ends(n) \union {Events!Parent(Log, n)} /\ t \in Nat
    BY <1>5, <1>11, <1>13, ParentTyped
  <2> HIDE DEF t
  <2>3. /\ e \in Events!Event /\ e.outcome # "completed"
        /\ Events!EventId(e) = <<Log[n].session, t, "terminal">>
    BY <1>1, <1>5, <1>13, <2>2, EventsMade
  <2> HIDE DEF e
  <2>4. /\ Emits(d, r) /\ DecoderFits(r.decoder, n, ids \union Emitted(r))
        /\ Events!EventId(e) \in ids \union Emitted(r)
        /\ \A i \in DOMAIN r.events : r.events[i] = e
    BY <1>6, <1>10, <1>13, <2>1, <2>3
  <2>5. TurnIsKnown(n, ids \union Emitted(r))
    BY <1>13, <2>2, <2>3, <2>4 DEF TurnIsKnown
  <2> QED
    BY <2>3, <2>4, <2>5 DEF Decodes, r
<1>14. CASE Log[n].type = "question"
  <2> DEFINE e == Events!Asked(s, n)
  <2>1. r = Events!EmitOnce(Events!Freed(k), e)
    BY <1>4, <1>14 DEF Events!DecodeClaude
  <2>2. /\ e \in Events!Event /\ e.outcome # "completed"
        /\ Events!EventId(e) = <<Log[n].session, n, "needs_input">>
    BY <1>1, <1>5, <1>14, EventsMade
  <2> HIDE DEF e
  <2>3. /\ Emits(d, r) /\ DecoderFits(r.decoder, n, ids \union Emitted(r))
        /\ Events!EventId(e) \in ids \union Emitted(r)
        /\ \A i \in DOMAIN r.events : r.events[i] = e
    BY <1>6, <1>10, <1>14, <2>1, <2>2
  <2>4. TurnIsKnown(n, ids \union Emitted(r))
    BY <1>14, <2>2, <2>3 DEF TurnIsKnown
  <2> QED
    BY <2>2, <2>3, <2>4 DEF Decodes, r
<1>15. CASE Log[n].type = "end_turn"
  <2> DEFINE q == IF held /\ k.pending.turn = n THEN k
                  ELSE [k EXCEPT !.pending = Events!Completed(s, n)]
  <2>1. r = [decoder |-> q, events |-> <<>>]
    BY <1>4, <1>15 DEF Events!DecodeClaude, Events!Silent
  <2>2. /\ q \in Decoders /\ q.emitted = d.emitted /\ q.session = s
        /\ q.pending = Events!Completed(s, n)
    <3>1. CASE held /\ k.pending.turn = n
      <4>1. PICK i \in 1..n : k.pending = Events!Completed(s, i)
        BY <1>2, <3>1
      <4>2. i = n
        BY <1>1, <1>5, <3>1, <4>1, EventsMade
      <4> QED
        BY <1>1, <3>1, <4>1, <4>2
    <3>2. CASE ~(held /\ k.pending.turn = n)
      <4>1. Events!Completed(s, n) \in Events!Event
        BY <1>1, <1>5, EventsMade
      <4> QED
        BY <1>1, <3>2, <4>1 DEF Decoders
    <3> QED
      BY <3>1, <3>2
  <2> HIDE DEF q
  <2>3. MayEnd(n, n) /\ Log[n].session = s /\ \A i \in 1..n : MayEnd(i, n) => i = n
    BY <1>5, <1>15, MayEndMoves
  <2>4. DecoderFits(q, n, ids \union Emitted(r))
    BY <1>1, <1>5, <2>2, <2>3 DEF DecoderFits
  <2>5. TurnIsKnown(n, ids \union Emitted(r))
    BY <1>15 DEF TurnIsKnown
  <2> QED
    BY <1>1, <2>1, <2>2, <2>4, <2>5 DEF Decodes, Emits, r
<1> QED
  BY <1>5, <1>7, <1>9, <1>12, <1>13, <1>14, <1>15 DEF r

LEMMA RecordDecodes ==
  ASSUME Events!TranscriptEventsAssumption, EventsTyped,
         NEW n \in 1..Len(Log), NEW m \in {n - 1, n}, NEW d \in Decoders, NEW ids,
         DecoderFits(d, m, ids)
  PROVE  Decodes(d, m, n, Events!Decode(d, Log, n), ids)
  BY ClaudeDecodes, CodexDecodes, PiDecodes DEF EventsTyped, Events!Kinds

(* As long as the transcript is the same, what is said of it is.            *)
LEMMA SameTranscript ==
  ASSUME UNCHANGED transcript
  PROVE  /\ Log' = Log
         /\ \A d, n, ids : DecoderFits(d, n, ids)' <=> DecoderFits(d, n, ids)
         /\ \A n, ids : TurnIsKnown(n, ids)' <=> TurnIsKnown(n, ids)
         /\ \A n : Events!Ends(n)' = Events!Ends(n)
         /\ \A s, i, n : Events!OnlyAside(s, i, n)' <=> Events!OnlyAside(s, i, n)
<1> DEFINE Session(l, n) == LET named == {i \in 1 .. n : l[i].session # NoSession}
                            IN IF named = {} THEN NoSession ELSE l[Events!Max(named)].session
           Answered(l, n) == LET before == {i \in 1 .. n - 1 : l[i].type # "sidechain"}
                             IN IF before = {} THEN n ELSE Events!Max(before)
<1>1. transcript' = transcript /\ Log' = Log
  BY DEF Log
<1>2. \A n : Events!SessionAt(n)' = Events!SessionAt(n)
  <2>1. /\ \A n : Events!SessionAt(n)' = Session(transcript'.records, n)
        /\ \A n : Events!SessionAt(n) = Session(transcript.records, n)
    BY DEF Events!SessionAt
  <2> HIDE DEF Session
  <2> QED
    BY <1>1, <2>1
<1>3. \A n : Events!Parent(Log, n)' = Events!Parent(Log, n)
  <2>1. /\ \A n : Events!Parent(Log, n)' = Answered(Log', n)
        /\ \A n : Events!Parent(Log, n) = Answered(Log, n)
    BY DEF Events!Parent
  <2> HIDE DEF Answered
  <2> QED
    BY <1>1, <2>1
<1>4. \A i, n : MayEnd(i, n)' <=> MayEnd(i, n)
  BY <1>1 DEF MayEnd, Events!OnlyAside, Log
<1>5. \A n : Events!Ends(n)' = Events!Ends(n)
  <2>1. \A i, n : (i \in Events!Ends(n))' <=> i \in Events!Ends(n)
    BY <1>1 DEF Events!Ends, Events!OnlyAside
  <2> QED
    BY <2>1
<1>6. \A d, n, ids : DecoderFits(d, n, ids)' <=> DecoderFits(d, n, ids)
  BY <1>1, <1>2, <1>4 DEF DecoderFits
<1>7. \A n, ids : TurnIsKnown(n, ids)' <=> TurnIsKnown(n, ids)
  BY <1>1, <1>2, <1>3, <1>5 DEF TurnIsKnown
<1>8. \A s, i, n : Events!OnlyAside(s, i, n)' <=> Events!OnlyAside(s, i, n)
  BY <1>1 DEF Events!OnlyAside
<1> QED
  BY <1>1, <1>5, <1>6, <1>7, <1>8

(* The caller is given what the decoder emits.                              *)
LEMMA EventsAreGiven ==
  ASSUME EventsTyped, NEW r, Emits(decoder, r), NEW at \in 0..Len(Log), Events!Give(r, at)
  PROVE  /\ decoder' = r.decoder /\ told' \in Seq(Tellings) /\ ToldIds' = ToldIds \union Emitted(r)
         /\ \A i \in DOMAIN told : i \in DOMAIN told' /\ told'[i] = told[i]
         /\ \A i \in DOMAIN told' : \/ i \in DOMAIN told
                                    \/ /\ told'[i].at = at /\ told'[i].life = caller.life
                                       /\ i = Len(told) + 1
                                       /\ \E n \in DOMAIN r.events :
                                            told'[i].event = r.events[n]
                                       /\ Events!EventId(told'[i].event) \notin decoder.emitted
                                       /\ Events!EventId(told'[i].event) \in r.decoder.emitted
<1> DEFINE more == [i \in DOMAIN r.events |-> [event |-> r.events[i], at |-> at, life |-> caller.life]]
<1>1. decoder' = r.decoder /\ told' = told \o more /\ told \in Seq(Tellings)
  BY DEF Events!Give, EventsTyped
<1>2. Len(told) \in Nat /\ DOMAIN told = 1..Len(told) /\ at \in Nat /\ caller.life \in Nat
  BY <1>1 DEF EventsTyped
<1>3. CASE r.events = <<>> /\ r.decoder.emitted = decoder.emitted
  <2>1. more = <<>> /\ Emitted(r) = {}
    BY <1>3 DEF Emitted
  <2> HIDE DEF more
  <2>2. told' = told
    BY <1>1, <2>1
  <2> QED
    BY <1>1, <2>1, <2>2 DEF ToldIds
<1>4. ASSUME NEW e \in Events!Event, r.events = <<e>>, Events!EventId(e) \notin decoder.emitted,
             r.decoder.emitted = decoder.emitted \union {Events!EventId(e)}
      PROVE  /\ told' \in Seq(Tellings) /\ ToldIds' = ToldIds \union Emitted(r)
             /\ \A i \in DOMAIN told : i \in DOMAIN told' /\ told'[i] = told[i]
             /\ \A i \in DOMAIN told' :
                  \/ i \in DOMAIN told
                  \/ /\ told'[i].at = at /\ told'[i].life = caller.life /\ i = Len(told) + 1
                     /\ \E n \in DOMAIN r.events : told'[i].event = r.events[n]
                     /\ Events!EventId(told'[i].event) \notin decoder.emitted
                     /\ Events!EventId(told'[i].event) \in r.decoder.emitted
  <2> DEFINE x == [event |-> e, at |-> at, life |-> caller.life]
  <2>1. /\ r.events[1] = e /\ DOMAIN r.events = {1} /\ Emitted(r) = {Events!EventId(e)}
        /\ x \in Tellings /\ x.event = e
    BY <1>2, <1>4 DEF Emitted, Tellings
  <2>2. more = <<x>>
    BY <1>4, <2>1
  <2> HIDE DEF more, x
  <2>3. /\ told' \in Seq(Tellings) /\ DOMAIN told' = 1 .. Len(told) + 1
        /\ \A i \in 1..Len(told) : told'[i] = told[i]
        /\ told'[Len(told) + 1] = x
    BY <1>1, <1>2, <2>1, <2>2
  <2>4. \A i : i \in DOMAIN told' <=> i \in DOMAIN told \/ i = Len(told) + 1
    BY <1>2, <2>3
  <2>5. ToldIds' = ToldIds \union Emitted(r)
    <3>1. ToldIds' = {Events!EventId(told'[i].event) : i \in DOMAIN told'}
      BY DEF ToldIds
    <3> QED
      BY <1>2, <2>1, <2>3, <2>4, <3>1 DEF ToldIds
  <2> QED
    BY <1>2, <1>4, <2>1, <2>3, <2>4, <2>5 DEF x
<1> QED
  BY <1>1, <1>3, <1>4 DEF Emits

(* A decoding step keeps what is claimed, if it decodes as it should.       *)
LEMMA TellingKeeps ==
  ASSUME Events!TranscriptEventsAssumption, EventsInv,
         NEW r, Emits(decoder, r), NEW at \in 0..Len(Log), Events!Give(r, at),
         UNCHANGED <<transcript, saved>>, caller' \in [at : {at}, quiet : {caller.quiet}, life : {caller.life}],
         caller.at <= at,
         DecoderFits(r.decoder, at, ToldIds \union Emitted(r)),
         \A n \in 1..at : n > caller.at => TurnIsKnown(n, ToldIds \union Emitted(r)),
         transcript.agent = "claude" =>
           \A i \in DOMAIN r.events :
             /\ IsOver([event |-> r.events[i], at |-> at, life |-> caller.life])
             /\ r.events[i].outcome = "completed" => r.events[i].turn \in 1..at
  PROVE  EventsInv'
<1>1. /\ caller' = [at |-> at, quiet |-> caller.quiet, life |-> caller.life]
      /\ transcript' = transcript /\ saved' = saved /\ Log' = Log /\ at \in Nat
      /\ EventsTyped /\ ToldFits
      /\ decoder' = r.decoder /\ r.decoder \in Decoders /\ decoder.emitted \subseteq r.decoder.emitted
  <2>1. decoder.emitted \subseteq r.decoder.emitted
    BY DEF Emits
  <2> QED
    BY <2>1 DEF EventsInv, Log, Events!Give, Emits, EventsTyped
<1>2. /\ told' \in Seq(Tellings) /\ ToldIds' = ToldIds \union Emitted(r)
      /\ \A i \in DOMAIN told : i \in DOMAIN told' /\ told'[i] = told[i]
  BY <1>1, EventsAreGiven
<1>3. ASSUME NEW i \in DOMAIN told', i \notin DOMAIN told
      PROVE  /\ told'[i].at = at /\ told'[i].life = caller.life /\ i = Len(told) + 1
             /\ \E n \in DOMAIN r.events : told'[i].event = r.events[n]
             /\ Events!EventId(told'[i].event) \notin decoder.emitted
             /\ Events!EventId(told'[i].event) \in r.decoder.emitted
  BY <1>1, <1>3, EventsAreGiven
<1>4. EventsTyped'
  <2>1. caller.at \in Nat /\ saved \in [decoder : Decoders, at : 0..at]
    BY <1>1 DEF EventsTyped
  <2> QED
    BY <1>1, <1>2, <2>1 DEF EventsTyped, Log
<1>5. ToldFits'
  <2>1. ASSUME NEW i \in DOMAIN told'
        PROVE  /\ told'[i].at <= Len(Log) /\ told'[i].life <= caller.life
               /\ told'[i].life = caller.life => Events!EventId(told'[i].event) \in r.decoder.emitted
               /\ transcript.agent = "claude" /\ told'[i].event.outcome = "completed" =>
                    told'[i].event.turn \in 1..told'[i].at
    <3>1. CASE i \in DOMAIN told
      BY <1>1, <1>2, <3>1 DEF ToldFits
    <3>2. CASE i \notin DOMAIN told
      <4>1. PICK n \in DOMAIN r.events : told'[i].event = r.events[n]
        BY <1>3, <3>2
      <4>2. caller.life \in Nat /\ at <= Len(Log)
        BY <1>1 DEF EventsTyped
      <4>3. transcript.agent = "claude" /\ r.events[n].outcome = "completed" =>
              r.events[n].turn \in 1..at
        OBVIOUS
      <4>4. /\ told'[i].at = at /\ told'[i].life = caller.life
            /\ Events!EventId(told'[i].event) \in r.decoder.emitted
        BY <1>3, <3>2
      <4> QED
        BY <4>1, <4>2, <4>3, <4>4
    <3> QED
      BY <3>1, <3>2
  <2> QED
    BY <1>1, <2>1 DEF ToldFits, Events!EventId
<1>6. DecoderFits(decoder, caller.at, ToldIds)'
  BY <1>1, <1>2, SameTranscript
<1>7. DecoderFits(saved.decoder, saved.at, ToldIds)'
  <2>1. DecoderFits(saved.decoder, saved.at, ToldIds)
    BY DEF EventsInv
  <2>2. DecoderFits(saved.decoder, saved.at, ToldIds')
    BY <1>2, <2>1 DEF DecoderFits
  <2> QED
    BY <1>1, <2>2, SameTranscript
<1>8. Events!NothingIsToldTwice'
  <2>1. Events!NothingIsToldTwice
    BY DEF EventsInv, Events!EventsAreSound
  <2>2. ASSUME NEW i \in DOMAIN told', NEW j \in DOMAIN told', i # j, told'[i].life = told'[j].life,
               i \in DOMAIN told
        PROVE  Events!EventId(told'[i].event) # Events!EventId(told'[j].event)
    <3>1. CASE j \in DOMAIN told
      BY <1>2, <2>1, <2>2, <3>1 DEF Events!NothingIsToldTwice
    <3>2. CASE j \notin DOMAIN told
      <4>1. Events!EventId(told[i].event) \in decoder.emitted
        BY <1>1, <1>2, <1>3, <2>2, <3>2 DEF ToldFits
      <4> QED
        BY <1>2, <1>3, <2>2, <3>2, <4>1
    <3> QED
      BY <3>1, <3>2
  <2>3. \A i, j \in DOMAIN told' : i \in DOMAIN told \/ j \in DOMAIN told \/ i = j
    BY <1>3
  <2>4. \A i, j \in DOMAIN told' : i # j /\ told'[i].life = told'[j].life =>
          Events!EventId(told'[i].event) # Events!EventId(told'[j].event)
    BY <2>2, <2>3
  <2> QED
    BY <2>4 DEF Events!NothingIsToldTwice, Events!EventId
<1>9. Events!CompletedTurnsAreOver'
  <2>1. ASSUME transcript.agent = "claude", NEW i \in DOMAIN told' PROVE IsOver(told'[i])
    <3>1. CASE i \in DOMAIN told
      <4>1. IsOver(told[i])
        BY <2>1, <3>1, SoundParts DEF EventsInv, Events!EventsAreSound
      <4> QED
        BY <1>2, <3>1, <4>1
    <3>2. CASE i \notin DOMAIN told
      <4>1. PICK n \in DOMAIN r.events : told'[i].event = r.events[n]
        BY <1>3, <3>2
      <4>2. IsOver([event |-> r.events[n], at |-> at, life |-> caller.life])
        BY <2>1
      <4>3. told'[i] = [event |-> r.events[n], at |-> at, life |-> caller.life]
        <5>1. told'[i] \in Tellings
          BY <1>2
        <5> QED
          BY <1>3, <3>2, <4>1, <5>1 DEF Tellings
      <4> QED
        BY <4>2, <4>3
    <3> QED
      BY <3>1, <3>2
  <2>2. (transcript.agent = "claude" => \A i \in DOMAIN told : IsOver(told[i]))'
    BY <1>1, <2>1 DEF IsOver, Log, Events!Ends, Events!OnlyAside
  <2> QED
    BY <2>2, SoundPartsNext
<1>10. Events!NoTurnIsMissed'
  <2>1. ASSUME NEW n \in 1..at PROVE TurnIsKnown(n, ToldIds')
    <3>1. CASE n > caller.at
      BY <1>2, <2>1, <3>1
    <3>2. CASE n <= caller.at
      <4>1. n \in 1..caller.at
        BY <1>1, <2>1, <3>2 DEF EventsTyped
      <4>2. TurnIsKnown(n, ToldIds)
        BY <4>1, SoundParts DEF EventsInv, Events!EventsAreSound
      <4> QED
        BY <1>2, <4>2 DEF TurnIsKnown
    <3> QED
      BY <1>1, <3>1, <3>2 DEF EventsTyped
  <2>2. (\A n \in 1..caller.at : TurnIsKnown(n, ToldIds))'
    BY <1>1, <2>1, SameTranscript
  <2> QED
    BY <2>2, SoundPartsNext
<1> QED
  BY <1>4, <1>5, <1>6, <1>7, <1>8, <1>9, <1>10 DEF EventsInv, Events!EventsAreSound

LEMMA PushKeeps ==
  ASSUME Events!TranscriptEventsAssumption, EventsInv, Events!Push \/ Events!PushAgain
  PROVE  EventsInv'
<1>1. /\ EventsTyped /\ DecoderFits(decoder, caller.at, ToldIds)
      /\ Len(Log) \in Nat /\ caller.at \in 0..Len(Log) /\ decoder \in Decoders
      /\ caller = [at |-> caller.at, quiet |-> caller.quiet, life |-> caller.life]
  BY DEF EventsInv, EventsTyped
<1>2. PICK at \in 1..Len(Log) :
        /\ caller.at \in {at - 1, at} /\ Events!Give(Events!Decode(decoder, Log, at), at)
        /\ UNCHANGED <<transcript, saved>>
        /\ caller' \in [at : {at}, quiet : {caller.quiet}, life : {caller.life}]
  <2>1. CASE Events!Push
    <3>1. caller.at + 1 \in 1..Len(Log) /\ caller.at = (caller.at + 1) - 1
      BY <1>1, <2>1 DEF Events!Push, Log
    <3> QED
      BY <1>1, <2>1, <3>1 DEF Events!Push, Log
  <2>2. CASE Events!PushAgain
    <3>1. caller.at \in 1..Len(Log)
      BY <1>1, <2>2 DEF Events!PushAgain, Log
    <3> QED
      BY <1>1, <2>2, <3>1 DEF Events!PushAgain, Log
  <2> QED
    BY <2>1, <2>2
<1> DEFINE r == Events!Decode(decoder, Log, at)
<1>3. Decodes(decoder, caller.at, at, r, ToldIds)
  BY <1>1, <1>2, RecordDecodes
<1> HIDE DEF r
<1>4. transcript.agent = "claude" =>
        \A i \in DOMAIN r.events :
          /\ IsOver([event |-> r.events[i], at |-> at, life |-> caller.life])
          /\ r.events[i].outcome = "completed" => r.events[i].turn \in 1..at
  <2>1. ASSUME transcript.agent = "claude", NEW i \in DOMAIN r.events,
               r.events[i].outcome = "completed"
        PROVE  /\ Log[at].type = "prompt" /\ r.events[i].turn \in Events!Ends(at)
               /\ r.events[i].turn \in 1..at
    <3>1. Log[at].type = "prompt" /\ r.events[i].turn \in Events!Ends(at)
      BY <1>3, <2>1 DEF Decodes
    <3>2. r.events[i].turn \in 1 .. at - 1
      BY <1>1, <3>1, EndsAre
    <3> QED
      BY <3>1, <3>2
  <2> QED
    BY <2>1 DEF IsOver
<1>5. \A n \in 1..at : n > caller.at => TurnIsKnown(n, ToldIds \union Emitted(r))
  <2>1. ASSUME NEW n \in 1..at, n > caller.at PROVE n = at /\ caller.at = at - 1
    BY <1>1, <1>2, <2>1
  <2> QED
    BY <1>3, <2>1 DEF Decodes
<1>6. caller.at <= at /\ at \in 0..Len(Log)
  BY <1>1, <1>2
<1>7. Emits(decoder, r) /\ DecoderFits(r.decoder, at, ToldIds \union Emitted(r))
  BY <1>3 DEF Decodes
<1>8. Events!Give(r, at)
  BY <1>2 DEF r
<1> QED
  BY <1>2, <1>4, <1>5, <1>6, <1>7, <1>8, TellingKeeps

LEMMA SettleKeeps ==
  ASSUME Events!TranscriptEventsAssumption, EventsInv, Events!Settle
  PROVE  EventsInv'
<1>1. /\ EventsTyped /\ DecoderFits(decoder, caller.at, ToldIds)
      /\ Len(Log) \in Nat /\ caller.at \in 0..Len(Log) /\ decoder \in Decoders
      /\ decoder.pending \in Events!Event /\ decoder.session \in Named
      /\ decoder.emitted \subseteq ToldIds
      /\ caller = [at |-> caller.at, quiet |-> caller.quiet, life |-> caller.life]
      /\ NoSession \notin Sessions
  BY DEF EventsInv, EventsTyped, Decoders, DecoderFits, Events!TranscriptEventsAssumption
<1>2. PICK turn \in caller.quiet : Events!Give(Events!Settled(decoder, turn), caller.at)
  BY DEF Events!Settle
<1> DEFINE r == Events!Settled(decoder, turn)
<1>3. /\ UNCHANGED <<transcript, saved>>
      /\ caller' \in [at : {caller.at}, quiet : {caller.quiet}, life : {caller.life}]
      /\ caller.at <= caller.at /\ \A n \in 1..caller.at : ~(n > caller.at)
  BY <1>1 DEF Events!Settle
<1>4. CASE ~(decoder.pending # Events!NoEvent /\ turn = decoder.pending.turn)
  <2>1. r = [decoder |-> decoder, events |-> <<>>]
    BY <1>4 DEF Events!Settled, Events!Silent
  <2>2. Events!Give(r, caller.at)
    BY <1>2
  <2> HIDE DEF r
  <2>3. Emitted(r) = {} /\ Emits(decoder, r) /\ DOMAIN r.events = {}
    BY <1>1, <2>1 DEF Emitted, Emits
  <2>4. DecoderFits(r.decoder, caller.at, ToldIds \union Emitted(r))
    BY <1>1, <2>1, <2>3
  <2>5. \A i \in DOMAIN r.events :
          /\ IsOver([event |-> r.events[i], at |-> caller.at, life |-> caller.life])
          /\ r.events[i].outcome = "completed" => r.events[i].turn \in 1..caller.at
    BY <2>3
  <2> QED
    BY <1>1, <1>3, <2>2, <2>3, <2>4, <2>5, TellingKeeps
<1>5. CASE decoder.pending # Events!NoEvent /\ turn = decoder.pending.turn
  <2> DEFINE q == Events!Freed(decoder)
             s == decoder.session
  <2>1. r = Events!EmitOnce(q, decoder.pending)
    BY <1>5 DEF Events!Settled
  <2>2. /\ q \in Decoders /\ q.emitted = decoder.emitted /\ q.session = s
        /\ q.pending = Events!NoEvent
    BY <1>1, EventsMade DEF Events!Freed, Decoders
  <2>3. PICK n \in 1..caller.at : /\ decoder.pending = Events!Completed(s, n)
                                  /\ MayEnd(n, caller.at) /\ Log[n].session = s
    BY <1>1, <1>5 DEF DecoderFits
  <2>4. /\ decoder.pending.turn = n /\ decoder.pending.session = s /\ n \in Nat
        /\ Events!EventId(decoder.pending) = <<s, n, "terminal">>
    <3>1. n \in Nat
      BY <1>1
    <3> QED
      BY <1>1, <2>3, <3>1, EventsMade
  <2>5. Events!Give(r, caller.at)
    BY <1>2
  <2> HIDE DEF q, r
  <2>6. /\ Emits(q, r) /\ r.decoder.emitted \subseteq ToldIds \union Emitted(r)
        /\ <<s, n, "terminal">> \in ToldIds \union Emitted(r)
        /\ r.decoder.session = s /\ r.decoder.pending = Events!NoEvent
        /\ \A i \in DOMAIN r.events : r.events[i] = decoder.pending
    <3>1. q.emitted \subseteq ToldIds
      BY <1>1, <2>2
    <3> QED
      <4> DEFINE p == Events!EmitOnce(q, decoder.pending)
      <4>1. /\ Emits(q, p) /\ p.decoder.emitted \subseteq ToldIds \union Emitted(p)
            /\ Events!EventId(decoder.pending) \in ToldIds \union Emitted(p)
            /\ p.decoder.session = q.session /\ p.decoder.pending = q.pending
            /\ \A i \in DOMAIN p.events : p.events[i] = decoder.pending
        BY <1>1, <2>2, <3>1, TellsOnce
      <4> HIDE DEF p
      <4>2. r = p
        BY <2>1 DEF p
      <4> QED
        BY <2>2, <2>4, <4>1, <4>2
  <2>7. Emits(decoder, r)
    BY <2>2, <2>6 DEF Emits
  <2>8. DecoderFits(r.decoder, caller.at, ToldIds \union Emitted(r))
    <3>1. ASSUME NEW i \in 1..caller.at, MayEnd(i, caller.at), transcript.agent = "claude"
          PROVE  <<Log[i].session, i, "terminal">> \in ToldIds \union Emitted(r)
      <4>1. CASE decoder.pending = Events!Completed(Log[i].session, i)
        <5>1. Log[i].session = s /\ i = n
          BY <2>3, <4>1 DEF Events!Completed
        <5> QED
          BY <2>6, <5>1
      <4>2. CASE decoder.pending # Events!Completed(Log[i].session, i)
        BY <1>1, <3>1, <4>2 DEF DecoderFits
      <4> QED
        BY <4>1, <4>2
    <3> QED
      BY <1>1, <2>6, <3>1 DEF DecoderFits
  <2>9. ASSUME NEW i \in DOMAIN r.events
        PROVE  /\ IsOver([event |-> r.events[i], at |-> caller.at, life |-> caller.life])
               /\ r.events[i].turn \in 1..caller.at
    BY <1>5, <2>3, <2>4, <2>6 DEF IsOver, MayEnd
  <2> QED
    BY <1>1, <1>3, <2>5, <2>7, <2>8, <2>9, TellingKeeps
<1> QED
  BY <1>4, <1>5

(* The caller goes on, saves or begins again: what was told stays true.     *)
LEMMA CallerKeeps ==
  ASSUME EventsInv, UNCHANGED <<transcript, told>>,
         decoder' \in Decoders, saved' \in [decoder : Decoders, at : 0..caller'.at],
         caller' \in [at : 0..Len(Log), quiet : SUBSET (1..Len(Log)), life : 0..MaxRestarts],
         DecoderFits(decoder', caller'.at, ToldIds), DecoderFits(saved'.decoder, saved'.at, ToldIds),
         caller'.at <= caller.at,
         \/ caller'.life > caller.life
         \/ caller'.life = caller.life /\ caller.quiet \subseteq caller'.quiet /\ decoder' = decoder
  PROVE  EventsInv'
<1>1. /\ Log' = Log /\ ToldIds' = ToldIds /\ EventsTyped /\ ToldFits
      /\ transcript' = transcript /\ told' = told
      /\ caller.life \in Nat /\ caller'.life \in Nat /\ caller'.at \in Nat /\ caller.at \in Nat
      /\ \A i \in DOMAIN told : told[i] \in Tellings
  BY DEF Log, ToldIds, EventsInv, EventsTyped
<1>2. EventsTyped'
  BY <1>1 DEF EventsTyped, Log
<1>3. ToldFits'
  <2>1. ASSUME NEW i \in DOMAIN told
        PROVE  /\ told[i].at <= Len(Log) /\ told[i].life <= caller'.life
               /\ told[i].life = caller'.life => Events!EventId(told[i].event) \in decoder'.emitted
               /\ transcript.agent = "claude" /\ told[i].event.outcome = "completed" =>
                    told[i].event.turn \in 1..told[i].at
    <3>1. told[i].life \in Nat /\ told[i].life <= caller.life
      BY <1>1 DEF Tellings, ToldFits
    <3>2. CASE caller'.life > caller.life
      BY <1>1, <3>1, <3>2 DEF ToldFits
    <3>3. CASE caller'.life = caller.life /\ decoder' = decoder
      BY <1>1, <3>1, <3>3 DEF ToldFits
    <3> QED
      BY <3>2, <3>3
  <2> QED
    BY <1>1, <2>1 DEF ToldFits, Events!EventId
<1>4. DecoderFits(decoder, caller.at, ToldIds)' /\ DecoderFits(saved.decoder, saved.at, ToldIds)'
  BY <1>1, SameTranscript
<1>5. Events!NothingIsToldTwice'
  BY <1>1 DEF EventsInv, Events!EventsAreSound, Events!NothingIsToldTwice, Events!EventId
<1>6. Events!CompletedTurnsAreOver'
  <2>1. ASSUME NEW i \in DOMAIN told, transcript.agent = "claude"
        PROVE  /\ told[i].life = caller'.life =>
                    told[i].life = caller.life /\ caller.quiet \subseteq caller'.quiet
               /\ IsOver(told[i])
    <3>1. told[i].life \in Nat /\ told[i].life <= caller.life
      BY <1>1 DEF Tellings, ToldFits
    <3>2. IsOver(told[i])
      BY <2>1, SoundParts DEF EventsInv, Events!EventsAreSound
    <3> QED
      BY <1>1, <3>1, <3>2
  <2>2. ASSUME NEW x, IsOver(x),
               x.life = caller'.life => x.life = caller.life /\ caller.quiet \subseteq caller'.quiet
        PROVE  IsOver(x)'
    BY <1>1, <2>2, SameTranscript DEF IsOver
  <2>3. (transcript.agent = "claude" => \A i \in DOMAIN told : IsOver(told[i]))'
    BY <1>1, <2>1, <2>2
  <2> QED
    BY <2>3, SoundPartsNext
<1>7. Events!NoTurnIsMissed'
  <2>1. ASSUME NEW n \in 1..caller'.at PROVE TurnIsKnown(n, ToldIds)
    <3>1. n \in 1..caller.at
      BY <1>1
    <3> QED
      BY <3>1, SoundParts DEF EventsInv, Events!EventsAreSound
  <2>2. (\A n \in 1..caller.at : TurnIsKnown(n, ToldIds))'
    BY <1>1, <2>1, SameTranscript
  <2> QED
    BY <2>2, SoundPartsNext
<1> QED
  BY <1>2, <1>3, <1>4, <1>5, <1>6, <1>7 DEF EventsInv, Events!EventsAreSound

LEMMA CallerSteps ==
  ASSUME Events!TranscriptEventsAssumption, EventsInv,
         Events!SeeQuiet \/ Events!Save \/ Events!Restart
  PROVE  EventsInv'
<1>1. /\ EventsTyped /\ DecoderFits(decoder, caller.at, ToldIds)
      /\ DecoderFits(saved.decoder, saved.at, ToldIds)
      /\ Len(Log) \in Nat /\ caller.at \in 0..Len(Log) /\ decoder \in Decoders
      /\ decoder.session \in Named /\ caller.quiet \subseteq 1..Len(Log)
      /\ saved \in [decoder : Decoders, at : 0..caller.at]
      /\ caller.life \in 0..MaxRestarts
      /\ caller = [at |-> caller.at, quiet |-> caller.quiet, life |-> caller.life]
  BY DEF EventsInv, EventsTyped, Decoders
<1>2. CASE Events!SeeQuiet
  <2>1. /\ UNCHANGED <<transcript, decoder, saved, told>> /\ decoder.pending # Events!NoEvent
        /\ caller' = [at |-> caller.at, quiet |-> caller.quiet \union {decoder.pending.turn},
                      life |-> caller.life]
    BY <1>1, <1>2 DEF Events!SeeQuiet
  <2>2. decoder.pending.turn \in 1..Len(Log)
    <3>1. PICK n \in 1..caller.at : decoder.pending = Events!Completed(decoder.session, n)
      BY <1>1, <2>1 DEF DecoderFits
    <3> QED
      BY <1>1, <3>1 DEF Events!Completed
  <2> QED
    BY <1>1, <2>1, <2>2, CallerKeeps
<1>3. CASE Events!Save
  <2>1. /\ UNCHANGED <<transcript, decoder, caller, told>>
        /\ saved' = [decoder |-> decoder, at |-> caller.at]
    BY <1>3 DEF Events!Save
  <2> QED
    BY <1>1, <2>1, CallerKeeps
<1>4. CASE Events!Restart
  <2>1. /\ UNCHANGED <<transcript, saved, told>> /\ caller.life < MaxRestarts
        /\ decoder' = saved.decoder
        /\ caller' = [at |-> saved.at, quiet |-> {}, life |-> caller.life + 1]
    BY <1>4 DEF Events!Restart
  <2>2. /\ saved = [decoder |-> saved.decoder, at |-> saved.at] /\ saved.decoder \in Decoders
        /\ saved.at \in 0..Len(Log) /\ saved.at <= caller.at /\ saved.at \in 0..saved.at
    BY <1>1
  <2>3. /\ caller'.at = saved.at /\ caller'.life > caller.life /\ caller'.at <= caller.at
        /\ caller' \in [at : 0..Len(Log), quiet : SUBSET (1..Len(Log)), life : 0..MaxRestarts]
    BY <1>1, <2>1, <2>2 DEF Events!TranscriptEventsAssumption
  <2>4. saved' \in [decoder : Decoders, at : 0..caller'.at] /\ decoder' \in Decoders
    BY <2>1, <2>2
  <2> QED
    BY <1>1, <2>1, <2>3, <2>4, CallerKeeps
<1> QED
  BY <1>2, <1>3, <1>4

(* A record more.                                                           *)
LEMMA LogGrows ==
  ASSUME EventsTyped, NEW record \in Events!Turning(transcript.agent),
         transcript' = [transcript EXCEPT !.records = Append(@, record)]
  PROVE  /\ transcript'.agent = transcript.agent
         /\ transcript' = [agent |-> transcript'.agent, records |-> transcript'.records]
         /\ Log' \in Seq(Events!Turning(transcript.agent)) /\ Len(Log') = Len(Log) + 1
         /\ \A i \in 1..Len(Log) : Log'[i] = Log[i]
         /\ \A n \in 0..Len(Log) : Events!SessionAt(n)' = Events!SessionAt(n)
         /\ \A n \in 1..Len(Log) : Events!Parent(Log, n)' = Events!Parent(Log, n)
         /\ \A n \in 0..Len(Log) : \A i \in 1..n : MayEnd(i, n)' <=> MayEnd(i, n)
         /\ \A n \in 1..Len(Log) : Events!Ends(n)' = Events!Ends(n)
<1> DEFINE SessionIn(l, S) == IF S = {} THEN NoSession ELSE l[Events!Max(S)].session
           Of(l, n) == {i \in 1 .. n : l[i].session # NoSession}
           Lead(n, S) == IF S = {} THEN n ELSE Events!Max(S)
           Before(l, n) == {i \in 1 .. n - 1 : l[i].type # "sidechain"}
<1>1. /\ transcript = [agent |-> transcript.agent, records |-> transcript.records]
      /\ Log \in Seq(Events!Turning(transcript.agent)) /\ Len(Log) \in Nat
  BY DEF EventsTyped
<1>2. /\ transcript'.agent = transcript.agent
      /\ transcript' = [agent |-> transcript'.agent, records |-> transcript'.records]
      /\ Log' = Append(Log, record)
  BY <1>1 DEF Log
<1>3. /\ Log' \in Seq(Events!Turning(transcript.agent)) /\ Len(Log') = Len(Log) + 1
      /\ \A i \in 1..Len(Log) : Log'[i] = Log[i]
  BY <1>1, <1>2
<1>4. ASSUME NEW n \in 0..Len(Log) PROVE Events!SessionAt(n)' = Events!SessionAt(n)
  <2>1. /\ Events!SessionAt(n)' = SessionIn(Log', Of(Log', n))
        /\ Events!SessionAt(n) = SessionIn(Log, Of(Log, n))
    BY DEF Events!SessionAt, Log
  <2>2. Of(Log', n) = Of(Log, n)
    <3>1. \A i \in 1..n : Log'[i] = Log[i]
      BY <1>1, <1>3
    <3> QED
      BY <3>1
  <2>3. Of(Log, n) # {} => Events!Max(Of(Log, n)) \in 1..Len(Log)
    <3>1. Of(Log, n) \subseteq 0..n /\ n \in Nat /\ Of(Log, n) \subseteq 1..Len(Log)
      BY <1>1
    <3> HIDE DEF Of
    <3> QED
      BY <3>1, MaxIs
  <2> HIDE DEF Of
  <2>4. SessionIn(Log', Of(Log', n)) = SessionIn(Log, Of(Log, n))
    BY <1>3, <2>2, <2>3
  <2> QED
    BY <2>1, <2>4
<1>5. ASSUME NEW n \in 1..Len(Log) PROVE Events!Parent(Log, n)' = Events!Parent(Log, n)
  <2>1. /\ Events!Parent(Log, n)' = Lead(n, Before(Log', n))
        /\ Events!Parent(Log, n) = Lead(n, Before(Log, n))
    BY DEF Events!Parent
  <2>2. Before(Log', n) = Before(Log, n)
    <3>1. \A i \in 1 .. n - 1 : Log'[i] = Log[i]
      BY <1>1, <1>3
    <3> QED
      BY <3>1
  <2> HIDE DEF Lead, Before
  <2> QED
    BY <2>1, <2>2
<1>6. ASSUME NEW n \in 0..Len(Log), NEW i \in 1..n PROVE MayEnd(i, n)' <=> MayEnd(i, n)
  <2>1. i \in 1..Len(Log) /\ \A k \in i + 1 .. (n + 1) - 1 : k \in 1..Len(Log)
    BY <1>1
  <2> QED
    BY <1>3, <2>1 DEF MayEnd, Events!OnlyAside, Log
<1>7. ASSUME NEW n \in 1..Len(Log) PROVE Events!Ends(n)' = Events!Ends(n)
  <2>1. \A i \in 1 .. n - 1 : /\ i \in 1..Len(Log)
                              /\ \A k \in i + 1 .. n - 1 : k \in 1..Len(Log)
    BY <1>1
  <2>2. \A i : (i \in Events!Ends(n))' <=> i \in Events!Ends(n)
    BY <1>3, <2>1 DEF Events!Ends, Events!OnlyAside, Log
  <2> QED
    BY <2>2
<1> QED
  BY <1>2, <1>3, <1>4, <1>5, <1>6, <1>7

LEMMA WriteKeeps ==
  ASSUME Events!TranscriptEventsAssumption, EventsInv, Events!Write
  PROVE  EventsInv'
<1>1. PICK record \in Events!Turning(transcript.agent) :
        transcript' = [transcript EXCEPT !.records = Append(@, record)]
  BY DEF Events!Write
<1>2. /\ UNCHANGED <<decoder, caller, saved, told>> /\ ToldIds' = ToldIds
      /\ EventsTyped /\ ToldFits /\ Len(Log) \in Nat
      /\ decoder \in Decoders /\ caller.at \in 0..Len(Log)
      /\ saved.at \in 0..Len(Log)
      /\ caller \in [at : 0..Len(Log), quiet : SUBSET (1..Len(Log)), life : 0..MaxRestarts]
      /\ \A i \in DOMAIN told : told[i] \in Tellings
      /\ DecoderFits(decoder, caller.at, ToldIds) /\ DecoderFits(saved.decoder, saved.at, ToldIds)
  BY DEF Events!Write, EventsInv, EventsTyped, ToldIds
<1>3. /\ transcript'.agent = transcript.agent
      /\ transcript' = [agent |-> transcript'.agent, records |-> transcript'.records]
      /\ Log' \in Seq(Events!Turning(transcript.agent)) /\ Len(Log') = Len(Log) + 1
      /\ \A i \in 1..Len(Log) : Log'[i] = Log[i]
      /\ \A n \in 0..Len(Log) : Events!SessionAt(n)' = Events!SessionAt(n)
      /\ \A n \in 1..Len(Log) : Events!Parent(Log, n)' = Events!Parent(Log, n)
      /\ \A n \in 0..Len(Log) : \A i \in 1..n : MayEnd(i, n)' <=> MayEnd(i, n)
      /\ \A n \in 1..Len(Log) : Events!Ends(n)' = Events!Ends(n)
  BY <1>1, <1>2, LogGrows
<1>4. EventsTyped'
  <2>1. caller \in [at : 0..Len(Log'), quiet : SUBSET (1..Len(Log')), life : 0..MaxRestarts]
    <3>1. 0..Len(Log) \subseteq 0..Len(Log') /\ 1..Len(Log) \subseteq 1..Len(Log')
      BY <1>2, <1>3
    <3> QED
      BY <1>2, <3>1
  <2>2. Log' \in Seq(Events!Turning(transcript'.agent))
    BY <1>3
  <2> QED
    BY <1>2, <1>3, <2>1, <2>2 DEF EventsTyped
<1>5. ToldFits'
  <2>1. \A i \in DOMAIN told : told[i].at <= Len(Log')
    BY <1>2, <1>3 DEF ToldFits, Tellings
  <2> QED
    BY <1>2, <1>3, <2>1 DEF ToldFits, Events!EventId
<1>6. ASSUME NEW n \in 0..Len(Log), NEW d, NEW ids, DecoderFits(d, n, ids)
      PROVE  DecoderFits(d, n, ids)'
  <2>1. \A i \in 1..n : i \in 1..Len(Log)
    BY <1>2
  <2> QED
    BY <1>3, <1>6, <2>1 DEF DecoderFits
<1>7. DecoderFits(decoder, caller.at, ToldIds)' /\ DecoderFits(saved.decoder, saved.at, ToldIds)'
  BY <1>2, <1>6
<1>8. Events!NothingIsToldTwice'
  BY <1>2 DEF EventsInv, Events!EventsAreSound, Events!NothingIsToldTwice, Events!EventId
<1>9. Events!CompletedTurnsAreOver'
  <2>1. ASSUME NEW i \in DOMAIN told, transcript.agent = "claude"
        PROVE  IsOver(told[i])'
    <3> DEFINE x == told[i]
               e == told[i].event
    <3>1. IsOver(x)
      BY <2>1, SoundParts DEF EventsInv, Events!EventsAreSound
    <3>2. x' = x /\ x.at \in Nat /\ x.at <= Len(Log)
      BY <1>2 DEF Tellings, ToldFits
    <3>3. SUFFICES ASSUME e.outcome = "completed" PROVE IsOver(x)'
      BY <3>2 DEF IsOver
    <3>4. e.turn \in 1..x.at /\ e.turn \in 1..Len(Log)
      BY <1>2, <2>1, <3>2, <3>3 DEF ToldFits
    <3>5. CASE x.at > 0 /\ Log[x.at].type = "prompt" /\ e.turn \in Events!Ends(x.at)
      <4>1. x.at \in 1..Len(Log)
        BY <3>2, <3>5
      <4> QED
        BY <1>3, <3>2, <3>5, <4>1 DEF IsOver
    <3>6. CASE /\ x.life = caller.life => e.turn \in caller.quiet
               /\ Log[e.turn].type = "end_turn" /\ Log[e.turn].session = e.session
               /\ Events!OnlyAside(e.session, e.turn, x.at + 1)
      <4>1. Log'[e.turn] = Log[e.turn]
        BY <1>3, <3>4
      <4>2. Events!OnlyAside(e.session, e.turn, x.at + 1)'
        <5>1. MayEnd(e.turn, x.at)
          BY <3>6 DEF MayEnd
        <5>2. MayEnd(e.turn, x.at)'
          BY <1>2, <1>3, <3>2, <3>4, <5>1
        <5> QED
          BY <1>2, <3>2, <3>6, <4>1, <5>2 DEF MayEnd
      <4> QED
        BY <1>2, <3>2, <3>6, <4>1, <4>2 DEF IsOver
    <3> QED
      BY <3>1, <3>3, <3>5, <3>6 DEF IsOver
  <2>2. (transcript.agent = "claude" => \A i \in DOMAIN told : IsOver(told[i]))'
    BY <1>2, <1>3, <2>1
  <2> QED
    BY <2>2, SoundPartsNext
<1>10. Events!NoTurnIsMissed'
  <2>1. ASSUME NEW n \in 1..caller.at PROVE TurnIsKnown(n, ToldIds)'
    <3>1. n \in 1..Len(Log) /\ n \in 0..Len(Log)
      BY <1>2
    <3>2. TurnIsKnown(n, ToldIds)
      BY <2>1, SoundParts DEF EventsInv, Events!EventsAreSound
    <3> QED
      BY <1>2, <1>3, <3>1, <3>2 DEF TurnIsKnown
  <2>2. (\A n \in 1..caller.at : TurnIsKnown(n, ToldIds))'
    BY <1>2, <2>1
  <2> QED
    BY <2>2, SoundPartsNext
<1> QED
  BY <1>4, <1>5, <1>7, <1>8, <1>9, <1>10 DEF EventsInv, Events!EventsAreSound

LEMMA EventsInit ==
  ASSUME Events!TranscriptEventsAssumption, Events!Init
  PROVE  EventsInv
<1>1. /\ transcript \in [agent : Events!Kinds, records : {<<>>}] /\ Log = <<>>
      /\ decoder = Events!Fresh /\ told = <<>>
      /\ caller = [at |-> 0, quiet |-> {}, life |-> 0]
      /\ saved = [decoder |-> Events!Fresh, at |-> 0]
      /\ MaxRestarts \in Nat
  BY DEF Events!Init, Log, Events!TranscriptEventsAssumption
<1>2. /\ Events!Fresh \in Decoders /\ Events!Fresh.pending = Events!NoEvent
      /\ Events!Fresh.session = NoSession /\ Events!Fresh.emitted = {}
  BY EventsMade DEF Events!Fresh, Decoders, Named
<1>3. EventsTyped /\ ToldFits
  BY <1>1, <1>2 DEF EventsTyped, ToldFits
<1>4. \A ids : DecoderFits(Events!Fresh, 0, ids)
  <2>1. Events!SessionAt(0) = NoSession
    BY DEF Events!SessionAt
  <2> QED
    BY <1>2, <2>1 DEF DecoderFits
<1>5. Events!EventsAreSound
  BY <1>1 DEF Events!EventsAreSound, Events!NothingIsToldTwice, Events!CompletedTurnsAreOver,
              Events!NoTurnIsMissed
<1> QED
  BY <1>1, <1>3, <1>4, <1>5 DEF EventsInv

LEMMA EventsNext ==
  ASSUME Events!TranscriptEventsAssumption, EventsInv, [Events!Next]_decoding
  PROVE  EventsInv'
<1>1. CASE UNCHANGED decoding
  <2>1. UNCHANGED <<transcript, decoder, caller, saved, told>>
    BY <1>1 DEF decoding
  <2>2. /\ decoder' \in Decoders /\ saved' \in [decoder : Decoders, at : 0..caller'.at]
        /\ caller' \in [at : 0..Len(Log), quiet : SUBSET (1..Len(Log)), life : 0..MaxRestarts]
        /\ caller'.at <= caller.at
        /\ DecoderFits(decoder', caller'.at, ToldIds) /\ DecoderFits(saved'.decoder, saved'.at, ToldIds)
    BY <2>1 DEF EventsInv, EventsTyped
  <2> QED
    BY <2>1, <2>2, CallerKeeps
<1>2. CASE Events!Next
  BY <1>2, WriteKeeps, PushKeeps, SettleKeeps, CallerSteps DEF Events!Next
<1> QED
  BY <1>1, <1>2

LEMMA EventsFit ==
  ASSUME Events!TranscriptEventsAssumption, EventsInv
  PROVE  Events!TypeOK
<1>1. EventsTyped /\ ToldFits
  BY DEF EventsInv
<1>2. \A i \in DOMAIN told : told[i] \in Tellings
  BY <1>1 DEF EventsTyped
<1>3. \A d \in {decoder, saved.decoder} : d \in Decoders /\ d.emitted \subseteq ToldIds
  BY <1>1 DEF EventsInv, EventsTyped, DecoderFits
<1>4. ToldIds = {Events!EventId(e) : e \in {told[i].event : i \in DOMAIN told}}
  BY DEF ToldIds
<1>5. saved.at \in 0..Len(Log) /\ Len(Log) \in Nat
  BY <1>1 DEF EventsTyped
<1>6. \A i \in DOMAIN told : told[i].event \in Events!Event /\ told[i].at \in 0..Len(Log)
  BY <1>1, <1>2, <1>5 DEF Tellings, ToldFits
<1> QED
  BY <1>1, <1>3, <1>4, <1>5, <1>6 DEF Events!TypeOK, EventsTyped, Decoders, Named, Log

(* The events of a transcript, of whatever records.                         *)
THEOREM EventsStaySound == Events!Spec => []EventsInv
<1>1. Events!Init => EventsInv
  BY EventsInit, EventsBounds
<1>2. EventsInv /\ [Events!Next]_decoding => EventsInv'
  BY EventsNext, EventsBounds
<1>3. [Events!Next]_(Events!vars) => [Events!Next]_decoding
  BY DEF Events!vars, decoding
<1> QED
  BY <1>1, <1>2, <1>3, PTL DEF Events!Spec
=============================================================================
