------------------------- MODULE TerminalShareProofs -------------------------
(***************************************************************************)
(* For any sockets and viewers: a share that was ended stays ended unless  *)
(* it was ended blindly, control is held by a viewer who is connected and  *)
(* used by nobody else, every deadline has its alarm, and the terminal is  *)
(* attached while somebody watches.                                        *)
(*                                                                         *)
(* A handler of the relay is a function of its state.  So what a message   *)
(* or a failed send does to that state is shown once per operator, and an  *)
(* action is the operators it applies.                                     *)
(***************************************************************************)
EXTENDS TerminalShare, SequenceTheorems, FiniteSetTheorems, TLAPS

Rec == [state : States, ctl : Viewers \union {Nobody}, pend : Viewers \union {Nobody},
        due : [Deadlines -> {"off", "armed", "due"}]]

Socket == [st : {"free", "open", "shut"}, who : Viewers \union {Nobody}]

Relays == [rec : Rec, host : HostSockets \union {NoSocket}, views : SUBSET ViewerSockets,
           sock : [Sockets -> Socket], down : [HostSockets -> Seq(Downward)],
           alarm : SUBSET Deadlines]

Con == [sock : HostSockets \union {NoSocket}, stopped : BOOLEAN,
        ctl : Viewers \union {Nobody}, stream : BOOLEAN,
        keys : Seq([from : Viewers, as : Viewers \union {Nobody}])]

-----------------------------------------------------------------------------
(* What a reader of the first n messages of q knows: the last of them that  *)
(* is in S is in V, or none is in S and b was the case before.              *)
Said(q, n, S, V, b) ==
  \/ \E j \in 1 .. n : q[j] \in V /\ \A k \in (j + 1) .. n : q[k] \notin S
  \/ b /\ \A k \in 1 .. n : q[k] \notin S

Statuses == {m \in Downward : m.t = "status"}
Naming(v) == {m \in Statuses : m.ctl = v}
Pictures == {m \in Downward : m.t \in {"status", "snapshot"}}
Showing(on) == {m \in Pictures : IF m.t = "status" THEN (m.n > 0) = on ELSE on}

(* Keys arrive when their viewer is known to have control.                  *)
InputsAreKnown(q, c) ==
  \A i \in 1 .. Len(q) :
    q[i].t = "input" => Said(q, i - 1, Statuses, Naming(q[i].from), c.ctl = q[i].from)

Told(d, c) == d.host # NoSocket /\ c.sock = d.host

(* The connector learns who has control, and whether anybody watches.       *)
ControlIsKnown(d, c) ==
  Told(d, c) /\ d.rec.ctl # Nobody =>
    Said(d.down[d.host], Len(d.down[d.host]), Statuses, Naming(d.rec.ctl),
         c.ctl = d.rec.ctl)

WatchIsKnown(d, c) ==
  Told(d, c) /\ (\A w \in ViewerSockets : d.sock[w].st # "shut") =>
    Said(d.down[d.host], Len(d.down[d.host]), Pictures, Showing(d.views # {}),
         c.stream = (d.views # {}))

-----------------------------------------------------------------------------
(* A record of the relay.                                                   *)
Consistent(r) ==
  /\ r.state = "closed" => r.due["host"] = "off"
  /\ r.state \in Over => r.ctl = Nobody /\ r.pend = Nobody
  /\ r.ctl # Nobody => r.due["lease"] # "off"

(* The sockets of the relay are those it knows of.                          *)
Attached(d) ==
  /\ \A w \in d.views : d.sock[w].who \in Viewers /\ d.sock[w].st # "free"
  /\ \A h \in HostSockets : d.sock[h].st = "open" => d.host = h
  /\ \A w \in ViewerSockets : d.sock[w].st = "open" => w \in d.views

Sound(d, c) ==
  /\ d \in Relays /\ Consistent(d.rec) /\ Attached(d)
  /\ \A h \in HostSockets : c.sock = h => InputsAreKnown(d.down[h], c)

Held(d) ==
  /\ d.rec.ctl # Nobody => \E w \in d.views : d.sock[w].who = d.rec.ctl
  /\ d.rec.pend # Nobody => \E w \in d.views : d.sock[w].who = d.rec.pend

Watched(d) == d.rec.state # "closed" => Armed(d.rec) \subseteq d.alarm

(* A share that is over has no host.                                        *)
Detached(d) == d.rec.state \in Over => d.host = NoSocket

ShareInv ==
  /\ Sound(Relay, con) /\ Watched(Relay) /\ Detached(Relay)
  /\ ControlIsKnown(Relay, con) /\ WatchIsKnown(Relay, con)
  /\ ~ missed => Held(Relay)
  /\ con \in Con /\ up \in [HostSockets -> Seq(Upward)]
  /\ \A i \in 1 .. Len(con.keys) : con.keys[i].as = con.keys[i].from
  /\ revoked \in {"no", "clean", "blind"} /\ EndedStaysEnded
  /\ post \in BOOLEAN /\ missed \in BOOLEAN

-----------------------------------------------------------------------------
(* What is said when a message is added, and when one is read.              *)
LEMMA SaidNow ==
  ASSUME NEW T, NEW q \in Seq(T), NEW S, NEW V, NEW b, NEW m \in T, m \in V
  PROVE  Said(Append(q, m), Len(Append(q, m)), S, V, b)
<1>1. Len(Append(q, m)) = Len(q) + 1 /\ Append(q, m)[Len(q) + 1] = m /\ Len(q) \in Nat
  OBVIOUS
<1> QED
  BY <1>1 DEF Said

LEMMA SaidStill ==
  ASSUME NEW T, NEW q \in Seq(T), NEW S, NEW V, NEW b, NEW m \in T, m \notin S,
         Said(q, Len(q), S, V, b)
  PROVE  Said(Append(q, m), Len(Append(q, m)), S, V, b)
<1>1. Len(Append(q, m)) = Len(q) + 1 /\ Append(q, m)[Len(q) + 1] = m /\ Len(q) \in Nat
      /\ \A i \in 1 .. Len(q) : Append(q, m)[i] = q[i]
  OBVIOUS
<1>2. CASE b /\ \A k \in 1 .. Len(q) : q[k] \notin S
  BY <1>1, <1>2 DEF Said
<1>3. ASSUME NEW j \in 1 .. Len(q), q[j] \in V, \A k \in (j + 1) .. Len(q) : q[k] \notin S
      PROVE  Said(Append(q, m), Len(q) + 1, S, V, b)
  <2>1. \A k \in (j + 1) .. (Len(q) + 1) : Append(q, m)[k] \notin S
    BY <1>1, <1>3
  <2>2. j \in 1 .. (Len(q) + 1) /\ Append(q, m)[j] \in V
    BY <1>1, <1>3
  <2> QED
    BY <2>1, <2>2 DEF Said
<1> QED
  BY <1>1, <1>2, <1>3 DEF Said

(* The same of a part of a queue that another one agrees with.              *)
LEMMA SaidAlike ==
  ASSUME NEW q, NEW p, NEW n \in Nat, NEW S, NEW V, NEW b,
         \A i \in 1 .. n : p[i] = q[i], Said(q, n, S, V, b)
  PROVE  Said(p, n, S, V, b)
<1>1. CASE b /\ \A k \in 1 .. n : q[k] \notin S
  BY <1>1 DEF Said
<1>2. ASSUME NEW j \in 1 .. n, q[j] \in V, \A k \in (j + 1) .. n : q[k] \notin S
      PROVE  Said(p, n, S, V, b)
  <2>1. p[j] \in V /\ \A k \in (j + 1) .. n : p[k] \notin S
    BY <1>2
  <2> QED
    BY <2>1 DEF Said
<1> QED
  BY <1>1, <1>2 DEF Said

(* The first message has been read: if it is one of S it decides.           *)
LEMMA SaidRest ==
  ASSUME NEW T, NEW q \in Seq(T), q # <<>>, NEW n \in Nat, n < Len(q),
         NEW S, NEW V, V \subseteq S, NEW b, NEW b2,
         Said(q, n + 1, S, V, b),
         q[1] \in V => b2,
         q[1] \notin S => (b => b2)
  PROVE  Said(Tail(q), n, S, V, b2)
<1>1. Len(q) \in Nat /\ Len(q) > 0 /\ \A i \in 1 .. (Len(q) - 1) : Tail(q)[i] = q[i + 1]
  OBVIOUS
<1>2. \A i \in 1 .. n : Tail(q)[i] = q[i + 1]
  BY <1>1
<1>3. CASE b /\ \A k \in 1 .. (n + 1) : q[k] \notin S
  <2>1. \A k \in 1 .. n : Tail(q)[k] \notin S
    BY <1>2, <1>3
  <2>2. b2
    BY <1>3
  <2> QED
    BY <2>1, <2>2 DEF Said
<1>4. ASSUME NEW j \in 1 .. (n + 1), q[j] \in V, \A k \in (j + 1) .. (n + 1) : q[k] \notin S
      PROVE  Said(Tail(q), n, S, V, b2)
  <2>1. CASE j = 1
    <3>1. \A k \in 1 .. n : Tail(q)[k] \notin S
      BY <1>2, <1>4, <2>1
    <3> QED
      BY <1>4, <2>1, <3>1 DEF Said
  <2>2. CASE j # 1
    <3>1. j - 1 \in 1 .. n /\ Tail(q)[j - 1] \in V
      BY <1>2, <1>4, <2>2
    <3>2. \A k \in ((j - 1) + 1) .. n : Tail(q)[k] \notin S
      BY <1>2, <1>4, <2>2
    <3> QED
      BY <3>1, <3>2 DEF Said
  <2> QED
    BY <2>1, <2>2
<1> QED
  BY <1>3, <1>4 DEF Said

LEMMA InputsAppended ==
  ASSUME NEW q \in Seq(Downward), NEW c, NEW m \in Downward, InputsAreKnown(q, c),
         m.t = "input" => Said(q, Len(q), Statuses, Naming(m.from), c.ctl = m.from)
  PROVE  InputsAreKnown(Append(q, m), c)
<1> DEFINE p == Append(q, m)
<1>1. Len(p) = Len(q) + 1 /\ p[Len(q) + 1] = m /\ Len(q) \in Nat
      /\ \A i \in 1 .. Len(q) : p[i] = q[i]
  OBVIOUS
<1> HIDE DEF p
<1>2. ASSUME NEW i \in 1 .. Len(p), p[i].t = "input"
      PROVE  Said(p, i - 1, Statuses, Naming(p[i].from), c.ctl = p[i].from)
  <2>1. CASE i \in 1 .. Len(q)
    <3>1. i - 1 \in Nat /\ \A k \in 1 .. (i - 1) : p[k] = q[k]
      BY <1>1, <2>1
    <3>2. Said(q, i - 1, Statuses, Naming(p[i].from), c.ctl = p[i].from)
      BY <1>1, <1>2, <2>1 DEF InputsAreKnown
    <3> QED
      BY <3>1, <3>2, SaidAlike
  <2>2. CASE i = Len(q) + 1
    <3>1. p[i] = m /\ i - 1 = Len(q)
      BY <1>1, <2>2
    <3> QED
      BY <1>1, <1>2, <3>1, SaidAlike
  <2> QED
    BY <1>1, <2>1, <2>2
<1> QED
  BY <1>2 DEF InputsAreKnown, p

LEMMA InputsRead ==
  ASSUME NEW q \in Seq(Downward), q # <<>>, NEW c, NEW c2, InputsAreKnown(q, c),
         q[1] \notin Statuses => c2.ctl = c.ctl,
         q[1] \in Statuses => c2.ctl = q[1].ctl
  PROVE  InputsAreKnown(Tail(q), c2)
<1>1. Len(q) \in Nat /\ Len(q) > 0 /\ Len(Tail(q)) = Len(q) - 1
      /\ \A i \in 1 .. (Len(q) - 1) : Tail(q)[i] = q[i + 1]
  OBVIOUS
<1>2. ASSUME NEW i \in 1 .. Len(Tail(q)), Tail(q)[i].t = "input"
      PROVE  Said(Tail(q), i - 1, Statuses, Naming(Tail(q)[i].from),
                  c2.ctl = Tail(q)[i].from)
  <2>1. i + 1 \in 1 .. Len(q) /\ Tail(q)[i] = q[i + 1]
    BY <1>1
  <2> DEFINE v == q[i + 1].from
  <2>2. Said(q, (i - 1) + 1, Statuses, Naming(v), c.ctl = v)
    <3>1. (i - 1) + 1 = (i + 1) - 1
      BY <1>1
    <3> QED
      BY <1>2, <2>1, <3>1 DEF InputsAreKnown
  <2>3. i - 1 \in Nat /\ i - 1 < Len(q)
    BY <1>1
  <2>4. Naming(v) \subseteq Statuses /\ (q[1] \in Naming(v) => c2.ctl = v)
        /\ (q[1] \notin Statuses => (c.ctl = v => c2.ctl = v))
    BY DEF Naming
  <2> HIDE DEF v
  <2>5. Said(Tail(q), i - 1, Statuses, Naming(v), c2.ctl = v)
    BY <2>2, <2>3, <2>4, SaidRest
  <2> QED
    BY <2>1, <2>5 DEF v
<1> QED
  BY <1>2 DEF InputsAreKnown

-----------------------------------------------------------------------------
(* The record.                                                              *)
LEMMA Consts ==
  /\ HostSockets \intersect ViewerSockets = {} /\ NoSocket \notin Sockets
  /\ Nobody \notin Viewers /\ IsFiniteSet(ViewerSockets)
  /\ HostSockets \subseteq Sockets /\ ViewerSockets \subseteq Sockets
  /\ NoSocket \notin HostSockets
  BY ShareAssumption DEF Sockets

LEMMA DismissedFields ==
  ASSUME NEW r \in Rec
  PROVE  /\ Dismissed(r) \in Rec /\ Dismissed(r).state = r.state
         /\ Dismissed(r).ctl = r.ctl /\ Dismissed(r).pend = Nobody
         /\ Dismissed(r).due["pending"] = "off"
         /\ \A x \in Deadlines : x # "pending" => Dismissed(r).due[x] = r.due[x]
  BY DEF Dismissed, Rec, Deadlines

LEMMA ReleasedFields ==
  ASSUME NEW r \in Rec
  PROVE  /\ Released(r) \in Rec /\ Released(r).state = r.state
         /\ Released(r).pend = r.pend /\ Released(r).ctl = Nobody
         /\ Released(r).due["lease"] = "off"
         /\ \A x \in Deadlines : x # "lease" => Released(r).due[x] = r.due[x]
  BY DEF Released, Rec, Deadlines

(* A record in which nobody has or asks for control any more.               *)
Vacant(r) == r.ctl = Nobody /\ r.pend = Nobody

LEMMA VacatedFields ==
  ASSUME NEW r \in Rec
  PROVE  LET s == Released(Dismissed(r))
         IN /\ s \in Rec /\ s.state = r.state /\ Vacant(s)
            /\ s.due["lease"] = "off" /\ s.due["pending"] = "off"
            /\ \A x \in {"session", "host"} : s.due[x] = r.due[x]
<1> DEFINE p == Dismissed(r)
           s == Released(p)
<1>1. /\ p \in Rec /\ p.state = r.state /\ p.pend = Nobody /\ p.due["pending"] = "off"
      /\ \A x \in Deadlines : x # "pending" => p.due[x] = r.due[x]
  BY DismissedFields
<1> HIDE DEF p
<1>2. /\ s \in Rec /\ s.state = p.state /\ s.pend = p.pend /\ s.ctl = Nobody
      /\ s.due["lease"] = "off" /\ \A x \in Deadlines : x # "lease" => s.due[x] = p.due[x]
  BY <1>1, ReleasedFields
<1> HIDE DEF s
<1>3. {"session", "host", "pending"} \subseteq Deadlines
  BY DEF Deadlines
<1>4. /\ s \in Rec /\ s.state = r.state /\ Vacant(s)
      /\ s.due["lease"] = "off" /\ s.due["pending"] = "off"
      /\ \A x \in {"session", "host"} : s.due[x] = r.due[x]
  BY <1>1, <1>2, <1>3 DEF Vacant
<1> QED
  BY <1>4 DEF s, p

LEMMA HostLostFields ==
  ASSUME NEW r \in Rec
  PROVE  /\ HostLost(r) \in Rec /\ HostLost(r).state = "ready" /\ Vacant(HostLost(r))
         /\ Consistent(HostLost(r))
<1> DEFINE s == Released(Dismissed(r))
<1>1. s \in Rec /\ Vacant(s)
  BY VacatedFields
<1> HIDE DEF s
<1>2. LET t == [s EXCEPT !.due["host"] = "armed", !.state = "ready"]
      IN t \in Rec /\ t.state = "ready" /\ t.ctl = s.ctl /\ t.pend = s.pend
  BY <1>1 DEF Rec, States, Deadlines
<1>3. HostLost(r) = [s EXCEPT !.due["host"] = "armed", !.state = "ready"]
  BY DEF HostLost, s
<1> HIDE DEF s
<1>4. /\ HostLost(r) \in Rec /\ HostLost(r).state = "ready"
      /\ HostLost(r).ctl = Nobody /\ HostLost(r).pend = Nobody
  BY <1>1, <1>2, <1>3 DEF Vacant
<1> QED
  BY <1>4 DEF Consistent, Over, Vacant

LEMMA CloseFields ==
  ASSUME NEW r \in Rec, Consistent(r)
  PROVE  /\ CloseSession(r) \in Rec /\ CloseSession(r).state = "closed"
         /\ Vacant(CloseSession(r)) /\ Consistent(CloseSession(r))
         /\ EndSharing(r) \in Rec /\ EndSharing(r).state = "ended"
         /\ Vacant(EndSharing(r)) /\ Consistent(EndSharing(r))
<1> DEFINE s == Released(Dismissed(r))
           t == CloseSession(r)
<1>1. s \in Rec /\ Vacant(s)
  BY VacatedFields
<1>2. t \in Rec /\ t.state = "closed" /\ Vacant(t) /\ t.due["host"] = "off"
  <2>1. CASE r.state = "closed"
    BY <2>1 DEF CloseSession, Consistent, Over, Vacant
  <2>2. CASE r.state # "closed"
    <3>1. t = [s EXCEPT !.state = "closed", !.due["host"] = "off"]
      BY <2>2 DEF CloseSession
    <3> HIDE DEF s
    <3>2. LET u == [s EXCEPT !.state = "closed", !.due["host"] = "off"]
          IN /\ u \in Rec /\ u.state = "closed" /\ u.ctl = s.ctl /\ u.pend = s.pend
             /\ u.due["host"] = "off"
      BY <1>1 DEF Rec, States, Deadlines
    <3> HIDE DEF t
    <3> QED
      BY <1>1, <3>1, <3>2 DEF Vacant
  <2> QED
    BY <2>1, <2>2
<1>3. EndSharing(r) = [t EXCEPT !.state = "ended"]
  BY DEF EndSharing
<1> HIDE DEF t
<1>4. LET u == [t EXCEPT !.state = "ended"]
      IN u \in Rec /\ u.state = "ended" /\ u.ctl = t.ctl /\ u.pend = t.pend
  BY <1>2 DEF Rec, States
<1>5. Consistent(t)
  BY <1>2 DEF Consistent, Vacant
<1>6. EndSharing(r) \in Rec /\ EndSharing(r).state = "ended" /\ Vacant(EndSharing(r))
  BY <1>2, <1>3, <1>4 DEF Vacant
<1>7. Consistent(EndSharing(r))
  BY <1>6 DEF Consistent, Vacant
<1> QED
  BY <1>2, <1>5, <1>6, <1>7 DEF t

-----------------------------------------------------------------------------
(* The relay.                                                               *)
SameSockets(d, e) ==
  e.host = d.host /\ e.views = d.views /\ e.sock = d.sock /\ e.down = d.down

LEMMA ScheduleFields ==
  ASSUME NEW d \in Relays
  PROVE  /\ Schedule(d) \in Relays /\ SameSockets(d, Schedule(d))
         /\ Schedule(d).rec = d.rec /\ Watched(Schedule(d))
<1> DEFINE a == IF d.rec.state = "closed" THEN {} ELSE Armed(d.rec)
<1>1. a \in SUBSET Deadlines
  BY DEF Armed
<1> HIDE DEF a
<1>2. LET e == [d EXCEPT !.alarm = a]
      IN e \in Relays /\ SameSockets(d, e) /\ e.rec = d.rec /\ e.alarm = a
  BY <1>1 DEF Relays, SameSockets
<1>3. Schedule(d) = [d EXCEPT !.alarm = a]
  BY DEF Schedule, a
<1>4. Watched(Schedule(d))
  BY <1>2, <1>3 DEF Watched, a
<1> QED
  BY <1>2, <1>3, <1>4

LEMMA UpdateFields ==
  ASSUME NEW d \in Relays, NEW r \in Rec
  PROVE  /\ Update(d, r) \in Relays /\ SameSockets(d, Update(d, r))
         /\ Update(d, r).rec = r /\ Watched(Update(d, r))
<1> DEFINE e == [d EXCEPT !.rec = r]
<1>1. e \in Relays /\ SameSockets(d, e) /\ e.rec = r
  BY DEF Relays, SameSockets
<1>2. Update(d, r) = Schedule(e)
  BY DEF Update
<1> HIDE DEF e
<1> QED
  BY <1>1, <1>2, ScheduleFields DEF SameSockets

(* What a relay may have become by telling others of its state.             *)
Tells(d, e) ==
  /\ e.sock = d.sock /\ e.views \subseteq d.views /\ e.host \in {d.host, NoSocket}
  /\ d.host = NoSocket \/ IsOpen(d, d.host) =>
       e.host = d.host /\ e.rec.state = d.rec.state
  /\ e.rec.state = d.rec.state \/ (e.rec.state = "ready" /\ e.host = NoSocket)
  /\ e.rec.ctl \in {d.rec.ctl, Nobody} /\ e.rec.pend \in {d.rec.pend, Nobody}
  /\ ~ Told(d, con) => e.down = d.down

Preserves(d, e) ==
  Sound(e, con) /\ Tells(d, e) /\ (Held(d) => Held(e)) /\ (Watched(d) => Watched(e))

Carries(d, e) ==
  /\ Preserves(d, e)
  /\ ControlIsKnown(d, con) => ControlIsKnown(e, con)
  /\ WatchIsKnown(d, con) => WatchIsKnown(e, con)

LEMMA TellsTransitive ==
  ASSUME NEW d, NEW e, NEW f, Preserves(d, e), Preserves(e, f)
  PROVE  Preserves(d, f)
<1>1. Tells(d, f)
  <2>1. e.sock = d.sock /\ f.sock = e.sock /\ f.views \subseteq d.views
    BY DEF Preserves, Tells
  <2>2. f.host \in {d.host, NoSocket}
    BY DEF Preserves, Tells
  <2>3. d.host = NoSocket \/ IsOpen(d, d.host) =>
          f.host = d.host /\ f.rec.state = d.rec.state
    BY <2>1 DEF Preserves, Tells, IsOpen
  <2>4. f.rec.state = d.rec.state \/ (f.rec.state = "ready" /\ f.host = NoSocket)
    BY DEF Preserves, Tells
  <2>5. f.rec.ctl \in {d.rec.ctl, Nobody} /\ f.rec.pend \in {d.rec.pend, Nobody}
    BY DEF Preserves, Tells
  <2>6. ~ Told(d, con) => f.down = d.down
    BY DEF Preserves, Tells, Told
  <2> QED
    BY <2>1, <2>2, <2>3, <2>4, <2>5, <2>6 DEF Tells
<1> QED
  BY <1>1 DEF Preserves

LEMMA CarriesTransitive ==
  ASSUME NEW d, NEW e, NEW f, Carries(d, e), Carries(e, f)
  PROVE  Carries(d, f)
  BY TellsTransitive DEF Carries

LEMMA CarriesItself ==
  ASSUME NEW d, Sound(d, con)
  PROVE  Carries(d, d)
  BY DEF Carries, Preserves, Tells

(* Nobody hears it: a relay that has lost its host.                         *)
LEMMA HostLostCarries ==
  ASSUME NEW d, Sound(d, con), ~ IsOpen(d, d.host), d.host # NoSocket,
         NEW e, e = Update([d EXCEPT !.host = NoSocket], HostLost(d.rec))
  PROVE  Carries(d, e) /\ e.host = NoSocket /\ Vacant(e.rec) /\ Watched(e)
<1> DEFINE b == [d EXCEPT !.host = NoSocket]
           r == HostLost(d.rec)
<1>1. d \in Relays /\ d.rec \in Rec
  BY DEF Sound, Relays
<1>2. /\ b \in Relays /\ b.host = NoSocket /\ b.views = d.views /\ b.sock = d.sock
      /\ b.down = d.down
  BY <1>1 DEF Relays
<1>3. r \in Rec /\ r.state = "ready" /\ Vacant(r) /\ Consistent(r)
  BY <1>1, HostLostFields
<1> HIDE DEF b, r
<1>4. /\ e \in Relays /\ SameSockets(b, e) /\ e.rec = r /\ Watched(e)
  BY <1>2, <1>3, UpdateFields DEF b, r
<1>5. Attached(e)
  <2>1. \A h \in HostSockets : d.sock[h].st # "open"
    BY DEF Sound, Attached, IsOpen
  <2> QED
    BY <1>2, <1>4, <2>1 DEF Sound, Attached, SameSockets
<1>6. Sound(e, con)
  BY <1>2, <1>3, <1>4, <1>5 DEF Sound, SameSockets
<1>7. Tells(d, e)
  BY <1>2, <1>3, <1>4 DEF Tells, SameSockets, Vacant
<1>8. Held(e)
  BY <1>3, <1>4 DEF Held, Vacant
<1>9. e.host = NoSocket
  BY <1>2, <1>4 DEF SameSockets
<1>10. ControlIsKnown(e, con) /\ WatchIsKnown(e, con)
  BY <1>9 DEF ControlIsKnown, WatchIsKnown, Told
<1> QED
  BY <1>3, <1>4, <1>6, <1>7, <1>8, <1>9, <1>10 DEF Carries, Preserves

(* A message goes to the connector.                                         *)
Delivered(d, e, m) ==
  /\ e.rec = d.rec /\ e.views = d.views /\ e.host = d.host
  /\ Told(d, con) => e.down[d.host] = Append(d.down[d.host], m)

LEMMA SendHostPreserves ==
  ASSUME NEW d, Sound(d, con), NEW m \in Downward,
         m.t = "input" /\ Told(d, con) =>
           Said(d.down[d.host], Len(d.down[d.host]), Statuses, Naming(m.from),
                con.ctl = m.from),
         NEW e, e = SendHost(d, m)
  PROVE  /\ Preserves(d, e)
         /\ e.host # NoSocket => Delivered(d, e, m)
         /\ e.rec = d.rec \/ Vacant(e.rec)
<1>1. /\ d \in Relays /\ d.down \in [HostSockets -> Seq(Downward)]
      /\ d.host \in HostSockets \union {NoSocket}
  BY DEF Sound, Relays
<1>2. CASE IsOpen(d, d.host)
  <2> DEFINE h == d.host
             q == Travels(h, d.down[h], m)
  <2>1. h \in HostSockets
    BY <1>1, <1>2 DEF IsOpen
  <2>2. Append(d.down[h], m) \in Seq(Downward)
    BY <1>1, <2>1
  <2>3. q \in Seq(Downward) /\ (con.sock = h => q = Append(d.down[h], m))
        /\ (con.sock # h => q = d.down[h])
    BY <1>1, <2>1, <2>2 DEF Travels
  <2>4. e = [d EXCEPT !.down[h] = q]
    BY <1>2 DEF SendHost
  <2> HIDE DEF q
  <2>5. /\ e \in Relays /\ e.rec = d.rec /\ e.host = d.host /\ e.views = d.views
        /\ e.sock = d.sock /\ e.alarm = d.alarm
        /\ e.down = [d.down EXCEPT ![h] = q]
    BY <1>1, <2>1, <2>3, <2>4 DEF Relays
  <2>6. e.down[h] = q /\ \A g \in HostSockets : g # h => e.down[g] = d.down[g]
    BY <1>1, <2>1, <2>5
  <2>7. ASSUME NEW g \in HostSockets, con.sock = g
        PROVE  InputsAreKnown(e.down[g], con)
    <3>1. InputsAreKnown(d.down[g], con) /\ d.down[g] \in Seq(Downward)
      BY <1>1, <2>7 DEF Sound
    <3>2. CASE g # h
      BY <2>6, <3>1, <3>2
    <3>3. CASE g = h
      <4>1. Told(d, con)
        BY <2>1, <2>7, <3>3, Consts DEF Told
      <4>2. InputsAreKnown(Append(d.down[h], m), con)
        BY <3>1, <3>3, <4>1, InputsAppended
      <4> QED
        BY <2>3, <2>6, <2>7, <3>3, <4>2
    <3> QED
      BY <3>2, <3>3
  <2>8. Sound(e, con)
    BY <2>5, <2>7 DEF Sound, Attached
  <2>9. Tells(d, e)
    <3>1. ~ Told(d, con) => e.down = d.down
      <4>1. ~ Told(d, con) => q = d.down[h]
        BY <2>1, <2>3, Consts DEF Told
      <4> QED
        BY <1>1, <2>1, <2>5, <4>1
    <3> QED
      BY <2>5, <3>1 DEF Tells
  <2>10. Delivered(d, e, m)
    BY <2>3, <2>5, <2>6 DEF Delivered, Told
  <2> QED
    BY <2>5, <2>8, <2>9, <2>10 DEF Preserves, Held, Watched
<1>3. CASE ~ IsOpen(d, d.host) /\ d.host = NoSocket
  <2>1. e = d
    BY <1>3 DEF SendHost
  <2> QED
    BY <1>3, <2>1, CarriesItself DEF Carries
<1>4. CASE ~ IsOpen(d, d.host) /\ d.host # NoSocket
  <2>1. e = Update([d EXCEPT !.host = NoSocket], HostLost(d.rec))
    BY <1>4 DEF SendHost
  <2> QED
    BY <1>4, <2>1, HostLostCarries DEF Carries
<1> QED
  BY <1>2, <1>3, <1>4

(* A message that says nothing of control or of viewers.                    *)
LEMMA SendHostCarries ==
  ASSUME NEW d, Sound(d, con), NEW m \in Downward, m \notin Pictures,
         m.t = "input" /\ Told(d, con) =>
           Said(d.down[d.host], Len(d.down[d.host]), Statuses, Naming(m.from),
                con.ctl = m.from)
  PROVE  Carries(d, SendHost(d, m))
<1> DEFINE e == SendHost(d, m)
<1>1. /\ Preserves(d, e) /\ (e.host # NoSocket => Delivered(d, e, m))
  BY SendHostPreserves
<1> HIDE DEF e
<1>2. m \notin Statuses
  BY DEF Statuses, Pictures
<1>3. ASSUME Told(e, con)
      PROVE  /\ Told(d, con) /\ e.rec = d.rec /\ e.views = d.views /\ e.host = d.host
             /\ e.down[e.host] = Append(d.down[d.host], m)
             /\ d.down[d.host] \in Seq(Downward) /\ e.sock = d.sock
  <2>1. Delivered(d, e, m) /\ e.host # NoSocket
    BY <1>1, <1>3 DEF Told
  <2>2. d.host \in HostSockets /\ d.down \in [HostSockets -> Seq(Downward)]
    BY <2>1 DEF Delivered, Sound, Relays
  <2> QED
    BY <1>1, <1>3, <2>1, <2>2 DEF Delivered, Told, Preserves, Tells
<1> DEFINE q == d.down[d.host]
           p == e.down[e.host]
<1>4. ASSUME ControlIsKnown(d, con)
      PROVE  ControlIsKnown(e, con)
  <2>1. ASSUME Told(e, con), e.rec.ctl # Nobody
        PROVE  Said(p, Len(p), Statuses, Naming(e.rec.ctl), con.ctl = e.rec.ctl)
    <3>1. Said(q, Len(q), Statuses, Naming(e.rec.ctl), con.ctl = e.rec.ctl)
      BY <1>3, <1>4, <2>1 DEF ControlIsKnown
    <3>2. p = Append(q, m) /\ q \in Seq(Downward)
      BY <1>3, <2>1
    <3> HIDE DEF p, q
    <3> QED
      BY <1>2, <3>1, <3>2, SaidStill
  <2> QED
    BY <2>1 DEF ControlIsKnown
<1>5. ASSUME WatchIsKnown(d, con)
      PROVE  WatchIsKnown(e, con)
  <2>1. ASSUME Told(e, con), \A w \in ViewerSockets : e.sock[w].st # "shut"
        PROVE  Said(p, Len(p), Pictures, Showing(e.views # {}), con.stream = (e.views # {}))
    <3>1. Said(q, Len(q), Pictures, Showing(e.views # {}), con.stream = (e.views # {}))
      BY <1>3, <1>5, <2>1 DEF WatchIsKnown
    <3>2. p = Append(q, m) /\ q \in Seq(Downward)
      BY <1>3, <2>1
    <3> HIDE DEF p, q
    <3> QED
      BY <3>1, <3>2, SaidStill
  <2> QED
    BY <2>1 DEF WatchIsKnown
<1> QED
  BY <1>1, <1>4, <1>5 DEF Carries, e

LEMMA Messages ==
  /\ Snapshot \in Pictures /\ Snapshot \in Showing(TRUE) /\ Snapshot \notin Statuses
  /\ Ended \in Downward /\ Ended \notin Pictures /\ Ended.t # "input"
  /\ \A v \in Viewers : /\ Input(v) \in Downward /\ Input(v) \notin Pictures
                        /\ Input(v).t = "input" /\ Input(v).from = v
                        /\ Asks(v) \in Downward /\ Asks(v) \notin Pictures
                        /\ Asks(v).t = "request"
  /\ Statuses \subseteq Pictures /\ Pictures \subseteq Downward
  BY DEF Snapshot, Ended, Input, Asks, Pictures, Showing, Statuses, Downward

LEMMA StatusFields ==
  ASSUME NEW r \in Rec, NEW S \in SUBSET ViewerSockets
  PROVE  LET m == Status(r, Cardinality(S))
         IN /\ m \in Statuses /\ m.t = "status" /\ m.ctl = r.ctl /\ m \in Naming(r.ctl)
            /\ m \in Showing(S # {}) /\ m.n = Cardinality(S) /\ (m.n > 0) = (S # {})
<1> DEFINE n == Cardinality(S)
           m == Status(r, n)
<1>1. IsFiniteSet(S) /\ n <= Cardinality(ViewerSockets) /\ n \in Nat
      /\ Cardinality(ViewerSockets) \in Nat
  BY Consts, FS_Subset, FS_CardinalityType
<1>2. (n > 0) = (S # {})
  BY <1>1, FS_EmptySet
<1> HIDE DEF n
<1>3. m \in Downward /\ m.t = "status" /\ m.ctl = r.ctl /\ m.n = n
  BY <1>1 DEF Status, Downward, Rec, Over
<1> HIDE DEF m
<1>4. m \in Statuses /\ m \in Naming(r.ctl) /\ m \in Pictures
  BY <1>3 DEF Statuses, Naming, Pictures
<1>5. m \in Showing(S # {})
  BY <1>2, <1>3, <1>4 DEF Showing
<1> QED
  BY <1>2, <1>3, <1>4, <1>5 DEF m, n

(* The connector is told who has control and how many watch.                *)
LEMMA TellHostTells ==
  ASSUME NEW d, Sound(d, con)
  PROVE  /\ Preserves(d, TellHost(d))
         /\ ControlIsKnown(TellHost(d), con) /\ WatchIsKnown(TellHost(d), con)
<1> DEFINE m == Status(d.rec, Cardinality(d.views))
           e == TellHost(d)
           q == d.down[d.host]
<1>1. d.rec \in Rec /\ d.views \in SUBSET ViewerSockets /\ d \in Relays
  BY DEF Sound, Relays
<1>2. /\ m \in Statuses /\ m.t = "status" /\ m \in Naming(d.rec.ctl)
      /\ m \in Showing(d.views # {})
  BY <1>1, StatusFields
<1>3. e = SendHost(d, m)
  BY DEF TellHost
<1> HIDE DEF m, e
<1>4. m \in Downward /\ m.t # "input"
  BY <1>2 DEF Statuses
<1>5. Preserves(d, e) /\ (e.host # NoSocket => Delivered(d, e, m))
  BY <1>3, <1>4, SendHostPreserves
<1>6. ASSUME Told(e, con)
      PROVE  e.rec = d.rec /\ e.views = d.views /\ q \in Seq(Downward)
             /\ e.down[e.host] = Append(q, m)
  <2>1. Delivered(d, e, m) /\ e.host # NoSocket
    BY <1>5, <1>6 DEF Told
  <2>2. d.host \in HostSockets /\ d.down \in [HostSockets -> Seq(Downward)]
    BY <1>1, <2>1 DEF Delivered, Relays
  <2> QED
    BY <1>6, <2>1, <2>2 DEF Delivered, Told
<1> HIDE DEF q
<1> DEFINE p == Append(q, m)
<1>7. ControlIsKnown(e, con)
  <2>1. ASSUME Told(e, con)
        PROVE  Said(p, Len(p), Statuses, Naming(d.rec.ctl), con.ctl = d.rec.ctl)
    BY <1>2, <1>4, <1>6, <2>1, SaidNow
  <2> HIDE DEF p
  <2> QED
    BY <1>6, <2>1 DEF ControlIsKnown, p
<1>8. WatchIsKnown(e, con)
  <2>1. ASSUME Told(e, con)
        PROVE  Said(p, Len(p), Pictures, Showing(d.views # {}), con.stream = (d.views # {}))
    BY <1>2, <1>4, <1>6, <2>1, SaidNow
  <2> HIDE DEF p
  <2> QED
    BY <1>6, <2>1 DEF WatchIsKnown, p
<1> QED
  BY <1>5, <1>7, <1>8 DEF e

(* The viewers whose sockets fail are removed.                              *)
LEMMA WithoutLostCarries ==
  ASSUME NEW d, Sound(d, con)
  PROVE  Carries(d, WithoutLost(d))
<1> DEFINE lost == {w \in d.views : ~ IsOpen(d, w)}
           gone == {d.sock[w].who : w \in lost}
           r1 == IF d.rec.ctl \in gone THEN Released(d.rec) ELSE d.rec
           r2 == IF d.rec.pend \in gone THEN Dismissed(r1) ELSE r1
           e == [d EXCEPT !.views = @ \ lost]
           f == IF r2 = d.rec THEN e ELSE Update(e, r2)
<1>1. d \in Relays /\ d.rec \in Rec /\ Consistent(d.rec) /\ Attached(d)
      /\ d.views \subseteq ViewerSockets
  BY DEF Sound, Relays
<1>2. r1 \in Rec /\ r1.state = d.rec.state /\ r1.due["host"] = d.rec.due["host"]
      /\ r1.pend = d.rec.pend /\ r1.ctl = (IF d.rec.ctl \in gone THEN Nobody ELSE d.rec.ctl)
      /\ (r1.ctl # Nobody => r1.due["lease"] # "off")
  <2>1. "host" \in Deadlines /\ "host" # "lease"
    BY DEF Deadlines
  <2> QED
    BY <1>1, <2>1, ReleasedFields DEF Consistent
<1> HIDE DEF r1
<1>3. r2 \in Rec /\ r2.state = d.rec.state /\ r2.due["host"] = d.rec.due["host"]
      /\ r2.pend = (IF d.rec.pend \in gone THEN Nobody ELSE d.rec.pend)
      /\ r2.ctl = (IF d.rec.ctl \in gone THEN Nobody ELSE d.rec.ctl)
      /\ (r2.ctl # Nobody => r2.due["lease"] # "off")
  <2>1. "host" \in Deadlines /\ "host" # "pending" /\ "lease" \in Deadlines
        /\ "lease" # "pending"
    BY DEF Deadlines
  <2> QED
    BY <1>2, <2>1, DismissedFields
<1> HIDE DEF r2, gone
<1>4. Consistent(r2)
  BY <1>1, <1>3 DEF Consistent
<1>5. /\ e \in Relays /\ e.rec = d.rec /\ e.host = d.host /\ e.sock = d.sock
      /\ e.down = d.down /\ e.alarm = d.alarm /\ e.views = d.views \ lost
  BY <1>1 DEF Relays
<1> HIDE DEF lost, e
<1>6. /\ f \in Relays /\ f.rec = r2 /\ f.host = d.host /\ f.sock = d.sock
      /\ f.down = d.down /\ f.views = d.views \ lost
      /\ (Watched(d) => Watched(f))
  <2>1. CASE r2 = d.rec
    BY <1>5, <2>1 DEF Watched
  <2>2. CASE r2 # d.rec
    BY <1>3, <1>5, <2>2, UpdateFields DEF SameSockets
  <2> QED
    BY <2>1, <2>2
<1>7. f = WithoutLost(d)
  BY DEF WithoutLost, f, e, r2, r1, gone, lost
<1> HIDE DEF f
<1>8. Attached(f)
  BY <1>1, <1>6, Consts DEF Attached, IsOpen, lost
<1>9. Sound(f, con)
  BY <1>4, <1>6, <1>8 DEF Sound
<1>10. Tells(d, f)
  BY <1>3, <1>6 DEF Tells
<1>11. Held(d) => Held(f)
  <2>1. \A w \in lost : d.sock[w].who \in gone
    BY DEF gone
  <2> QED
    BY <1>3, <1>6, <2>1 DEF Held
<1>12. ControlIsKnown(d, con) => ControlIsKnown(f, con)
  <2>1. f.rec.ctl \in {d.rec.ctl, Nobody}
    BY <1>3, <1>6
  <2> QED
    BY <1>6, <2>1 DEF ControlIsKnown, Told
<1>13. WatchIsKnown(d, con) => WatchIsKnown(f, con)
  <2>1. (\A w \in ViewerSockets : d.sock[w].st # "shut") => f.views = d.views
    <3>1. \A w \in d.views : d.sock[w].st \in {"free", "open", "shut"}
      BY <1>1, Consts DEF Relays, Socket
    <3>2. (\A w \in ViewerSockets : d.sock[w].st # "shut") => lost = {}
      BY <1>1, <3>1, Consts DEF lost, IsOpen, Attached
    <3> QED
      BY <1>6, <3>2
  <2> QED
    BY <1>6, <2>1 DEF WatchIsKnown, Told
<1> QED
  BY <1>6, <1>7, <1>9, <1>10, <1>11, <1>12, <1>13 DEF Carries, Preserves

LEMMA SendViewersCarries ==
  ASSUME NEW d, Sound(d, con)
  PROVE  Carries(d, SendViewers(d))
<1> DEFINE e == WithoutLost(d)
<1>1. Carries(d, e) /\ Sound(e, con)
  BY WithoutLostCarries DEF Carries, Preserves
<1>2. Preserves(e, TellHost(e))
      /\ ControlIsKnown(TellHost(e), con) /\ WatchIsKnown(TellHost(e), con)
  BY <1>1, TellHostTells
<1>3. SendViewers(d) = IF e.rec.ctl # d.rec.ctl THEN TellHost(e) ELSE e
  BY DEF SendViewers
<1> HIDE DEF e
<1>4. Carries(e, TellHost(e))
  BY <1>2 DEF Carries
<1> QED
  BY <1>1, <1>3, <1>4, CarriesTransitive

LEMMA BroadcastTells ==
  ASSUME NEW d, Sound(d, con), NEW f, f = BroadcastStatus(d)
  PROVE  Preserves(d, f) /\ ControlIsKnown(f, con) /\ WatchIsKnown(f, con)
<1> DEFINE e == TellHost(d)
<1>1. Preserves(d, e) /\ ControlIsKnown(e, con) /\ WatchIsKnown(e, con) /\ Sound(e, con)
  BY TellHostTells DEF Preserves
<1>2. f = SendViewers(e)
  BY DEF BroadcastStatus
<1> HIDE DEF e
<1>3. Carries(e, f)
  BY <1>1, <1>2, SendViewersCarries
<1> QED
  BY <1>1, <1>3, TellsTransitive DEF Carries

-----------------------------------------------------------------------------
(* The end of a run of sharing.  Sockets are shut, none is opened.          *)
Shrinks(d, e) ==
  /\ e.views \subseteq d.views /\ e.host \in {d.host, NoSocket}
  /\ \A s \in Sockets :
       /\ e.sock[s].who = d.sock[s].who
       /\ e.sock[s].st = d.sock[s].st \/ (d.sock[s].st = "open" /\ e.sock[s].st = "shut")

LEMMA ShutFields ==
  ASSUME NEW d \in Relays, NEW S
  PROVE  /\ Shut(d, S) \in [Sockets -> Socket]
         /\ \A s \in Sockets :
              /\ Shut(d, S)[s].who = d.sock[s].who
              /\ s \in S /\ d.sock[s].st = "open" => Shut(d, S)[s].st = "shut"
              /\ s \notin S \/ d.sock[s].st # "open" => Shut(d, S)[s] = d.sock[s]
<1> DEFINE shut(x) == [x EXCEPT !.st = "shut"]
<1>1. \A s \in Sockets : d.sock[s] \in Socket
  BY DEF Relays
<1>2. \A x \in Socket : shut(x) \in Socket /\ shut(x).who = x.who /\ shut(x).st = "shut"
  BY DEF Socket
<1>3. \A s \in Sockets :
        Shut(d, S)[s] = IF s \in S /\ d.sock[s].st = "open"
                        THEN shut(d.sock[s]) ELSE d.sock[s]
  BY DEF Shut
<1> HIDE DEF shut
<1>4. \A s \in Sockets : Shut(d, S)[s] \in Socket
  BY <1>1, <1>2, <1>3
<1>5. Shut(d, S) \in [Sockets -> Socket]
  BY <1>4 DEF Shut
<1> DEFINE k == Shut(d, S)
<1> HIDE DEF k
<1>6. ASSUME NEW s \in Sockets
      PROVE  /\ k[s].who = d.sock[s].who
             /\ s \in S /\ d.sock[s].st = "open" => k[s].st = "shut"
             /\ s \notin S \/ d.sock[s].st # "open" => k[s] = d.sock[s]
  <2>1. CASE s \in S /\ d.sock[s].st = "open"
    BY <1>1, <1>2, <1>3, <2>1 DEF k
  <2>2. CASE ~ (s \in S /\ d.sock[s].st = "open")
    BY <1>3, <2>2 DEF k
  <2> QED
    BY <2>1, <2>2
<1> QED
  BY <1>5, <1>6 DEF k

LEMMA FinishSharingFields ==
  ASSUME NEW d, Sound(d, con), NEW f, f = FinishSharing(d)
  PROVE  /\ Sound(f, con) /\ Shrinks(d, f) /\ f.host = NoSocket
         /\ Held(d) => Held(f)
         /\ Watched(d) => Watched(f)
         /\ f.rec.ctl \in {d.rec.ctl, Nobody} /\ f.rec.pend \in {d.rec.pend, Nobody}
         /\ f.rec.state \in {d.rec.state, "ready"}
         /\ d.host = NoSocket \/ IsOpen(d, d.host) => f.rec.state = d.rec.state
<1> DEFINE e == BroadcastStatus(d)
           k == Shut(e, {e.host})
<1>1. Preserves(d, e)
  BY BroadcastTells
<1>2. f = [e EXCEPT !.sock = k, !.host = NoSocket]
  BY DEF FinishSharing
<1> HIDE DEF e
<1>3. e \in Relays /\ Sound(e, con) /\ Tells(d, e)
  BY <1>1 DEF Preserves, Sound
<1>4. /\ k \in [Sockets -> Socket]
      /\ \A s \in Sockets :
           /\ k[s].who = e.sock[s].who
           /\ s = e.host /\ e.sock[s].st = "open" => k[s].st = "shut"
           /\ s # e.host \/ e.sock[s].st # "open" => k[s] = e.sock[s]
  BY <1>3, ShutFields
<1> HIDE DEF k
<1>5. /\ f \in Relays /\ f.rec = e.rec /\ f.host = NoSocket /\ f.sock = k
      /\ f.down = e.down /\ f.views = e.views /\ f.alarm = e.alarm
  BY <1>2, <1>3, <1>4 DEF Relays
<1>6. \A s \in Sockets : k[s].st = e.sock[s].st \/ (e.sock[s].st = "open" /\ k[s].st = "shut")
  BY <1>4
<1>7. Attached(f)
  <2>1. \A w \in f.views : w \in Sockets
    BY <1>3, <1>5, Consts DEF Relays
  <2>2. \A w \in f.views : f.sock[w].who \in Viewers /\ f.sock[w].st # "free"
    BY <1>3, <1>4, <1>5, <1>6, <2>1 DEF Sound, Attached
  <2>3. \A h \in HostSockets : f.sock[h].st # "open"
    BY <1>3, <1>4, <1>5, Consts DEF Sound, Attached
  <2>4. \A w \in ViewerSockets : f.sock[w].st = "open" => w \in f.views
    BY <1>3, <1>5, <1>6, Consts DEF Sound, Attached
  <2> QED
    BY <2>2, <2>3, <2>4 DEF Attached
<1>8. Sound(f, con)
  BY <1>3, <1>5, <1>7 DEF Sound
<1>9. Shrinks(d, f)
  BY <1>3, <1>4, <1>5, <1>6 DEF Shrinks, Tells
<1>10. Held(e) => Held(f)
  <2>1. \A w \in e.views : k[w].who = e.sock[w].who
    BY <1>3, <1>4, Consts DEF Relays
  <2> QED
    BY <1>5, <2>1 DEF Held
<1>11. Watched(e) => Watched(f)
  BY <1>5 DEF Watched
<1> QED
  BY <1>1, <1>3, <1>5, <1>8, <1>9, <1>10, <1>11 DEF Preserves, Tells

LEMMA FinishClosedFields ==
  ASSUME NEW d, Sound(d, con), Vacant(d.rec), NEW f, f = FinishClosedSession(d)
  PROVE  /\ Sound(f, con) /\ Shrinks(d, f) /\ f.host = NoSocket /\ Vacant(f.rec)
         /\ Watched(d) => Watched(f)
         /\ d.host = NoSocket \/ IsOpen(d, d.host) => f.rec.state = d.rec.state
<1> DEFINE e == FinishSharing(d)
           k == Shut(e, e.views)
<1>1. /\ Sound(e, con) /\ Shrinks(d, e) /\ e.host = NoSocket /\ Vacant(e.rec)
      /\ Watched(d) => Watched(e)
      /\ d.host = NoSocket \/ IsOpen(d, d.host) => e.rec.state = d.rec.state
  BY FinishSharingFields DEF Vacant
<1>2. f = [e EXCEPT !.sock = k, !.views = {}]
  BY DEF FinishClosedSession
<1> HIDE DEF e
<1>3. e \in Relays
  BY <1>1 DEF Sound
<1>4. /\ k \in [Sockets -> Socket]
      /\ \A s \in Sockets :
           /\ k[s].who = e.sock[s].who
           /\ s \in e.views /\ e.sock[s].st = "open" => k[s].st = "shut"
           /\ s \notin e.views \/ e.sock[s].st # "open" => k[s] = e.sock[s]
  BY <1>3, ShutFields
<1> HIDE DEF k
<1>5. /\ f \in Relays /\ f.rec = e.rec /\ f.host = NoSocket /\ f.sock = k
      /\ f.down = e.down /\ f.views = {} /\ f.alarm = e.alarm
  BY <1>1, <1>2, <1>3, <1>4 DEF Relays
<1>6. Attached(f)
  <2>1. \A h \in HostSockets : f.sock[h].st # "open"
    <3>1. \A h \in HostSockets : e.sock[h].st # "open"
      BY <1>1, Consts DEF Sound, Attached
    <3>2. \A h \in HostSockets : k[h] = e.sock[h]
      BY <1>4, <3>1, Consts
    <3> QED
      BY <1>5, <3>1, <3>2
  <2>2. \A w \in ViewerSockets : f.sock[w].st # "open"
    BY <1>1, <1>4, <1>5, Consts DEF Sound, Attached
  <2> QED
    BY <1>5, <2>1, <2>2 DEF Attached
<1>7. Sound(f, con)
  BY <1>1, <1>5, <1>6 DEF Sound
<1>8. Shrinks(d, f)
  BY <1>1, <1>4, <1>5 DEF Shrinks
<1>9. Watched(e) => Watched(f)
  BY <1>5 DEF Watched
<1> QED
  BY <1>1, <1>5, <1>7, <1>8, <1>9

(* Whatever Finish does to a share that is over, there is no host then.     *)
LEMMA FinishFields ==
  ASSUME NEW d, Sound(d, con), d.rec.state \in Over, NEW f, f = Finish(d)
  PROVE  /\ Sound(f, con) /\ Shrinks(d, f) /\ f.host = NoSocket /\ Vacant(f.rec)
         /\ Watched(d) => Watched(f)
         /\ d.host = NoSocket \/ IsOpen(d, d.host) => f.rec.state = d.rec.state
<1>1. Vacant(d.rec)
  BY DEF Sound, Consistent, Vacant
<1>2. CASE d.rec.state = "closed"
  <2>1. f = FinishClosedSession(d)
    BY <1>2 DEF Finish
  <2> QED
    BY <1>1, <2>1, FinishClosedFields
<1>3. CASE d.rec.state = "ended"
  <2>1. f = FinishSharing(d)
    BY <1>3 DEF Finish
  <2> QED
    BY <1>1, <2>1, FinishSharingFields DEF Vacant
<1> QED
  BY <1>2, <1>3 DEF Over

-----------------------------------------------------------------------------
(* Deadlines are looked at.                                                 *)
LEMMA EndSharingDues ==
  ASSUME NEW r \in Rec
  PROVE  \A x \in Deadlines : EndSharing(r).due[x] \in {r.due[x], "off"}
<1> DEFINE s == Released(Dismissed(r))
           t == CloseSession(r)
<1>1. s \in Rec /\ \A x \in Deadlines : s.due[x] \in {r.due[x], "off"}
  BY VacatedFields DEF Deadlines
<1>2. t \in Rec /\ \A x \in Deadlines : t.due[x] \in {r.due[x], "off"}
  <2>1. CASE r.state = "closed"
    BY <2>1 DEF CloseSession
  <2>2. CASE r.state # "closed"
    <3>1. t = [s EXCEPT !.state = "closed", !.due["host"] = "off"]
      BY <2>2 DEF CloseSession
    <3> HIDE DEF s
    <3>2. LET u == [s EXCEPT !.state = "closed", !.due["host"] = "off"]
          IN u \in Rec /\ \A x \in Deadlines : u.due[x] \in {s.due[x], "off"}
      BY <1>1 DEF Rec, States, Deadlines
    <3> HIDE DEF t
    <3> QED
      BY <1>1, <3>1, <3>2
  <2> QED
    BY <2>1, <2>2
<1>3. EndSharing(r) = [t EXCEPT !.state = "ended"]
  BY DEF EndSharing
<1> HIDE DEF t
<1>4. [t EXCEPT !.state = "ended"].due = t.due
  BY <1>2 DEF Rec
<1> QED
  BY <1>2, <1>3, <1>4

LEMMA AdvanceRecordFields ==
  ASSUME NEW d \in Relays, Consistent(d.rec), NEW s, s = AdvanceRecord(d)
  PROVE  /\ s \in Rec /\ Consistent(s)
         /\ s.ctl \in {d.rec.ctl, Nobody} /\ s.pend \in {d.rec.pend, Nobody}
         /\ d.rec.state \in Over => s.state \in Over
         /\ s.state # "closed" => d.rec.state # "closed" /\ Armed(s) \subseteq Armed(d.rec)
<1> DEFINE r == d.rec
           r1 == IF r.due["pending"] = "due" THEN Dismissed(r) ELSE r
           r2 == IF r.due["lease"] = "due" THEN Released(r1) ELSE r1
           state == IF d.host = NoSocket THEN "ready" ELSE "active"
<1>1. r \in Rec
  BY DEF Relays
<1>2. /\ r1 \in Rec /\ r1.state = r.state /\ r1.ctl = r.ctl /\ r1.pend \in {r.pend, Nobody}
      /\ \A x \in Deadlines : r1.due[x] \in {r.due[x], "off"}
      /\ \A x \in Deadlines : x # "pending" => r1.due[x] = r.due[x]
  BY <1>1, DismissedFields
<1> HIDE DEF r1
<1>3. /\ r2 \in Rec /\ r2.state = r.state /\ r2.pend \in {r.pend, Nobody}
      /\ r2.ctl \in {r.ctl, Nobody}
      /\ \A x \in Deadlines : r2.due[x] \in {r.due[x], "off"}
      /\ r2.due["host"] = r.due["host"]
      /\ (r2.ctl # Nobody => r2.due["lease"] # "off")
  <2>1. /\ Released(r1) \in Rec /\ Released(r1).state = r1.state
        /\ Released(r1).pend = r1.pend /\ Released(r1).ctl = Nobody
        /\ Released(r1).due["lease"] = "off"
        /\ \A x \in Deadlines : x # "lease" => Released(r1).due[x] = r1.due[x]
    BY <1>2, ReleasedFields
  <2>2. "host" \in Deadlines /\ "lease" \in Deadlines
        /\ "host" # "lease" /\ "host" # "pending" /\ "lease" # "pending"
    BY DEF Deadlines
  <2>3. CASE r.due["lease"] = "due"
    BY <1>2, <2>1, <2>2, <2>3
  <2>4. CASE r.due["lease"] # "due"
    BY <1>2, <2>2, <2>4 DEF Consistent
  <2> QED
    BY <2>3, <2>4
<1> HIDE DEF r2
<1>4. Consistent(r2)
  BY <1>1, <1>3 DEF Consistent
<1>5. \A u \in Rec : (\A x \in Deadlines : u.due[x] \in {r.due[x], "off"})
        => Armed(u) \subseteq Armed(r)
  BY DEF Armed
<1>6. CASE r.due["session"] = "due"
  <2>1. s = CloseSession(r)
    BY <1>6 DEF AdvanceRecord
  <2> QED
    BY <1>1, <2>1, CloseFields DEF Vacant, Over
<1>7. CASE r.due["session"] # "due" /\ d.host = NoSocket /\ r.due["host"] = "due"
  <2>1. s = EndSharing(r2)
    BY <1>7, Zenon DEF AdvanceRecord, r2, r1
  <2>2. /\ s \in Rec /\ s.state = "ended" /\ Vacant(s) /\ Consistent(s)
        /\ \A x \in Deadlines : s.due[x] \in {r2.due[x], "off"}
    BY <1>3, <1>4, <2>1, CloseFields, EndSharingDues
  <2>3. Armed(s) \subseteq Armed(r)
    BY <1>3, <1>5, <2>2
  <2>4. r.state # "closed"
    BY <1>7 DEF Consistent
  <2> QED
    BY <2>2, <2>3, <2>4 DEF Vacant, Over
<1>8. CASE ~ (r.due["session"] = "due")
           /\ ~ (r.due["session"] # "due" /\ d.host = NoSocket /\ r.due["host"] = "due")
  <2>1. s = IF r2.state \in Over THEN r2 ELSE [r2 EXCEPT !.state = state]
    BY <1>8, Zenon DEF AdvanceRecord, r2, r1
  <2>2. CASE r2.state \in Over
    <3>1. s = r2
      BY <2>1, <2>2
    <3> QED
      BY <1>3, <1>4, <1>5, <3>1
  <2>3. CASE r2.state \notin Over
    <3>1. state \in {"ready", "active"}
      OBVIOUS
    <3> HIDE DEF state
    <3>2. LET u == [r2 EXCEPT !.state = state]
          IN /\ u \in Rec /\ u.state = state /\ u.ctl = r2.ctl /\ u.pend = r2.pend
             /\ u.due = r2.due
      BY <1>3, <3>1 DEF Rec, States
    <3>3. s = [r2 EXCEPT !.state = state]
      BY <2>1, <2>3
    <3>4. /\ s \in Rec /\ s.state = state /\ s.ctl = r2.ctl /\ s.pend = r2.pend
          /\ s.due = r2.due
      BY <3>2, <3>3
    <3>5. Consistent(s)
      BY <1>3, <3>1, <3>4 DEF Consistent, Over
    <3>6. Armed(s) \subseteq Armed(r)
      BY <1>3, <1>5, <3>4
    <3> QED
      BY <1>3, <2>3, <3>1, <3>4, <3>5, <3>6 DEF Over
  <2> QED
    BY <2>2, <2>3
<1> QED
  BY <1>6, <1>7, <1>8

(* A relay whose record has changed, and nothing else.                      *)
LEMMA RecChanged ==
  ASSUME NEW d, Sound(d, con), NEW r \in Rec, Consistent(r),
         r.ctl \in {d.rec.ctl, Nobody}, r.pend \in {d.rec.pend, Nobody},
         NEW e, e = [d EXCEPT !.rec = r]
  PROVE  /\ Sound(e, con) /\ SameSockets(d, e) /\ e.rec = r /\ e.alarm = d.alarm
         /\ Held(d) => Held(e)
         /\ ControlIsKnown(d, con) => ControlIsKnown(e, con)
         /\ WatchIsKnown(d, con) => WatchIsKnown(e, con)
<1>1. /\ e \in Relays /\ e.rec = r /\ e.host = d.host /\ e.views = d.views
      /\ e.sock = d.sock /\ e.down = d.down /\ e.alarm = d.alarm
  BY DEF Sound, Relays
<1>2. Sound(e, con)
  BY <1>1 DEF Sound, Attached
<1>3. Held(d) => Held(e)
  BY <1>1 DEF Held
<1>4. ControlIsKnown(d, con) => ControlIsKnown(e, con)
  BY <1>1 DEF ControlIsKnown, Told
<1>5. WatchIsKnown(d, con) => WatchIsKnown(e, con)
  BY <1>1 DEF WatchIsKnown, Told
<1> QED
  BY <1>1, <1>2, <1>3, <1>4, <1>5 DEF SameSockets

LEMMA ShrinksItself ==
  ASSUME NEW d, NEW e, SameSockets(d, e)
  PROVE  Shrinks(d, e)
  BY DEF Shrinks, SameSockets

(* What an event finds when the deadlines have been looked at.              *)
Advanced(d, e) ==
  /\ Sound(e, con) /\ Shrinks(d, e) /\ Detached(e)
  /\ Held(d) => Held(e)
  /\ Watched(d) => Watched(e)
  /\ ControlIsKnown(d, con) => ControlIsKnown(e, con)
  /\ WatchIsKnown(d, con) => WatchIsKnown(e, con)
  /\ e.host # NoSocket => SameSockets(d, e)
  /\ d.rec.state \in Over => e.rec.state \in Over

LEMMA AdvanceFields ==
  ASSUME NEW d, Sound(d, con), Detached(d), NEW e, e = Advance(d)
  PROVE  Advanced(d, e)
<1> DEFINE s == AdvanceRecord(d)
           g == [d EXCEPT !.rec = s]
<1>1. d \in Relays /\ Consistent(d.rec) /\ d.rec \in Rec
  BY DEF Sound, Relays
<1>2. /\ s \in Rec /\ Consistent(s)
      /\ s.ctl \in {d.rec.ctl, Nobody} /\ s.pend \in {d.rec.pend, Nobody}
      /\ d.rec.state \in Over => s.state \in Over
      /\ s.state # "closed" => d.rec.state # "closed" /\ Armed(s) \subseteq Armed(d.rec)
  BY <1>1, AdvanceRecordFields
<1>3. e = IF s # d.rec THEN Finish(g) ELSE d
  BY DEF Advance, Advances
<1> HIDE DEF s
<1>4. /\ Sound(g, con) /\ SameSockets(d, g) /\ g.rec = s /\ g.alarm = d.alarm
      /\ Held(d) => Held(g)
      /\ ControlIsKnown(d, con) => ControlIsKnown(g, con)
      /\ WatchIsKnown(d, con) => WatchIsKnown(g, con)
  BY <1>2, RecChanged
<1> HIDE DEF g
<1>5. Watched(d) => Watched(g)
  BY <1>2, <1>4 DEF Watched
<1>6. CASE s = d.rec
  <2>1. e = d /\ SameSockets(d, d)
    BY <1>3, <1>6 DEF SameSockets
  <2> QED
    BY <2>1, ShrinksItself DEF Advanced
<1>7. CASE s # d.rec /\ s.state \in Over
  <2>1. /\ Sound(e, con) /\ Shrinks(g, e) /\ e.host = NoSocket /\ Vacant(e.rec)
        /\ Watched(g) => Watched(e)
        /\ g.host = NoSocket \/ IsOpen(g, g.host) => e.rec.state = g.rec.state
    BY <1>3, <1>4, <1>7, FinishFields
  <2>2. Shrinks(d, e)
    BY <1>4, <2>1 DEF Shrinks, SameSockets
  <2>3. d.rec.state \in Over => e.rec.state \in Over
    BY <1>4, <1>7, <2>1 DEF Detached, SameSockets
  <2>4. Held(e) /\ ControlIsKnown(e, con) /\ WatchIsKnown(e, con) /\ Detached(e)
    BY <2>1 DEF Held, ControlIsKnown, WatchIsKnown, Told, Detached, Vacant
  <2> QED
    BY <1>5, <2>1, <2>2, <2>3, <2>4 DEF Advanced
<1>8. CASE s # d.rec /\ s.state \notin Over
  <2>1. g.rec.state # "closed" /\ g.rec.state # "ended"
    BY <1>4, <1>8 DEF Over
  <2>2. e = g
    BY <1>3, <1>8, <2>1 DEF Finish
  <2>3. Detached(e) /\ Shrinks(d, e)
    BY <1>4, <1>8, <2>2, ShrinksItself DEF Detached
  <2> QED
    BY <1>2, <1>4, <1>5, <1>8, <2>2, <2>3 DEF Advanced
<1> QED
  BY <1>6, <1>7, <1>8

(* What precedes every message.                                             *)
LEMMA TellsAfter ==
  ASSUME NEW d, NEW e, NEW f, Advanced(d, e), Preserves(e, f),
         ControlIsKnown(f, con), WatchIsKnown(f, con)
  PROVE  /\ Sound(f, con) /\ Shrinks(d, f) /\ Detached(f)
         /\ Held(d) => Held(f)
         /\ Watched(d) => Watched(f)
         /\ d.rec.state \in Over => f.rec.state \in Over
         /\ f.host # NoSocket => f.host = d.host /\ f.sock = d.sock
<1>1. f.sock = e.sock /\ f.views \subseteq e.views /\ f.host \in {e.host, NoSocket}
      /\ (f.rec.state = e.rec.state \/ (f.rec.state = "ready" /\ f.host = NoSocket))
      /\ (e.host = NoSocket => f.rec.state = e.rec.state)
  BY DEF Preserves, Tells
<1>2. Shrinks(d, f)
  BY <1>1 DEF Advanced, Shrinks
<1>3. Detached(f)
  BY <1>1 DEF Advanced, Detached, Over
<1>4. d.rec.state \in Over => f.rec.state \in Over
  BY <1>1 DEF Advanced, Detached
<1>5. f.host # NoSocket => f.host = d.host /\ f.sock = d.sock
  BY <1>1 DEF Advanced, SameSockets
<1> QED
  BY <1>2, <1>3, <1>4, <1>5 DEF Advanced, Preserves

-----------------------------------------------------------------------------
(* Steps.                                                                   *)
LEMMA RelayBecomes ==
  ASSUME NEW d \in Relays, Becomes(d)
  PROVE  Relay' = d
<1>1. d = [rec |-> d.rec, host |-> d.host, views |-> d.views, sock |-> d.sock,
           down |-> d.down, alarm |-> d.alarm]
  BY DEF Relays
<1>2. Relay' = [rec |-> d.rec, host |-> d.host, views |-> d.views, sock |-> d.sock,
                down |-> d.down, alarm |-> d.alarm]
  BY DEF Becomes, Relay
<1> QED
  BY <1>1, <1>2

(* A handler of the relay, which has become d.                              *)
Handled(d) ==
  /\ Sound(d, con) /\ Detached(d) /\ ControlIsKnown(d, con) /\ WatchIsKnown(d, con)
  /\ ~ missed' => Held(d)
  /\ UNCHANGED con /\ up' \in [HostSockets -> Seq(Upward)]
  /\ post' \in BOOLEAN /\ missed' \in BOOLEAN /\ revoked' \in {"no", "clean", "blind"}
  /\ revoked' = "clean" => d.rec.state \in Over

LEMMA BecomesKeeps ==
  ASSUME ShareInv, NEW d, Becomes(d), Handled(d), Watched(d)
  PROVE  ShareInv'
<1>1. Relay' = d
  BY RelayBecomes DEF Handled, Sound
<1>2. (Sound(Relay, con) /\ Watched(Relay) /\ Detached(Relay))'
  BY <1>1 DEF Handled
<1>3. (ControlIsKnown(Relay, con) /\ WatchIsKnown(Relay, con) /\ (~ missed => Held(Relay)))'
  BY <1>1 DEF Handled
<1>4. EndedStaysEnded'
  BY DEF Handled, EndedStaysEnded, Becomes
<1> QED
  BY <1>2, <1>3, <1>4 DEF ShareInv, Handled

LEMMA SchedulingKeeps ==
  ASSUME ShareInv, NEW d, Scheduling(d), Handled(d)
  PROVE  ShareInv'
<1> DEFINE e == Schedule(d)
<1>1. d \in Relays /\ Becomes(e)
  BY DEF Handled, Sound, Scheduling
<1>2. e \in Relays /\ SameSockets(d, e) /\ e.rec = d.rec /\ Watched(e)
  BY <1>1, ScheduleFields
<1> HIDE DEF e
<1>3. Sound(e, con) /\ Detached(e) /\ (~ missed' => Held(e))
  BY <1>2 DEF Handled, Sound, Detached, Held, Attached, SameSockets
<1>4. ControlIsKnown(e, con)
  BY <1>2 DEF Handled, ControlIsKnown, Told, SameSockets
<1>5. WatchIsKnown(e, con)
  BY <1>2 DEF Handled, WatchIsKnown, Told, SameSockets
<1>6. Handled(e)
  BY <1>2, <1>3, <1>4, <1>5 DEF Handled
<1> QED
  BY <1>1, <1>2, <1>6, BecomesKeeps

(* A relay that has told the connector where it stands.                     *)
LEMMA BroadcastHandled ==
  ASSUME NEW d, Sound(d, con), Detached(d), NEW e, e = BroadcastStatus(d),
         ~ missed' => Held(d), UNCHANGED con, up' \in [HostSockets -> Seq(Upward)],
         post' \in BOOLEAN, missed' \in BOOLEAN, revoked' \in {"no", "clean", "blind"},
         revoked' = "clean" => d.rec.state \in Over
  PROVE  Handled(e) /\ (Watched(d) => Watched(e))
<1>1. Preserves(d, e) /\ ControlIsKnown(e, con) /\ WatchIsKnown(e, con)
  BY BroadcastTells
<1>2. Detached(e)
  BY <1>1 DEF Preserves, Tells, Detached, Over
<1>3. d.rec.state \in Over => e.rec.state \in Over
  BY <1>1 DEF Preserves, Tells, Detached
<1> QED
  BY <1>1, <1>2, <1>3 DEF Handled, Preserves

LEMMA AdvancedHandled ==
  ASSUME ShareInv, NEW d, Advanced(Relay, d), UNCHANGED <<con, post, revoked, missed>>,
         up' \in [HostSockets -> Seq(Upward)]
  PROVE  Handled(d) /\ Watched(d)
<1>1. revoked = "clean" => d.rec.state \in Over
  BY DEF ShareInv, EndedStaysEnded, Advanced, Relay
<1> QED
  BY <1>1 DEF ShareInv, Advanced, Handled

LEMMA AdvanceRelay ==
  ASSUME ShareInv
  PROVE  Advanced(Relay, Advance(Relay))
  BY AdvanceFields DEF ShareInv

LEMMA HeardFields ==
  ASSUME ShareInv, NEW d, d = Heard
  PROVE  /\ Sound(d, con) /\ Shrinks(Relay, d) /\ Detached(d) /\ Watched(d)
         /\ ~ missed => Held(d)
         /\ ControlIsKnown(d, con) /\ WatchIsKnown(d, con)
         /\ revoked = "clean" => d.rec.state \in Over
         /\ d.host # NoSocket => d.host = host /\ d.sock = sock
<1> DEFINE e == Advance(Relay)
<1>1. Advanced(Relay, e)
  BY AdvanceRelay
<1>2. revoked = "clean" => Relay.rec.state \in Over
  BY DEF ShareInv, EndedStaysEnded, Relay
<1>3. Relay.host = host /\ Relay.sock = sock
  BY DEF Relay
<1>4. CASE Advances(Relay)
  <2>1. d = BroadcastStatus(e)
    BY <1>4 DEF Heard
  <2> HIDE DEF e
  <2>2. Preserves(e, d) /\ ControlIsKnown(d, con) /\ WatchIsKnown(d, con)
    BY <1>1, <2>1, BroadcastTells DEF Advanced
  <2>3. /\ Sound(d, con) /\ Shrinks(Relay, d) /\ Detached(d)
        /\ Held(Relay) => Held(d)
        /\ Watched(Relay) => Watched(d)
        /\ Relay.rec.state \in Over => d.rec.state \in Over
        /\ d.host # NoSocket => d.host = Relay.host /\ d.sock = Relay.sock
    BY <1>1, <2>2, TellsAfter
  <2> QED
    BY <1>2, <1>3, <2>2, <2>3 DEF ShareInv
<1>5. CASE ~ Advances(Relay)
  <2>1. d = Relay
    BY <1>5 DEF Heard
  <2>2. Shrinks(d, d)
    BY ShrinksItself DEF SameSockets
  <2> QED
    BY <1>2, <1>3, <2>1, <2>2 DEF ShareInv
<1> QED
  BY <1>4, <1>5

LEMMA GetStatusKeeps ==
  ASSUME ShareInv, GetStatus
  PROVE  ShareInv'
<1>1. Becomes(Advance(Relay)) /\ UNCHANGED <<up, con, post, revoked, missed>>
  BY DEF GetStatus, OthersStay
<1>2. Handled(Advance(Relay)) /\ Watched(Advance(Relay))
  BY <1>1, AdvanceRelay, AdvancedHandled DEF ShareInv
<1> QED
  BY <1>1, <1>2, BecomesKeeps

LEMMA AlarmKeeps ==
  ASSUME ShareInv, Alarm
  PROVE  ShareInv'
<1> DEFINE e == Advance(Relay)
           d == [e EXCEPT !.alarm = {}]
<1>1. Advanced(Relay, e) /\ UNCHANGED <<up, con, post, revoked, missed>>
  BY AdvanceRelay DEF Alarm, OthersStay
<1>2. Handled(e)
  BY <1>1, AdvancedHandled DEF ShareInv
<1>3. Scheduling(IF Advances(Relay) THEN BroadcastStatus(d) ELSE d)
  BY DEF Alarm
<1> HIDE DEF e
<1>4. e \in Relays
  BY <1>1 DEF Advanced, Sound
<1>5. d \in Relays /\ SameSockets(d, e) /\ d.rec = e.rec
  BY <1>4 DEF Relays, SameSockets
<1> HIDE DEF d
<1>6. Sound(d, con) /\ Detached(d) /\ (~ missed' => Held(d))
  BY <1>2, <1>5 DEF Handled, Sound, Detached, Held, Attached, SameSockets
<1>7. ControlIsKnown(d, con)
  BY <1>2, <1>5 DEF Handled, ControlIsKnown, Told, SameSockets
<1>8. WatchIsKnown(d, con)
  BY <1>2, <1>5 DEF Handled, WatchIsKnown, Told, SameSockets
<1>9. Handled(d)
  BY <1>2, <1>5, <1>6, <1>7, <1>8 DEF Handled
<1>10. Handled(BroadcastStatus(d))
  BY <1>9, BroadcastHandled DEF Handled
<1> QED
  BY <1>3, <1>9, <1>10, SchedulingKeeps

LEMMA PreservesDetached ==
  ASSUME NEW d, NEW e, Detached(d), Preserves(d, e)
  PROVE  Detached(e) /\ (d.rec.state \in Over => e.rec.state \in Over)
  BY DEF Preserves, Tells, Detached, Over

(* A page has joined; its older connection is shut.                         *)
LEMMA JoinFields ==
  ASSUME NEW d, Sound(d, con), Detached(d), NEW v \in Viewers, NEW w \in ViewerSockets,
         d.sock[w].st = "free", NEW j, j = Join(d, v, w)
  PROVE  Sound(j, con) /\ Detached(j) /\ j.rec = d.rec /\ (Held(d) => Held(j))
<1> DEFINE older == {x \in d.views : d.sock[x].who = v}
           k == Shut(d, older)
           c == [st |-> "open", who |-> v]
           n == [k EXCEPT ![w] = c]
           views2 == (d.views \ older) \union {w}
<1>1. d \in Relays /\ Attached(d) /\ d.views \subseteq ViewerSockets /\ w \notin d.views
  BY DEF Sound, Relays, Attached
<1>2. /\ k \in [Sockets -> Socket]
      /\ \A s \in Sockets :
           /\ k[s].who = d.sock[s].who
           /\ s \in older /\ d.sock[s].st = "open" => k[s].st = "shut"
           /\ s \notin older \/ d.sock[s].st # "open" => k[s] = d.sock[s]
  BY <1>1, ShutFields
<1> HIDE DEF k
<1>3. j = [d EXCEPT !.views = views2, !.sock = n]
  BY DEF Join, k
<1>4. c \in Socket /\ c.st = "open" /\ c.who = v
  BY DEF Socket
<1> HIDE DEF c
<1>5. /\ n \in [Sockets -> Socket] /\ n[w] = c /\ w \in Sockets
      /\ \A s \in Sockets : s # w => n[s] = k[s]
  BY <1>2, <1>4, Consts
<1> HIDE DEF n
<1>6. views2 \in SUBSET ViewerSockets
  BY <1>1
<1> HIDE DEF views2
<1>7. /\ j \in Relays /\ j.rec = d.rec /\ j.host = d.host /\ j.sock = n
      /\ j.views = views2 /\ j.down = d.down
  BY <1>1, <1>3, <1>5, <1>6 DEF Relays
<1>8. Attached(j)
  <2>1. ASSUME NEW x \in views2
        PROVE  n[x].who \in Viewers /\ n[x].st # "free"
    <3>1. CASE x = w
      BY <1>4, <1>5, <3>1
    <3>2. CASE x # w
      <4>1. x \in d.views /\ x \in Sockets /\ x \notin older
        BY <1>1, <2>1, <3>2, Consts DEF views2
      <4>2. n[x] = d.sock[x]
        BY <1>2, <1>5, <3>2, <4>1
      <4> QED
        BY <1>1, <4>1, <4>2 DEF Attached
    <3> QED
      BY <3>1, <3>2
  <2>2. ASSUME NEW h \in HostSockets, n[h].st = "open"
        PROVE  d.host = h
    <3>1. h \notin older /\ h # w /\ h \in Sockets
      BY <1>1, Consts
    <3> QED
      BY <1>1, <1>2, <1>5, <2>2, <3>1 DEF Attached
  <2>3. ASSUME NEW x \in ViewerSockets, n[x].st = "open"
        PROVE  x \in views2
    <3>1. CASE x = w
      BY <3>1 DEF views2
    <3>2. CASE x # w
      <4>1. k[x].st = "open" /\ x \in Sockets
        BY <1>5, <2>3, <3>2, Consts
      <4>2. d.sock[x].st = "open" /\ x \notin older
        BY <1>2, <4>1
      <4> QED
        BY <1>1, <4>2 DEF Attached, views2
    <3> QED
      BY <3>1, <3>2
  <2> QED
    BY <1>7, <2>1, <2>2, <2>3 DEF Attached
<1>9. Sound(j, con)
  BY <1>7, <1>8 DEF Sound
<1>10. ASSUME NEW u, \E x \in d.views : d.sock[x].who = u
       PROVE  \E x \in views2 : n[x].who = u
  <2>1. PICK x \in d.views : d.sock[x].who = u
    BY <1>10
  <2>2. CASE x \in older
    BY <1>4, <1>5, <2>1, <2>2 DEF views2
  <2>3. CASE x \notin older
    <3>1. x \in views2 /\ x # w /\ x \in Sockets
      BY <1>1, <2>3, Consts DEF views2
    <3> QED
      BY <1>2, <1>5, <2>1, <3>1
  <2> QED
    BY <2>2, <2>3
<1>11. Held(d) => Held(j)
  BY <1>7, <1>10 DEF Held
<1> QED
  BY <1>7, <1>9, <1>11 DEF Detached

LEMMA AcceptViewerKeeps ==
  ASSUME ShareInv, NEW v \in Viewers, NEW w \in ViewerSockets, AcceptViewer(v, w)
  PROVE  ShareInv'
<1>1. sock[w] = Closed /\ UNCHANGED <<up, con, post, revoked, missed>>
  BY DEF AcceptViewer, OthersStay
<1>2. PICK d : /\ d = Advance(Relay)
               /\ IF d.rec.state \in Over
                  THEN Becomes(d)
                  ELSE Scheduling(BroadcastStatus(SendHost(Join(d, v, w), Snapshot)))
  BY DEF AcceptViewer
<1>3. Advanced(Relay, d) /\ Handled(d) /\ Watched(d)
  BY <1>1, <1>2, AdvanceRelay, AdvancedHandled DEF ShareInv
<1>4. CASE d.rec.state \in Over
  BY <1>2, <1>3, <1>4, BecomesKeeps
<1>5. CASE d.rec.state \notin Over
  <2>1. d.sock[w].st = "free"
    <3>1. Relay.sock[w].st = "free"
      BY <1>1 DEF Relay, Closed
    <3> QED
      BY <1>3, <3>1, Consts DEF Advanced, Shrinks
  <2>2. PICK j : j = Join(d, v, w)
    OBVIOUS
  <2>3. Sound(j, con) /\ Detached(j) /\ j.rec = d.rec /\ (Held(d) => Held(j))
    BY <1>3, <2>1, <2>2, JoinFields DEF Handled
  <2>4. PICK f : f = SendHost(j, Snapshot)
    OBVIOUS
  <2>5. Snapshot \in Downward /\ Snapshot.t # "input"
    BY Messages DEF Snapshot
  <2>6. Preserves(j, f)
    BY <2>3, <2>4, <2>5, SendHostPreserves
  <2>7. Detached(f) /\ Sound(f, con) /\ (~ missed' => Held(f))
    BY <1>3, <2>3, <2>6, PreservesDetached DEF Preserves, Handled
  <2>8. revoked' # "clean"
    BY <1>3, <1>5 DEF Handled
  <2>9. Handled(BroadcastStatus(f))
    BY <1>3, <2>7, <2>8, BroadcastHandled DEF Handled
  <2> QED
    BY <1>2, <1>5, <2>2, <2>4, <2>9, SchedulingKeeps
<1> QED
  BY <1>4, <1>5

(* A connector is greeted with the status and with a snapshot per viewer.   *)
LEMMA GreetFields ==
  ASSUME NEW d, Sound(d, con), con.sock = NoSocket, NEW h \in HostSockets,
         NEW g, g = Greet(d, h)
  PROVE  /\ Sound(g, con) /\ Vacant(g.rec) /\ g.rec.state = "active"
         /\ g.host = h /\ IsOpen(g, h)
         /\ g.down[h] \in Seq(Statuses \union {Snapshot})
<1> DEFINE s == Released(Dismissed(d.rec))
           r == [s EXCEPT !.due["host"] = "off", !.state = "active"]
           n == Cardinality(d.views)
           k == Shut(d, {d.host})
           c == [Closed EXCEPT !.st = "open"]
           k2 == [k EXCEPT ![h] = c]
           q == <<Status(r, n)>> \o [i \in 1..n |-> Snapshot]
           T == Statuses \union {Snapshot}
<1>1. d \in Relays /\ Attached(d) /\ d.views \subseteq ViewerSockets /\ d.rec \in Rec
  BY DEF Sound, Relays
<1>2. /\ k \in [Sockets -> Socket]
      /\ \A x \in Sockets :
           /\ k[x].who = d.sock[x].who
           /\ x = d.host /\ d.sock[x].st = "open" => k[x].st = "shut"
           /\ x # d.host \/ d.sock[x].st # "open" => k[x] = d.sock[x]
  BY <1>1, ShutFields
<1>3. s \in Rec /\ Vacant(s)
  BY <1>1, VacatedFields
<1> HIDE DEF s
<1>4. r \in Rec /\ r.state = "active" /\ r.ctl = s.ctl /\ r.pend = s.pend
  BY <1>3 DEF Rec, States, Deadlines
<1>5. g = [d EXCEPT !.rec = r, !.host = h, !.sock = k2, !.down[h] = q]
  BY DEF Greet, s
<1>6. c \in Socket /\ c.st = "open"
  BY DEF Socket, Closed
<1> HIDE DEF k, r, c
<1>7. /\ k2 \in [Sockets -> Socket] /\ k2[h] = c
      /\ \A x \in Sockets : x # h => k2[x] = k[x]
  BY <1>2, <1>6, Consts
<1> HIDE DEF k2
<1>8. n \in Nat
  BY <1>1, Consts, FS_Subset, FS_CardinalityType
<1>9. Status(r, n) \in T
  BY <1>1, <1>4, StatusFields
<1> HIDE DEF n
<1>10. q \in Seq(T)
  <2>1. [i \in 1..n |-> Snapshot] \in Seq(T)
    BY <1>8
  <2>2. <<Status(r, n)>> \in Seq(T)
    BY <1>9
  <2> HIDE DEF T
  <2> QED
    BY <2>1, <2>2
<1> HIDE DEF q
<1>11. T \subseteq Downward
  BY Messages
<1>12. q \in Seq(Downward)
  BY <1>10, <1>11
<1> DEFINE down2 == [d.down EXCEPT ![h] = q]
<1>13. /\ g \in Relays /\ g.rec = r /\ g.host = h /\ g.sock = k2 /\ g.views = d.views
       /\ g.down[h] = q
  <2>1. down2 \in [HostSockets -> Seq(Downward)] /\ down2[h] = q
    BY <1>1, <1>12 DEF Relays
  <2>2. g = [d EXCEPT !.rec = r, !.host = h, !.sock = k2, !.down = down2]
    BY <1>5
  <2> HIDE DEF down2
  <2>3. /\ g \in Relays /\ g.rec = r /\ g.host = h /\ g.sock = k2 /\ g.views = d.views
        /\ g.down = down2
    BY <1>1, <1>4, <1>7, <2>1, <2>2 DEF Relays
  <2> QED
    BY <2>1, <2>3
<1>14. Attached(g)
  <2>1. \A x \in ViewerSockets : k2[x] = d.sock[x]
    <3>1. \A x \in ViewerSockets : x # h /\ x # d.host /\ x \in Sockets
      BY <1>1, Consts DEF Relays
    <3> QED
      BY <1>2, <1>7, <3>1
  <2>2. ASSUME NEW x \in HostSockets, k2[x].st = "open", x # h
        PROVE  FALSE
    <3>1. k[x].st = "open" /\ x \in Sockets
      BY <1>7, <2>2, Consts
    <3>2. d.sock[x].st = "open" /\ x # d.host
      BY <1>2, <3>1
    <3> QED
      BY <1>1, <3>2 DEF Attached
  <2> QED
    BY <1>1, <1>13, <2>1, <2>2 DEF Attached
<1>15. Consistent(r) /\ Vacant(r)
  BY <1>3, <1>4 DEF Consistent, Vacant, Over
<1>16. Sound(g, con)
  BY <1>13, <1>14, <1>15, Consts DEF Sound
<1>17. IsOpen(g, h)
  BY <1>6, <1>7, <1>13, Consts DEF IsOpen
<1> QED
  BY <1>4, <1>10, <1>13, <1>15, <1>16, <1>17

LEMMA NoInputs ==
  ASSUME NEW q \in Seq(Statuses \union {Snapshot}), NEW c
  PROVE  InputsAreKnown(q, c)
<1>1. \A m \in Statuses \union {Snapshot} : m.t # "input"
  BY DEF Statuses, Snapshot
<1>2. \A i \in 1 .. Len(q) : q[i] \in Statuses \union {Snapshot}
  OBVIOUS
<1> QED
  BY <1>1, <1>2 DEF InputsAreKnown

LEMMA AcceptHostKeeps ==
  ASSUME ShareInv, NEW h \in HostSockets, AcceptHost(h)
  PROVE  ShareInv'
<1>1. con.sock = NoSocket /\ UNCHANGED <<post, revoked, missed>>
  BY DEF AcceptHost
<1>2. PICK d : /\ d = Advance(Relay)
               /\ IF d.rec.state \in Over
                  THEN Becomes(d) /\ UNCHANGED <<up, con>>
                  ELSE /\ Scheduling(Confirm(SendViewers(Greet(d, h)), h))
                       /\ con' = [con EXCEPT !.sock = h]
                       /\ up' = [up EXCEPT ![h] = <<>>]
  BY DEF AcceptHost
<1>3. Advanced(Relay, d)
  BY <1>2, AdvanceRelay
<1>4. CASE d.rec.state \in Over
  <2>1. Handled(d) /\ Watched(d) /\ Becomes(d)
    BY <1>1, <1>2, <1>3, <1>4, AdvancedHandled DEF ShareInv
  <2> QED
    BY <2>1, BecomesKeeps
<1>5. CASE d.rec.state \notin Over
  <2>1. PICK g : g = Greet(d, h)
    OBVIOUS
  <2>2. /\ Sound(g, con) /\ Vacant(g.rec) /\ g.rec.state = "active"
        /\ g.host = h /\ IsOpen(g, h) /\ g.down[h] \in Seq(Statuses \union {Snapshot})
    BY <1>1, <1>3, <2>1, GreetFields DEF Advanced
  <2>3. PICK f : f = SendViewers(g)
    OBVIOUS
  <2>4. Carries(g, f)
    BY <2>2, <2>3, SendViewersCarries
  <2>5. /\ Sound(f, con) /\ f.host = h /\ f.rec.state = "active" /\ Vacant(f.rec)
        /\ f.down = g.down
    <3>1. ~ Told(g, con)
      BY <1>1, <2>2, Consts DEF Told
    <3> QED
      BY <2>2, <2>4, <3>1 DEF Carries, Preserves, Tells, Vacant
  <2> DEFINE m == Status(f.rec, Cardinality(f.views))
             e == Confirm(f, h)
             q == Append(f.down[h], m)
             T == Statuses \union {Snapshot}
  <2>6. f \in Relays /\ f.rec \in Rec /\ f.views \in SUBSET ViewerSockets
    BY <2>5 DEF Sound, Relays
  <2>7. m \in Statuses /\ m \in Showing(f.views # {})
    BY <2>6, StatusFields
  <2>8. e = [f EXCEPT !.down[h] = q]
    BY DEF Confirm
  <2> HIDE DEF m, e
  <2>9. q \in Seq(T) /\ f.down[h] \in Seq(Downward)
    BY <2>2, <2>5, <2>6, <2>7 DEF Relays
  <2>10. q \in Seq(Downward) /\ m \in Downward
    BY <2>7, <2>9, Messages
  <2> HIDE DEF q
  <2>11. /\ e \in Relays /\ e.rec = f.rec /\ e.host = h /\ e.views = f.views
         /\ e.sock = f.sock /\ e.down[h] = q
    BY <2>5, <2>6, <2>8, <2>10 DEF Relays
  <2>12. PICK z : z = Schedule(e)
    OBVIOUS
  <2>13. z \in Relays /\ SameSockets(e, z) /\ z.rec = e.rec /\ Watched(z)
    BY <2>11, <2>12, ScheduleFields
  <2>14. Becomes(z) /\ con' = [con EXCEPT !.sock = h] /\ up' = [up EXCEPT ![h] = <<>>]
    BY <1>2, <1>5, <2>1, <2>3, <2>12 DEF Scheduling, e
  <2>15. Relay' = z
    BY <2>13, <2>14, RelayBecomes
  <2>16. /\ con' \in Con /\ con'.sock = h /\ con'.keys = con.keys
    BY <2>14 DEF ShareInv, Con
  <2>17. Sound(z, con')
    <3>1. InputsAreKnown(q, con')
      BY <2>9, NoInputs
    <3>2. \A x \in HostSockets : con'.sock = x => InputsAreKnown(z.down[x], con')
      BY <2>11, <2>13, <2>16, <3>1 DEF SameSockets
    <3>3. Attached(z) /\ Consistent(z.rec)
      BY <2>5, <2>11, <2>13 DEF SameSockets, Sound, Attached
    <3> QED
      BY <2>13, <3>2, <3>3 DEF Sound
  <2>18. Vacant(z.rec) /\ z.rec.state = "active" /\ z.host = h /\ z.views = f.views
         /\ z.down[h] = q
    BY <2>5, <2>11, <2>13 DEF SameSockets
  <2>19. ControlIsKnown(z, con') /\ Detached(z) /\ Held(z)
    BY <2>18 DEF ControlIsKnown, Detached, Held, Vacant, Over
  <2>20. WatchIsKnown(z, con')
    <3>1. Said(q, Len(q), Pictures, Showing(f.views # {}), con'.stream = (f.views # {}))
      BY <2>7, <2>9, <2>10, SaidNow DEF q
    <3> QED
      BY <2>18, <3>1 DEF WatchIsKnown
  <2>21. (Sound(Relay, con) /\ Watched(Relay) /\ Detached(Relay) /\ ControlIsKnown(Relay, con)
           /\ WatchIsKnown(Relay, con) /\ Held(Relay))'
    BY <2>13, <2>15, <2>17, <2>19, <2>20
  <2>22. up' \in [HostSockets -> Seq(Upward)]
    BY <2>14 DEF ShareInv
  <2>23. revoked' # "clean"
    BY <1>1, <1>3, <1>5 DEF Advanced, ShareInv, EndedStaysEnded, Relay
  <2> QED
    BY <1>1, <2>16, <2>21, <2>22, <2>23 DEF ShareInv, EndedStaysEnded
<1> QED
  BY <1>4, <1>5

(* A viewer's socket is forgotten, and what its viewer had.                 *)
LEMMA RemoveViewerFields ==
  ASSUME NEW d, Sound(d, con), Detached(d), NEW w \in ViewerSockets,
         d.sock[w].st # "open", NEW f, f = RemoveViewer(d, w)
  PROVE  /\ Sound(f, con) /\ Detached(f) /\ (Held(d) => Held(f))
         /\ f.sock = d.sock /\ w \notin f.views
         /\ d.rec.state \in Over => f.rec.state \in Over
<1> DEFINE v == d.sock[w].who
           r1 == IF w \in d.views /\ d.rec.ctl = v THEN Released(d.rec) ELSE d.rec
           r2 == IF w \in d.views /\ d.rec.pend = v THEN Dismissed(r1) ELSE r1
           e == [d EXCEPT !.views = @ \ {w}]
           u == Update(e, r2)
<1>1. d \in Relays /\ d.rec \in Rec /\ Consistent(d.rec) /\ Attached(d)
      /\ d.views \subseteq ViewerSockets
  BY DEF Sound, Relays
<1>2. r1 \in Rec /\ r1.state = d.rec.state /\ r1.due["host"] = d.rec.due["host"]
      /\ r1.pend = d.rec.pend /\ (r1.ctl # Nobody => r1.due["lease"] # "off")
      /\ r1.ctl = (IF w \in d.views /\ d.rec.ctl = v THEN Nobody ELSE d.rec.ctl)
  <2>1. "host" \in Deadlines /\ "host" # "lease"
    BY DEF Deadlines
  <2> QED
    BY <1>1, <2>1, ReleasedFields DEF Consistent
<1> HIDE DEF r1
<1>3. r2 \in Rec /\ r2.state = d.rec.state /\ r2.due["host"] = d.rec.due["host"]
      /\ r2.pend = (IF w \in d.views /\ d.rec.pend = v THEN Nobody ELSE d.rec.pend)
      /\ r2.ctl = (IF w \in d.views /\ d.rec.ctl = v THEN Nobody ELSE d.rec.ctl)
      /\ (r2.ctl # Nobody => r2.due["lease"] # "off")
  <2>1. "host" \in Deadlines /\ "host" # "pending" /\ "lease" \in Deadlines
        /\ "lease" # "pending"
    BY DEF Deadlines
  <2> QED
    BY <1>2, <2>1, DismissedFields
<1> HIDE DEF r2
<1>4. Consistent(r2)
  BY <1>1, <1>3 DEF Consistent
<1>5. /\ e \in Relays /\ e.rec = d.rec /\ e.host = d.host /\ e.sock = d.sock
      /\ e.down = d.down /\ e.alarm = d.alarm /\ e.views = d.views \ {w}
  BY <1>1 DEF Relays
<1> HIDE DEF e
<1>6. u \in Relays /\ SameSockets(e, u) /\ u.rec = r2
  BY <1>3, <1>5, UpdateFields
<1>7. f = IF r2 = d.rec THEN e ELSE IF r2.ctl = d.rec.ctl THEN u ELSE BroadcastStatus(u)
  <2>1. f = CASE r2 = d.rec -> e
              [] r2 # d.rec /\ r2.ctl = d.rec.ctl -> u
              [] r2.ctl # d.rec.ctl -> BroadcastStatus(u)
    BY DEF RemoveViewer, u, e, r2, r1
  <2> HIDE DEF u
  <2>2. CASE r2 = d.rec
    BY <2>1, <2>2
  <2>3. CASE r2 # d.rec /\ r2.ctl = d.rec.ctl
    BY <2>1, <2>3
  <2>4. CASE ~ (r2 = d.rec) /\ ~ (r2 # d.rec /\ r2.ctl = d.rec.ctl)
    BY <2>1, <2>4
  <2> QED
    BY <2>2, <2>3, <2>4
<1> HIDE DEF u
<1>8. ASSUME NEW x, x \in Relays, x.rec = r2, x.host = d.host, x.sock = d.sock,
             x.down = d.down, x.views = d.views \ {w}
      PROVE  Sound(x, con) /\ Detached(x) /\ (Held(d) => Held(x))
  <2>1. Attached(x)
    BY <1>1, <1>8 DEF Attached
  <2>2. Sound(x, con)
    BY <1>4, <1>8, <2>1 DEF Sound
  <2>3. Held(d) => Held(x)
    BY <1>3, <1>8 DEF Held
  <2> QED
    BY <1>3, <1>8, <2>2, <2>3 DEF Detached
<1>9. Sound(u, con) /\ Detached(u) /\ (Held(d) => Held(u))
  BY <1>5, <1>6, <1>8 DEF SameSockets
<1>10. CASE r2 = d.rec
  BY <1>5, <1>7, <1>8, <1>10
<1>11. CASE r2 # d.rec /\ r2.ctl = d.rec.ctl
  BY <1>3, <1>5, <1>6, <1>7, <1>9, <1>11 DEF SameSockets
<1>12. CASE r2 # d.rec /\ r2.ctl # d.rec.ctl
  <2>1. f = BroadcastStatus(u)
    BY <1>7, <1>12
  <2>2. Preserves(u, f)
    BY <1>9, <2>1, BroadcastTells
  <2>3. Detached(f) /\ (u.rec.state \in Over => f.rec.state \in Over)
    BY <1>9, <2>2, PreservesDetached
  <2>4. f.sock = u.sock /\ f.views \subseteq u.views
    BY <2>2 DEF Preserves, Tells
  <2> QED
    BY <1>3, <1>5, <1>6, <1>9, <2>2, <2>3, <2>4 DEF Preserves, SameSockets
<1> QED
  BY <1>10, <1>11, <1>12

(* A socket has closed.                                                     *)
Closing(d, s) == [d EXCEPT !.sock[s] = Closed]

LEMMA ClosedFields ==
  ASSUME NEW d, Sound(d, con), NEW s \in Sockets, s \notin d.views,
         NEW g, g = Closing(d, s)
  PROVE  /\ Sound(g, con) /\ g.rec = d.rec /\ g.host = d.host /\ g.views = d.views
         /\ g.down = d.down /\ g.alarm = d.alarm /\ g.sock[s] = Closed
         /\ \A x \in Sockets : x # s => g.sock[x] = d.sock[x]
         /\ Held(d) => Held(g)
<1>1. d \in Relays /\ Attached(d) /\ d.views \subseteq ViewerSockets
  BY DEF Sound, Relays
<1>2. Closed \in Socket /\ Closed.st = "free"
  BY DEF Closed, Socket
<1> DEFINE k == [d.sock EXCEPT ![s] = Closed]
<1>3. /\ k \in [Sockets -> Socket] /\ k[s] = Closed
      /\ \A x \in Sockets : x # s => k[x] = d.sock[x]
  BY <1>1, <1>2 DEF Relays
<1>4. g = [d EXCEPT !.sock = k]
  BY DEF Closing
<1> HIDE DEF k
<1>5. /\ g \in Relays /\ g.rec = d.rec /\ g.host = d.host /\ g.views = d.views
      /\ g.down = d.down /\ g.alarm = d.alarm /\ g.sock = k
  BY <1>1, <1>3, <1>4 DEF Relays
<1>6. Attached(g)
  <2>1. \A x \in d.views : x # s /\ x \in Sockets
    BY <1>1, Consts
  <2>2. \A x \in Sockets : k[x].st = "open" => d.sock[x].st = "open"
    BY <1>2, <1>3
  <2> QED
    BY <1>1, <1>3, <1>5, <2>1, <2>2, Consts DEF Attached
<1>7. Sound(g, con)
  BY <1>5, <1>6 DEF Sound
<1>8. Held(d) => Held(g)
  <2>1. \A x \in d.views : k[x] = d.sock[x]
    BY <1>1, <1>3, Consts
  <2> QED
    BY <1>5, <2>1 DEF Held
<1> QED
  BY <1>3, <1>5, <1>7, <1>8

LEMMA HandleCloseKeeps ==
  ASSUME ShareInv, NEW s \in Sockets, HandleClose(s)
  PROVE  ShareInv'
<1> DEFINE after == Closing(Relay, s)
           lost == Update([after EXCEPT !.host = NoSocket], HostLost(rec))
           e == RemoveViewer(Relay, s)
           left == Closing(e, s)
<1>1. /\ sock[s].st = "shut"
      /\ CASE s \in HostSockets /\ host = s -> Scheduling(BroadcastStatus(lost))
           [] s \in HostSockets /\ host # s -> Becomes(after)
           [] s \in ViewerSockets -> Scheduling(BroadcastStatus(left))
      /\ UNCHANGED <<up, con, post, revoked, missed>>
  BY Zenon DEF HandleClose, OthersStay, Closing
<1>2. /\ Sound(Relay, con) /\ Detached(Relay) /\ Watched(Relay)
      /\ ControlIsKnown(Relay, con) /\ WatchIsKnown(Relay, con)
      /\ ~ missed => Held(Relay)
      /\ revoked = "clean" => Relay.rec.state \in Over
  BY DEF ShareInv, EndedStaysEnded, Relay
<1>3. /\ Relay.rec = rec /\ Relay.host = host /\ Relay.sock = sock
      /\ Relay.views = views /\ views \subseteq ViewerSockets
  BY <1>2 DEF Sound, Relays, Relay
<1>4. /\ up' \in [HostSockets -> Seq(Upward)] /\ post' \in BOOLEAN /\ missed' \in BOOLEAN
      /\ revoked' \in {"no", "clean", "blind"} /\ UNCHANGED <<con, revoked, missed>>
  BY <1>1 DEF ShareInv
<1>5. ASSUME s \in HostSockets
      PROVE  /\ Sound(after, con) /\ after.rec = rec /\ after.host = host
             /\ after.views = views /\ after.down = Relay.down /\ after.alarm = Relay.alarm
             /\ after.sock[s] = Closed
             /\ \A x \in Sockets : x # s => after.sock[x] = sock[x]
             /\ Held(Relay) => Held(after)
  <2>1. s \notin Relay.views
    BY <1>3, <1>5, Consts
  <2> QED
    BY <1>2, <1>3, <2>1, ClosedFields
<1> HIDE DEF after, e
<1>6. CASE s \in HostSockets /\ host = s
  <2>1. ~ IsOpen(after, after.host) /\ after.host # NoSocket
    BY <1>5, <1>6, Consts DEF IsOpen, Closed
  <2>2. Carries(after, lost) /\ lost.host = NoSocket
    BY <1>5, <1>6, <2>1, HostLostCarries
  <2> HIDE DEF lost
  <2>3. Detached(lost) /\ Sound(lost, con) /\ (~ missed' => Held(lost))
    BY <1>2, <1>4, <1>5, <1>6, <2>2 DEF Carries, Preserves, Detached
  <2>4. revoked' # "clean"
    BY <1>2, <1>3, <1>4, <1>6, Consts DEF Detached
  <2>5. Handled(BroadcastStatus(lost))
    BY <1>4, <2>3, <2>4, BroadcastHandled
  <2>6. Scheduling(BroadcastStatus(lost))
    BY <1>1, <1>6, Consts
  <2> QED
    BY <2>5, <2>6, SchedulingKeeps
<1>7. CASE s \in HostSockets /\ host # s
  <2>1. Detached(after) /\ Watched(after) /\ ControlIsKnown(after, con)
    BY <1>2, <1>3, <1>5, <1>7 DEF Detached, Watched, ControlIsKnown, Told
  <2>2. WatchIsKnown(after, con)
    <3>1. \A w \in ViewerSockets : after.sock[w] = Relay.sock[w]
      BY <1>3, <1>5, <1>7, Consts
    <3> QED
      BY <1>2, <1>3, <1>5, <1>7, <3>1 DEF WatchIsKnown, Told
  <2>3. Handled(after)
    BY <1>2, <1>3, <1>4, <1>5, <1>7, <2>1, <2>2 DEF Handled
  <2>4. Becomes(after)
    BY <1>1, <1>7, Consts
  <2> QED
    BY <2>1, <2>3, <2>4, BecomesKeeps
<1>8. CASE s \in ViewerSockets
  <2>1. /\ Sound(e, con) /\ Detached(e) /\ (Held(Relay) => Held(e))
        /\ e.sock = sock /\ s \notin e.views
        /\ Relay.rec.state \in Over => e.rec.state \in Over
    BY <1>1, <1>2, <1>3, <1>8, RemoveViewerFields DEF e
  <2>2. /\ Sound(left, con) /\ left.rec = e.rec /\ left.host = e.host
        /\ Held(e) => Held(left)
    BY <2>1, ClosedFields
  <2> HIDE DEF left
  <2>3. Detached(left)
    BY <2>1, <2>2 DEF Detached
  <2>4. Handled(BroadcastStatus(left))
    BY <1>2, <1>4, <2>1, <2>2, <2>3, BroadcastHandled
  <2>5. Scheduling(BroadcastStatus(left))
    BY <1>1, <1>8, Consts
  <2> QED
    BY <2>4, <2>5, SchedulingKeeps
<1> QED
  BY <1>6, <1>7, <1>8 DEF Sockets

-----------------------------------------------------------------------------
(* A run of sharing is ended.                                               *)
LEMMA EndsKeeps ==
  ASSUME ShareInv, NEW d, Sound(d, con), Ends(d),
         host = NoSocket \/ sock[host].st = "open" =>
           d.host = NoSocket \/ IsOpen(d, d.host),
         UNCHANGED con, up' \in [HostSockets -> Seq(Upward)], post' \in BOOLEAN,
         missed' \in BOOLEAN
  PROVE  ShareInv'
<1> DEFINE stop == [d EXCEPT !.rec = EndSharing(@)]
           r == EndSharing(d.rec)
<1>1. d.rec \in Rec /\ Consistent(d.rec)
  BY DEF Sound, Relays
<1>2. r \in Rec /\ r.state = "ended" /\ Vacant(r) /\ Consistent(r)
  BY <1>1, CloseFields
<1>3. stop = [d EXCEPT !.rec = r]
  OBVIOUS
<1>4. /\ Scheduling(FinishSharing(stop))
      /\ revoked' = IF revoked = "blind" \/ (host # NoSocket /\ sock[host].st # "open")
                    THEN "blind" ELSE "clean"
  BY DEF Ends
<1> HIDE DEF r, stop
<1>5. Sound(stop, con) /\ SameSockets(d, stop) /\ stop.rec = r
  BY <1>2, <1>3, RecChanged DEF Vacant
<1>6. PICK f : f = FinishSharing(stop)
  OBVIOUS
<1>7. /\ Sound(f, con) /\ f.host = NoSocket
      /\ f.rec.ctl \in {stop.rec.ctl, Nobody} /\ f.rec.pend \in {stop.rec.pend, Nobody}
      /\ stop.host = NoSocket \/ IsOpen(stop, stop.host) => f.rec.state = stop.rec.state
  BY <1>5, <1>6, FinishSharingFields
<1>8. Held(f) /\ ControlIsKnown(f, con) /\ WatchIsKnown(f, con) /\ Detached(f)
  BY <1>2, <1>5, <1>7 DEF Held, Vacant, ControlIsKnown, WatchIsKnown, Told, Detached
<1>9. revoked' = "clean" => f.rec.state \in Over
  BY <1>2, <1>4, <1>5, <1>7 DEF SameSockets, IsOpen, Over
<1>10. revoked' \in {"no", "clean", "blind"}
  BY <1>4
<1>11. Handled(f)
  BY <1>7, <1>8, <1>9, <1>10 DEF Handled
<1> QED
  BY <1>4, <1>6, <1>11, SchedulingKeeps

LEMMA HandleEndKeeps ==
  ASSUME ShareInv, HandleEnd
  PROVE  ShareInv'
<1>1. Ends(Relay) /\ post' = FALSE /\ UNCHANGED <<up, con, missed>>
  BY DEF HandleEnd
<1>2. Sound(Relay, con) /\ up' \in [HostSockets -> Seq(Upward)] /\ missed' \in BOOLEAN
  BY <1>1 DEF ShareInv
<1>3. host = NoSocket \/ sock[host].st = "open" =>
        Relay.host = NoSocket \/ IsOpen(Relay, Relay.host)
  BY DEF Relay, IsOpen
<1> QED
  BY <1>1, <1>2, <1>3, EndsKeeps

-----------------------------------------------------------------------------
(* Messages.                                                                *)
LEMMA HeardHandled ==
  ASSUME ShareInv, NEW d, d = Heard, UNCHANGED <<con, post, missed, revoked>>,
         up' \in [HostSockets -> Seq(Upward)]
  PROVE  Handled(d) /\ Watched(d)
  BY HeardFields DEF Handled, ShareInv

LEMMA RecReplaced ==
  ASSUME NEW d, Sound(d, con), NEW r \in Rec, Consistent(r),
         NEW e, e = [d EXCEPT !.rec = r]
  PROVE  Sound(e, con) /\ SameSockets(d, e) /\ e.rec = r
<1>1. /\ e \in Relays /\ e.rec = r /\ e.host = d.host /\ e.views = d.views
      /\ e.sock = d.sock /\ e.down = d.down /\ e.alarm = d.alarm
  BY DEF Sound, Relays
<1> QED
  BY <1>1 DEF Sound, Attached, SameSockets

LEMMA GrantedFields ==
  ASSUME NEW r \in Rec
  PROVE  /\ Granted(r) \in Rec /\ Granted(r).state = r.state
         /\ Granted(r).ctl = r.pend /\ Granted(r).pend = Nobody
         /\ Granted(r).due["host"] = r.due["host"] /\ Granted(r).due["lease"] = "armed"
<1> DEFINE s == Dismissed(r)
           t == [s EXCEPT !.ctl = r.pend, !.due["lease"] = "armed"]
<1>1. /\ s \in Rec /\ s.state = r.state /\ s.pend = Nobody
      /\ s.due["host"] = r.due["host"]
  BY DismissedFields DEF Deadlines
<1>2. Granted(r) = t
  BY DEF Granted
<1> HIDE DEF s
<1>3. /\ t \in Rec /\ t.state = s.state /\ t.ctl = r.pend /\ t.pend = s.pend
      /\ t.due["host"] = s.due["host"] /\ t.due["lease"] = "armed"
  BY <1>1 DEF Rec, Deadlines
<1> QED
  BY <1>1, <1>2, <1>3

(* The owner's side answers a request for control.                          *)
LEMMA AnswerHandled ==
  ASSUME ShareInv, NEW d, Handled(d), d.rec.pend # Nobody,
         NEW r, r = Granted(d.rec) \/ r = Dismissed(d.rec),
         NEW e, e = [d EXCEPT !.rec = r]
  PROVE  Handled(BroadcastStatus(e))
<1>1. Sound(d, con) /\ d.rec \in Rec /\ Consistent(d.rec) /\ d.rec.state \notin Over
  BY DEF Handled, Sound, Relays, Consistent
<1>2. /\ r \in Rec /\ r.state = d.rec.state /\ r.due["host"] = d.rec.due["host"]
      /\ r.ctl \in {d.rec.ctl, d.rec.pend} /\ r.pend = Nobody
      /\ (r.ctl # Nobody => r.due["lease"] # "off")
  <2>1. CASE r = Granted(d.rec)
    BY <1>1, <2>1, GrantedFields
  <2>2. CASE r = Dismissed(d.rec)
    <3>1. "lease" \in Deadlines /\ "host" \in Deadlines /\ "lease" # "pending"
          /\ "host" # "pending"
      BY DEF Deadlines
    <3> QED
      BY <1>1, <2>2, <3>1, DismissedFields DEF Consistent
  <2> QED
    BY <2>1, <2>2
<1>3. Consistent(r)
  BY <1>1, <1>2 DEF Consistent, Over
<1>4. Sound(e, con) /\ SameSockets(d, e) /\ e.rec = r
  BY <1>1, <1>2, <1>3, RecReplaced
<1>5. Held(d) => Held(e)
  BY <1>2, <1>4 DEF Held, SameSockets
<1>6. Detached(e)
  BY <1>1, <1>2, <1>4 DEF Detached
<1> QED
  BY <1>1, <1>2, <1>4, <1>5, <1>6, BroadcastHandled DEF Handled

LEMMA HostMessageKeeps ==
  ASSUME ShareInv, NEW h \in HostSockets, HostMessage(h)
  PROVE  ShareInv'
<1>1. /\ up[h] # <<>> /\ sock[h].st = "open" /\ up' = [up EXCEPT ![h] = Tail(@)]
      /\ UNCHANGED <<con, post, missed>>
  BY DEF HostMessage
<1>2. up' \in [HostSockets -> Seq(Upward)] /\ post' \in BOOLEAN /\ missed' \in BOOLEAN
  <2>1. up \in [HostSockets -> Seq(Upward)]
    BY DEF ShareInv
  <2>2. Tail(up[h]) \in Seq(Upward)
    BY <1>1, <2>1
  <2> QED
    BY <1>1, <2>1, <2>2 DEF ShareInv
<1>3. PICK d : d = Heard
  OBVIOUS
<1>4. PICK m : m = Head(up[h])
  OBVIOUS
<1>5. /\ Sound(d, con) /\ Detached(d) /\ Watched(d)
      /\ d.host # NoSocket => d.host = host /\ d.sock = sock
  BY <1>3, HeardFields
<1> DEFINE gone == d.rec.state = "closed" \/ d.host # h
           other(r) == BroadcastStatus([d EXCEPT !.rec = r])
<1>6. UNCHANGED revoked => Handled(d)
  BY <1>1, <1>2, <1>3, HeardHandled
<1>7. CASE gone
  <2>1. Becomes(d) /\ UNCHANGED revoked
    BY <1>3, <1>4, <1>7, Zenon DEF HostMessage
  <2> QED
    BY <1>5, <1>6, <2>1, BecomesKeeps
<1>8. CASE ~ gone /\ m.t = "end"
  <2> DEFINE r == EndSharing(d.rec)
             b == [d EXCEPT !.rec = r]
             x == SendHost(b, Ended)
  <2>1. Ends(x)
    BY <1>3, <1>4, <1>8, Zenon DEF HostMessage
  <2>2. r \in Rec /\ Consistent(r)
    BY <1>5, CloseFields DEF Sound, Relays
  <2> HIDE DEF r
  <2>3. Sound(b, con) /\ SameSockets(d, b)
    BY <1>5, <2>2, RecReplaced
  <2> HIDE DEF b
  <2>4. Preserves(b, x)
    BY <2>3, Messages, SendHostPreserves
  <2> HIDE DEF x
  <2>5. d.host = h /\ h # NoSocket
    BY <1>8, Consts
  <2>6. IsOpen(b, b.host)
    BY <1>1, <1>5, <2>3, <2>5 DEF SameSockets, IsOpen
  <2>7. IsOpen(x, x.host)
    BY <2>4, <2>6 DEF Preserves, Tells, IsOpen
  <2> QED
    BY <1>1, <1>2, <2>1, <2>4, <2>7, EndsKeeps DEF Preserves
<1>9. CASE ~ gone /\ m.t = "output"
  <2>1. Becomes(SendViewers(d)) /\ UNCHANGED revoked
    BY <1>3, <1>4, <1>9, Zenon DEF HostMessage
  <2>2. Handled(d)
    BY <1>6, <2>1
  <2>3. PICK f : f = SendViewers(d)
    OBVIOUS
  <2>4. Carries(d, f)
    BY <1>5, <2>3, SendViewersCarries
  <2>5. Detached(f) /\ (d.rec.state \in Over => f.rec.state \in Over)
    BY <1>5, <2>4, PreservesDetached DEF Carries
  <2>6. Handled(f) /\ Watched(f)
    BY <1>5, <2>2, <2>4, <2>5 DEF Handled, Carries, Preserves
  <2> QED
    BY <2>1, <2>3, <2>6, BecomesKeeps
<1>10. CASE ~ gone /\ m.t \in {"approve", "reject"}
  <2> DEFINE r == IF m.t = "approve" THEN Granted(d.rec) ELSE Dismissed(d.rec)
  <2>1. /\ UNCHANGED revoked
        /\ IF d.rec.pend = Nobody \/ d.rec.pend # m.from
           THEN Becomes(d)
           ELSE Scheduling(other(r))
    BY <1>3, <1>4, <1>10, Zenon DEF HostMessage
  <2>2. Handled(d)
    BY <1>6, <2>1
  <2>3. CASE d.rec.pend = Nobody \/ d.rec.pend # m.from
    BY <1>5, <2>1, <2>2, <2>3, BecomesKeeps
  <2>4. CASE ~ (d.rec.pend = Nobody \/ d.rec.pend # m.from)
    <3>1. r = Granted(d.rec) \/ r = Dismissed(d.rec)
      OBVIOUS
    <3>2. Scheduling(other(r))
      BY <2>1, <2>4
    <3> HIDE DEF r
    <3>3. Handled(other(r))
      BY <2>2, <2>4, <3>1, AnswerHandled
    <3> QED
      BY <3>2, <3>3, SchedulingKeeps
  <2> QED
    BY <2>3, <2>4
<1>11. m.t \in {"end", "output", "approve", "reject"}
  <2>1. up[h] \in Seq(Upward)
    BY DEF ShareInv
  <2>2. m \in Upward
    BY <1>1, <1>4, <2>1
  <2> QED
    BY <2>2 DEF Upward
<1> QED
  BY <1>7, <1>8, <1>9, <1>10, <1>11

(* A viewer asks for control.                                               *)
Asking(d, v) == [d EXCEPT !.rec.pend = v, !.rec.due["pending"] = "armed"]

LEMMA AskHandled ==
  ASSUME ShareInv, NEW d, Handled(d), NEW w \in d.views, NEW v \in Viewers,
         d.sock[w].who = v, d.host # NoSocket, d.rec.ctl = Nobody,
         NEW e, e = Asking(d, v)
  PROVE  Handled(BroadcastStatus(SendHost(e, Asks(v))))
<1> DEFINE r == [d.rec EXCEPT !.pend = v, !.due["pending"] = "armed"]
           f == SendHost(e, Asks(v))
<1>1. /\ Sound(d, con) /\ d.rec \in Rec /\ Consistent(d.rec) /\ d.rec.state \notin Over
      /\ d \in Relays
  BY DEF Handled, Sound, Relays, Detached
<1>2. /\ r \in Rec /\ r.state = d.rec.state /\ r.ctl = d.rec.ctl /\ r.pend = v
  BY <1>1 DEF Rec, Deadlines
<1>3. e = [d EXCEPT !.rec = r]
  BY <1>1 DEF Relays, Rec, Asking
<1> HIDE DEF r
<1>4. Consistent(r)
  BY <1>1, <1>2 DEF Consistent, Over
<1>5. Sound(e, con) /\ SameSockets(d, e) /\ e.rec = r
  BY <1>1, <1>2, <1>3, <1>4, RecReplaced
<1>6. Held(e)
  BY <1>2, <1>5 DEF Held, SameSockets
<1>7. Detached(e)
  BY <1>1, <1>2, <1>5 DEF Detached
<1>8. Asks(v) \in Downward /\ Asks(v).t # "input"
  BY Messages
<1>9. Preserves(e, f)
  BY <1>5, <1>8, SendHostPreserves
<1> HIDE DEF f
<1>10. Sound(f, con) /\ Held(f) /\ Detached(f)
  BY <1>6, <1>7, <1>9, PreservesDetached DEF Preserves
<1>11. revoked' # "clean"
  BY <1>1 DEF Handled
<1>12. Handled(BroadcastStatus(f))
  BY <1>10, <1>11, BroadcastHandled DEF Handled
<1> QED
  BY <1>12 DEF f

LEMMA ViewerMessageKeeps ==
  ASSUME ShareInv, NEW w \in ViewerSockets, ViewerMessage(w)
  PROVE  ShareInv'
<1>1. UNCHANGED <<up, con, post, revoked, missed>>
  BY DEF ViewerMessage, OthersStay
<1>2. up' \in [HostSockets -> Seq(Upward)]
  BY <1>1 DEF ShareInv
<1> DEFINE v == sock[w].who
           quiet(d) == Becomes(d)
           types(d) == Scheduling(SendHost(d, Input(v)))
           release(d) == Scheduling(BroadcastStatus([d EXCEPT !.rec = Released(@)]))
           told(d) == Becomes(BroadcastStatus(d))
           asks(d) == Scheduling(BroadcastStatus(SendHost(Asking(d, v), Asks(v))))
           barred(d) == ~ AllowControl \/ d.host = NoSocket \/ d.rec.ctl # Nobody
                          \/ d.rec.pend # Nobody
<1>3. PICK d : /\ d = Heard
               /\ \/ (d.rec.state = "closed" \/ w \notin d.views) /\ quiet(d)
                  \/ (/\ d.rec.state # "closed" /\ w \in d.views
                      /\ \/ (IF CanWrite(d, w) THEN types(d) ELSE quiet(d))
                         \/ (IF CanWrite(d, w) THEN release(d) ELSE quiet(d))
                         \/ (IF barred(d) THEN told(d) ELSE asks(d)))
  BY Zenon DEF ViewerMessage, Asking
<1>4. Handled(d) /\ Watched(d) /\ Shrinks(Relay, d)
  BY <1>1, <1>2, <1>3, HeardFields, HeardHandled
<1>5. Sound(d, con) /\ Detached(d) /\ ControlIsKnown(d, con)
      /\ d.rec \in Rec /\ Consistent(d.rec) /\ Attached(d) /\ d \in Relays
  BY <1>4 DEF Handled, Sound, Relays
<1>6. w \in d.views => d.sock[w].who = v /\ v \in Viewers
  <2>1. Relay.sock[w].who = v
    BY DEF Relay
  <2> QED
    BY <1>4, <1>5, <2>1, Consts DEF Shrinks, Attached
<1>7. CASE quiet(d)
  BY <1>4, <1>7, BecomesKeeps
<1>8. CASE w \in d.views /\ CanWrite(d, w) /\ types(d)
  <2>1. d.rec.ctl = v /\ v # Nobody /\ v \in Viewers
    BY <1>6, <1>8, Consts DEF CanWrite
  <2>2. Told(d, con) => Said(d.down[d.host], Len(d.down[d.host]), Statuses, Naming(v),
                             con.ctl = v)
    BY <1>5, <2>1 DEF ControlIsKnown
  <2>3. PICK f : f = SendHost(d, Input(v))
    OBVIOUS
  <2>4. Carries(d, f)
    <3>1. Input(v) \in Downward /\ Input(v) \notin Pictures /\ Input(v).from = v
      BY <2>1, Messages
    <3> QED
      BY <1>5, <2>2, <2>3, <3>1, SendHostCarries
  <2>5. Detached(f) /\ (d.rec.state \in Over => f.rec.state \in Over)
    BY <1>5, <2>4, PreservesDetached DEF Carries
  <2>6. Handled(f)
    BY <1>4, <2>4, <2>5 DEF Handled, Carries, Preserves
  <2> QED
    BY <1>8, <2>3, <2>6, SchedulingKeeps
<1>9. CASE release(d)
  <2>1. PICK e : e = [d EXCEPT !.rec = Released(d.rec)]
    OBVIOUS
  <2> DEFINE r == Released(d.rec)
  <2>2. /\ r \in Rec /\ r.state = d.rec.state /\ r.ctl = Nobody /\ r.pend = d.rec.pend
        /\ r.due["host"] = d.rec.due["host"]
    BY <1>5, ReleasedFields DEF Deadlines
  <2> HIDE DEF r
  <2>3. Consistent(r)
    BY <1>5, <2>2 DEF Consistent
  <2>4. Sound(e, con) /\ e.rec = r /\ SameSockets(d, e) /\ (Held(d) => Held(e))
    BY <1>5, <2>1, <2>2, <2>3, RecChanged DEF r
  <2>5. Detached(e)
    BY <1>5, <2>2, <2>4 DEF Detached, SameSockets
  <2>6. Handled(BroadcastStatus(e))
    BY <1>4, <2>2, <2>4, <2>5, BroadcastHandled DEF Handled
  <2>7. Scheduling(BroadcastStatus(e))
    BY <1>9, <2>1
  <2> QED
    BY <2>6, <2>7, SchedulingKeeps
<1>10. CASE told(d)
  <2>1. Handled(BroadcastStatus(d)) /\ Watched(BroadcastStatus(d))
    BY <1>4, BroadcastHandled DEF Handled
  <2> QED
    BY <1>10, <2>1, BecomesKeeps
<1>11. CASE w \in d.views /\ ~ barred(d) /\ asks(d)
  <2>1. d.sock[w].who = v /\ v \in Viewers /\ d.host # NoSocket /\ d.rec.ctl = Nobody
    BY <1>6, <1>11
  <2>2. PICK e : e = Asking(d, v)
    OBVIOUS
  <2>3. Handled(BroadcastStatus(SendHost(e, Asks(v))))
    BY <1>4, <1>11, <2>1, <2>2, AskHandled
  <2>4. Scheduling(BroadcastStatus(SendHost(e, Asks(v))))
    BY <1>11, <2>2
  <2> QED
    BY <2>3, <2>4, SchedulingKeeps
<1> HIDE DEF quiet, types, release, told, asks, barred
<1> QED
  BY <1>3, <1>7, <1>8, <1>9, <1>10, <1>11

-----------------------------------------------------------------------------
(* The relay wakes with the sockets that are open.                          *)
Woken(d, h, S) == [d EXCEPT !.host = h, !.views = S]

LEMMA WokenFields ==
  ASSUME NEW d, Sound(d, con), NEW h, NEW S \in SUBSET d.views,
         h \in HostSockets => d.sock[h].st = "open",
         h \notin HostSockets => h = NoSocket /\ \A x \in HostSockets : d.sock[x].st # "open",
         \A w \in ViewerSockets : w \in S <=> d.sock[w].st = "open",
         NEW e, e = Woken(d, h, S)
  PROVE  /\ Sound(e, con) /\ h \in {d.host, NoSocket}
         /\ e.rec = d.rec /\ e.host = h /\ e.sock = d.sock /\ e.alarm = d.alarm
         /\ e.views = S
         /\ ControlIsKnown(d, con) => ControlIsKnown(e, con)
         /\ WatchIsKnown(d, con) => WatchIsKnown(e, con)
<1>1. d \in Relays /\ Attached(d) /\ d.views \subseteq ViewerSockets
  BY DEF Sound, Relays
<1>2. h \in HostSockets \union {NoSocket} /\ h \in {d.host, NoSocket}
  BY <1>1 DEF Attached
<1>3. /\ e \in Relays /\ e.rec = d.rec /\ e.host = h /\ e.sock = d.sock
      /\ e.views = S /\ e.down = d.down /\ e.alarm = d.alarm
  BY <1>1, <1>2 DEF Relays, Woken
<1>4. Attached(e)
  BY <1>1, <1>2, <1>3, Consts DEF Attached
<1>5. Sound(e, con)
  BY <1>3, <1>4 DEF Sound
<1>6. ControlIsKnown(d, con) => ControlIsKnown(e, con)
  BY <1>2, <1>3 DEF ControlIsKnown, Told
<1>7. ASSUME \A w \in ViewerSockets : d.sock[w].st # "shut"
      PROVE  S = d.views
  <2>1. \A w \in d.views : d.sock[w].st \in {"free", "open", "shut"}
    BY <1>1, Consts DEF Relays, Socket
  <2> QED
    BY <1>1, <1>7, <2>1 DEF Attached
<1>8. WatchIsKnown(d, con) => WatchIsKnown(e, con)
  BY <1>2, <1>3, <1>7 DEF WatchIsKnown, Told
<1> QED
  BY <1>2, <1>3, <1>5, <1>6, <1>8

LEMMA WakeKeeps ==
  ASSUME ShareInv, Wake
  PROVE  ShareInv'
<1> DEFINE open == {s \in Sockets : sock[s].st = "open"}
           h == IF open \intersect HostSockets = {} THEN NoSocket
                ELSE CHOOSE s \in open \intersect HostSockets : TRUE
           d == [Relay EXCEPT !.host = h, !.views = open \intersect ViewerSockets]
           s0 == Released(Dismissed(rec))
           kept == [rec EXCEPT !.due["host"] = "off", !.state = "active"]
           lost == [s0 EXCEPT !.due["host"] = IF @ = "off" THEN "armed" ELSE @,
                              !.state = "ready"]
           r == IF h # NoSocket THEN kept
                ELSE IF rec.state # "active" THEN rec ELSE lost
           held == {rec.ctl, rec.pend} \ {Nobody}
           x == IF r = rec THEN d ELSE Update(d, r)
<1>1. /\ IF rec.state \in Over THEN Becomes(Finish(d)) ELSE Becomes(x)
      /\ missed' = (missed \/ \E v \in held : \A w \in d.views : sock[w].who # v)
      /\ UNCHANGED <<up, con, post, revoked>>
  <2>1. /\ IF rec.state \in Over THEN Becomes(Finish(d))
           ELSE Becomes(IF r = rec THEN d ELSE Update(d, r))
        /\ missed' = (missed \/ \E v \in held : \A w \in d.views : sock[w].who # v)
        /\ UNCHANGED <<up, con, post, revoked>>
    BY Zenon DEF Wake
  <2> QED
    BY <2>1
<1>2. /\ Sound(Relay, con) /\ Detached(Relay) /\ Watched(Relay)
      /\ ControlIsKnown(Relay, con) /\ WatchIsKnown(Relay, con)
      /\ Relay.rec = rec /\ Relay.host = host /\ Relay.sock = sock /\ Relay.views = views
      /\ Relay.alarm = alarm
      /\ revoked = "clean" => rec.state \in Over
      /\ missed \in BOOLEAN
  BY DEF ShareInv, EndedStaysEnded, Relay
<1>3. rec \in Rec /\ Consistent(rec) /\ views \subseteq ViewerSockets /\ Attached(Relay)
  BY <1>2 DEF Sound, Relays
<1> DEFINE S == open \intersect ViewerSockets
<1>4. S = {w \in ViewerSockets : sock[w].st = "open"} /\ S \subseteq views
  BY <1>2, <1>3, Consts DEF Attached
<1>5. /\ h \in HostSockets => sock[h].st = "open"
      /\ h \notin HostSockets => h = NoSocket /\ \A y \in HostSockets : sock[y].st # "open"
  BY Consts
<1> HIDE DEF h
<1>6. d = Woken(Relay, h, S)
  BY DEF Woken
<1> HIDE DEF S, d
<1>7. /\ Sound(d, con) /\ h \in {host, NoSocket}
      /\ d.rec = rec /\ d.host = h /\ d.sock = sock /\ d.alarm = alarm /\ d.views = S
      /\ ControlIsKnown(d, con) /\ WatchIsKnown(d, con)
  <2>1. /\ S \in SUBSET Relay.views
        /\ h \in HostSockets => Relay.sock[h].st = "open"
        /\ h \notin HostSockets =>
             h = NoSocket /\ \A y \in HostSockets : Relay.sock[y].st # "open"
        /\ \A w \in ViewerSockets : w \in S <=> Relay.sock[w].st = "open"
    BY <1>2, <1>4, <1>5
  <2>2. /\ Sound(d, con) /\ h \in {Relay.host, NoSocket}
        /\ d.rec = Relay.rec /\ d.host = h /\ d.sock = Relay.sock /\ d.alarm = Relay.alarm
        /\ d.views = S
        /\ ControlIsKnown(Relay, con) => ControlIsKnown(d, con)
        /\ WatchIsKnown(Relay, con) => WatchIsKnown(d, con)
    BY <1>2, <1>6, <2>1, WokenFields
  <2> QED
    BY <1>2, <2>2
<1>8. Watched(d)
  BY <1>2, <1>7 DEF Watched
<1>9. /\ missed' \in BOOLEAN
      /\ ~ missed' => Held(d)
  BY <1>1, <1>2, <1>7 DEF Held
<1>10. /\ up' \in [HostSockets -> Seq(Upward)] /\ post' \in BOOLEAN
       /\ revoked' \in {"no", "clean", "blind"} /\ UNCHANGED <<con, revoked>>
  BY <1>1 DEF ShareInv
<1>11. CASE rec.state \in Over
  <2>1. PICK f : f = Finish(d)
    OBVIOUS
  <2>2. h = NoSocket
    BY <1>2, <1>7, <1>11 DEF Detached
  <2>3. /\ Sound(f, con) /\ f.host = NoSocket /\ Vacant(f.rec) /\ Watched(f)
        /\ f.rec.state = rec.state
    BY <1>7, <1>8, <1>11, <2>1, <2>2, FinishFields
  <2>4. Held(f) /\ ControlIsKnown(f, con) /\ WatchIsKnown(f, con) /\ Detached(f)
    BY <2>3 DEF Held, ControlIsKnown, WatchIsKnown, Told, Detached, Vacant
  <2>5. Handled(f)
    BY <1>9, <1>10, <1>11, <2>3, <2>4 DEF Handled
  <2> QED
    BY <1>1, <1>11, <2>1, <2>3, <2>5, BecomesKeeps
<1>12. CASE rec.state \notin Over
  <2>1. /\ kept \in Rec /\ kept.state = "active" /\ kept.ctl = rec.ctl
        /\ kept.pend = rec.pend /\ kept.due["lease"] = rec.due["lease"]
    BY <1>3 DEF Rec, States, Deadlines
  <2>2. lost \in Rec /\ lost.state = "ready" /\ Vacant(lost)
    <3>1. s0 \in Rec /\ Vacant(s0)
      BY <1>3, VacatedFields
    <3> DEFINE y == IF s0.due["host"] = "off" THEN "armed" ELSE s0.due["host"]
    <3> HIDE DEF s0
    <3>2. y \in {"off", "armed", "due"}
      BY <3>1 DEF Rec, Deadlines
    <3>3. lost = [s0 EXCEPT !.due["host"] = y, !.state = "ready"]
      BY <3>1 DEF Rec, Deadlines
    <3> HIDE DEF lost, y
    <3> QED
      BY <3>1, <3>2, <3>3 DEF Rec, States, Deadlines, Vacant
  <2> HIDE DEF kept, lost
  <2>3. /\ r \in Rec /\ r.state \notin Over /\ Consistent(r)
        /\ r.ctl \in {rec.ctl, Nobody} /\ r.pend \in {rec.pend, Nobody}
    BY <1>3, <1>12, <2>1, <2>2 DEF Consistent, Vacant, Over
  <2> HIDE DEF r
  <2>4. d \in Relays
    BY <1>7 DEF Sound
  <2>5. x \in Relays /\ SameSockets(d, x) /\ x.rec = r /\ Watched(x)
    <3>1. CASE r = rec
      BY <1>7, <1>8, <2>4, <3>1 DEF SameSockets
    <3>2. CASE r # rec
      BY <2>3, <2>4, <3>2, UpdateFields
    <3> QED
      BY <3>1, <3>2
  <2>6. Becomes(x)
    BY <1>1, <1>12
  <2> HIDE DEF x
  <2>7. Sound(x, con) /\ Detached(x)
    BY <1>7, <2>3, <2>5 DEF Sound, Attached, SameSockets, Detached
  <2>8. ~ missed' => Held(x)
    BY <1>7, <1>9, <2>3, <2>5 DEF Held, SameSockets
  <2>9. ControlIsKnown(x, con)
    BY <1>7, <2>3, <2>5 DEF ControlIsKnown, Told, SameSockets
  <2>10. WatchIsKnown(x, con)
    BY <1>7, <2>5 DEF WatchIsKnown, Told, SameSockets
  <2>11. revoked' # "clean"
    BY <1>2, <1>10, <1>12
  <2>12. Handled(x)
    BY <1>9, <1>10, <2>7, <2>8, <2>9, <2>10, <2>11 DEF Handled
  <2> QED
    BY <2>5, <2>6, <2>12, BecomesKeeps
<1> QED
  BY <1>11, <1>12

-----------------------------------------------------------------------------
(* The connector.                                                           *)
KeysAreNamed(c) == \A i \in 1 .. Len(c.keys) : c.keys[i].as = c.keys[i].from

LEMMA ConnectorKeeps ==
  ASSUME ShareInv, ConnectorStays, down' \in [HostSockets -> Seq(Downward)], con' \in Con,
         up' \in [HostSockets -> Seq(Upward)], post' \in BOOLEAN, KeysAreNamed(con'),
         \A h \in HostSockets : con'.sock = h => InputsAreKnown(down'[h], con'),
         ControlIsKnown(Relay, con)', WatchIsKnown(Relay, con)'
  PROVE  ShareInv'
<1>1. UNCHANGED <<rec, host, views, sock, alarm, revoked, missed>>
  BY DEF ConnectorStays, relayVars
<1> DEFINE d == Relay'
<1>2. /\ d.rec = rec /\ d.host = host /\ d.views = views /\ d.sock = sock
      /\ d.alarm = alarm /\ d.down = down'
  BY <1>1 DEF Relay
<1>3. /\ Relay \in Relays /\ Consistent(rec) /\ Attached(Relay) /\ Watched(Relay)
      /\ Detached(Relay) /\ (~ missed => Held(Relay))
      /\ Relay.rec = rec
  BY DEF ShareInv, Sound, Relay
<1>4. d \in Relays
  <2>1. d = [rec |-> rec, host |-> host, views |-> views, sock |-> sock, down |-> down',
             alarm |-> alarm]
    BY <1>1 DEF Relay
  <2>2. /\ rec \in Rec /\ host \in HostSockets \union {NoSocket}
        /\ views \in SUBSET ViewerSockets /\ sock \in [Sockets -> Socket]
        /\ alarm \in SUBSET Deadlines
    BY <1>3 DEF Relays, Relay
  <2> HIDE DEF d
  <2> QED
    BY <2>1, <2>2 DEF Relays
<1>5. /\ Relay.host = host /\ Relay.views = views /\ Relay.sock = sock
      /\ Relay.alarm = alarm
  BY DEF Relay
<1> HIDE DEF d
<1>6. Attached(d) /\ Watched(d) /\ Detached(d) /\ (~ missed => Held(d))
  BY <1>2, <1>3, <1>5 DEF Attached, Watched, Detached, Held
<1>7. Sound(d, con')
  BY <1>2, <1>3, <1>4, <1>6 DEF Sound
<1>8. (Sound(Relay, con) /\ Watched(Relay) /\ Detached(Relay) /\ (~ missed => Held(Relay)))'
  BY <1>1, <1>6, <1>7 DEF d
<1>9. EndedStaysEnded'
  BY <1>1 DEF ShareInv, EndedStaysEnded
<1>10. (revoked \in {"no", "clean", "blind"} /\ missed \in BOOLEAN)'
  BY <1>1 DEF ShareInv
<1>11. (\A i \in 1 .. Len(con.keys) : con.keys[i].as = con.keys[i].from)'
  BY DEF KeysAreNamed
<1> QED
  BY <1>8, <1>9, <1>10, <1>11 DEF ShareInv

(* Nothing is said to a connector that has no socket.                       *)
LEMMA HangsUpKeeps ==
  ASSUME ShareInv, ConnectorStays, Unread(con.sock), con' \in Con, con'.sock = NoSocket,
         con'.keys = con.keys, up' \in [HostSockets -> Seq(Upward)], post' \in BOOLEAN
  PROVE  ShareInv'
<1>1. down \in [HostSockets -> Seq(Downward)] /\ con.sock \in HostSockets \union {NoSocket}
  BY DEF ShareInv, Sound, Relays, Relay, Con
<1>2. down' \in [HostSockets -> Seq(Downward)]
  <2>1. <<>> \in Seq(Downward)
    OBVIOUS
  <2> QED
    BY <1>1, <2>1 DEF Unread
<1>3. \A h \in HostSockets : con'.sock # h
  BY Consts
<1>4. KeysAreNamed(con')
  BY DEF ShareInv, KeysAreNamed
<1>5. ~ Told(Relay, con)'
  BY DEF Told
<1>6. ControlIsKnown(Relay, con)' /\ WatchIsKnown(Relay, con)'
  BY <1>5 DEF ControlIsKnown, WatchIsKnown
<1> QED
  BY <1>2, <1>3, <1>4, <1>6, ConnectorKeeps

(* The connector's socket stays, and nothing is read from it.               *)
LEMMA KeepsOn ==
  ASSUME ShareInv, ConnectorStays, UNCHANGED down, con' \in Con, con'.sock = con.sock,
         con'.ctl = con.ctl, con'.stream = con.stream, KeysAreNamed(con'),
         up' \in [HostSockets -> Seq(Upward)], post' \in BOOLEAN
  PROVE  ShareInv'
<1>1. down \in [HostSockets -> Seq(Downward)]
  BY DEF ShareInv, Sound, Relays, Relay
<1>2. Relay' = Relay
  BY DEF ConnectorStays, relayVars, Relay
<1>3. \A h \in HostSockets : con'.sock = h => InputsAreKnown(down'[h], con')
  BY DEF ShareInv, Sound, InputsAreKnown, Relay
<1>4. ControlIsKnown(Relay, con)'
  <2>1. ControlIsKnown(Relay, con')
    BY DEF ShareInv, ControlIsKnown, Told
  <2> QED
    BY <1>2, <2>1
<1>5. WatchIsKnown(Relay, con)'
  <2>1. WatchIsKnown(Relay, con')
    BY DEF ShareInv, WatchIsKnown, Told
  <2> QED
    BY <1>2, <2>1
<1> QED
  BY <1>1, <1>3, <1>4, <1>5, ConnectorKeeps

(* One message is read.                                                     *)
LEMMA ReadKeeps ==
  ASSUME ShareInv, ConnectorStays, NEW h \in HostSockets, con.sock = h, down[h] # <<>>,
         down' = [down EXCEPT ![h] = Tail(@)], con' \in Con, con'.sock = h,
         up' \in [HostSockets -> Seq(Upward)], post' \in BOOLEAN, KeysAreNamed(con'),
         NEW m, m = down[h][1],
         m \in Statuses => con'.ctl = m.ctl,
         m \notin Statuses => con'.ctl = con.ctl,
         m \notin Pictures => con'.stream = con.stream,
         m \in Pictures => con'.stream = IF m.t = "status" THEN m.n > 0 ELSE TRUE
  PROVE  ShareInv'
<1> DEFINE q == down[h]
           n == Len(q) - 1
           on == views # {}
<1>1. down \in [HostSockets -> Seq(Downward)] /\ q \in Seq(Downward) /\ q # <<>>
  BY DEF ShareInv, Sound, Relays, Relay
<1>2. down'[h] = Tail(q) /\ down' \in [HostSockets -> Seq(Downward)]
  BY <1>1
<1>3. n \in Nat /\ n < Len(q) /\ n + 1 = Len(q) /\ Len(Tail(q)) = n
  BY <1>1
<1>4. UNCHANGED <<rec, host, views, sock>>
  BY DEF ConnectorStays, relayVars
<1>5. /\ InputsAreKnown(q, con)
      /\ host = h /\ rec.ctl # Nobody =>
           Said(q, n + 1, Statuses, Naming(rec.ctl), con.ctl = rec.ctl)
      /\ host = h /\ (\A w \in ViewerSockets : sock[w].st # "shut") =>
           Said(q, n + 1, Pictures, Showing(on), con.stream = on)
  <2>1. Sound(Relay, con) /\ ControlIsKnown(Relay, con) /\ WatchIsKnown(Relay, con)
    BY DEF ShareInv
  <2>2. /\ Relay.down = down /\ Relay.rec = rec /\ Relay.host = host /\ Relay.sock = sock
        /\ Relay.views = views
    BY DEF Relay
  <2>3. host = h => Told(Relay, con)
    BY <2>2, Consts DEF Told
  <2>4. InputsAreKnown(q, con)
    BY <2>1, <2>2 DEF Sound
  <2>5. host = h /\ rec.ctl # Nobody =>
          Said(q, n + 1, Statuses, Naming(rec.ctl), con.ctl = rec.ctl)
    BY <1>3, <2>1, <2>2, <2>3 DEF ControlIsKnown
  <2>6. host = h /\ (\A w \in ViewerSockets : sock[w].st # "shut") =>
          Said(q, n + 1, Pictures, Showing(on), con.stream = on)
    BY <1>3, <2>1, <2>2, <2>3 DEF WatchIsKnown
  <2> QED
    BY <2>4, <2>5, <2>6
<1> HIDE DEF q, n
<1>6. m = q[1]
  BY DEF q
<1>7. \A x \in HostSockets : con'.sock = x => InputsAreKnown(down'[x], con')
  BY <1>1, <1>2, <1>5, <1>6, InputsRead
<1>8. ControlIsKnown(Relay, con)'
  <2>1. ASSUME host = h, rec.ctl # Nobody
        PROVE  Said(Tail(q), n, Statuses, Naming(rec.ctl), con'.ctl = rec.ctl)
    <3>1. Naming(rec.ctl) \subseteq Statuses /\ (q[1] \in Naming(rec.ctl) => con'.ctl = rec.ctl)
          /\ (q[1] \notin Statuses => (con.ctl = rec.ctl => con'.ctl = rec.ctl))
      BY <1>6 DEF Naming
    <3> QED
      BY <1>1, <1>3, <1>5, <2>1, <3>1, SaidRest
  <2> QED
    BY <1>2, <1>3, <1>4, <2>1 DEF ControlIsKnown, Told, Relay
<1>9. WatchIsKnown(Relay, con)'
  <2>1. ASSUME host = h, \A w \in ViewerSockets : sock[w].st # "shut"
        PROVE  Said(Tail(q), n, Pictures, Showing(on), con'.stream = on)
    <3>1. ASSUME m \in Showing(on)
          PROVE  con'.stream = on
      <4>1. m \in Pictures /\ IF m.t = "status" THEN (m.n > 0) = on ELSE on
        BY <3>1 DEF Showing
      <4>2. CASE m.t = "status"
        <5>1. con'.stream = (m.n > 0)
          BY <4>1, <4>2
        <5>2. (m.n > 0) = on
          BY <4>1, <4>2
        <5> QED
          BY <5>1, <5>2
      <4>3. CASE m.t # "status"
        <5>1. con'.stream = TRUE /\ on
          BY <4>1, <4>3
        <5> QED
          BY <5>1
      <4> QED
        BY <4>2, <4>3
    <3>2. Showing(on) \subseteq Pictures
      BY DEF Showing
    <3>3. q[1] \notin Pictures => (con.stream = on => con'.stream = on)
      BY <1>6
    <3>4. Said(q, n + 1, Pictures, Showing(on), con.stream = on)
      BY <1>5, <2>1
    <3>5. q[1] \in Showing(on) => con'.stream = on
      BY <1>6, <3>1
    <3> DEFINE b == con.stream = on
               b2 == con'.stream = on
               V == Showing(on)
    <3>6. /\ Said(q, n + 1, Pictures, V, b) /\ V \subseteq Pictures
          /\ (q[1] \in V => b2) /\ (q[1] \notin Pictures => (b => b2))
      BY <3>2, <3>3, <3>4, <3>5
    <3> HIDE DEF b, b2, V
    <3>7. Said(Tail(q), n, Pictures, V, b2)
      BY <1>1, <1>3, <3>6, SaidRest
    <3> QED
      BY <3>7 DEF b2, V
  <2> QED
    BY <1>2, <1>3, <1>4, <2>1 DEF WatchIsKnown, Told, Relay
<1> QED
  BY <1>2, <1>7, <1>8, <1>9, ConnectorKeeps

LEMMA ConTypes ==
  ASSUME ShareInv
  PROVE  /\ con \in Con /\ up \in [HostSockets -> Seq(Upward)] /\ post \in BOOLEAN
         /\ KeysAreNamed(con)
         /\ down \in [HostSockets -> Seq(Downward)]
  BY DEF ShareInv, KeysAreNamed, Sound, Relays, Relay

(* What the connector puts on its socket.                                   *)
LEMMA SendsFields ==
  ASSUME ShareInv, NEW h \in HostSockets, NEW m \in Upward,
         up' = [up EXCEPT ![h] = Append(@, m)]
  PROVE  up' \in [HostSockets -> Seq(Upward)]
<1>1. Append(up[h], m) \in Seq(Upward)
  BY ConTypes
<1> QED
  BY <1>1, ConTypes

LEMMA StopsFields ==
  ASSUME ShareInv, Stops
  PROVE  /\ con' \in Con /\ con'.sock = NoSocket /\ con'.keys = con.keys
         /\ up' \in [HostSockets -> Seq(Upward)] /\ post' \in BOOLEAN
<1>1. con' \in Con /\ con'.sock = NoSocket /\ con'.keys = con.keys
  BY ConTypes DEF Stops, Paused, Con
<1>2. up' \in [HostSockets -> Seq(Upward)]
  <2>1. CASE up' = up
    BY <2>1, ConTypes
  <2>2. CASE con.sock # NoSocket /\ up' = [up EXCEPT ![con.sock] = Append(@, [t |-> "end"])]
    <3>1. con.sock \in HostSockets /\ [t |-> "end"] \in Upward
      BY <2>2, ConTypes DEF Con, Upward
    <3> QED
      BY <2>2, <3>1, SendsFields
  <2> QED
    BY <2>1, <2>2 DEF Stops
<1> QED
  BY <1>1, <1>2 DEF Stops

LEMMA HangUpKeeps ==
  ASSUME ShareInv, Stop \/ Crash \/ \E h \in HostSockets : Disconnected(h)
  PROVE  ShareInv'
<1>1. CASE Stop
  BY <1>1, StopsFields, HangsUpKeeps DEF Stop
<1>2. CASE Crash
  <2>1. con' \in Con /\ con'.sock = NoSocket /\ con'.keys = con.keys
    BY <1>2, ConTypes DEF Crash, Paused, Con
  <2>2. up' \in [HostSockets -> Seq(Upward)] /\ post' \in BOOLEAN
    BY <1>2, ConTypes DEF Crash
  <2> QED
    BY <1>2, <2>1, <2>2, HangsUpKeeps DEF Crash
<1>3. ASSUME NEW h \in HostSockets, Disconnected(h)
      PROVE  ShareInv'
  <2>1. con' \in Con /\ con'.sock = NoSocket /\ con'.keys = con.keys /\ con.sock = h
    BY <1>3, ConTypes DEF Disconnected, Paused, Con
  <2>2. up' \in [HostSockets -> Seq(Upward)] /\ post' \in BOOLEAN
    BY <1>3, ConTypes DEF Disconnected
  <2> QED
    BY <1>3, <2>1, <2>2, HangsUpKeeps DEF Disconnected
<1> QED
  BY <1>1, <1>2, <1>3

LEMMA TypeKeeps ==
  ASSUME ShareInv, Type
  PROVE  ShareInv'
<1> DEFINE K == [from : Viewers, as : Viewers \union {Nobody}]
           k == con.keys
<1>1. /\ con' = [con EXCEPT !.keys = Tail(k)] /\ UNCHANGED <<up, down, post>>
      /\ ConnectorStays /\ k # <<>>
  BY DEF Type
<1>2. con \in Con /\ k \in Seq(K) /\ KeysAreNamed(con)
  BY ConTypes DEF Con
<1> HIDE DEF K
<1>3. /\ Tail(k) \in Seq(K) /\ Len(Tail(k)) = Len(k) - 1 /\ Len(k) \in Nat
      /\ \A i \in 1 .. (Len(k) - 1) : Tail(k)[i] = k[i + 1]
  BY <1>1, <1>2
<1>4. /\ con' \in Con /\ con'.sock = con.sock /\ con'.ctl = con.ctl
      /\ con'.stream = con.stream /\ con'.keys = Tail(k)
  BY <1>1, <1>2, <1>3 DEF Con, K
<1>5. KeysAreNamed(con')
  <2>1. \A i \in 1 .. Len(k) : k[i].as = k[i].from
    BY <1>2 DEF KeysAreNamed
  <2> HIDE DEF k
  <2>2. \A i \in 1 .. Len(Tail(k)) : Tail(k)[i].as = Tail(k)[i].from
    BY <1>3, <2>1
  <2> QED
    BY <1>4, <2>2 DEF KeysAreNamed
<1>6. up' \in [HostSockets -> Seq(Upward)] /\ post' \in BOOLEAN
  BY <1>1, ConTypes
<1> QED
  BY <1>1, <1>4, <1>5, <1>6, KeepsOn

LEMMA OutputKeeps ==
  ASSUME ShareInv, NEW h \in HostSockets, Output(h)
  PROVE  ShareInv'
<1>1. [t |-> "output"] \in Upward
  BY DEF Upward
<1>2. up' \in [HostSockets -> Seq(Upward)]
  BY <1>1, SendsFields DEF Output, Sends
<1>3. /\ con' = con /\ UNCHANGED <<down, post>> /\ ConnectorStays
  BY DEF Output
<1> QED
  BY <1>2, <1>3, ConTypes, KeepsOn

LEMMA ReceiveKeeps ==
  ASSUME ShareInv, NEW h \in HostSockets, Receive(h)
  PROVE  ShareInv'
<1> DEFINE m == Head(down[h])
           over == m.t = "ended" \/ (m.t = "status" /\ m.over)
           seen == [con EXCEPT !.ctl = m.ctl, !.stream = m.n > 0]
           key == [from |-> m.from, as |-> con.ctl]
           typed == [con EXCEPT !.keys = Append(@, key)]
<1>1. /\ con.sock = h /\ down[h] # <<>> /\ ConnectorStays
      /\ IF over THEN Unread(h) ELSE down' = [down EXCEPT ![h] = Tail(@)]
  BY DEF Receive
<1>2. /\ con \in Con /\ down[h] \in Seq(Downward)
      /\ m = down[h][1] /\ m \in Downward /\ KeysAreNamed(con) /\ post \in BOOLEAN
      /\ up \in [HostSockets -> Seq(Upward)]
  BY <1>1, ConTypes
<1> HIDE DEF m
<1>3. /\ m \in Statuses <=> m.t = "status"
      /\ m \in Pictures <=> m.t \in {"status", "snapshot"}
  BY <1>2 DEF Statuses, Pictures
<1>4. CASE (m.t = "status" /\ m.over /\ Stops) \/ (m.t = "ended" /\ Stops)
  <2>1. Unread(con.sock) /\ Stops
    BY <1>1, <1>4
  <2> QED
    BY <1>1, <2>1, StopsFields, HangsUpKeeps
<1>5. CASE m.t = "status" /\ ~ m.over /\ con' = seen /\ UNCHANGED <<up, post>>
  <2>1. m.ctl \in Viewers \union {Nobody} /\ (m.n > 0) \in BOOLEAN
    BY <1>2, <1>5 DEF Downward, Snapshot, Ended
  <2>2. /\ con' \in Con /\ con'.sock = h /\ con'.ctl = m.ctl /\ con'.stream = (m.n > 0)
        /\ con'.keys = con.keys
    BY <1>1, <1>2, <1>5, <2>1 DEF Con
  <2>3. KeysAreNamed(con')
    BY <1>2, <2>2 DEF KeysAreNamed
  <2>4. down' = [down EXCEPT ![h] = Tail(@)]
    BY <1>1, <1>5
  <2>5. con'.stream = IF m.t = "status" THEN m.n > 0 ELSE TRUE
    BY <1>5, <2>2
  <2>6. up' \in [HostSockets -> Seq(Upward)] /\ post' \in BOOLEAN
    BY <1>2, <1>5
  <2> QED
    BY <1>1, <1>2, <1>3, <1>5, <2>2, <2>3, <2>4, <2>5, <2>6, ReadKeeps
<1>6. CASE m.t = "snapshot" /\ con' = [con EXCEPT !.stream = TRUE]
           /\ Sends(h, [t |-> "output"]) /\ UNCHANGED post
  <2>1. /\ con' \in Con /\ con'.sock = h /\ con'.ctl = con.ctl /\ con'.stream = TRUE
        /\ con'.keys = con.keys
    BY <1>1, <1>2, <1>6 DEF Con
  <2>2. KeysAreNamed(con')
    BY <1>2, <2>1 DEF KeysAreNamed
  <2>3. down' = [down EXCEPT ![h] = Tail(@)]
    BY <1>1, <1>6
  <2>4. up' \in [HostSockets -> Seq(Upward)]
    <3>1. [t |-> "output"] \in Upward
      BY DEF Upward
    <3> QED
      BY <1>6, <3>1, SendsFields DEF Sends
  <2>5. con'.stream = IF m.t = "status" THEN m.n > 0 ELSE TRUE
    BY <1>6, <2>1
  <2> QED
    BY <1>1, <1>2, <1>3, <1>6, <2>1, <2>2, <2>3, <2>4, <2>5, ReadKeeps
<1>7. CASE m.t = "request" /\ UNCHANGED <<con, post>>
           /\ Sends(h, [t |-> IF AllowControl THEN "approve" ELSE "reject", from |-> m.from])
  <2>1. m.from \in Viewers
    BY <1>2, <1>7 DEF Downward, Snapshot, Ended
  <2>2. [t |-> IF AllowControl THEN "approve" ELSE "reject", from |-> m.from] \in Upward
    BY <2>1 DEF Upward
  <2>3. up' \in [HostSockets -> Seq(Upward)]
    BY <1>7, <2>2, SendsFields DEF Sends
  <2>4. down' = [down EXCEPT ![h] = Tail(@)]
    BY <1>1, <1>7
  <2>5. m \notin Pictures /\ m \notin Statuses
    BY <1>3, <1>7
  <2> QED
    BY <1>1, <1>2, <1>7, <2>3, <2>4, <2>5, ReadKeeps
<1>8. CASE m.t = "input" /\ con' = (IF AllowControl /\ con.stream THEN typed ELSE con)
           /\ UNCHANGED <<up, post>>
  <2>1. m.from \in Viewers
    BY <1>2, <1>8 DEF Downward, Snapshot, Ended
  <2>2. con.ctl = m.from
    <3>1. InputsAreKnown(down[h], con)
      BY <1>1 DEF ShareInv, Sound, Relay
    <3>2. 1 \in 1 .. Len(down[h])
      BY <1>1, <1>2
    <3>3. Said(down[h], 1 - 1, Statuses, Naming(m.from), con.ctl = m.from)
      BY <1>2, <1>8, <3>1, <3>2 DEF InputsAreKnown
    <3> QED
      BY <3>3 DEF Said
  <2>3. /\ con' \in Con /\ con'.sock = h /\ con'.ctl = con.ctl /\ con'.stream = con.stream
        /\ KeysAreNamed(con')
    <3>1. CASE AllowControl /\ con.stream
      <4> DEFINE K == [from : Viewers, as : Viewers \union {Nobody}]
                 k == con.keys
                 k2 == Append(k, key)
      <4>1. key \in K /\ key.as = key.from
        BY <2>1, <2>2
      <4>2. k \in Seq(K) /\ \A i \in 1 .. Len(k) : k[i].as = k[i].from
        BY <1>2 DEF Con, KeysAreNamed
      <4> HIDE DEF K, k, key
      <4>3. k2 \in Seq(K) /\ \A i \in 1 .. Len(k2) : k2[i].as = k2[i].from
        <5>1. /\ k2 \in Seq(K) /\ Len(k2) = Len(k) + 1 /\ k2[Len(k) + 1] = key
              /\ Len(k) \in Nat /\ \A i \in 1 .. Len(k) : k2[i] = k[i]
          BY <4>1, <4>2
        <5> HIDE DEF k2
        <5>2. ASSUME NEW i \in 1 .. Len(k2)
              PROVE  k2[i].as = k2[i].from
          <6>1. CASE i \in 1 .. Len(k)
            BY <4>2, <5>1, <6>1
          <6>2. CASE i = Len(k) + 1
            BY <4>1, <5>1, <6>2
          <6> QED
            BY <5>1, <6>1, <6>2
        <5> QED
          BY <5>1, <5>2
      <4>4. con' = [con EXCEPT !.keys = k2]
        BY <1>8, <3>1 DEF k
      <4> HIDE DEF k2
      <4>5. /\ con' \in Con /\ con'.sock = con.sock /\ con'.ctl = con.ctl
            /\ con'.stream = con.stream /\ con'.keys = k2
        BY <1>2, <4>3, <4>4 DEF Con, K
      <4> QED
        BY <1>1, <4>3, <4>5 DEF KeysAreNamed
    <3>2. CASE ~ (AllowControl /\ con.stream)
      BY <1>1, <1>2, <1>8, <3>2
    <3> QED
      BY <3>1, <3>2
  <2>4. down' = [down EXCEPT ![h] = Tail(@)]
    BY <1>1, <1>8
  <2>5. m \notin Pictures /\ m \notin Statuses
    BY <1>3, <1>8
  <2>6. up' \in [HostSockets -> Seq(Upward)] /\ post' \in BOOLEAN
    BY <1>2, <1>8
  <2> QED
    BY <1>1, <1>2, <2>3, <2>4, <2>5, <2>6, ReadKeeps
<1> QED
  BY <1>4, <1>5, <1>6, <1>7, <1>8 DEF Receive, m

-----------------------------------------------------------------------------
(* The network and the clock.                                               *)

(* The relay changes by itself: nothing that anybody else knows of.         *)
LEMMA WorldKeeps ==
  ASSUME ShareInv, UNCHANGED <<host, views, alarm, down, con, post, revoked, missed>>,
         up' \in [HostSockets -> Seq(Upward)],
         rec' \in Rec, Consistent(rec'), sock' \in [Sockets -> Socket],
         rec'.state = rec.state, rec'.ctl = rec.ctl, rec'.pend = rec.pend,
         Armed(rec') \subseteq Armed(rec),
         \A s \in Sockets :
           /\ sock'[s].who = sock[s].who
           /\ sock'[s].st = sock[s].st \/ (sock[s].st = "open" /\ sock'[s].st = "shut")
  PROVE  ShareInv'
<1> DEFINE d == Relay'
<1>1. /\ d.rec = rec' /\ d.host = host /\ d.views = views /\ d.sock = sock'
      /\ d.alarm = alarm /\ d.down = down
  BY DEF Relay
<1>2. /\ Relay.rec = rec /\ Relay.host = host /\ Relay.views = views /\ Relay.sock = sock
      /\ Relay.alarm = alarm /\ Relay.down = down
  BY DEF Relay
<1>3. /\ Sound(Relay, con) /\ Watched(Relay) /\ Detached(Relay)
      /\ ControlIsKnown(Relay, con) /\ WatchIsKnown(Relay, con)
      /\ ~ missed => Held(Relay)
  BY DEF ShareInv
<1>4. Relay \in Relays /\ Attached(Relay) /\ views \subseteq ViewerSockets
  BY <1>2, <1>3 DEF Sound, Relays
<1>5. d \in Relays
  <2>1. d = [rec |-> rec', host |-> host, views |-> views, sock |-> sock', down |-> down,
             alarm |-> alarm]
    BY DEF Relay
  <2>2. /\ host \in HostSockets \union {NoSocket} /\ views \in SUBSET ViewerSockets
        /\ alarm \in SUBSET Deadlines /\ down \in [HostSockets -> Seq(Downward)]
    BY <1>2, <1>4 DEF Relays
  <2> HIDE DEF d
  <2> QED
    BY <2>1, <2>2 DEF Relays
<1> HIDE DEF d
<1>6. Attached(d)
  <2>1. \A w \in views : w \in Sockets
    BY <1>4, Consts
  <2>2. \A w \in views : sock[w].who \in Viewers /\ sock[w].st # "free"
    BY <1>2, <1>4 DEF Attached
  <2>3. \A h \in HostSockets : sock[h].st = "open" => host = h
    BY <1>2, <1>4 DEF Attached
  <2>4. \A w \in ViewerSockets : sock[w].st = "open" => w \in views
    BY <1>2, <1>4 DEF Attached
  <2>5. \A s \in Sockets : sock'[s].st = "open" => sock[s].st = "open"
    OBVIOUS
  <2>6. \A s \in Sockets : sock'[s].st = "free" => sock[s].st = "free"
    OBVIOUS
  <2> QED
    BY <1>1, <2>1, <2>2, <2>3, <2>4, <2>5, <2>6, Consts DEF Attached
<1>7. Sound(d, con)
  BY <1>1, <1>2, <1>3, <1>5, <1>6 DEF Sound
<1>8. Watched(d) /\ Detached(d)
  BY <1>1, <1>2, <1>3 DEF Watched, Detached
<1>9. ~ missed => Held(d)
  <2>1. \A w \in views : sock'[w].who = sock[w].who
    BY <1>4, Consts
  <2> QED
    BY <1>1, <1>2, <1>3, <2>1 DEF Held
<1>10. ControlIsKnown(d, con)
  BY <1>1, <1>2, <1>3 DEF ControlIsKnown, Told
<1>11. WatchIsKnown(d, con)
  <2>1. (\A w \in ViewerSockets : sock'[w].st # "shut")
          => \A w \in ViewerSockets : sock[w].st # "shut"
    BY Consts
  <2> QED
    BY <1>1, <1>2, <1>3, <2>1 DEF WatchIsKnown, Told
<1>12. (Sound(Relay, con) /\ Watched(Relay) /\ Detached(Relay) /\ (~ missed => Held(Relay))
         /\ ControlIsKnown(Relay, con) /\ WatchIsKnown(Relay, con))'
  BY <1>7, <1>8, <1>9, <1>10, <1>11 DEF d
<1>13. EndedStaysEnded'
  BY DEF ShareInv, EndedStaysEnded
<1> QED
  BY <1>12, <1>13 DEF ShareInv

LEMMA RelayTypes ==
  ASSUME ShareInv
  PROVE  /\ rec \in Rec /\ Consistent(rec) /\ sock \in [Sockets -> Socket]
         /\ up \in [HostSockets -> Seq(Upward)]
<1>1. Relay \in Relays /\ Relay.rec = rec /\ Relay.sock = sock /\ Consistent(Relay.rec)
  BY DEF ShareInv, Sound, Relay
<1> QED
  BY <1>1 DEF ShareInv, Relays

LEMMA EnvironmentKeeps ==
  ASSUME ShareInv, Environment
  PROVE  ShareInv'
<1>1. ASSUME NEW s \in Sockets, PeerGone(s)
      PROVE  ShareInv'
  <2> DEFINE shut(x) == [x EXCEPT !.st = "shut"]
  <2>1. \A x \in Socket : shut(x) \in Socket /\ shut(x).who = x.who /\ shut(x).st = "shut"
    BY DEF Socket
  <2>2. /\ sock' = [sock EXCEPT ![s] = shut(sock[s])] /\ sock[s].st = "open"
        /\ UNCHANGED <<rec, host, views, alarm, down, con, post, revoked, missed>>
    BY <1>1 DEF PeerGone
  <2>3. sock \in [Sockets -> Socket]
    BY RelayTypes
  <2> HIDE DEF shut
  <2>4. sock[s] \in Socket
    BY <2>3
  <2>5. /\ sock' \in [Sockets -> Socket] /\ sock'[s] = shut(sock[s])
        /\ \A x \in Sockets : x # s => sock'[x] = sock[x]
    BY <2>1, <2>2, <2>3, <2>4
  <2>6. \A x \in Sockets :
          /\ sock'[x].who = sock[x].who
          /\ sock'[x].st = sock[x].st \/ (sock[x].st = "open" /\ sock'[x].st = "shut")
    BY <2>1, <2>2, <2>4, <2>5
  <2>7. up' \in [HostSockets -> Seq(Upward)]
    <3>1. <<>> \in Seq(Upward)
      OBVIOUS
    <3> QED
      BY <1>1, <3>1, RelayTypes DEF PeerGone
  <2>8. rec' = rec /\ rec' \in Rec /\ Consistent(rec')
    BY <2>2, RelayTypes
  <2>9. UNCHANGED <<host, views, alarm, down, con, post, revoked, missed>>
    BY <2>2
  <2> QED
    BY <2>5, <2>6, <2>7, <2>8, <2>9, WorldKeeps
<1>2. CASE PostLost
  <2>1. con' = con /\ UNCHANGED <<up, down>> /\ ConnectorStays /\ post' \in BOOLEAN
    BY <1>2 DEF PostLost
  <2> QED
    BY <2>1, ConTypes, KeepsOn
<1>3. ASSUME NEW x \in Deadlines, Pass(x)
      PROVE  ShareInv'
  <2>1. rec \in Rec /\ Consistent(rec) /\ sock \in [Sockets -> Socket]
        /\ up \in [HostSockets -> Seq(Upward)]
    BY RelayTypes
  <2>2. /\ rec.due[x] = "armed" /\ rec' = [rec EXCEPT !.due[x] = "due"]
        /\ UNCHANGED <<host, views, sock, alarm, down, up, con, post, revoked, missed>>
    BY <1>3 DEF Pass
  <2>3. /\ rec' \in Rec /\ rec'.state = rec.state /\ rec'.ctl = rec.ctl
        /\ rec'.pend = rec.pend /\ rec'.due[x] = "due"
        /\ \A y \in Deadlines : y # x => rec'.due[y] = rec.due[y]
    BY <2>1, <2>2 DEF Rec
  <2>4. Consistent(rec')
    <3>1. "host" \in Deadlines /\ "lease" \in Deadlines
      BY DEF Deadlines
    <3> QED
      BY <2>1, <2>2, <2>3, <3>1 DEF Consistent
  <2>5. Armed(rec') \subseteq Armed(rec)
    BY <2>3 DEF Armed
  <2>6. /\ UNCHANGED <<host, views, alarm, down, con, post, revoked, missed>>
        /\ sock' = sock /\ up' = up
    BY <2>2
  <2> QED
    BY <2>1, <2>3, <2>4, <2>5, <2>6, WorldKeeps
<1> QED
  BY <1>1, <1>2, <1>3 DEF Environment

-----------------------------------------------------------------------------
LEMMA ShareInit ==
  ASSUME Init
  PROVE  ShareInv
<1> DEFINE due0 == [x \in Deadlines |-> IF x = "session" THEN "armed" ELSE "off"]
<1>1. /\ rec = [state |-> "ready", ctl |-> Nobody, pend |-> Nobody, due |-> due0]
      /\ host = NoSocket /\ views = {} /\ sock = [s \in Sockets |-> Closed]
      /\ alarm = {"session"}
      /\ down = [h \in HostSockets |-> <<>>] /\ up = [h \in HostSockets |-> <<>>]
      /\ con = [sock |-> NoSocket, stopped |-> FALSE, ctl |-> Nobody, stream |-> FALSE,
                keys |-> <<>>]
      /\ post = FALSE /\ revoked = "no" /\ missed = FALSE
  BY Zenon DEF Init
<1>2. due0 \in [Deadlines -> {"off", "armed", "due"}]
  OBVIOUS
<1>3. {x \in Deadlines : due0[x] = "armed"} \subseteq {"session"}
  OBVIOUS
<1> HIDE DEF due0
<1>4. rec \in Rec /\ Consistent(rec) /\ Armed(rec) \subseteq alarm
  BY <1>1, <1>2, <1>3 DEF Rec, States, Consistent, Over, Armed
<1>5. sock \in [Sockets -> Socket] /\ \A s \in Sockets : sock[s].st = "free"
  BY <1>1 DEF Socket, Closed
<1>6. /\ down \in [HostSockets -> Seq(Downward)] /\ up \in [HostSockets -> Seq(Upward)]
  BY <1>1
<1>7. alarm \subseteq Deadlines
  BY <1>1 DEF Deadlines
<1>8. Relay \in Relays
  BY <1>1, <1>4, <1>5, <1>6, <1>7 DEF Relay, Relays
<1>9. Attached(Relay)
  BY <1>1, <1>5, Consts DEF Relay, Attached
<1>10. Sound(Relay, con)
  BY <1>1, <1>4, <1>8, <1>9, Consts DEF Sound, Relay
<1>11. Watched(Relay) /\ Detached(Relay) /\ Held(Relay)
  BY <1>1, <1>4 DEF Relay, Watched, Detached, Held
<1>12. ControlIsKnown(Relay, con) /\ WatchIsKnown(Relay, con)
  BY <1>1 DEF ControlIsKnown, WatchIsKnown, Told, Relay
<1>13. con \in Con /\ \A i \in 1 .. Len(con.keys) : con.keys[i].as = con.keys[i].from
  BY <1>1 DEF Con
<1> QED
  BY <1>1, <1>6, <1>10, <1>11, <1>12, <1>13 DEF ShareInv, EndedStaysEnded

LEMMA ShareNext ==
  ASSUME ShareInv, [Next]_vars
  PROVE  ShareInv'
<1>1. CASE RelayStep
  BY <1>1, AcceptHostKeeps, HostMessageKeeps, AcceptViewerKeeps, ViewerMessageKeeps,
     HandleCloseKeeps, HandleEndKeeps, GetStatusKeeps, AlarmKeeps, WakeKeeps DEF RelayStep
<1>2. CASE ConnectorStep
  BY <1>2, HangUpKeeps, TypeKeeps, ReceiveKeeps, OutputKeeps DEF ConnectorStep
<1>3. CASE Environment
  BY <1>3, EnvironmentKeeps
<1>4. CASE UNCHANGED vars
  <2>1. /\ UNCHANGED <<host, views, alarm, down, con, post, revoked, missed>>
        /\ rec' = rec /\ sock' = sock /\ up' = up
    BY <1>4 DEF vars, relayVars
  <2> QED
    BY <2>1, RelayTypes, WorldKeeps
<1> QED
  BY <1>1, <1>2, <1>3, <1>4 DEF Next

-----------------------------------------------------------------------------
(* The invariant holds in every state a share can reach.                    *)
THEOREM ShareIsSound == Spec => []ShareInv
<1>1. Init => ShareInv
  BY ShareInit
<1>2. ShareInv /\ [Next]_vars => ShareInv'
  BY ShareNext
<1> QED
  BY <1>1, <1>2, PTL DEF Spec

(* Every variable keeps its type.                                           *)
THEOREM ShareTypeCorrect == Spec => []TypeOK
<1>1. ShareInv => TypeOK
  <2> SUFFICES ASSUME ShareInv
               PROVE  TypeOK
    OBVIOUS
  <2>1. Relay \in Relays
    BY DEF ShareInv, Sound
  <2>2. /\ rec \in Rec /\ host \in HostSockets \union {NoSocket}
        /\ views \subseteq ViewerSockets /\ sock \in [Sockets -> Socket]
        /\ alarm \subseteq Deadlines /\ down \in [HostSockets -> Seq(Downward)]
    BY <2>1 DEF Relay, Relays
  <2> QED
    BY <2>2 DEF ShareInv, TypeOK, Rec, Socket, Con
<1> QED
  BY <1>1, ShareIsSound, PTL

(* "Stop sharing revokes the link" (README), for good: unless it was ended  *)
(* while the host socket was shut, a share that was ended admits nobody,    *)
(* whatever messages, wakes, alarms and closing sockets come afterwards.    *)
THEOREM ShareEndsForGood == Spec => []EndedStaysEnded
<1>1. ShareInv => EndedStaysEnded
  BY DEF ShareInv
<1> QED
  BY <1>1, ShareIsSound, PTL

(* Control is held by a viewer whose socket the relay knows, and the keys   *)
(* that are typed are those of the viewer who, as far as the connector has  *)
(* been told, has control now.                                              *)
THEOREM ShareControlIsSound == Spec => []ControlIsSound
<1>1. ShareInv => ControlIsSound
  <2> SUFFICES ASSUME ShareInv
               PROVE  ControlIsSound
    OBVIOUS
  <2>1. ControlIsHeldByTheConnected
    BY RelayTypes DEF ShareInv, ControlIsHeldByTheConnected, Held, Relay, Consistent
  <2>2. KeysAreTheControllers
    <3> SUFFICES ASSUME Typing
                 PROVE  Head(con.keys).from = con.ctl
      BY DEF KeysAreTheControllers
    <3>1. con.keys # <<>> /\ Head(con.keys).as = con.ctl
      BY DEF Typing
    <3>2. con.keys \in Seq([from : Viewers, as : Viewers \union {Nobody}])
          /\ \A i \in 1 .. Len(con.keys) : con.keys[i].as = con.keys[i].from
      BY DEF ShareInv, Con
    <3>3. Head(con.keys) = con.keys[1] /\ 1 \in 1 .. Len(con.keys)
      BY <3>1, <3>2
    <3> QED
      BY <3>1, <3>2, <3>3
  <2> QED
    BY <2>1, <2>2 DEF ControlIsSound
<1> QED
  BY <1>1, ShareIsSound, PTL

(* No deadline of a share is without an alarm, whichever event, wake or     *)
(* failed send has armed it.                                                *)
THEOREM ShareDeadlinesAreWatched == Spec => []DeadlinesAreWatched
<1>1. ShareInv => DeadlinesAreWatched
  BY DEF ShareInv, DeadlinesAreWatched, Watched, Relay
<1> QED
  BY <1>1, ShareIsSound, PTL

(* When all that was sent has been read and no socket waits for its close,  *)
(* the connector's terminal is attached exactly if the relay has a viewer.  *)
THEOREM ShareAttachedWhileWatched == Spec => []AttachedWhileWatched
<1>1. ShareInv => AttachedWhileWatched
  <2> SUFFICES ASSUME ShareInv, host # NoSocket, con.sock = host, down[host] = <<>>,
                      \A s \in Sockets : sock[s].st # "shut"
               PROVE  con.stream <=> views # {}
    BY DEF AttachedWhileWatched
  <2>1. WatchIsKnown(Relay, con)
    BY DEF ShareInv
  <2>2. Said(<<>>, Len(<<>>), Pictures, Showing(views # {}), con.stream = (views # {}))
    BY <2>1, Consts DEF WatchIsKnown, Told, Relay
  <2>3. con.stream = (views # {})
    BY <2>2 DEF Said
  <2>4. con.stream \in BOOLEAN
    BY DEF ShareInv, Con
  <2> QED
    BY <2>3, <2>4
<1> QED
  BY <1>1, ShareIsSound, PTL
=============================================================================
