---------------------------- MODULE TerminalShare ----------------------------
(***************************************************************************)
(* A shared terminal: the relay object of the sharing service              *)
(* (services/terminal-share/src/session-do.ts), the connector that feeds   *)
(* it (lib/terminal-share.mjs) and the pages that watch (viewer.ts).       *)
(*                                                                         *)
(* The relay handles one event at a time, to its end: while it waits for   *)
(* its storage no other event is delivered.  So a handler is one action,   *)
(* and what it does is a function of the relay's state (Relay), applied by *)
(* Becomes.  A socket that is "shut" is no longer OPEN for the relay (its  *)
(* peer is gone, or the relay closed it) while its close event is still to *)
(* come: sending on it fails.  Between two events the relay may hibernate  *)
(* and wake with its record and its open sockets.                          *)
(*                                                                         *)
(* A deadline is off, armed or due; which armed one falls due next is left *)
(* open.  The alarm is set for the least of the deadlines that were armed  *)
(* then: it rings once one of them is no longer armed.                     *)
(***************************************************************************)
EXTENDS Naturals, Sequences, FiniteSets

CONSTANTS
  HostSockets,    \* sockets of the connector, at the relay
  ViewerSockets,  \* sockets of viewers
  Viewers,        \* viewer identities: a page keeps its token over reconnects
  AllowControl,   \* the owner allowed viewers to ask for control
  Nobody, NoSocket

Sockets == HostSockets \union ViewerSockets

ASSUME ShareAssumption ==
  /\ HostSockets \intersect ViewerSockets = {}
  /\ NoSocket \notin Sockets /\ Nobody \notin Viewers
  /\ IsFiniteSet(ViewerSockets)
  /\ AllowControl \in BOOLEAN

VARIABLES
  rec,      \* the relay's record, in memory and in storage
  host,     \* the relay's host socket
  views,    \* the relay's viewer sockets
  sock,     \* every socket at the relay: its state, and whose it is
  alarm,    \* the deadlines the alarm was set for; no alarm if empty
  down, up, \* messages under way on a host socket, from and to the relay
  con,      \* the connector's share
  post,     \* a POST /end is under way
  revoked,  \* history: sharing was ended on request, with the host socket open or
            \* gone ("clean") or shut ("blind")
  missed    \* history: a wake did not see a viewer who had or asked for control

relayVars == <<rec, host, views, sock, alarm>>
vars == <<relayVars, down, up, con, post, revoked, missed>>

-----------------------------------------------------------------------------
Deadlines == {"session", "host", "pending", "lease"}
States == {"ready", "active", "ended", "closed"}
Over == {"ended", "closed"}

Status(r, n) == [t |-> "status", over |-> r.state \in Over, ctl |-> r.ctl, n |-> n]
Input(v) == [t |-> "input", from |-> v]
Asks(v) == [t |-> "request", from |-> v]
Snapshot == [t |-> "snapshot"]
Ended == [t |-> "ended"]

Downward ==
  [t : {"status"}, over : BOOLEAN, ctl : Viewers \union {Nobody},
   n : 0..Cardinality(ViewerSockets)]
    \union [t : {"input", "request"}, from : Viewers] \union {Snapshot, Ended}
Upward == [t : {"end", "output"}] \union [t : {"approve", "reject"}, from : Viewers]

Closed == [st |-> "free", who |-> Nobody]

(* The relay, as its handlers see and change it.                            *)
Relay == [rec |-> rec, host |-> host, views |-> views, sock |-> sock, down |-> down,
          alarm |-> alarm]

IsOpen(d, s) == s # NoSocket /\ d.sock[s].st = "open"
Shut(d, S) == [s \in Sockets |-> IF s \in S /\ d.sock[s].st = "open"
                                 THEN [d.sock[s] EXCEPT !.st = "shut"] ELSE d.sock[s]]

Released(r) == [r EXCEPT !.ctl = Nobody, !.due["lease"] = "off"]
Dismissed(r) == [r EXCEPT !.pend = Nobody, !.due["pending"] = "off"]

(* scheduleNextAlarm: the least deadline that is still to come.             *)
Armed(r) == {x \in Deadlines : r.due[x] = "armed"}
Schedule(d) == [d EXCEPT !.alarm = IF d.rec.state = "closed" THEN {} ELSE Armed(d.rec)]

(* Mutant of Update.                                                        *)
UpdateUnscheduled(d, r) == [d EXCEPT !.rec = r]

(* updateRecord: the record is stored and the alarm set anew.               *)
Update(d, r) == Schedule([d EXCEPT !.rec = r])

(* Mutant of HostLost.                                                      *)
HostLostForGood(r) == [Released(Dismissed(r)) EXCEPT !.state = "ready"]

(* Mutant of HostLost.                                                      *)
HostLostIdle(r) == [Released(Dismissed(r)) EXCEPT !.due["host"] = "armed", !.state = "idle"]

(* The host socket is lost: three minutes of grace, whatever the state was. *)
HostLost(r) == [Released(Dismissed(r)) EXCEPT !.due["host"] = "armed",
                                              !.state = "ready"]

(* What is sent to a socket that the connector has given up is lost.        *)
Travels(h, q, m) == IF con.sock = h THEN Append(q, m) ELSE q

SendHost(d, m) ==
  IF IsOpen(d, d.host) THEN [d EXCEPT !.down[d.host] = Travels(d.host, @, m)]
  ELSE IF d.host = NoSocket THEN d
  ELSE Update([d EXCEPT !.host = NoSocket], HostLost(d.rec))

TellHost(d) == SendHost(d, Status(d.rec, Cardinality(d.views)))

(* Mutant of WithoutLost.                                                   *)
WithoutLostSockets(d) == [d EXCEPT !.views = {w \in @ : IsOpen(d, w)}]

(* Viewers are told one by one; the sockets that fail are removed, and with *)
(* them the control or the request of their viewer.                         *)
WithoutLost(d) ==
  LET lost == {w \in d.views : ~ IsOpen(d, w)}
      gone == {d.sock[w].who : w \in lost}
      r1 == IF d.rec.ctl \in gone THEN Released(d.rec) ELSE d.rec
      r2 == IF d.rec.pend \in gone THEN Dismissed(r1) ELSE r1
      e == [d EXCEPT !.views = @ \ lost]
  IN IF r2 = d.rec THEN e ELSE Update(e, r2)

SendViewers(d) ==
  LET e == WithoutLost(d) IN IF e.rec.ctl # d.rec.ctl THEN TellHost(e) ELSE e

BroadcastStatus(d) == SendViewers(TellHost(d))

-----------------------------------------------------------------------------
(* The end of a run of sharing, and of the session.                         *)
CloseSession(r) ==
  IF r.state = "closed" THEN r
  ELSE [Released(Dismissed(r)) EXCEPT !.state = "closed", !.due["host"] = "off"]

EndSharing(r) == [CloseSession(r) EXCEPT !.state = "ended"]

(* Mutant of FinishSharing.                                                 *)
FinishSharingKeepingHost(d) ==
  LET e == BroadcastStatus(d) IN [e EXCEPT !.sock = Shut(e, {e.host})]

FinishSharing(d) ==
  LET e == BroadcastStatus(d)
  IN [e EXCEPT !.sock = Shut(e, {e.host}), !.host = NoSocket]

FinishClosedSession(d) ==
  LET e == FinishSharing(d) IN [e EXCEPT !.sock = Shut(e, e.views), !.views = {}]

Finish(d) ==
  CASE d.rec.state = "closed" -> FinishClosedSession(d)
    [] d.rec.state = "ended" -> FinishSharing(d)
    [] OTHER -> d

(* Deadlines are looked at when an event arrives.                           *)
AdvanceRecord(d) ==
  LET r == d.rec
      r1 == IF r.due["pending"] = "due" THEN Dismissed(r) ELSE r
      r2 == IF r.due["lease"] = "due" THEN Released(r1) ELSE r1
  IN CASE r.due["session"] = "due" -> CloseSession(r)
       [] r.due["session"] # "due" /\ d.host = NoSocket /\ r.due["host"] = "due" ->
            EndSharing(r2)
       [] OTHER -> IF r2.state \in Over THEN r2
                   ELSE [r2 EXCEPT !.state = IF d.host = NoSocket THEN "ready" ELSE "active"]

Advances(d) == AdvanceRecord(d) # d.rec
Advance(d) == IF Advances(d) THEN Finish([d EXCEPT !.rec = AdvanceRecord(d)]) ELSE d

Becomes(relay) ==
  \E d \in {relay} :
    /\ rec' = d.rec /\ host' = d.host /\ views' = d.views /\ sock' = d.sock
    /\ down' = d.down /\ alarm' = d.alarm

Scheduling(d) == Becomes(Schedule(d))

OthersStay == UNCHANGED <<up, con, post, revoked, missed>>

Init ==
  /\ rec = [state |-> "ready", ctl |-> Nobody, pend |-> Nobody,
            due |-> [x \in Deadlines |-> IF x = "session" THEN "armed" ELSE "off"]]
  /\ host = NoSocket /\ views = {}
  /\ sock = [s \in Sockets |-> Closed]
  /\ alarm = {"session"}
  /\ down = [h \in HostSockets |-> <<>>]
  /\ up = [h \in HostSockets |-> <<>>]
  /\ con = [sock |-> NoSocket, stopped |-> FALSE, ctl |-> Nobody, stream |-> FALSE,
            keys |-> <<>>]
  /\ post = FALSE /\ revoked = "no" /\ missed = FALSE

-----------------------------------------------------------------------------
(* The relay's events.                                                      *)

(* The connector dials.  The newest host takes over from any other.         *)
Greet(d, h) ==
  LET r == [Released(Dismissed(d.rec)) EXCEPT !.due["host"] = "off", !.state = "active"]
      n == Cardinality(d.views)
  IN [d EXCEPT !.rec = r, !.host = h,
               !.sock = [Shut(d, {d.host}) EXCEPT ![h] = [Closed EXCEPT !.st = "open"]],
               !.down[h] = <<Status(r, n)>> \o [i \in 1..n |-> Snapshot]]

Confirm(d, h) == [d EXCEPT !.down[h] = Append(@, Status(d.rec, Cardinality(d.views)))]

AcceptHost(h) ==
  /\ ~ con.stopped /\ con.sock = NoSocket /\ sock[h] = Closed
  /\ \E d \in {Advance(Relay)} :
       IF d.rec.state \in Over
       THEN Becomes(d) /\ UNCHANGED <<up, con>>
       ELSE /\ Scheduling(Confirm(SendViewers(Greet(d, h)), h))
            /\ con' = [con EXCEPT !.sock = h]
            /\ up' = [up EXCEPT ![h] = <<>>]
  /\ UNCHANGED <<post, revoked, missed>>

(* A page connects; an older connection of the same page is replaced.       *)
Join(d, v, w) ==
  LET older == {x \in d.views : d.sock[x].who = v}
  IN [d EXCEPT !.views = (@ \ older) \union {w},
               !.sock = [Shut(d, older) EXCEPT ![w] = [st |-> "open", who |-> v]]]

AcceptViewer(v, w) ==
  /\ sock[w] = Closed
  /\ \E d \in {Advance(Relay)} :
       IF d.rec.state \in Over
       THEN Becomes(d)
       ELSE Scheduling(BroadcastStatus(SendHost(Join(d, v, w), Snapshot)))
  /\ OthersStay

(* webSocketClose: the peer hung up, or answers the relay's own close.      *)
RemoveViewer(d, w) ==
  LET v == d.sock[w].who
      r1 == IF w \in d.views /\ d.rec.ctl = v THEN Released(d.rec) ELSE d.rec
      r2 == IF w \in d.views /\ d.rec.pend = v THEN Dismissed(r1) ELSE r1
      e == [d EXCEPT !.views = @ \ {w}]
  IN CASE r2 = d.rec -> e
       [] r2 # d.rec /\ r2.ctl = d.rec.ctl -> Update(e, r2)
       [] r2.ctl # d.rec.ctl -> BroadcastStatus(Update(e, r2))

(* Mutant of HandleClose.                                                   *)
HandleCloseSilently(s) ==
  /\ sock[s].st = "shut"
  /\ LET e == IF s \in ViewerSockets THEN RemoveViewer(Relay, s)
              ELSE IF host # s THEN Relay
              ELSE Update([Relay EXCEPT !.host = NoSocket], HostLost(rec))
     IN Scheduling([e EXCEPT !.sock[s] = Closed])
  /\ OthersStay

HandleClose(s) ==
  LET after == [Relay EXCEPT !.sock[s] = Closed]
      lost == Update([after EXCEPT !.host = NoSocket], HostLost(rec))
  IN /\ sock[s].st = "shut"
     /\ CASE s \in HostSockets /\ host = s -> Scheduling(BroadcastStatus(lost))
          [] s \in HostSockets /\ host # s -> Becomes(after)
          [] s \in ViewerSockets ->
               LET e == RemoveViewer(Relay, s)
               IN Scheduling(BroadcastStatus([e EXCEPT !.sock[s] = Closed]))
     /\ OthersStay

(* POST /end, and session.end on the host socket.  Whoever ends a run that  *)
(* has ended ends it again.                                                 *)
Ends(d) ==
  LET stop == [d EXCEPT !.rec = EndSharing(@)]
  IN /\ Scheduling(FinishSharing(stop))
     /\ revoked' = IF revoked = "blind" \/ (host # NoSocket /\ sock[host].st # "open")
                   THEN "blind" ELSE "clean"

HandleEnd == post /\ post' = FALSE /\ Ends(Relay) /\ UNCHANGED <<up, con, missed>>

GetStatus == Becomes(Advance(Relay)) /\ OthersStay

Alarm ==
  /\ alarm \ Armed(rec) # {}
  /\ LET d == [Advance(Relay) EXCEPT !.alarm = {}]
     IN Scheduling(IF Advances(Relay) THEN BroadcastStatus(d) ELSE d)
  /\ OthersStay

(* What precedes every message.                                             *)
Heard == IF Advances(Relay) THEN BroadcastStatus(Advance(Relay)) ELSE Relay

Granted(r) == [Dismissed(r) EXCEPT !.ctl = r.pend, !.due["lease"] = "armed"]

(* A message of the connector; output is relayed to every viewer.           *)
HostMessage(h) ==
  /\ up[h] # <<>> /\ sock[h].st = "open"
  /\ up' = [up EXCEPT ![h] = Tail(@)]
  /\ \E d \in {Heard} : \E m \in {Head(up[h])} :
       CASE d.rec.state = "closed" \/ d.host # h ->
              Becomes(d) /\ UNCHANGED revoked
         [] d.rec.state # "closed" /\ d.host = h /\ m.t = "end" ->
              Ends(SendHost([d EXCEPT !.rec = EndSharing(@)], Ended))
         [] d.rec.state # "closed" /\ d.host = h /\ m.t = "output" ->
              Becomes(SendViewers(d)) /\ UNCHANGED revoked
         [] d.rec.state # "closed" /\ d.host = h /\ m.t \in {"approve", "reject"} ->
              /\ UNCHANGED revoked
              /\ IF d.rec.pend = Nobody \/ d.rec.pend # m.from
                 THEN Becomes(d)
                 ELSE Scheduling(BroadcastStatus([d EXCEPT !.rec =
                        IF m.t = "approve" THEN Granted(@) ELSE Dismissed(@)]))
  /\ UNCHANGED <<con, post, missed>>

CanWrite(d, w) == d.rec.state = "active" /\ d.sock[w].who = d.rec.ctl

(* A message of a viewer: keys, a request for control, or its release.      *)
ViewerMessage(w) ==
  /\ sock[w].st # "free"
  /\ \E d \in {Heard} : \E v \in {sock[w].who} :
       \/ (d.rec.state = "closed" \/ w \notin d.views) /\ Becomes(d)
       \/ /\ d.rec.state # "closed" /\ w \in d.views
          /\ \/ IF CanWrite(d, w) THEN Scheduling(SendHost(d, Input(v)))
                ELSE Becomes(d)
             \/ IF CanWrite(d, w)
                THEN Scheduling(BroadcastStatus([d EXCEPT !.rec = Released(@)]))
                ELSE Becomes(d)
             \/ IF ~ AllowControl \/ d.host = NoSocket \/ d.rec.ctl # Nobody
                   \/ d.rec.pend # Nobody
                THEN Becomes(BroadcastStatus(d))
                ELSE LET e == [d EXCEPT !.rec.pend = v, !.rec.due["pending"] = "armed"]
                     IN Scheduling(BroadcastStatus(SendHost(e, Asks(v))))
  /\ OthersStay

(* The runtime drops the relay from memory and builds it again from its     *)
(* record and the sockets that are open.                                    *)
Wake ==
  LET open == {s \in Sockets : sock[s].st = "open"}
      h == IF open \intersect HostSockets = {} THEN NoSocket
           ELSE CHOOSE s \in open \intersect HostSockets : TRUE
      d == [Relay EXCEPT !.host = h, !.views = open \intersect ViewerSockets]
      r == IF h # NoSocket
           THEN [rec EXCEPT !.due["host"] = "off", !.state = "active"]
           ELSE IF rec.state # "active" THEN rec
           ELSE [Released(Dismissed(rec)) EXCEPT
                   !.due["host"] = IF @ = "off" THEN "armed" ELSE @, !.state = "ready"]
      held == {rec.ctl, rec.pend} \ {Nobody}
  IN /\ IF rec.state \in Over THEN Becomes(Finish(d))
        ELSE Becomes(IF r = rec THEN d ELSE Update(d, r))
     /\ missed' = (missed \/ \E v \in held : \A w \in d.views : sock[w].who # v)
     /\ UNCHANGED <<up, con, post, revoked>>

-----------------------------------------------------------------------------
(* The connector.                                                           *)
ConnectorStays == UNCHANGED <<relayVars, revoked, missed>>

Paused == [con EXCEPT !.stream = FALSE]

(* Whatever is still on its way to a socket that is closed here is lost.    *)
Unread(h) == down' = IF h = NoSocket THEN down ELSE [down EXCEPT ![h] = <<>>]

(* stop(): the owner stops sharing, the link expires, the terminal exits.   *)
(* session.end goes out if the socket is open.                              *)
Stops ==
  /\ con' = [Paused EXCEPT !.stopped = TRUE, !.sock = NoSocket]
  /\ post' = TRUE
  /\ \/ up' = up
     \/ con.sock # NoSocket /\ up' = [up EXCEPT ![con.sock] = Append(@, [t |-> "end"])]

Stop == ~ con.stopped /\ Stops /\ Unread(con.sock) /\ ConnectorStays

Crash ==
  /\ ~ con.stopped
  /\ con' = [Paused EXCEPT !.stopped = TRUE, !.sock = NoSocket]
  /\ Unread(con.sock) /\ UNCHANGED <<post, up>> /\ ConnectorStays

Sends(h, m) == up' = [up EXCEPT ![h] = Append(@, m)]

(* A message of the relay on the present socket.                            *)
Receive(h) ==
  LET m == Head(down[h])
  IN /\ con.sock = h /\ down[h] # <<>>
     /\ IF m.t = "ended" \/ (m.t = "status" /\ m.over)
        THEN Unread(h) ELSE down' = [down EXCEPT ![h] = Tail(@)]
     /\ \/ m.t = "status" /\ m.over /\ Stops
        \/ /\ m.t = "status" /\ ~ m.over
           /\ con' = [con EXCEPT !.ctl = m.ctl, !.stream = m.n > 0]
           /\ UNCHANGED <<up, post>>
        \/ m.t = "ended" /\ Stops
        \/ /\ m.t = "snapshot"
           /\ con' = [con EXCEPT !.stream = TRUE]
           /\ Sends(h, [t |-> "output"]) /\ UNCHANGED post
        \/ /\ m.t = "request"
           /\ Sends(h, [t |-> IF AllowControl THEN "approve" ELSE "reject", from |-> m.from])
           /\ UNCHANGED <<con, post>>
        \/ /\ m.t = "input"
           /\ con' = IF AllowControl /\ con.stream
                     THEN [con EXCEPT !.keys = Append(@, [from |-> m.from, as |-> con.ctl])]
                     ELSE con
           /\ UNCHANGED <<up, post>>
     /\ ConnectorStays

(* The queue of keys: they are typed if control has not moved since.        *)
Typing == con.keys # <<>> /\ ~ con.stopped /\ con.stream /\ Head(con.keys).as = con.ctl

Type ==
  /\ con.keys # <<>>
  /\ con' = [con EXCEPT !.keys = Tail(@)]
  /\ UNCHANGED <<up, down, post>> /\ ConnectorStays

(* The terminal prints.                                                     *)
Output(h) ==
  /\ con.sock = h /\ con.stream
  /\ Sends(h, [t |-> "output"])
  /\ UNCHANGED <<con, down, post>> /\ ConnectorStays

(* The connector's end of a socket closes; it dials again until it gives up.*)
Disconnected(h) ==
  /\ con.sock = h
  /\ con' = [Paused EXCEPT !.sock = NoSocket]
  /\ Unread(h) /\ UNCHANGED <<up, post>> /\ ConnectorStays

-----------------------------------------------------------------------------
(* The network and the clock.                                               *)
PeerGone(s) ==
  /\ sock[s].st = "open"
  /\ sock' = [sock EXCEPT ![s].st = "shut"]
  /\ up' = IF s \in HostSockets THEN [up EXCEPT ![s] = <<>>] ELSE up
  /\ UNCHANGED <<rec, host, views, alarm, down, con, post, revoked, missed>>

PostLost ==
  /\ post /\ post' = FALSE
  /\ UNCHANGED <<up, con, down>> /\ ConnectorStays

Pass(x) ==
  /\ rec.due[x] = "armed"
  /\ rec' = [rec EXCEPT !.due[x] = "due"]
  /\ UNCHANGED <<host, views, sock, alarm, down, up, con, post, revoked, missed>>

RelayStep ==
  \/ \E h \in HostSockets : AcceptHost(h) \/ HostMessage(h)
  \/ \E v \in Viewers, w \in ViewerSockets : AcceptViewer(v, w)
  \/ \E w \in ViewerSockets : ViewerMessage(w)
  \/ \E s \in Sockets : HandleClose(s)
  \/ HandleEnd \/ GetStatus \/ Alarm \/ Wake

ConnectorStep ==
  \/ Stop \/ Crash \/ Type
  \/ \E h \in HostSockets : Receive(h) \/ Output(h) \/ Disconnected(h)

Environment ==
  \/ \E s \in Sockets : PeerGone(s)
  \/ PostLost
  \/ \E x \in Deadlines : Pass(x)

Next == RelayStep \/ ConnectorStep \/ Environment

Spec == Init /\ [][Next]_vars

(* An alarm that is due rings, the grace period passes, and a socket whose  *)
(* other end is gone closes: what weak fairness of Alarm, Pass("host"),     *)
(* PeerGone(h) and HandleClose(h) gives, said of states, for the handlers   *)
(* are expensive to enable.  The end of the session, a day away, is not     *)
(* waited for, nor anything that a viewer or the network may do or not do.  *)
Fairness ==
  /\ []<>(alarm \subseteq Armed(rec))
  /\ []<>(rec.due["host"] # "armed")
  /\ \A h \in HostSockets : /\ []<>(con.sock = h \/ sock[h].st # "open")
                           /\ []<>(sock[h].st # "shut")

FairSpec == Spec /\ Fairness

-----------------------------------------------------------------------------
TypeOK ==
  /\ rec \in [state : States, ctl : Viewers \union {Nobody}, pend : Viewers \union {Nobody},
              due : [Deadlines -> {"off", "armed", "due"}]]
  /\ host \in HostSockets \union {NoSocket}
  /\ views \subseteq ViewerSockets
  /\ sock \in [Sockets -> [st : {"free", "open", "shut"}, who : Viewers \union {Nobody}]]
  /\ alarm \subseteq Deadlines
  /\ down \in [HostSockets -> Seq(Downward)] /\ up \in [HostSockets -> Seq(Upward)]
  /\ con \in [sock : HostSockets \union {NoSocket}, stopped : BOOLEAN,
              ctl : Viewers \union {Nobody}, stream : BOOLEAN,
              keys : Seq([from : Viewers, as : Viewers \union {Nobody}])]
  /\ revoked \in {"no", "clean", "blind"}
  /\ {post, missed} \subseteq BOOLEAN

(* What the relay would say to whoever comes next: the share is over.       *)
Refuses == AdvanceRecord(Relay).state \in Over

(* "Stop sharing revokes the link" (README): once a run has been ended by   *)
(* the owner or the connector, nobody is admitted any more, whatever        *)
(* messages, alarms, wakes and closing sockets come after it.  The          *)
(* exception: at that moment the host socket was shut already, so that the  *)
(* closing status could not be sent and clearHost opened the share again.   *)
EndedStaysEnded == revoked = "clean" => rec.state \in Over

(* One viewer at most holds control, it is connected, and "disconnect       *)
(* releases it" (README), however its connection went: closed, replaced by  *)
(* a newer one, or found dead by a failed send.  The exception: the relay   *)
(* slept while the connection closed, and did not see whose it was.         *)
ControlIsHeldByTheConnected ==
  ~ missed =>
    /\ rec.ctl # Nobody => \E w \in views : sock[w].who = rec.ctl
    /\ rec.pend # Nobody => \E w \in views : sock[w].who = rec.pend
    /\ rec.ctl # Nobody => rec.due["lease"] # "off"

(* The keys that reach the terminal are those of the viewer who, as far as  *)
(* the connector knows, has control now: not of one whose keys were queued  *)
(* when control moved on.                                                   *)
KeysAreTheControllers == Typing => Head(con.keys).from = con.ctl

(* Control is held, and used, by the viewer who has it.                     *)
ControlIsSound == ControlIsHeldByTheConnected /\ KeysAreTheControllers

(* Every deadline that is still to come has an alarm at or before it, in    *)
(* every state that an event, a wake or a failed send can leave.            *)
DeadlinesAreWatched == rec.state # "closed" => Armed(rec) \subseteq alarm

(* A terminal is attached exactly while somebody watches: when all messages *)
(* have arrived and no close event is outstanding, connector and relay      *)
(* agree on that.                                                           *)
AttachedWhileWatched ==
  host # NoSocket /\ con.sock = host /\ down[host] = <<>>
  /\ (\A s \in Sockets : sock[s].st # "shut")
    => (con.stream <=> views # {})

(* A share that was on and whose connector stops or dies is over in the     *)
(* end, by the POST, by session.end or by the grace period, and for good.   *)
StopRevokes ==
  (con.stopped /\ (rec.state = "active" \/ rec.due["host"] # "off")) ~> Refuses
=============================================================================
