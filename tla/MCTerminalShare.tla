--------------------------- MODULE MCTerminalShare ---------------------------
(* A share with bounded backlogs: the connector keeps up with the relay.    *)
EXTENDS TerminalShare, TLC

CONSTANTS
  MaxBacklog,  \* bound: messages to the connector when an event comes
  MaxFaults    \* bound: broken connections, wakes, losses and crashes of a run

VARIABLE faults

Room ==
  \/ con.stopped
  \/ /\ \A h \in HostSockets : Len(down[h]) <= MaxBacklog
     /\ Len(con.keys) <= 1

Faulty ==
  \/ Wake /\ Room
  \/ Crash \/ PostLost
  \/ \E s \in Sockets : PeerGone(s) /\ con.sock = s
  \/ \E h \in HostSockets : Disconnected(h) /\ sock[h].st = "open"
  \/ Pass("session")

Usual ==
  \/ /\ Room
     /\ \/ \E h \in HostSockets : AcceptHost(h) \/ HostMessage(h)
        \/ \E v \in Viewers, w \in ViewerSockets : AcceptViewer(v, w)
        \/ \E w \in ViewerSockets : ViewerMessage(w)
        \/ \E s \in Sockets : HandleClose(s)
        \/ HandleEnd \/ GetStatus \/ Alarm
  \/ Stop \/ Type
  \/ \E h \in HostSockets : /\ Receive(h) \/ Output(h)
                            /\ Len(up'[h]) <= 1
  \/ \E h \in HostSockets : Disconnected(h) /\ sock[h].st # "open"
  \/ \E s \in Sockets : PeerGone(s) /\ con.sock # s
  \/ \E x \in Deadlines \ {"session"} : Pass(x)

(* Sound for invariants: no name is told from another.                      *)
MCSymmetry ==
  Permutations(HostSockets) \union Permutations(ViewerSockets) \union Permutations(Viewers)

MCInit == Init /\ faults = 0

MCNext ==
  \/ Usual /\ UNCHANGED faults
  \/ faults < MaxFaults /\ Faulty /\ faults' = faults + 1

MCSpec == MCInit /\ [][MCNext]_<<vars, faults>>
MCFairSpec == MCSpec /\ Fairness
=============================================================================
