------------------------ MODULE TranscriptPublisher ------------------------
(***************************************************************************)
(* The publisher of a connector (lib/transcript-publisher.mjs): which      *)
(* transcripts are handed to the replicator, and when.                     *)
(*                                                                         *)
(* Sources come from the inventory (active) and from the scan of the       *)
(* transcript roots.  A pass goes through them one after the other, those  *)
(* last seen active first; of the others it takes a few, and none again    *)
(* before an interval is over.  The controller switches the publisher on   *)
(* and off with the connection, in the middle of a pass, too.              *)
(*                                                                         *)
(* A context that is observed anew during a pass is replaced by a copy, so *)
(* that the stamp of that pass goes to the old one; it is active then, and *)
(* stamped by the next pass, and the copy is not modelled.                 *)
(***************************************************************************)
EXTENDS Naturals, Sequences, FiniteSets, SequencesExt

CONSTANTS
  Sources,      \* transcripts
  Interval,     \* ticks of the timer after which an inactive source is due again
  MaxBackfill,  \* inactive sources a pass takes
  MaxUpload,    \* chunks after which a pass defers the rest
  NoSource

PublisherAssumption ==
  /\ NoSource \notin Sources
  /\ Interval \in Nat \ {0} /\ MaxBackfill \in Nat \ {0} /\ MaxUpload \in Nat \ {0}

VARIABLES
  order,      \* the contexts, as a pass sorts them: last seen active first
  ctx,        \* whether a source is active, and the ticks since it was synced
  enabled, discovery, stopped,  \* the switches
  broken,     \* whether the state file could not be read
  pass,       \* the pass that runs
  rerun,      \* whether another pass was asked for while it runs
  synced      \* history: the sources the replicator was called for

switches == <<enabled, discovery, stopped, broken>>
vars == <<order, ctx, enabled, discovery, stopped, broken, pass, rerun, synced>>

NoPass == [on |-> FALSE, left |-> <<>>, now |-> NoSource, backfill |-> 0, uploaded |-> 0]

\* restoreTrackedSessions: the contexts of the state file, none of them active,
\* or none at all.
Init ==
  /\ broken \in BOOLEAN
  /\ \E restored \in SUBSET Sources :
       order = IF broken THEN <<>> ELSE SetToSeq(restored)
  /\ ctx = [s \in Sources |-> [active |-> FALSE, age |-> Interval]]
  /\ enabled = FALSE /\ discovery = FALSE /\ stopped = FALSE
  /\ pass = NoPass
  /\ rerun = FALSE
  /\ synced = {}

Known == ToSet(order)

\* tick, up to its loop: discovery adds what the roots hold, or fails; without
\* the state file the pass is over at once.
Begin(seq) ==
  \E found \in SUBSET (IF discovery' /\ ~broken THEN Sources ELSE {}) :
    LET all == seq \o SetToSeq(found \ ToSet(seq)) IN
    /\ order' = all
    /\ pass' = [NoPass EXCEPT !.on = TRUE, !.left = IF broken THEN <<>> ELSE all]

Aged == [s \in Sources |-> [ctx[s] EXCEPT !.age = IF @ < Interval THEN @ + 1 ELSE @]]

-----------------------------------------------------------------------------
(* The pass.                                                               *)

Running == pass.on /\ pass.now = NoSource
Cut == ~enabled \/ stopped

\* Mutant: a source is taken again as soon as it has been synced.
TooEarlyNever(s) == s \notin Sources

\* An inactive source that was synced a short time ago waits for the interval.
TooEarly(s) == ~ctx[s].active /\ ctx[s].age < Interval

\* The pass has uploaded enough, or has taken enough of the inactive sources.
Spent(s) == pass.uploaded >= MaxUpload \/ (~ctx[s].active /\ pass.backfill >= MaxBackfill)

Defer ==
  LET s == Head(pass.left) IN
  /\ Running /\ pass.left # <<>> /\ ~Cut
  /\ TooEarly(s) \/ Spent(s)
  /\ pass' = [pass EXCEPT !.left = Tail(@)]
  /\ UNCHANGED <<order, ctx, switches, rerun, synced>>

\* The context is stamped, and the replicator called.
Sync ==
  LET s == Head(pass.left) IN
  /\ Running /\ pass.left # <<>> /\ ~Cut
  /\ ~TooEarly(s) /\ ~Spent(s)
  /\ pass' = [pass EXCEPT !.left = Tail(@), !.now = s,
                          !.backfill = IF ctx[s].active THEN @ ELSE @ + 1]
  /\ ctx' = [ctx EXCEPT ![s].age = 0]
  /\ synced' = synced \union {s}
  /\ UNCHANGED <<order, switches, rerun>>

\* The replicator returns, having uploaded a chunk or none, or having failed.
Synced ==
  /\ pass.now # NoSource
  /\ \E chunks \in 0..1 :
       pass' = [pass EXCEPT !.now = NoSource, !.uploaded = @ + chunks]
  /\ UNCHANGED <<order, ctx, switches, rerun, synced>>

\* The pass is over, or was cut short; another one follows if it was asked for.
PassEnds ==
  /\ Running /\ (pass.left = <<>> \/ Cut)
  /\ rerun' = FALSE
  /\ UNCHANGED <<switches, ctx, synced>>
  /\ IF rerun /\ ~Cut THEN Begin(order) ELSE pass' = NoPass /\ UNCHANGED order

\* The timer of syncNow.  It does nothing as long as a pass runs, and a pass is
\* taken to be shorter than its interval: longer ones defer sources longer.
TimerTicks ==
  /\ enabled /\ ~stopped /\ ~pass.on
  /\ ctx' = Aged
  /\ UNCHANGED <<switches, rerun, synced>>
  /\ Begin(order)

-----------------------------------------------------------------------------
(* What the connector tells the publisher.                                 *)

\* requestSync: a pass starts, or follows the one that runs.
RequestSync(seq) ==
  IF pass.on THEN rerun' = TRUE /\ order' = seq /\ UNCHANGED pass
  ELSE rerun' = rerun /\ Begin(seq)

\* observeAgents: the inventory names a source; a new one asks for a pass.
Observe(s) ==
  LET seq == <<s>> \o SelectSeq(order, LAMBDA x : x # s) IN
  /\ ctx' = [ctx EXCEPT ![s].active = TRUE]
  /\ UNCHANGED <<switches, synced>>
  /\ IF s \notin Known /\ enabled THEN RequestSync(seq)
     ELSE order' = seq /\ UNCHANGED <<pass, rerun>>

\* Thirty seconds since the inventory last named the source.
SessionCloses(s) ==
  /\ s \in Known /\ ctx[s].active
  /\ ctx' = [ctx EXCEPT ![s].active = FALSE]
  /\ UNCHANGED <<order, switches, pass, rerun, synced>>

\* setEnabled(true), on the INFO of the controller: syncNow, which does nothing
\* if a pass still runs.
Enable ==
  /\ ~stopped /\ enabled' = TRUE
  /\ UNCHANGED <<discovery, stopped, broken, rerun, ctx, synced>>
  /\ IF pass.on THEN UNCHANGED <<order, pass>> ELSE Begin(order)

\* setEnabled(false), when the connection is lost.
Disable ==
  /\ enabled /\ enabled' = FALSE
  /\ UNCHANGED <<order, ctx, discovery, stopped, broken, pass, rerun, synced>>

\* setDiscoveryEnabled(true), on the same INFO.
EnableDiscovery ==
  /\ ~discovery /\ ~stopped /\ discovery' = TRUE
  /\ UNCHANGED <<enabled, stopped, broken, ctx, synced>>
  /\ IF enabled THEN RequestSync(order) ELSE UNCHANGED <<order, pass, rerun>>

\* stop, for good.
Stop ==
  /\ ~stopped
  /\ stopped' = TRUE /\ enabled' = FALSE /\ discovery' = FALSE /\ rerun' = FALSE
  /\ UNCHANGED <<order, ctx, broken, pass, synced>>

Steps == Defer \/ Sync \/ Synced \/ PassEnds

Next ==
  \/ Steps \/ TimerTicks
  \/ \E s \in Sources : Observe(s) \/ SessionCloses(s)
  \/ Enable \/ Disable \/ EnableDiscovery \/ Stop

Spec == Init /\ [][Next]_vars

\* Passes go on, and so do the timer and the replicator, whose uploads have a
\* deadline.
Fairness == WF_vars(Steps) /\ SF_vars(TimerTicks)
FairSpec == Spec /\ Fairness

-----------------------------------------------------------------------------
(* Properties.                                                             *)

TypeOK ==
  /\ ToSet(order) \subseteq Sources /\ IsInjective(order)
  /\ ctx \in [Sources -> [active : BOOLEAN, age : 0..Interval]]
  /\ {enabled, discovery, stopped, broken, rerun} \subseteq BOOLEAN
  /\ ToSet(pass.left) \subseteq Known
  /\ pass \in [on : BOOLEAN, left : Seq(Sources), now : Sources \union {NoSource},
               backfill : 0..MaxBackfill, uploaded : 0..MaxUpload]
  /\ synced \subseteq Known

\* The inactive sources that are taken until the first of them is due again: with the
\* defaults of the code, eight in each of six passes.
Room == Interval * (IF MaxUpload < MaxBackfill THEN MaxUpload ELSE MaxBackfill)

\* A pass always begins at the front, so a source that has so many before it is not
\* reached as long as they stay where they are: nothing moves it but an inventory.
Crowded(s) == \E i \in DOMAIN order : order[i] = s /\ i > Room

Quiet == <>[]enabled /\ <>[](\A s \in Sources : ~ctx[s].active) /\ ~broken

\* A source the publisher knows of is handed to the replicator some day, if the
\* connection stays, the state file could be read, and the active sessions are closed
\* (their uploads may take the whole of every pass): the limits of a pass, its loss
\* with the connection and the passes asked for meanwhile defer a source and do not
\* starve it.  The exception: sources for which there is no room.
EverySourceIsSynced ==
  Quiet => \A s \in Sources : <>[](s \in Known /\ ~Crowded(s)) => <>(s \in synced)

\* README.md, of the scan of the roots: "this is how a canary can backfill
\* closed/non-active sessions".  Not those for which there is no room.
EveryClosedSessionIsBackfilled ==
  Quiet => \A s \in Sources : (s \in Known) ~> (s \in synced)
=============================================================================
