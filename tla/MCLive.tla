------------------------------- MODULE MCLive -------------------------------
(* Three parts that must get on, each on its own: the relay of a shared     *)
(* terminal, the publisher of transcripts, and the archive on a local disk. *)
(* A behaviour is one of the part it begins with; fairness is demanded of   *)
(* that part only.                                                          *)
EXTENDS MCChunkArchive

CONSTANTS
  HostSockets, ViewerSockets, Viewers, AllowControl, Nobody, NoSocket,
  MaxBacklog, MaxFaults,
  Sources, Interval, MaxBackfill, MaxUpload, NoSource,
  Observed   \* sources of agents that are seen running

VARIABLES
  part,
  rec, host, views, sock, alarm, down, up, con, revoked, post, missed, faults,
  order, ctx, enabled, discovery, stopped, broken, pass, rerun, synced

Share == INSTANCE MCTerminalShare
Publisher == INSTANCE TranscriptPublisher

ASSUME Publisher!PublisherAssumption

share == <<rec, host, views, sock, alarm, down, up, con, revoked, post, missed, faults>>
publisher == <<order, ctx, enabled, discovery, stopped, broken, pass, rerun, synced>>
archive == <<vars, bounds>>
all == <<part, share, publisher, archive>>

LiveInit ==
  /\ part \in {"share", "publisher", "archive"}
  /\ Share!MCInit /\ Publisher!Init /\ MCInit
  /\ part # "publisher" => order = <<>> /\ ~broken

(* The inventory names some of the sources; the others are only found in    *)
(* the roots.                                                               *)
PublisherSteps == Publisher!Next /\ \A s \in Sources \ Observed : ~ctx'[s].active

LiveNext ==
  /\ UNCHANGED part
  /\ \/ part = "share" /\ Share!MCNext /\ UNCHANGED <<publisher, archive>>
     \/ part = "publisher" /\ PublisherSteps /\ UNCHANGED <<share, archive>>
     \/ part = "archive" /\ MCNext /\ UNCHANGED <<share, publisher>>

(* The fairness of each module, demanded of its part.                       *)
LiveFairness ==
  /\ []<>(part = "share" => alarm \subseteq Share!Armed(rec))
  /\ []<>(part = "share" => rec.due["host"] # "armed")
  /\ \A h \in HostSockets :
       /\ []<>(part = "share" => con.sock = h \/ sock[h].st # "open")
       /\ []<>(part = "share" => sock[h].st # "shut")
  /\ WF_publisher(part = "publisher" /\ Publisher!Steps)
  /\ SF_publisher(part = "publisher" /\ Publisher!TimerTicks)
  /\ \A r \in Calls : WF_archive(part = "archive" /\ Serve(r) /\ UNCHANGED bounds)

LiveSpec == LiveInit /\ [][LiveNext]_all /\ LiveFairness

(* A share whose connector stops or dies is over in the end, and for good   *)
(* (terminal-share/src/session-do.ts).                                      *)
StopRevokes == Share!StopRevokes

(* Every source that the publisher knows of is handed to the replicator     *)
(* some day, unless more sources are before it than are taken in an         *)
(* interval (transcript-publisher.mjs): of three there is room for two.     *)
EverySourceIsSynced == Publisher!EverySourceIsSynced

(* EveryCallSettles and DamageIsNoticed are those of ChunkArchive: no upload *)
(* waits forever for those before it, and an epoch of which a part was lost *)
(* is refused, not replayed as something else (transcript-archive.mjs).     *)
=============================================================================
