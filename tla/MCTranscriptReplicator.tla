----------------------- MODULE MCTranscriptReplicator -----------------------
(* A file of two generations and three lines, the last of the second one    *)
(* oversized.                                                               *)
EXTENDS TranscriptReplicator, TLC

CONSTANT MaxFaults  \* bound: failures, timeouts, crashes of a run

VARIABLE faults

MCGenerations == 1 .. 2
MCOversized == {<<2, 3>>}
MCSymmetry == Permutations(Calls) \union Permutations(Inodes)

MCInit == Init /\ faults = 0

MCNext ==
  \/ /\ Sync \/ AppendLine \/ Replace \/ OtherSessionSaves \/ ArchiveServes
     /\ UNCHANGED faults
  \/ faults < MaxFaults /\ (Fault \/ ArchiveWiped) /\ faults' = faults + 1
  \/ (GiveUp /\ call[up] = Archive!Idle) /\ UNCHANGED faults

MCSpec == MCInit /\ [][MCNext]_<<vars, faults>>

MCFairSpec == MCSpec /\ Fairness
=============================================================================
