--------------------------- MODULE MCChunkArchive ---------------------------
(* One epoch: a first chunk A, its successor B, and the chunks a confused   *)
(* or restarted connector may offer instead: other bytes at A's range (A2), *)
(* a successor chained to those (B2), a longer chunk over both (AB).        *)
EXTENDS ChunkArchive, TLC

CONSTANTS
  MaxUploads,      \* bound: uploads of a run
  MaxDisturbances  \* bound: failures, crashes and hang-ups of a run

VARIABLES uploads, disturbances

bounds == <<uploads, disturbances>>

MCEpochs == {"e"}
MCBodies == {"a", "b", "x", "ab"}

A == [epoch |-> "e", start |-> 0, end |-> 1, body |-> "a", prev |-> ""]
B == [epoch |-> "e", start |-> 1, end |-> 2, body |-> "b", prev |-> "a"]
A2 == [epoch |-> "e", start |-> 0, end |-> 1, body |-> "x", prev |-> ""]
B2 == [epoch |-> "e", start |-> 1, end |-> 2, body |-> "b", prev |-> "x"]
AB == [epoch |-> "e", start |-> 0, end |-> 2, body |-> "ab", prev |-> ""]

OfferedAll == {A, B, A2, AB}
OfferedLine == {A, B}

MCSymmetry == Permutations(Calls) \union Permutations(Controllers)

MCInit == Init /\ uploads = 0 /\ disturbances = 0

MCNext ==
  \/ /\ uploads < MaxUploads
     /\ \E r \in Calls, c \in Controllers, ch \in Offered : Submit(r, c, ch)
     /\ uploads' = uploads + 1
     /\ UNCHANGED disturbances
  \/ Proceed /\ UNCHANGED bounds
  \/ /\ disturbances < MaxDisturbances
     /\ Disturb
     /\ disturbances' = disturbances + 1
     /\ UNCHANGED uploads

MCSpec == MCInit /\ [][MCNext]_<<vars, bounds>>

MCFairSpec == MCSpec /\ Fairness
=============================================================================
