------------------------- MODULE TranscriptSnapshot -------------------------
(***************************************************************************)
(* What the back end keeps of a transcript it has read (lib/backend.mjs):  *)
(* the turns of the last part of a file to which an agent is appending.    *)
(* A file that has grown is read from where the last read ended; one that  *)
(* is not the same any more, or whose last record was too long to keep     *)
(* half of, is read again.  The agent may also cut its file off and write  *)
(* it anew, between any two of the calls that stat it and read it.         *)
(***************************************************************************)
EXTENDS Naturals, Sequences, SequencesExt, FiniteSetsExt

CONSTANTS
  MaxBytes,     \* of the end of a file that are read
  PendingMax,   \* of an unfinished record that are kept
  Boundary,     \* of the end of what was read that must still be there
  MaxSize,      \* bound: bytes of a file
  MaxRewrites   \* bound: files cut off in place, or replaced

VARIABLES
  files,  \* the bytes of each file there has been under this name; the agent writes the last
  cut,    \* how often the last file has been cut off
  cache,  \* the snapshots kept: one, or none
  load    \* the read under way

vars == <<files, cut, cache, load>>

TranscriptSnapshotAssumption ==
  /\ MaxBytes \in Nat \ {0} /\ PendingMax \in 1..MaxBytes /\ Boundary \in Nat \ {0}
  /\ MaxSize \in Nat /\ MaxRewrites \in Nat

\* A byte of a record, and how often the file had been cut off when it was written; the
\* last byte of a record is its newline, and stands for the turn it makes.
Byte == [of : Nat, cut : Nat, end : BOOLEAN]
\* (torn is history: the file was cut off since the edge was compared.)
NoLoad == [at |-> "idle", file |-> 0, size |-> 0, cut |-> 0, torn |-> FALSE]

Init ==
  /\ files = <<<<>>>> /\ cut = 0 /\ cache = {} /\ load = NoLoad

Slice(bytes, from, upto) == SubSeq(bytes, from + 1, IF upto > Len(bytes) THEN Len(bytes) ELSE upto)
Tail_(bytes, n) == IF Len(bytes) <= n THEN bytes ELSE Slice(bytes, Len(bytes) - n, Len(bytes))
Newlines(bytes) == {i \in DOMAIN bytes : bytes[i].end}
\* The records whose newline is there, in order.
Records(bytes) == SelectSeq(bytes, LAMBDA b : b.end)

-----------------------------------------------------------------------------
\* Mutant: an unfinished record is kept however long it is.
SplitKeeping(bytes, dropping) ==
  LET at == Newlines(bytes)
      rest == IF ~dropping THEN bytes ELSE IF at = {} THEN <<>> ELSE Slice(bytes, Min(at), Len(bytes))
      here == Newlines(rest)
  IN [turns |-> Records(rest), pending |-> IF here = {} THEN rest ELSE Slice(rest, Max(here), Len(rest)),
      drop |-> dropping /\ at = {}, force |-> FALSE]

(* splitCompleteJsonl: the complete records of some bytes, what is left of *)
(* them to be completed, and whether what comes first must be dropped.     *)
Split(bytes, dropping) ==
  LET at == Newlines(bytes)
      rest == IF ~dropping THEN bytes ELSE IF at = {} THEN <<>> ELSE Slice(bytes, Min(at), Len(bytes))
      here == Newlines(rest)
      left == IF here = {} THEN rest ELSE Slice(rest, Max(here), Len(rest))
      over == Len(left) > PendingMax
      still == dropping /\ at = {}
  IN [turns |-> Records(rest), pending |-> IF over THEN <<>> ELSE left,
      drop |-> still \/ over, force |-> over /\ ~still]

\* (torn is history: of what it is made of, some was read in a file that had been cut
\* off in the middle of the read.)
Entry(ld, turns, split, edge, torn) ==
  [file |-> ld.file, size |-> ld.size, cut |-> ld.cut, turns |-> turns, pending |-> split.pending,
   drop |-> split.drop, force |-> split.force, edge |-> Tail_(edge, Boundary), torn |-> torn]

\* rebuildTranscriptSnapshot: of what lies before the first newline, unless the whole
\* file is read, nothing is known.  It takes what it finds, be it less than the file
\* had when it was looked at.
Rebuilt(ld, bytes) ==
  LET start == IF ld.size > MaxBytes THEN ld.size - MaxBytes ELSE 0
      raw == Slice(bytes, start, ld.size)
      split == Split(raw, start > 0)
  IN Entry(ld, split.turns, split, raw, Len(raw) < ld.size - start)

\* appendTranscriptSnapshot, once its bytes are read.
Appended(ld, was, delta) ==
  LET split == Split(was.pending \o delta, was.drop)
  IN Entry(ld, was.turns \o split.turns, split, was.edge \o delta, was.torn \/ ld.torn)

-----------------------------------------------------------------------------
(* loadLocalAgentTranscript.  Whoever reads the same transcript meanwhile  *)
(* is given the result of the read under way.                              *)

\* open, and stat: the file that has the name now, and its size.
Opens ==
  /\ load.at = "idle"
  /\ load' = [at |-> "stat", file |-> Len(files), size |-> Len(Last(files)), cut |-> cut,
              torn |-> FALSE]
  /\ UNCHANGED <<files, cut, cache>>

Kept == CHOOSE e \in cache : TRUE
SameFile == cache # {} /\ Kept.file = load.file

\* Mutant: a snapshot that has lost the beginning of a record is appended to.
MayAppendAlways == SameFile /\ load.size > Kept.size

MayAppend == SameFile /\ load.size > Kept.size /\ ~Kept.force

\* A file that has not changed (its times are compared too) is not read.
Compares ==
  /\ load.at = "stat"
  /\ load' = IF SameFile /\ load.size = Kept.size /\ load.cut = Kept.cut THEN NoLoad
             ELSE [load EXCEPT !.at = IF MayAppend THEN "edge" ELSE "rebuild"]
  /\ UNCHANGED <<files, cut, cache>>

\* Mutant: bytes are appended whatever is before them now.
EdgeAssumed(bytes) == TRUE

EdgeIsThere(bytes) == Slice(bytes, Kept.size - Len(Kept.edge), Kept.size) = Kept.edge

ReadsEdge ==
  /\ load.at = "edge"
  /\ load' = [load EXCEPT !.at =
       IF cache # {} /\ EdgeIsThere(files[load.file]) /\ load.size - Kept.size <= MaxBytes
       THEN "delta" ELSE "rebuild"]
  /\ UNCHANGED <<files, cut, cache>>

Stores(e) == cache' = {e} /\ load' = NoLoad /\ UNCHANGED <<files, cut>>

ReadsDelta ==
  /\ load.at = "delta"
  /\ LET delta == Slice(files[load.file], Kept.size, load.size) IN
     IF Len(delta) = load.size - Kept.size THEN Stores(Appended(load, Kept, delta))
     ELSE load' = [load EXCEPT !.at = "rebuild"] /\ UNCHANGED <<files, cut, cache>>

Rebuilds == load.at = "rebuild" /\ Stores(Rebuilt(load, files[load.file]))

\* touchTranscriptSnapshot: other transcripts take the room.  (A read under way holds
\* on to the snapshot it began with.)
Evicted ==
  /\ cache # {} /\ load.at = "idle" /\ cache' = {} /\ UNCHANGED <<files, cut, load>>

-----------------------------------------------------------------------------
(* The agent, which this code does not control.                            *)

Now == Last(files)
Writes(bytes) == files' = [files EXCEPT ![Len(files)] = bytes] /\ UNCHANGED <<cache, load>>

\* A record may take several writes.
WritesByte ==
  /\ Len(Now) < MaxSize
  /\ \E end \in BOOLEAN :
       LET n == Len(Records(Now)) IN Writes(Append(Now, [of |-> n, cut |-> cut, end |-> end]))
  /\ UNCHANGED cut

\* It may go on to write other records in the place of those that are gone.
CutOff ==
  /\ Len(files) + cut <= MaxRewrites /\ Now # <<>>
  /\ \E n \in 0..(Len(Now) - 1) : files' = [files EXCEPT ![Len(files)] = SubSeq(Now, 1, n)]
  /\ cut' = cut + 1
  /\ load' = [load EXCEPT !.torn = @ \/ (load.at = "delta" /\ load.file = Len(files))]
  /\ UNCHANGED cache

\* (What was in a file that nobody has open any more does not matter.)
Replaced ==
  /\ Len(files) + cut <= MaxRewrites
  /\ files' = Append(IF load.at = "idle" THEN [files EXCEPT ![Len(files)] = <<>>] ELSE files, <<>>)
  /\ cut' = 0 /\ UNCHANGED <<cache, load>>

-----------------------------------------------------------------------------
Reading == Opens \/ Compares \/ ReadsEdge \/ ReadsDelta \/ Rebuilds \/ Evicted
Agent == WritesByte \/ CutOff \/ Replaced
Next == Reading \/ Agent
Spec == Init /\ [][Next]_vars

TypeOK ==
  /\ \A i \in DOMAIN files : \A k \in DOMAIN files[i] : files[i][k] \in Byte
  /\ load.at \in {"idle", "stat", "edge", "delta", "rebuild"} /\ load.file \in 0..Len(files)
  /\ \A e \in cache : e.file \in DOMAIN files /\ Len(e.pending) <= PendingMax /\ Len(e.edge) <= Boundary

\* The turns kept of a file are its last complete records, in their order, none of them
\* skipped and none mixed with what it had before it was cut off; and they go back as
\* far as the part of it that is read.
IsOfTheFile(e) ==
  LET seen == SubSeq(Now, 1, e.size)
      all == Records(seen)
      \* A record that is longer than what is read may be left out.
      short(r) == Cardinality({i \in DOMAIN seen : seen[i].of = r.of}) <= MaxBytes
      kept == SelectSeq(e.turns, short)
      part == Rebuilt([file |-> e.file, size |-> e.size, cut |-> e.cut], seen).turns
  IN /\ e.turns = SelectSeq(all, LAMBDA r : r \in ToSet(e.turns))
     /\ IsSuffix(kept, SelectSeq(all, short)) /\ IsSuffix(SelectSeq(part, short), kept)

\* This holds of every file that has been cut off and written anew, before a read or in
\* the middle of it, with one exception: what was cut off after the edge was compared
\* and before the bytes behind it were read (backend.mjs:1473-1477), or between the
\* stat and a rebuild that finds less than it was told of (line 1426).  Such a
\* snapshot is torn, and so are those that are made of it.
SnapshotIsOfTheFile ==
  \A e \in cache : e.file = Len(files) /\ e.cut = cut /\ ~e.torn => IsOfTheFile(e)

\* test/agent-transcript.mjs:394 says without exception: "truncate rebuilds the cached
\* transcript".  No run checks it: TLC finds the torn snapshots.
TruncateRebuilds ==
  \A e \in cache : e.file = Len(files) /\ e.cut = cut => IsOfTheFile(e)
=============================================================================
