------------------------- MODULE ChunkAnswersProofs -------------------------
(***************************************************************************)
(* What the archive tells its callers, for any number of controllers,      *)
(* calls, epochs and chunks, on an object store with conditional writes:   *)
(* no commit finds the archive damaged, no chunk is reported twice, and    *)
(* every answer is one that EpochLog allows: the archive implements it.    *)
(*                                                                         *)
(* And what a reader is told on any store, also on a local disk, where a   *)
(* write that is interrupted leaves a part of a file and nothing checks a  *)
(* precondition: what keeps it from reading damage as content, or rolling  *)
(* a manifest back, is the one controller and its queues.                  *)
(***************************************************************************)
EXTENDS ChunkArchiveProofs, WellFoundedInduction

(* Each chunk names the hash of the bytes before it.                        *)
LogChained ==
  \A e \in Epochs : \A i \in 1 .. Len(log[e]) :
    log[e][i].prev = IF i = 1 THEN NoBody ELSE log[e][i - 1].body

Chained(ch, view) == ch.prev = LastBody(view)

(* How a commit stands to the manifest it has read: a walk looks for a chunk*)
(* below its offset, a write follows its last chunk.                        *)
StandInv(r) ==
  /\ req[r].pc = "walk" => req[r].chunk.end <= req[r].view.off
  /\ req[r].pc \in Writing => Chained(req[r].chunk, req[r].view)
  /\ req[r].res # "invalid"

StandsInv == \A r \in Calls : StandInv(r)

LateChained == \A w \in late : Chained(w.chunk, w.view)

(* A walk has not passed the start of the chunk it looks for.               *)
WalkAligned(w, ch) == w.at # NoChunk /\ w.upto = w.at.end /\ ch.start < w.upto

WalksAligned ==
  \A c \in Controllers : \A ch \in DOMAIN walks[c] : WalkAligned(walks[c][ch], ch)

(* Only a committed chunk is reported, and only by the one commit that made *)
(* it so.                                                                   *)
ReportInv ==
  /\ reported \in Seq(Offered)
  /\ \A i \in DOMAIN reported : Committed(reported[i])
  /\ ReportedAtMostOnce
  /\ \A r \in Calls : req[r].pc = "callback" =>
       /\ \A i \in DOMAIN reported : reported[i] # req[r].chunk
       /\ \A q \in Calls : req[q].pc = "callback" /\ req[q].chunk = req[r].chunk => q = r

AnswersRest == LogChained /\ StandsInv /\ LateChained /\ WalksAligned /\ ReportInv

AnswersInv == ArchiveInv /\ AnswersRest

-----------------------------------------------------------------------------
USE DEF Reading, Writing, Running, Busy

(* Every chunk of the log ends at or before the offset of its manifest.     *)
LEMMA EndsBelow ==
  ASSUME StoreInv, NEW e \in Epochs, NEW n \in 0 .. Len(log[e]), NEW i \in 1 .. n
  PROVE  /\ log[e][i].end <= Summary(e, n).off
         /\ i \in 1 .. Len(log[e]) /\ log[e][i] \in Offered
<1>1. Len(log[e]) \in Nat /\ log[e] \in Seq(Offered)
  BY DEF StoreInv, LogOrdered
<1>2. /\ i \in 1 .. Len(log[e]) /\ n \in 1 .. Len(log[e]) /\ i \in 0 .. Len(log[e])
      /\ Summary(e, i).off = log[e][i].end /\ log[e][i] \in Offered
  BY <1>1 DEF Summary
<1>3. i = n \/ Summary(e, i).off < Summary(e, n).off
  BY <1>2, OffsetsGrow DEF StoreInv
<1>4. Summary(e, i).off \in Nat /\ Summary(e, n).off \in Nat
  BY <1>2, OffsetsGrow DEF StoreInv
<1> QED
  BY <1>2, <1>3, <1>4

(* A chunk that ends beyond the manifest is not committed.                  *)
LEMMA NotYetCommitted ==
  ASSUME StoreInv, NEW ch \in Offered, manifest[ch.epoch].off < ch.end
  PROVE  ~ Committed(ch)
<1>1. ch.epoch \in Epochs /\ ch.end \in Nat
  BY Nulls
<1>2. Len(log[ch.epoch]) \in Nat /\ DOMAIN log[ch.epoch] = 1 .. Len(log[ch.epoch])
  BY <1>1 DEF StoreInv, LogOrdered
<1>3. manifest[ch.epoch] = Summary(ch.epoch, Len(log[ch.epoch]))
  BY <1>1 DEF StoreInv, ManifestIsLast
<1>4. Summary(ch.epoch, Len(log[ch.epoch])).off \in Nat
  BY <1>1, <1>2, OffsetsGrow DEF StoreInv
<1>5. ASSUME NEW i \in 1 .. Len(log[ch.epoch]), log[ch.epoch][i] = ch PROVE FALSE
  <2>1. ch.end <= Summary(ch.epoch, Len(log[ch.epoch])).off
    BY <1>1, <1>2, <1>5, EndsBelow
  <2> QED
    BY <1>1, <1>3, <1>4, <2>1
<1> QED
  BY <1>2, <1>5 DEF Committed

(* What a manifest write does to the log: it appends a new chunk that names *)
(* the hash of the one before it.                                           *)
LEMMA Commits ==
  ASSUME StoreInv, LogChained, NEW ch \in Offered, Admitted(ch, manifest[ch.epoch]),
         Chained(ch, manifest[ch.epoch]), StoreManifest(ch)
  PROVE  /\ LogChained' /\ ~ Committed(ch)
         /\ \A x \in Offered : Committed(x) => Committed(x)'
<1> DEFINE e == ch.epoch
           n == Len(log[e])
<1>1. /\ log \in [Epochs -> Seq(Offered)] /\ log' = [log EXCEPT ![e] = Append(@, ch)]
      /\ e \in Epochs /\ ch.start < ch.end /\ ch.start = manifest[e].off
  BY Nulls DEF StoreInv, LogOrdered, StoreManifest, Admitted
<1>2. /\ log' \in [Epochs -> Seq(Offered)]
      /\ \A x \in Epochs : /\ Len(log[x]) \in Nat
                           /\ Len(log'[x]) = IF x = e THEN Len(log[x]) + 1 ELSE Len(log[x])
                           /\ \A i \in 1 .. Len(log[x]) : log'[x][i] = log[x][i]
      /\ log'[e][n + 1] = ch
  BY <1>1, Appended
<1>3. ~ Committed(ch)
  BY <1>1, NotYetCommitted
<1>4. \A x \in Offered : Committed(x) => Committed(x)'
  <2>1. ASSUME NEW x \in Offered, Committed(x) PROVE Committed(x)'
    <3>1. PICK i \in 1 .. Len(log[x.epoch]) : log[x.epoch][i] = x
      BY <1>1, <2>1, Nulls DEF Committed
    <3>2. i \in DOMAIN log'[x.epoch] /\ log'[x.epoch][i] = x
      BY <1>2, <3>1, Nulls
    <3> QED
      BY <3>2 DEF Committed
  <2> QED
    BY <2>1
<1>5. ch.prev = IF n = 0 THEN NoBody ELSE log[e][n].body
  <2>1. manifest[e] = Summary(e, n) /\ n \in Nat
    BY <1>1, <1>2 DEF StoreInv, ManifestIsLast
  <2>2. n # 0 => log[e][n] \in Offered
    BY <1>1, <2>1
  <2> QED
    BY <2>1, <2>2, Nulls DEF Chained, LastBody, Summary, NoManifest
<1>6. LogChained'
  <2>1. ASSUME NEW x \in Epochs, NEW i \in 1 .. Len(log'[x])
        PROVE  log'[x][i].prev = IF i = 1 THEN NoBody ELSE log'[x][i - 1].body
    <3>1. CASE i \in 1 .. Len(log[x])
      <4>1. log'[x][i] = log[x][i] /\ (i # 1 => log'[x][i - 1] = log[x][i - 1])
        BY <1>2, <3>1
      <4> QED
        BY <3>1, <4>1 DEF LogChained
    <3>2. CASE i \notin 1 .. Len(log[x])
      <4>1. x = e /\ i = n + 1 /\ n \in Nat
        BY <1>1, <1>2, <3>2
      <4>2. n # 0 => log'[e][n] = log[e][n]
        BY <1>1, <1>2, <4>1
      <4> QED
        BY <1>2, <1>5, <4>1, <4>2
    <3> QED
      BY <3>1, <3>2
  <2> QED
    BY <1>2, <2>1 DEF LogChained
<1> QED
  BY <1>3, <1>4, <1>6

-----------------------------------------------------------------------------
(* The log is as it was.                                                    *)
LEMMA LogKept ==
  ASSUME LogChained, log' = log
  PROVE  LogChained' /\ (\A x \in Offered : Committed(x) => Committed(x)')
  BY DEF LogChained, Committed

(* Nobody reports, and nobody comes to the point of reporting.              *)
LEMMA ReportsKept ==
  ASSUME ReportInv, reported' = reported, \A x \in Offered : Committed(x) => Committed(x)',
         \A q \in Calls : req'[q].pc = "callback" =>
                            req[q].pc = "callback" /\ req'[q].chunk = req[q].chunk
  PROVE  ReportInv'
<1>1. /\ reported' \in Seq(Offered) /\ \A i \in DOMAIN reported' : Committed(reported[i])'
      /\ ReportedAtMostOnce'
  <2>1. \A i \in DOMAIN reported : reported[i] \in Offered /\ Committed(reported[i])
    BY DEF ReportInv
  <2>2. \A i \in DOMAIN reported : Committed(reported[i])'
    BY <2>1
  <2> QED
    BY <2>2 DEF ReportInv, ReportedAtMostOnce
<1>2. ASSUME NEW q \in Calls, req'[q].pc = "callback"
      PROVE  /\ \A i \in DOMAIN reported' : reported'[i] # req'[q].chunk
             /\ \A p \in Calls : req'[p].pc = "callback" /\ req'[p].chunk = req'[q].chunk => p = q
  BY <1>2 DEF ReportInv
<1> QED
  BY <1>1, <1>2 DEF ReportInv

(* Only the request of r changes, and its walk, if that.                    *)
LEMMA OneStands ==
  ASSUME StandsInv, NEW r \in Calls, \A q \in Calls : q # r => req'[q] = req[q], StandInv(r)'
  PROVE  StandsInv'
<1>1. ASSUME NEW q \in Calls PROVE StandInv(q)'
  <2>1. CASE q = r
    BY <2>1
  <2>2. CASE q # r
    <3>1. req'[q] = req[q] /\ StandInv(q)
      BY <2>2 DEF StandsInv
    <3> QED
      BY <3>1 DEF StandInv
  <2> QED
    BY <2>1, <2>2
<1> QED
  BY <1>1 DEF StandsInv

(* The commit of r ends with any answer but "invalid".                      *)
LEMMA SettleStands ==
  ASSUME CallsTyped, StandsInv, NEW r \in Calls, NEW res, res # "invalid", Settle(r, res)
  PROVE  /\ StandsInv'
         /\ \A q \in Calls : q # r => req'[q] = req[q]
         /\ req'[r].pc # "callback"
<1>1. (\A q \in Calls : q # r => req'[q] = req[q]) /\ req'[r].pc \in {"idle", "answered"}
  BY SettleFacts
<1>2. req'[r].res # "invalid"
  BY DEF Settle, CallsTyped, IdleRequest
<1>3. StandInv(r)'
  BY <1>1, <1>2 DEF StandInv
<1> QED
  BY <1>1, <1>3, OneStands

(* A step of r that is neither a manifest write nor a report keeps the rest.*)
LEMMA StepKeeps ==
  ASSUME AnswersRest, NEW r \in Calls, \A q \in Calls : q # r => req'[q] = req[q],
         req'[r].pc # "callback", StandsInv', log' = log, reported' = reported,
         LateChained', WalksAligned'
  PROVE  AnswersRest'
<1>1. LogChained' /\ (\A x \in Offered : Committed(x) => Committed(x)')
  BY LogKept DEF AnswersRest
<1>2. ReportInv'
  BY <1>1, ReportsKept DEF AnswersRest
<1> QED
  BY <1>1, <1>2 DEF AnswersRest

(* Late writes and walks that nobody touches.                               *)
LEMMA RestKept ==
  ASSUME AnswersRest
  PROVE  (late' = late => LateChained') /\ (walks' = walks => WalksAligned')
  BY DEF AnswersRest, LateChained, WalksAligned

(* Admission compares the hash before the chunk with the manifest's last.   *)
LEMMA AdmitStands ==
  ASSUME CallsTyped, StandsInv, NEW r \in Calls, req[r].pc \in Busy, NEW view, Admit(r, view)
  PROVE  /\ StandsInv'
         /\ \A q \in Calls : q # r => req'[q] = req[q]
         /\ req'[r].pc # "callback"
<1>1. CASE Settle(r, "cursorMismatch") \/ Settle(r, "chainMismatch")
  BY <1>1, SettleStands
<1>2. CASE /\ req[r].chunk.prev = LastBody(view)
           /\ req' = [req EXCEPT ![r].pc = "putRaw", ![r].view = view]
  <2>1. /\ req'[r].pc = "putRaw" /\ req'[r].view = view /\ req'[r].chunk = req[r].chunk
        /\ req'[r].res = req[r].res
    BY <1>2, BusyTyped DEF CallsTyped, Requests
  <2>2. \A q \in Calls : q # r => req'[q] = req[q]
    BY <1>2 DEF CallsTyped
  <2>3. StandInv(r)'
    BY <1>2, <2>1 DEF StandInv, Chained, LastBody, StandsInv
  <2> QED
    BY <2>1, <2>2, <2>3, OneStands
<1> QED
  BY <1>1, <1>2 DEF Admit

-----------------------------------------------------------------------------
(* The range of a committed chunk, as a walk finds it.                      *)
LEMMA CommittedRange ==
  ASSUME StoreInv, LogChained, NEW e \in Epochs, NEW i \in 1 .. Len(log[e])
  PROVE  LET at == log[e][i]
             p == ranges[at]
         IN /\ at \in Offered /\ at.epoch = e /\ at \in DOMAIN ranges
            /\ <<"range", at>> \notin torn
            /\ at.start = 0 <=> p = NoChunk
            /\ p # NoChunk => /\ p \in DOMAIN ranges /\ <<"range", p>> \notin torn
                              /\ p.end = at.start /\ p.body = at.prev
            /\ RawKey(at) \in raw /\ torn = {}
<1> DEFINE at == log[e][i]
<1>1. Len(log[e]) \in Nat /\ DOMAIN log[e] = 1 .. Len(log[e]) /\ log[e] \in Seq(Offered)
  BY DEF StoreInv, LogOrdered
<1>2. at \in Offered /\ at.epoch = e /\ at \in DOMAIN ranges /\ RawKey(at) \in raw /\ torn = {}
  BY <1>1 DEF StoreInv, LogOrdered, LogStored
<1>3. ranges[at] = IF i = 1 THEN NoChunk ELSE log[e][i - 1]
  <2>1. Reads(e, log[e])
    BY Readable
  <2>2. \A k \in DOMAIN log[e] : ranges[log[e][k]] = IF k = 1 THEN NoChunk ELSE log[e][k - 1]
    BY <2>1 DEF Reads
  <2> QED
    BY <1>1, <2>2
<1>4. at.start = IF i = 1 THEN 0 ELSE log[e][i - 1].end
  BY DEF StoreInv, LogOrdered
<1>5. CASE i = 1
  BY <1>2, <1>3, <1>4, <1>5
<1>6. CASE i # 1
  <2>1. i - 1 \in 1 .. Len(log[e]) /\ log[e][i - 1] \in Offered
    BY <1>1, <1>6
  <2>2. log[e][i - 1] \in DOMAIN ranges /\ log[e][i - 1].end # 0 /\ log[e][i - 1] # NoChunk
    BY <2>1, Nulls DEF StoreInv, LogStored
  <2>3. at.prev = log[e][i - 1].body
    BY <1>6 DEF LogChained
  <2> QED
    BY <1>2, <1>3, <1>4, <1>6, <2>2, <2>3
<1> QED
  BY <1>5, <1>6

(* A walk stands on a committed range that ends where the walk expects it,  *)
(* beyond the start of the chunk it looks for.                              *)
LEMMA WalkFacts ==
  ASSUME CallsTyped, StoreInv, ArchiveRest, AnswersRest, NEW r \in Calls, req[r].pc = "walk"
  PROVE  LET ch == req[r].chunk
             w == walks[req[r].ctrl][ch]
         IN /\ req[r].ctrl \in Controllers /\ ch \in DOMAIN walks[req[r].ctrl]
            /\ ch \in Offered /\ ch.epoch \in Epochs
            /\ WalkAligned(w, ch) /\ WellFormedRange(w.at, w.upto)
            /\ \E i \in 1 .. Len(log[ch.epoch]) : log[ch.epoch][i] = w.at
            /\ w.at = ch => WellFormedPredecessor(w.at, ch)
            /\ ranges[w.at] # NoChunk => ranges[w.at].end = w.at.start
            /\ w.at.start = 0 <=> ranges[w.at] = NoChunk
            /\ w.at.start \in Nat /\ ch.start \in Nat
<1> DEFINE ch == req[r].chunk
           w == walks[req[r].ctrl][ch]
<1>1. /\ req[r].ctrl \in Controllers /\ ch \in DOMAIN walks[req[r].ctrl]
      /\ ch \in Offered /\ ch.epoch \in Epochs /\ ch.start \in Nat
  BY BusyTyped, Nulls DEF ArchiveRest, WalksInv
<1>2. WalkAligned(w, ch)
  BY <1>1 DEF AnswersRest, WalksAligned
<1>3. PICK i \in 1 .. Len(log[ch.epoch]) : log[ch.epoch][i] = w.at
  BY <1>1, <1>2 DEF ArchiveRest, WalksInv, WalkAligned
<1>4. /\ w.at \in Offered /\ w.at \in DOMAIN ranges /\ <<"range", w.at>> \notin torn
      /\ w.at.start = 0 <=> ranges[w.at] = NoChunk
      /\ ranges[w.at] # NoChunk =>
           /\ ranges[w.at] \in DOMAIN ranges /\ <<"range", ranges[w.at]>> \notin torn
           /\ ranges[w.at].end = w.at.start /\ ranges[w.at].body = w.at.prev
  <2> DEFINE at == log[ch.epoch][i]
  <2>1. /\ at \in Offered /\ at \in DOMAIN ranges /\ <<"range", at>> \notin torn
        /\ at.start = 0 <=> ranges[at] = NoChunk
        /\ ranges[at] # NoChunk =>
             /\ ranges[at] \in DOMAIN ranges /\ <<"range", ranges[at]>> \notin torn
             /\ ranges[at].end = at.start /\ ranges[at].body = at.prev
    BY <1>1, <1>3, CommittedRange DEF AnswersRest
  <2> QED
    BY <1>3, <2>1
<1>5. w.at.start \in Nat
  BY <1>4, Nulls
<1>6. WellFormedRange(w.at, w.upto)
  BY <1>2, <1>4 DEF WellFormedRange, WalkAligned
<1>7. w.at = ch => WellFormedPredecessor(w.at, ch)
  BY <1>4 DEF WellFormedPredecessor
<1> QED
  BY <1>1, <1>2, <1>3, <1>4, <1>5, <1>6, <1>7

(* Reading the manifest: the archive is whole, and a walk begins at the last*)
(* chunk, which ends at or beyond the chunk it looks for.                   *)
LEMMA ReadManifestAnswers ==
  ASSUME CallsTyped, StoreTyped, StoreInv, ArchiveRest, AnswersRest, NEW r \in Calls,
         ReadManifest(r)
  PROVE  AnswersRest'
<1> DEFINE ch == req[r].chunk
           e == ch.epoch
           c == req[r].ctrl
<1>1. /\ req[r].pc = "queued" /\ log' = log /\ reported' = reported /\ late' = late
      /\ torn = {}
  BY DEF ReadManifest, storeVars, StoreInv
<1>2. ch \in Offered /\ e \in Epochs /\ c \in Controllers /\ ch.end \in Nat /\ ch.start < ch.end
      /\ ch.start \in Nat
  BY <1>1, BusyTyped, Nulls
<1>3. CASE Admit(r, manifest[e]) /\ UNCHANGED walks
  <2>1. /\ StandsInv' /\ req'[r].pc # "callback"
        /\ \A q \in Calls : q # r => req'[q] = req[q]
    BY <1>1, <1>3, AdmitStands DEF AnswersRest
  <2> QED
    BY <1>1, <1>3, <2>1, RestKept, StepKeeps
<1>4. CASE /\ ch.end <= manifest[e].off
           /\ req' = [req EXCEPT ![r].pc = "walk", ![r].view = manifest[e], ![r].reads = 0]
           /\ \/ walks' = walks
              \/ walks' = [walks EXCEPT ![c] =
                             [x \in DOMAIN @ \union {ch} |->
                                IF x = ch
                                THEN [anchor |-> manifest[e], at |-> manifest[e].last,
                                      upto |-> manifest[e].off]
                                ELSE @[x]]]
  <2>1. /\ req'[r].pc = "walk" /\ req'[r].view = manifest[e] /\ req'[r].chunk = ch
        /\ req'[r].res = req[r].res
    BY <1>1, <1>4, BusyTyped DEF CallsTyped, Requests
  <2>2. \A q \in Calls : q # r => req'[q] = req[q]
    BY <1>4 DEF CallsTyped
  <2>3. StandsInv'
    <3>1. StandInv(r)'
      BY <1>4, <2>1 DEF StandInv, AnswersRest, StandsInv
    <3> QED
      BY <2>2, <3>1, OneStands DEF AnswersRest
  <2>4. WalkAligned([anchor |-> manifest[e], at |-> manifest[e].last, upto |-> manifest[e].off], ch)
    <3>1. manifest[e] = Summary(e, Len(log[e])) /\ Len(log[e]) \in Nat /\ log[e] \in Seq(Offered)
      BY <1>2 DEF StoreInv, ManifestIsLast, LogOrdered
    <3>2. manifest[e].off \in Nat /\ ch.start < manifest[e].off
      BY <1>2, <1>4 DEF StoreTyped, Manifests
    <3>3. Len(log[e]) # 0
      BY <3>1, <3>2, <1>2 DEF Summary, NoManifest
    <3>4. manifest[e].last = log[e][Len(log[e])] /\ manifest[e].off = manifest[e].last.end
          /\ manifest[e].last \in Offered
      BY <3>1, <3>3 DEF Summary
    <3> QED
      BY <3>2, <3>4, Nulls DEF WalkAligned
  <2>5. WalksAligned'
    <3>1. CASE walks' = walks
      BY <3>1, RestKept
    <3>2. CASE walks' = [walks EXCEPT ![c] =
                           [x \in DOMAIN @ \union {ch} |->
                              IF x = ch
                              THEN [anchor |-> manifest[e], at |-> manifest[e].last,
                                    upto |-> manifest[e].off]
                              ELSE @[x]]]
      <4>1. DOMAIN walks = Controllers
        BY DEF ArchiveRest, WalksInv
      <4>2. ASSUME NEW d \in Controllers, NEW x \in DOMAIN walks'[d]
            PROVE  \/ x \in DOMAIN walks[d] /\ walks'[d][x] = walks[d][x]
                   \/ /\ x = ch
                      /\ walks'[d][x] = [anchor |-> manifest[e], at |-> manifest[e].last,
                                         upto |-> manifest[e].off]
        BY <1>2, <3>2, <4>1, <4>2
      <4> QED
        BY <2>4, <4>2 DEF AnswersRest, WalksAligned
    <3> QED
      BY <1>4, <3>1, <3>2
  <2> QED
    BY <1>1, <2>1, <2>2, <2>3, <2>5, RestKept, StepKeeps
<1> QED
  BY <1>1, <1>3, <1>4 DEF ReadManifest

(* A read of a walk finds a well-formed range, and goes on only above the   *)
(* start of the chunk it looks for.                                         *)
LEMMA WalkRangeAnswers ==
  ASSUME CallsTyped, StoreTyped, StoreInv, ArchiveRest, AnswersRest, NEW r \in Calls,
         WalkRange(r)
  PROVE  AnswersRest'
<1> DEFINE ch == req[r].chunk
           e == ch.epoch
           c == req[r].ctrl
           at == walks[c][ch].at
           upto == walks[c][ch].upto
<1>1. /\ req[r].pc = "walk" /\ log' = log /\ reported' = reported /\ late' = late
  BY DEF WalkRange, storeVars
<1>2. /\ c \in Controllers /\ ch \in DOMAIN walks[c]
      /\ at # NoChunk /\ WellFormedRange(at, upto)
      /\ at = ch => WellFormedPredecessor(at, ch)
      /\ ranges[at] # NoChunk => ranges[at].end = at.start
      /\ at.start = 0 <=> ranges[at] = NoChunk
      /\ at.start \in Nat /\ ch.start \in Nat
  BY <1>1, WalkFacts DEF WalkAligned
<1>3. CASE Admit(r, req[r].view) /\ UNCHANGED walks
  <2>1. /\ StandsInv' /\ req'[r].pc # "callback"
        /\ \A q \in Calls : q # r => req'[q] = req[q]
    BY <1>1, <1>3, AdmitStands DEF AnswersRest
  <2> QED
    BY <1>1, <1>3, <2>1, RestKept, StepKeeps
<1>4. CASE (\E res \in {"verifying", "epochConflict"} : Settle(r, res)) /\ UNCHANGED walks
  <2>1. /\ StandsInv' /\ req'[r].pc # "callback"
        /\ \A q \in Calls : q # r => req'[q] = req[q]
    BY <1>4, SettleStands DEF AnswersRest
  <2> QED
    BY <1>1, <1>4, <2>1, RestKept, StepKeeps
<1>5. CASE Goto(r, "verifyRaw") /\ UNCHANGED walks
  <2>1. /\ req'[r].pc = "verifyRaw" /\ req'[r].res = req[r].res
        /\ \A q \in Calls : q # r => req'[q] = req[q]
    BY <1>1, <1>5, BusyTyped DEF Goto, CallsTyped, Requests
  <2>2. StandInv(r)'
    BY <2>1 DEF StandInv, AnswersRest, StandsInv
  <2>3. StandsInv'
    BY <2>1, <2>2, OneStands DEF AnswersRest
  <2> QED
    BY <1>1, <1>5, <2>1, <2>3, RestKept, StepKeeps
<1>6. CASE /\ at.start > ch.start
           /\ req' = [req EXCEPT ![r].reads = @ + 1]
           /\ walks' = [walks EXCEPT ![c][ch] =
                          [anchor |-> @.anchor, at |-> ranges[at], upto |-> at.start]]
  <2>1. /\ req'[r].pc = "walk" /\ req'[r].res = req[r].res /\ req'[r].chunk = req[r].chunk
        /\ req'[r].view = req[r].view /\ \A q \in Calls : q # r => req'[q] = req[q]
    BY <1>1, <1>6, BusyTyped DEF CallsTyped, Requests
  <2>2. StandInv(r)'
    BY <1>1, <2>1 DEF StandInv, AnswersRest, StandsInv
  <2>3. StandsInv'
    BY <2>1, <2>2, OneStands DEF AnswersRest
  <2>4. WalksAligned'
    <3>1. DOMAIN walks = Controllers
      BY DEF ArchiveRest, WalksInv
    <3>2. ASSUME NEW d \in Controllers, NEW x \in DOMAIN walks'[d]
          PROVE  \/ x \in DOMAIN walks[d] /\ walks'[d][x] = walks[d][x]
                 \/ /\ x = ch
                    /\ walks'[d][x].at = ranges[at] /\ walks'[d][x].upto = at.start
      BY <1>2, <1>6, <3>1, <3>2
    <3>3. ranges[at] # NoChunk /\ ranges[at].end = at.start
      <4>1. at.start \in Nat /\ ch.start \in Nat /\ at.start > ch.start
        BY <1>2, <1>6
      <4>2. at.start # 0
        BY <4>1
      <4> QED
        BY <1>2, <4>2
    <3>4. ASSUME NEW d \in Controllers, NEW x \in DOMAIN walks'[d]
          PROVE  WalkAligned(walks'[d][x], x)
      <4>1. CASE x \in DOMAIN walks[d] /\ walks'[d][x] = walks[d][x]
        BY <4>1 DEF AnswersRest, WalksAligned
      <4>2. CASE x = ch /\ walks'[d][x].at = ranges[at] /\ walks'[d][x].upto = at.start
        BY <1>6, <3>3, <4>2 DEF WalkAligned
      <4> QED
        BY <3>2, <3>4, <4>1, <4>2
    <3> QED
      BY <3>4 DEF WalksAligned
  <2> QED
    BY <1>1, <2>1, <2>3, <2>4, RestKept, StepKeeps
<1> QED
  BY <1>2, <1>3, <1>4, <1>5, <1>6 DEF WalkRange, Exact

(* Giving up a read; and the bytes of a committed chunk are there.          *)
LEMMA OtherReadsAnswer ==
  ASSUME CallsTyped, StoreInv, ArchiveRest, AnswersRest, NEW r \in Calls,
         AbandonRead(r) \/ VerifyRaw(r)
  PROVE  AnswersRest'
<1>1. /\ log' = log /\ reported' = reported /\ late' = late /\ walks' = walks
  BY DEF AbandonRead, VerifyRaw, storeVars
<1>2. \E res \in {"error", "ack"} : Settle(r, res)
  <2>1. CASE AbandonRead(r)
    BY <2>1 DEF AbandonRead
  <2>2. CASE VerifyRaw(r)
    <3>1. Committed(req[r].chunk) /\ req[r].chunk \in Offered /\ req[r].chunk.epoch \in Epochs
      BY <2>2, BusyTyped DEF VerifyRaw, ArchiveRest, CallsInv, CallInv
    <3>2. PICK i \in 1 .. Len(log[req[r].chunk.epoch]) : log[req[r].chunk.epoch][i] = req[r].chunk
      <4>1. log[req[r].chunk.epoch] \in Seq(Offered)
        BY <3>1 DEF StoreInv, LogOrdered
      <4>2. DOMAIN log[req[r].chunk.epoch] = 1 .. Len(log[req[r].chunk.epoch])
        BY <4>1
      <4> QED
        BY <3>1, <4>2 DEF Committed
    <3>3. RawKey(req[r].chunk) \in raw /\ torn = {}
      BY <3>1, <3>2 DEF StoreInv, LogStored
    <3> QED
      BY <2>2, <3>3 DEF VerifyRaw
  <2> QED
    BY <2>1, <2>2
<1>3. /\ StandsInv' /\ req'[r].pc # "callback"
      /\ \A q \in Calls : q # r => req'[q] = req[q]
  BY <1>2, SettleStands DEF AnswersRest
<1> QED
  BY <1>1, <1>3, RestKept, StepKeeps

(* The writes of a commit.  The manifest write is the one by which its      *)
(* chunk becomes committed, so nobody else reports it.                      *)
LEMMA PutAnswers ==
  ASSUME ConditionalWrites, CallsTyped, StoreTyped, StoreInv, ArchiveRest, AnswersRest,
         NEW r \in Calls, PutRaw(r) \/ PutRange(r) \/ PutManifest(r)
  PROVE  AnswersRest'
<1> DEFINE ch == req[r].chunk
<1>1. /\ req[r].pc \in Writing /\ reported' = reported /\ late' = late /\ walks' = walks
  BY DEF PutRaw, PutRange, PutManifest
<1>2. ch \in Offered /\ ch.epoch \in Epochs /\ Admitted(ch, req[r].view) /\ Chained(ch, req[r].view)
  BY <1>1, BusyTyped DEF ArchiveRest, CallsInv, CallInv, AnswersRest, StandsInv, StandInv
<1>3. ASSUME NEW pc \in {"putRange", "putManifest", "callback"}, Goto(r, pc)
      PROVE  /\ StandsInv' /\ req'[r].pc = pc /\ req'[r].chunk = ch
             /\ \A q \in Calls : q # r => req'[q] = req[q]
  <2>1. /\ req'[r].pc = pc /\ req'[r].chunk = ch /\ req'[r].view = req[r].view
        /\ req'[r].res = req[r].res /\ \A q \in Calls : q # r => req'[q] = req[q]
    BY <1>3 DEF Goto, CallsTyped, Requests
  <2>2. StandInv(r)'
    BY <1>1, <2>1 DEF StandInv, AnswersRest, StandsInv, Chained, LastBody
  <2> QED
    BY <2>1, <2>2, OneStands DEF AnswersRest
<1>4. CASE PutRaw(r) \/ PutRange(r)
  <2>1. /\ StandsInv' /\ req'[r].pc # "callback" /\ log' = log
        /\ \A q \in Calls : q # r => req'[q] = req[q]
    BY <1>3, <1>4 DEF PutRaw, PutRange
  <2> QED
    BY <1>1, <2>1, RestKept, StepKeeps
<1>5. CASE PutManifest(r)
  <2>1. manifest[ch.epoch] = req[r].view /\ StoreManifest(ch) /\ Goto(r, "callback")
    BY <1>5 DEF PutManifest, Precondition
  <2>2. /\ LogChained' /\ ~ Committed(ch)
        /\ \A x \in Offered : Committed(x) => Committed(x)'
    BY <1>2, <2>1, Commits DEF AnswersRest
  <2>3. /\ StandsInv' /\ req'[r].pc = "callback" /\ req'[r].chunk = ch
        /\ \A q \in Calls : q # r => req'[q] = req[q]
    BY <1>3, <2>1
  <2>4. \A i \in DOMAIN reported : reported[i] \in Offered /\ Committed(reported[i])
    BY DEF AnswersRest, ReportInv
  <2>5. \A q \in Calls : req[q].pc = "callback" => Committed(req[q].chunk) /\ q # r
    BY <1>5 DEF ArchiveRest, CallsInv, CallInv, PutManifest
  <2>6. /\ reported' \in Seq(Offered) /\ \A i \in DOMAIN reported' : Committed(reported[i])'
        /\ ReportedAtMostOnce'
    BY <1>1, <2>2, <2>4 DEF AnswersRest, ReportInv, ReportedAtMostOnce
  <2>7. ASSUME NEW q \in Calls, req'[q].pc = "callback"
        PROVE  /\ \A i \in DOMAIN reported' : reported'[i] # req'[q].chunk
               /\ \A p \in Calls : req'[p].pc = "callback" /\ req'[p].chunk = req'[q].chunk => p = q
    <3>1. CASE q = r
      <4>1. \A i \in DOMAIN reported : reported[i] # ch
        BY <2>2, <2>4
      <4>2. \A p \in Calls : p # r /\ req'[p].pc = "callback" => req'[p].chunk # ch
        BY <2>2, <2>3, <2>5
      <4> QED
        BY <1>1, <2>3, <3>1, <4>1, <4>2
    <3>2. CASE q # r
      <4>1. req'[q] = req[q] /\ Committed(req[q].chunk) /\ req[q].chunk # ch
        BY <2>2, <2>3, <2>5, <2>7, <3>2
      <4>2. /\ \A i \in DOMAIN reported : reported[i] # req[q].chunk
            /\ \A p \in Calls : req[p].pc = "callback" /\ req[p].chunk = req[q].chunk => p = q
        BY <2>7, <4>1 DEF AnswersRest, ReportInv
      <4> QED
        BY <1>1, <2>3, <3>2, <4>1, <4>2
    <3> QED
      BY <3>1, <3>2
  <2>8. ReportInv'
    BY <2>6, <2>7 DEF ReportInv
  <2> QED
    BY <1>1, <2>2, <2>3, <2>8, RestKept DEF AnswersRest
<1> QED
  BY <1>4, <1>5

(* A refused manifest write.                                                *)
LEMMA ConflictAnswers ==
  ASSUME CallsTyped, StoreInv, AnswersRest, NEW r \in Calls, ManifestConflict(r)
  PROVE  AnswersRest'
<1>1. /\ log' = log /\ reported' = reported /\ late' = late /\ walks' = walks
  BY DEF ManifestConflict, storeVars
<1>2. /\ StandsInv' /\ req'[r].pc # "callback"
      /\ \A q \in Calls : q # r => req'[q] = req[q]
  <2>1. CASE Settle(r, "error")
    BY <2>1, SettleStands DEF AnswersRest
  <2>2. CASE req' = [req EXCEPT ![r].pc = "queued", ![r].tries = @ + 1, ![r].view = NoManifest]
    <3>1. /\ req'[r].pc = "queued" /\ req'[r].res = req[r].res
          /\ \A q \in Calls : q # r => req'[q] = req[q]
      BY <2>2 DEF CallsTyped, Requests
    <3>2. StandInv(r)'
      BY <3>1 DEF StandInv, AnswersRest, StandsInv
    <3> QED
      BY <3>1, <3>2, OneStands DEF AnswersRest
  <2> QED
    BY <2>1, <2>2 DEF ManifestConflict
<1> QED
  BY <1>1, <1>2, RestKept, StepKeeps

(* A write that fails, done or not or still under way.                      *)
LEMMA PutFailsAnswers ==
  ASSUME ConditionalWrites, CallsTyped, StoreInv, AnswersRest, NEW r \in Calls, PutFails(r)
  PROVE  AnswersRest'
<1>1. /\ Settle(r, "error") /\ reported' = reported /\ walks' = walks /\ req[r].pc \in Writing
  BY DEF PutFails
<1>2. /\ StandsInv' /\ req'[r].pc # "callback"
      /\ \A q \in Calls : q # r => req'[q] = req[q]
  BY <1>1, SettleStands DEF AnswersRest
<1>3. /\ log' = log
      /\ late' = late \/ late' = late \union {[chunk |-> req[r].chunk, view |-> req[r].view]}
  <2>1. ~ \E rs \in SUBSET Calls : TornWrite(rs)
    BY StorageAssumption DEF TornWrite
  <2> QED
    BY <2>1 DEF PutFails, storeVars
<1>4. LateChained'
  <2>1. Chained(req[r].chunk, req[r].view)
    BY <1>1 DEF AnswersRest, StandsInv, StandInv
  <2> QED
    BY <1>3, <2>1 DEF AnswersRest, LateChained, Chained, LastBody
<1> QED
  BY <1>1, <1>2, <1>3, <1>4, RestKept, StepKeeps

(* The report of a commit: the first of its chunk, since only one commit    *)
(* can have it to report.                                                   *)
LEMMA ReportAnswers ==
  ASSUME CallsTyped, StoreInv, ArchiveRest, AnswersRest, NEW r \in Calls, Report(r)
  PROVE  AnswersRest'
<1> DEFINE ch == req[r].chunk
<1>1. /\ Settle(r, "ack") /\ log' = log /\ late' = late /\ walks' = walks
      /\ req[r].pc = "callback" /\ reported' = Append(reported, ch)
  BY DEF Report, storeVars
<1>2. ch \in Offered /\ Committed(ch)
  BY <1>1, BusyTyped DEF ArchiveRest, CallsInv, CallInv
<1>3. /\ StandsInv' /\ req'[r].pc # "callback"
      /\ \A q \in Calls : q # r => req'[q] = req[q]
  BY <1>1, SettleStands DEF AnswersRest
<1>4. /\ reported \in Seq(Offered) /\ Len(reported) \in Nat
      /\ DOMAIN reported = 1 .. Len(reported)
      /\ \A i \in DOMAIN reported : Committed(reported[i]) /\ reported[i] # ch
      /\ ReportedAtMostOnce
  BY <1>1 DEF AnswersRest, ReportInv
<1>5. /\ reported' \in Seq(Offered) /\ DOMAIN reported' = 1 .. Len(reported) + 1
      /\ \A i \in DOMAIN reported : reported'[i] = reported[i]
      /\ reported'[Len(reported) + 1] = ch
  BY <1>1, <1>2, <1>4
<1>6. \A i \in DOMAIN reported' : i \in DOMAIN reported \/ i = Len(reported) + 1
  BY <1>4, <1>5
<1>7. /\ \A i \in DOMAIN reported' : Committed(reported'[i])
      /\ ReportedAtMostOnce'
  BY <1>2, <1>4, <1>5, <1>6 DEF ReportedAtMostOnce
<1>8. \A i \in DOMAIN reported' : Committed(reported[i])'
  BY <1>1, <1>7 DEF Committed
<1>9. ASSUME NEW q \in Calls, req'[q].pc = "callback"
      PROVE  /\ \A i \in DOMAIN reported' : reported'[i] # req'[q].chunk
             /\ \A p \in Calls : req'[p].pc = "callback" /\ req'[p].chunk = req'[q].chunk => p = q
  <2>1. q # r /\ req'[q] = req[q]
    BY <1>3, <1>9
  <2>2. /\ \A i \in DOMAIN reported : reported[i] # req[q].chunk
        /\ \A p \in Calls : req[p].pc = "callback" /\ req[p].chunk = req[q].chunk => p = q
    BY <1>9, <2>1 DEF AnswersRest, ReportInv
  <2>3. req[q].chunk # ch
    BY <1>1, <2>1, <2>2
  <2> QED
    BY <1>3, <1>5, <1>6, <2>1, <2>2, <2>3
<1>10. ReportInv'
  BY <1>5, <1>7, <1>8, <1>9 DEF ReportInv
<1> QED
  BY <1>1, <1>3, <1>10, LogKept, RestKept DEF AnswersRest

(* A manifest write that lands late, or is refused.                         *)
LEMMA LateWriteAnswers ==
  ASSUME ConditionalWrites, StoreTyped, StoreInv, ArchiveRest, AnswersRest,
         NEW w \in late, LateWrite(w)
  PROVE  AnswersRest'
<1>1. /\ w.chunk \in Offered /\ Ready(w) /\ Chained(w.chunk, w.view)
      /\ reported' = reported /\ req' = req /\ walks' = walks /\ late' \subseteq late
  BY DEF StoreTyped, ArchiveRest, LateInv, AnswersRest, LateChained, LateWrite, ctrlVars
<1>2. LogChained' /\ (\A x \in Offered : Committed(x) => Committed(x)')
  <2>1. CASE Precondition(w.chunk.epoch, w.view) /\ StoreManifest(w.chunk)
    <3>1. manifest[w.chunk.epoch] = w.view
      BY <2>1 DEF Precondition
    <3> QED
      BY <1>1, <2>1, <3>1, Commits DEF AnswersRest, Ready
  <2>2. CASE log' = log
    BY <2>2, LogKept DEF AnswersRest
  <2> QED
    BY <2>1, <2>2 DEF LateWrite
<1>3. StandsInv'
  BY <1>1 DEF AnswersRest, StandsInv, StandInv
<1>4. LateChained'
  BY <1>1 DEF AnswersRest, LateChained
<1>5. ReportInv'
  BY <1>1, <1>2, ReportsKept DEF AnswersRest
<1> QED
  BY <1>1, <1>2, <1>3, <1>4, <1>5, RestKept DEF AnswersRest

(* A crash of a controller.                                                 *)
LEMMA CrashAnswers ==
  ASSUME ConditionalWrites, CallsTyped, StoreInv, ArchiveRest, AnswersRest,
         NEW c \in Controllers, Crash(c)
  PROVE  AnswersRest'
<1> DEFINE dead == {q \in Calls : req[q].ctrl = c /\ req[q].pc \in Busy}
           lost == {q \in {p \in dead : req[p].pc \in Writing} : req[q].pc = "putManifest"}
<1>1. /\ req' = [q \in Calls |-> IF q \in dead THEN IdleRequest ELSE req[q]]
      /\ walks' = [walks EXCEPT ![c] = <<>>]
      /\ log' = log /\ reported' = reported
  BY DEF Crash
<1>2. \/ late' = late
      \/ late' = late \union {[chunk |-> req[q].chunk, view |-> req[q].view] : q \in lost}
  <2>1. ~ \E rs \in SUBSET Calls : TornWrite(rs)
    BY StorageAssumption DEF TornWrite
  <2> QED
    BY <2>1 DEF Crash, storeVars
<1>3. \A q \in Calls : req'[q] = req[q] \/ req'[q] = IdleRequest
  BY <1>1
<1>4. IdleRequest.pc = "idle" /\ IdleRequest.res = "none"
  BY DEF IdleRequest
<1>5. StandsInv'
  <2>1. ASSUME NEW q \in Calls PROVE StandInv(q)'
    <3>1. CASE req'[q] = req[q]
      BY <3>1 DEF AnswersRest, StandsInv, StandInv
    <3>2. CASE req'[q] = IdleRequest
      BY <1>4, <3>2 DEF StandInv
    <3> QED
      BY <1>3, <3>1, <3>2
  <2> QED
    BY <2>1 DEF StandsInv
<1>6. LateChained'
  <2>1. \A q \in lost : Chained(req[q].chunk, req[q].view)
    BY DEF AnswersRest, StandsInv, StandInv
  <2> QED
    BY <1>2, <2>1 DEF AnswersRest, LateChained, Chained, LastBody
<1>7. WalksAligned'
  <2>1. ASSUME NEW d \in Controllers, NEW x \in DOMAIN walks'[d]
        PROVE  x \in DOMAIN walks[d] /\ walks'[d][x] = walks[d][x]
    BY <1>1, <2>1 DEF ArchiveRest, WalksInv
  <2> QED
    BY <2>1 DEF AnswersRest, WalksAligned
<1>8. LogChained' /\ (\A x \in Offered : Committed(x) => Committed(x)')
  BY <1>1, LogKept DEF AnswersRest
<1>9. ReportInv'
  BY <1>1, <1>3, <1>4, <1>8, ReportsKept DEF AnswersRest
<1> QED
  BY <1>5, <1>6, <1>7, <1>8, <1>9 DEF AnswersRest

(* The steps that callers take.                                             *)
LEMMA CallerAnswers ==
  ASSUME CallsTyped, AnswersRest, NEW r \in Calls,
         \/ \E c \in Controllers, ch \in Offered : Submit(r, c, ch)
         \/ Leave(r)
         \/ Consume(r)
  PROVE  AnswersRest'
<1>1. /\ log' = log /\ reported' = reported /\ late' = late /\ walks' = walks
      /\ \A q \in Calls : q # r => req'[q] = req[q]
  BY DEF Submit, Leave, Consume, storeVars, CallsTyped
<1>2. \/ req'[r].pc \in {"queued", "idle"} /\ req'[r].res = "none"
      \/ /\ req'[r].pc = req[r].pc /\ req'[r].chunk = req[r].chunk
         /\ req'[r].view = req[r].view /\ req'[r].res = req[r].res
  <2>1. CASE Leave(r)
    BY <2>1 DEF Leave, CallsTyped, Requests
  <2>2. CASE Consume(r)
    BY <2>2 DEF Consume, CallsTyped, IdleRequest
  <2>3. CASE \E c \in Controllers, ch \in Offered : Submit(r, c, ch)
    <3>1. PICK c \in Controllers, ch \in Offered : Submit(r, c, ch)
      BY <2>3
    <3>2. req'[r] = [IdleRequest EXCEPT !.pc = "queued", !.ctrl = c, !.chunk = ch]
      BY <3>1 DEF Submit, CallsTyped
    <3> QED
      BY <3>2 DEF IdleRequest
  <2> QED
    BY <2>1, <2>2, <2>3
<1>3. StandInv(r)'
  BY <1>2 DEF StandInv, AnswersRest, StandsInv, Chained, LastBody
<1>4. StandsInv'
  BY <1>1, <1>3, OneStands DEF AnswersRest
<1>5. LogChained' /\ (\A x \in Offered : Committed(x) => Committed(x)')
  BY <1>1, LogKept DEF AnswersRest
<1>6. \A q \in Calls : req'[q].pc = "callback" =>
                         req[q].pc = "callback" /\ req'[q].chunk = req[q].chunk
  BY <1>1, <1>2
<1>7. ReportInv'
  BY <1>1, <1>5, <1>6, ReportsKept DEF AnswersRest
<1> QED
  BY <1>1, <1>4, <1>5, <1>7, RestKept DEF AnswersRest

-----------------------------------------------------------------------------
(* The initial states satisfy the invariant.                                *)
LEMMA AnswersInit == Init => AnswersInv
<1> SUFFICES ASSUME Init PROVE AnswersRest
  BY ArchiveInit DEF AnswersInv
<1>1. /\ \A e \in Epochs : log[e] = <<>> /\ Len(log[e]) = 0
      /\ reported = <<>> /\ late = {} /\ \A c \in Controllers : walks[c] = <<>>
      /\ \A r \in Calls : req[r].pc = "idle" /\ req[r].res = "none"
  BY DEF Init, IdleRequest
<1>2. LogChained /\ LateChained /\ WalksAligned
  BY <1>1 DEF LogChained, LateChained, WalksAligned
<1>3. StandsInv
  BY <1>1 DEF StandsInv, StandInv
<1>4. ReportInv
  BY <1>1 DEF ReportInv, ReportedAtMostOnce
<1> QED
  BY <1>2, <1>3, <1>4 DEF AnswersRest

(* The invariant is inductive.                                              *)
LEMMA AnswersNext ==
  ASSUME ConditionalWrites, AnswersInv, [Next]_vars
  PROVE  AnswersInv'
<1>1. CallsTyped /\ StoreTyped /\ StoreInv /\ ArchiveRest /\ AnswersRest /\ ArchiveInv'
  BY TypeParts, ArchiveNext DEF AnswersInv, ArchiveInv
<1>2. CASE UNCHANGED vars
  <2>1. /\ log' = log /\ reported' = reported /\ late' = late /\ walks' = walks /\ req' = req
    BY <1>2 DEF vars, storeVars, ctrlVars
  <2>2. LogChained' /\ (\A x \in Offered : Committed(x) => Committed(x)')
    BY <1>1, <2>1, LogKept DEF AnswersRest
  <2>3. StandsInv'
    BY <1>1, <2>1 DEF AnswersRest, StandsInv, StandInv
  <2>4. ReportInv'
    BY <1>1, <2>1, <2>2, ReportsKept DEF AnswersRest
  <2> QED
    BY <1>1, <2>1, <2>2, <2>3, <2>4, RestKept DEF AnswersRest, AnswersInv
<1>3. CASE Next
  <2>1. ASSUME NEW r \in Calls, NEW c \in Controllers, NEW ch \in Offered, Submit(r, c, ch)
        PROVE  AnswersRest'
    BY <1>1, <2>1, CallerAnswers
  <2>2. ASSUME NEW r \in Calls, Leave(r) \/ Consume(r) PROVE AnswersRest'
    BY <1>1, <2>2, CallerAnswers
  <2>3. ASSUME NEW r \in Calls,
               AbandonRead(r) \/ ReadManifest(r) \/ WalkRange(r) \/ VerifyRaw(r)
        PROVE  AnswersRest'
    BY <1>1, <2>3, OtherReadsAnswer, ReadManifestAnswers, WalkRangeAnswers
  <2>4. ASSUME NEW r \in Calls, PutRaw(r) \/ PutRange(r) \/ PutManifest(r) PROVE AnswersRest'
    BY <1>1, <2>4, PutAnswers
  <2>5. ASSUME NEW r \in Calls, ManifestConflict(r) PROVE AnswersRest'
    BY <1>1, <2>5, ConflictAnswers
  <2>6. ASSUME NEW r \in Calls, PutFails(r) PROVE AnswersRest'
    BY <1>1, <2>6, PutFailsAnswers
  <2>7. ASSUME NEW r \in Calls, Report(r) PROVE AnswersRest'
    BY <1>1, <2>7, ReportAnswers
  <2>8. ASSUME NEW w \in late, LateWrite(w) PROVE AnswersRest'
    BY <1>1, <2>8, LateWriteAnswers
  <2>9. ASSUME NEW c \in Controllers, Crash(c) PROVE AnswersRest'
    BY <1>1, <2>9, CrashAnswers
  <2>10. AnswersRest'
    BY <1>3, <2>1, <2>2, <2>3, <2>4, <2>5, <2>6, <2>7, <2>8, <2>9
       DEF Next, Proceed, Serve, Disturb
  <2> QED
    BY <1>1, <2>10 DEF AnswersInv
<1> QED
  BY <1>2, <1>3

(* On an object store with conditional writes, whatever controllers overlap,*)
(* crash or write late, commitChunk finds no damage in the archive that its *)
(* own writers could have done, and server.mjs hears of each chunk once.    *)
THEOREM ArchiveAnswersAreSound ==
  ASSUME ConditionalWrites PROVE Spec => []AnswersAreSound
<1>1. AnswersInv => AnswersAreSound
  BY DEF AnswersInv, AnswersRest, StandsInv, StandInv, ReportInv, AnswersAreSound,
         NoIntegrityError
<1>2. AnswersInv /\ [Next]_vars => AnswersInv'
  BY AnswersNext
<1> QED
  BY AnswersInit, <1>1, <1>2, PTL DEF Spec

-----------------------------------------------------------------------------
(* The state of EpochLog: the log and acked are those of the archive.       *)
Calling == [r \in Calls |-> AbstractCall(r)]
Limbo == {w.chunk : w \in late}

Pending(ch) == [st |-> "sent", chunk |-> ch]
AnswerOf(res) == IF res \in {"verifying", "invalid"} THEN "error" ELSE res

(* The three states of a call.                                              *)
LEMMA CallForms ==
  ASSUME NEW r \in Calls
  PROVE  /\ req[r].pc = "idle" => AbstractCall(r) = [st |-> "idle"]
         /\ req[r].pc \in Busy => AbstractCall(r) = Pending(req[r].chunk)
         /\ req[r].pc = "answered" =>
              AbstractCall(r) = [st |-> "answered", chunk |-> req[r].chunk,
                                 res |-> AnswerOf(req[r].res)]
  BY DEF AbstractCall, Pending, AnswerOf

(* ... and after a step.                                                    *)
LEMMA CallFormsAfter ==
  ASSUME NEW r \in Calls
  PROVE  /\ req'[r].pc = "idle" => AbstractCall(r)' = [st |-> "idle"]
         /\ req'[r].pc \in Busy => AbstractCall(r)' = Pending(req'[r].chunk)
         /\ req'[r].pc = "answered" =>
              AbstractCall(r)' = [st |-> "answered", chunk |-> req'[r].chunk,
                                  res |-> AnswerOf(req'[r].res)]
  BY DEF AbstractCall, Pending, AnswerOf

(* Calls whose request does not change look the same.                       *)
LEMMA OneCallChanges ==
  ASSUME NEW r \in Calls, \A q \in Calls : q # r => req'[q] = req[q]
  PROVE  /\ Calling' = [Calling EXCEPT ![r] = AbstractCall(r)']
         /\ AbstractCall(r)' = AbstractCall(r) => Calling' = Calling
<1>1. \A q \in Calls : q # r => AbstractCall(q)' = AbstractCall(q)
  BY DEF AbstractCall
<1> QED
  BY <1>1 DEF Calling

(* A step that EpochLog does not see.                                       *)
LEMMA Stutters ==
  ASSUME Calling' = Calling, Limbo' = Limbo, log' = log, acked' = acked
  PROVE  UNCHANGED Abstract!vars
  BY DEF Abstract!vars, Calling, Limbo

(* A commit that goes on is still the call that was sent.                   *)
LEMMA PendingStutters ==
  ASSUME NEW r \in Calls, \A q \in Calls : q # r => req'[q] = req[q],
         req[r].pc \in Busy, req'[r].pc \in Busy, req'[r].chunk = req[r].chunk,
         late' = late, log' = log, acked' = acked
  PROVE  UNCHANGED Abstract!vars
<1>1. AbstractCall(r)' = AbstractCall(r)
  BY CallForms, CallFormsAfter
<1> QED
  BY <1>1, OneCallChanges, Stutters DEF Limbo

(* The end of a commit is an answer, or nobody hears it.                    *)
LEMMA SettleImplements ==
  ASSUME CallsTyped, NEW r \in Calls, req[r].pc \in Busy, NEW res \in Results \ {"none"},
         Settle(r, res), log' = log,
         AnswerOf(res) \in Abstract!Truthful(req[r].chunk, log[req[r].chunk.epoch]),
         \/ Limbo' = Limbo
         \/ res = "error" /\ Limbo' = Limbo \union {req[r].chunk}
  PROVE  Abstract!Next
<1> DEFINE ch == req[r].chunk
<1>1. /\ Calling' = [Calling EXCEPT ![r] = AbstractCall(r)']
      /\ AbstractCall(r) = Pending(ch) /\ Calling[r] = Pending(ch)
      /\ req' = [req EXCEPT ![r] = IF req[r].left THEN IdleRequest
                  ELSE [IdleRequest EXCEPT !.pc = "answered", !.chunk = ch, !.res = res]]
  BY SettleFacts, OneCallChanges, CallForms DEF Calling, Settle, CallsTyped
<1>2. CASE req[r].left
  <2>1. AbstractCall(r)' = Abstract!Idle /\ acked' = acked
    BY <1>1, <1>2, CallFormsAfter DEF CallsTyped, IdleRequest, Settle, Abstract!Idle
  <2>2. Calling' = [q \in Calls |-> IF q \in {r} THEN Abstract!Idle ELSE Calling[q]]
    BY <1>1, <2>1 DEF Calling
  <2>3. \E left \in SUBSET {ch} : Limbo' = Limbo \union left
    <3>1. {} \in SUBSET {ch} /\ {ch} \in SUBSET {ch} /\ Limbo = Limbo \union {}
      OBVIOUS
    <3> QED
      BY <3>1
  <2>4. {Calling[q].chunk : q \in {r}} = {ch} /\ \A q \in {r} : Calling[q].st = "sent"
    BY <1>1 DEF Pending
  <2>5. Abstract!Drop({r})
    BY <2>1, <2>2, <2>3, <2>4 DEF Abstract!Drop, Calling, Limbo
  <2> QED
    BY <2>5 DEF Abstract!Next
<1>3. CASE ~ req[r].left
  <2>1. /\ AbstractCall(r)' = Abstract!Answered(ch, AnswerOf(res))
        /\ acked' = IF res = "ack" THEN acked \union {ch} ELSE acked
    BY <1>1, <1>3, CallFormsAfter
       DEF CallsTyped, IdleRequest, Settle, Abstract!Answered
  <2>2. Calling' = [Calling EXCEPT ![r] = Abstract!Answered(ch, AnswerOf(res))]
    BY <1>1, <2>1
  <2>3. /\ acked' = IF AnswerOf(res) = "ack" THEN acked \union {ch} ELSE acked
        /\ Limbo' = Limbo \/ (AnswerOf(res) = "error" /\ Limbo' = Limbo \union {ch})
        /\ AnswerOf(res) \in Abstract!Results
    BY <2>1 DEF AnswerOf, Results, Abstract!Results
  <2>4. Calling[r].st = "sent" /\ Calling[r].chunk = ch
    BY <1>1 DEF Pending
  <2>5. Abstract!Answer(r, AnswerOf(res))
    BY <2>2, <2>3, <2>4 DEF Abstract!Answer, Calling, Limbo
  <2> QED
    BY <2>3, <2>5 DEF Abstract!Next
<1> QED
  BY <1>2, <1>3

(* The offset and the last hash of EpochLog's log are the manifest's.       *)
LEMMA LogSummary ==
  ASSUME StoreInv, NEW e \in Epochs
  PROVE  /\ Abstract!Offset(log[e]) = manifest[e].off
         /\ Abstract!LastBody(log[e]) = LastBody(manifest[e])
<1>1. /\ log[e] \in Seq(Offered) /\ Len(log[e]) \in Nat
      /\ manifest[e] = Summary(e, Len(log[e]))
      /\ log[e] = <<>> <=> Len(log[e]) = 0
  BY DEF StoreInv, LogOrdered, ManifestIsLast
<1>2. CASE Len(log[e]) = 0
  BY <1>1, <1>2 DEF Summary, NoManifest, LastBody, Abstract!Offset, Abstract!LastBody
<1>3. CASE Len(log[e]) # 0
  <2>1. log[e][Len(log[e])] \in Offered
    BY <1>1, <1>3
  <2> QED
    BY <1>1, <1>3, <2>1, Nulls
       DEF Summary, LastBody, Abstract!Offset, Abstract!LastBody
<1> QED
  BY <1>2, <1>3

(* What makes each answer true.                                             *)
LEMMA Truths ==
  ASSUME StoreInv, NEW ch \in Offered
  PROVE  LET l == log[ch.epoch]
             m == manifest[ch.epoch]
         IN /\ "error" \in Abstract!Truthful(ch, l)
            /\ Committed(ch) => "ack" \in Abstract!Truthful(ch, l)
            /\ ~ Committed(ch) /\ ch.start # m.off =>
                 "cursorMismatch" \in Abstract!Truthful(ch, l)
            /\ ch.start = m.off /\ ch.prev # LastBody(m) =>
                 "chainMismatch" \in Abstract!Truthful(ch, l)
            /\ (\E i \in DOMAIN l : SameRange(l[i], ch) /\ l[i] # ch) =>
                 "epochConflict" \in Abstract!Truthful(ch, l)
<1>1. ch.epoch \in Epochs
  BY Nulls
<1>2. /\ Abstract!Offset(log[ch.epoch]) = manifest[ch.epoch].off
      /\ Abstract!LastBody(log[ch.epoch]) = LastBody(manifest[ch.epoch])
  BY <1>1, LogSummary
<1>3. Abstract!Contains(log[ch.epoch], ch) <=> Committed(ch)
  BY DEF Abstract!Contains, Committed
<1>4. \A a, b : Abstract!SameRange(a, b) <=> SameRange(a, b)
  BY DEF Abstract!SameRange, SameRange
<1> QED
  BY <1>2, <1>3, <1>4 DEF Abstract!Truthful

(* A call that has not begun, and one that is answered.                     *)
LEMMA CallerImplements ==
  ASSUME CallsTyped, NEW r \in Calls,
         \/ \E c \in Controllers, ch \in Offered : Submit(r, c, ch)
         \/ Leave(r)
         \/ Consume(r)
  PROVE  Abstract!Next \/ UNCHANGED Abstract!vars
<1>1. /\ \A q \in Calls : q # r => req'[q] = req[q]
      /\ log' = log /\ acked' = acked /\ late' = late /\ Limbo' = Limbo
  BY DEF Submit, Leave, Consume, storeVars, CallsTyped, Limbo
<1>2. Calling' = [Calling EXCEPT ![r] = AbstractCall(r)'] /\ Calling[r] = AbstractCall(r)
  BY <1>1, OneCallChanges DEF Calling
<1>3. CASE Leave(r)
  <2>1. req'[r].pc = req[r].pc /\ req'[r].chunk = req[r].chunk /\ req[r].pc \in Busy
    BY <1>3 DEF Leave, CallsTyped, Requests
  <2> QED
    BY <1>1, <2>1, PendingStutters
<1>4. CASE Consume(r)
  <2>1. AbstractCall(r)' = Abstract!Idle /\ Calling[r].st = "answered"
    BY <1>2, <1>4, CallForms, CallFormsAfter DEF Consume, CallsTyped, IdleRequest, Abstract!Idle
  <2>2. Abstract!Consume(r)
    BY <1>1, <1>2, <2>1 DEF Abstract!Consume, Calling, Limbo
  <2> QED
    BY <2>2 DEF Abstract!Next
<1>5. CASE \E c \in Controllers, ch \in Offered : Submit(r, c, ch)
  <2>1. PICK c \in Controllers, ch \in Offered : Submit(r, c, ch)
    BY <1>5
  <2>2. req'[r].pc = "queued" /\ req'[r].chunk = ch /\ req[r].pc = "idle"
    BY <2>1 DEF Submit, CallsTyped, IdleRequest
  <2>3. AbstractCall(r)' = Abstract!Sent(ch) /\ Calling[r] = Abstract!Idle
    BY <1>2, <2>2, CallForms, CallFormsAfter DEF Pending, Abstract!Sent, Abstract!Idle
  <2>4. Abstract!Send(r, ch)
    BY <1>1, <1>2, <2>3 DEF Abstract!Send, Calling, Limbo
  <2> QED
    BY <2>4 DEF Abstract!Next
<1> QED
  BY <1>3, <1>4, <1>5

(* A commit is refused for its offset or its hash truthfully, or goes on.   *)
LEMMA AdmitImplements ==
  ASSUME CallsTyped, StoreInv, NEW r \in Calls, req[r].pc \in Busy, NEW view, Admit(r, view),
         log' = log, late' = late,
         req[r].chunk.start # view.off =>
           ~ Committed(req[r].chunk) /\ req[r].chunk.start # manifest[req[r].chunk.epoch].off,
         req[r].chunk.start = view.off => view = manifest[req[r].chunk.epoch]
  PROVE  Abstract!Next \/ UNCHANGED Abstract!vars
<1> DEFINE ch == req[r].chunk
<1>1. ch \in Offered /\ Limbo' = Limbo
  BY BusyTyped DEF Limbo
<1>2. CASE ch.start # view.off /\ Settle(r, "cursorMismatch")
  <2>1. "cursorMismatch" \in Abstract!Truthful(ch, log[ch.epoch])
    BY <1>1, <1>2, Truths
  <2> QED
    BY <1>1, <1>2, <2>1, SettleImplements DEF AnswerOf, Results
<1>3. CASE ch.start = view.off /\ ch.prev # LastBody(view) /\ Settle(r, "chainMismatch")
  <2>1. "chainMismatch" \in Abstract!Truthful(ch, log[ch.epoch])
    BY <1>1, <1>3, Truths
  <2> QED
    BY <1>1, <1>3, <2>1, SettleImplements DEF AnswerOf, Results
<1>4. CASE /\ req' = [req EXCEPT ![r].pc = "putRaw", ![r].view = view]
           /\ UNCHANGED <<queue, acked>>
  <2>1. /\ req'[r].pc = "putRaw" /\ req'[r].chunk = ch
        /\ \A q \in Calls : q # r => req'[q] = req[q]
    BY <1>4 DEF CallsTyped, Requests
  <2> QED
    BY <1>4, <2>1, PendingStutters
<1> QED
  BY <1>2, <1>3, <1>4 DEF Admit

(* The answers that end in "error" need no proof of truth.                  *)
LEMMA ErrorImplements ==
  ASSUME CallsTyped, StoreInv, NEW r \in Calls, req[r].pc \in Busy,
         NEW res \in {"error", "verifying", "invalid"}, Settle(r, res), log' = log,
         \/ Limbo' = Limbo
         \/ res = "error" /\ Limbo' = Limbo \union {req[r].chunk}
  PROVE  Abstract!Next
<1>1. req[r].chunk \in Offered /\ AnswerOf(res) = "error" /\ res \in Results \ {"none"}
  BY BusyTyped DEF AnswerOf, Results
<1>2. AnswerOf(res) \in Abstract!Truthful(req[r].chunk, log[req[r].chunk.epoch])
  BY <1>1, Truths
<1> QED
  BY <1>1, <1>2, SettleImplements

(* An ACK is given for a committed chunk.                                   *)
LEMMA AckImplements ==
  ASSUME CallsTyped, StoreInv, NEW r \in Calls, req[r].pc \in Busy,
         Committed(req[r].chunk), Settle(r, "ack"), log' = log, late' = late
  PROVE  Abstract!Next
<1>1. req[r].chunk \in Offered /\ Limbo' = Limbo
  BY BusyTyped DEF Limbo
<1>2. "ack" \in Abstract!Truthful(req[r].chunk, log[req[r].chunk.epoch])
  BY <1>1, Truths
<1> QED
  BY <1>1, <1>2, SettleImplements DEF AnswerOf, Results

(* A chunk beyond the manifest is not committed: the checks against the     *)
(* manifest just read are true of the log.                                  *)
LEMMA ReadManifestImplements ==
  ASSUME CallsTyped, StoreTyped, StoreInv, NEW r \in Calls, ReadManifest(r)
  PROVE  Abstract!Next \/ UNCHANGED Abstract!vars
<1> DEFINE ch == req[r].chunk
           m == manifest[ch.epoch]
<1>1. /\ req[r].pc = "queued" /\ log' = log /\ late' = late /\ Limbo' = Limbo
      /\ ch \in Offered /\ ch.epoch \in Epochs
  BY BusyTyped DEF ReadManifest, storeVars, Limbo
<1>2. CASE Settle(r, "invalid")
  BY <1>1, <1>2, ErrorImplements
<1>3. CASE ch.end > m.off /\ Admit(r, m)
  <2>1. ch.end \in Nat /\ m.off \in Nat
    BY <1>1, Nulls DEF StoreTyped, Manifests
  <2>2. ~ Committed(ch)
    BY <1>1, <1>3, <2>1, NotYetCommitted
  <2> QED
    BY <1>1, <1>3, <2>2, AdmitImplements
<1>4. CASE /\ req' = [req EXCEPT ![r].pc = "walk", ![r].view = m, ![r].reads = 0]
           /\ UNCHANGED <<queue, acked>>
  <2>1. /\ req'[r].pc = "walk" /\ req'[r].chunk = ch
        /\ \A q \in Calls : q # r => req'[q] = req[q]
    BY <1>4 DEF CallsTyped, Requests
  <2> QED
    BY <1>1, <1>4, <2>1, PendingStutters
<1> QED
  BY <1>2, <1>3, <1>4 DEF ReadManifest

(* A manifest of the past is not beyond the present one.                    *)
LEMMA PastIsBelow ==
  ASSUME StoreInv, NEW e \in Epochs, NEW m, PrefixOf(m, e)
  PROVE  m.off \in Nat /\ manifest[e].off \in Nat /\ m.off <= manifest[e].off
<1>1. Len(log[e]) \in Nat /\ manifest[e] = Summary(e, Len(log[e]))
  BY DEF StoreInv, LogOrdered, ManifestIsLast
<1>2. PICK n \in 0 .. Len(log[e]) : m = Summary(e, n)
  BY DEF PrefixOf
<1>3. /\ Summary(e, n).off \in Nat /\ Summary(e, Len(log[e])).off \in Nat
      /\ n = Len(log[e]) \/ Summary(e, n).off < Summary(e, Len(log[e])).off
  BY <1>1, <1>2, OffsetsGrow DEF StoreInv
<1> QED
  BY <1>1, <1>2, <1>3

(* Two committed chunks that overlap are the same.                          *)
LEMMA NoOverlap ==
  ASSUME StoreInv, NEW e \in Epochs, NEW i \in 1 .. Len(log[e]), NEW j \in 1 .. Len(log[e]),
         log[e][i].start <= log[e][j].start, log[e][j].start < log[e][i].end
  PROVE  i = j
<1>1. Len(log[e]) \in Nat /\ log[e][i] \in Offered /\ log[e][j] \in Offered
  BY DEF StoreInv, LogOrdered
<1>2. /\ log[e][i].start \in Nat /\ log[e][i].end \in Nat /\ log[e][i].start < log[e][i].end
      /\ log[e][j].start \in Nat /\ log[e][j].end \in Nat /\ log[e][j].start < log[e][j].end
  BY <1>1, Nulls
<1>3. i < j => log[e][i].end <= log[e][j].start
  BY DEF StoreInv, LogOrdered
<1>4. j < i => log[e][j].end <= log[e][i].start
  BY DEF StoreInv, LogOrdered
<1> QED
  BY <1>1, <1>2, <1>3, <1>4

(* A walk that stops below its chunk proves that the chunk is not in the    *)
(* log, although the log may have grown since the manifest was read.        *)
LEMMA WalkRangeImplements ==
  ASSUME CallsTyped, StoreTyped, StoreInv, ArchiveRest, AnswersRest, NEW r \in Calls,
         WalkRange(r)
  PROVE  Abstract!Next \/ UNCHANGED Abstract!vars
<1> DEFINE ch == req[r].chunk
           e == ch.epoch
           w == walks[req[r].ctrl][ch]
<1>1. /\ req[r].pc = "walk" /\ log' = log /\ late' = late /\ Limbo' = Limbo
  BY DEF WalkRange, storeVars, Limbo
<1>2. /\ ch \in Offered /\ e \in Epochs /\ WalkAligned(w, ch)
      /\ w.at.start \in Nat /\ ch.start \in Nat
  BY <1>1, WalkFacts
<1>3. PICK i \in 1 .. Len(log[e]) : log[e][i] = w.at
  BY <1>1, WalkFacts
<1>4. w.at # NoChunk /\ w.upto = w.at.end /\ ch.start < w.at.end
  BY <1>2 DEF WalkAligned
<1>5. ch.start < req[r].view.off /\ ch.start < manifest[e].off
  <2>1. ch.end <= req[r].view.off /\ PrefixOf(req[r].view, e)
    BY <1>1 DEF AnswersRest, StandsInv, StandInv, ArchiveRest, CallsInv, CallInv
  <2>2. ch.end \in Nat /\ ch.start < ch.end
    BY <1>2, Nulls
  <2>3. /\ req[r].view.off \in Nat /\ manifest[e].off \in Nat
        /\ req[r].view.off <= manifest[e].off
    BY <1>2, <2>1, PastIsBelow
  <2> QED
    BY <1>2, <2>1, <2>2, <2>3
<1>6. CASE \E res \in {"verifying", "invalid"} : Settle(r, res)
  BY <1>1, <1>6, ErrorImplements
<1>7. CASE Goto(r, "verifyRaw") /\ UNCHANGED <<queue, acked>>
  <2>1. /\ req'[r].pc = "verifyRaw" /\ req'[r].chunk = ch
        /\ \A q \in Calls : q # r => req'[q] = req[q]
    BY <1>7 DEF Goto, CallsTyped, Requests
  <2> QED
    BY <1>1, <1>7, <2>1, PendingStutters
<1>8. CASE SameRange(w.at, ch) /\ ~ Exact(w.at, ch) /\ Settle(r, "epochConflict")
  <2>1. i \in DOMAIN log[e] /\ SameRange(log[e][i], ch) /\ log[e][i] # ch
    BY <1>2, <1>3, <1>8 DEF Exact, StoreInv, LogOrdered
  <2>2. "epochConflict" \in Abstract!Truthful(ch, log[e])
    BY <1>2, <2>1, Truths
  <2> QED
    BY <1>1, <1>8, <2>2, SettleImplements DEF AnswerOf, Results
<1>9. CASE ~ SameRange(w.at, ch) /\ w.at.start <= ch.start /\ Admit(r, req[r].view)
  <2>1. ~ Committed(ch)
    <3>1. ASSUME NEW j \in 1 .. Len(log[e]), log[e][j] = ch PROVE FALSE
      <4>1. i = j
        BY <1>2, <1>3, <1>4, <1>9, <3>1, NoOverlap
      <4> QED
        BY <1>3, <1>9, <3>1, <4>1 DEF SameRange
    <3>2. DOMAIN log[e] = 1 .. Len(log[e])
      BY <1>2 DEF StoreInv, LogOrdered
    <3> QED
      BY <3>1, <3>2 DEF Committed
  <2>2. ch.start # req[r].view.off /\ ch.start # manifest[e].off
    BY <1>2, <1>5, PastIsBelow DEF StoreTyped, Manifests
  <2> QED
    BY <1>1, <1>9, <2>1, <2>2, AdmitImplements
<1>10. CASE req' = [req EXCEPT ![r].reads = @ + 1] /\ UNCHANGED <<queue, acked>>
  <2>1. /\ req'[r].pc = "walk" /\ req'[r].chunk = ch
        /\ \A q \in Calls : q # r => req'[q] = req[q]
    BY <1>1, <1>10 DEF CallsTyped, Requests
  <2> QED
    BY <1>1, <1>10, <2>1, PendingStutters
<1> QED
  BY <1>4, <1>6, <1>7, <1>8, <1>9, <1>10 DEF WalkRange

(* A read that is given up, and the ACK of a chunk committed before.        *)
LEMMA OtherReadsImplement ==
  ASSUME CallsTyped, StoreInv, ArchiveRest, NEW r \in Calls, AbandonRead(r) \/ VerifyRaw(r)
  PROVE  Abstract!Next
<1>1. /\ log' = log /\ late' = late /\ Limbo' = Limbo /\ req[r].pc \in Busy
  BY DEF AbandonRead, VerifyRaw, storeVars, Limbo
<1>2. CASE \E res \in {"error", "invalid"} : Settle(r, res)
  BY <1>1, <1>2, ErrorImplements
<1>3. CASE req[r].pc = "verifyRaw" /\ Settle(r, "ack")
  <2>1. Committed(req[r].chunk)
    BY <1>3 DEF ArchiveRest, CallsInv, CallInv
  <2> QED
    BY <1>1, <1>3, <2>1, AckImplements
<1> QED
  BY <1>2, <1>3 DEF AbandonRead, VerifyRaw

(* What a manifest write appends follows the last chunk of its epoch.       *)
LEMMA AppendFollows ==
  ASSUME StoreInv, NEW ch \in Offered, Admitted(ch, manifest[ch.epoch]),
         Chained(ch, manifest[ch.epoch]), StoreManifest(ch)
  PROVE  /\ Abstract!Follows(ch, log[ch.epoch])
         /\ log' = [log EXCEPT ![ch.epoch] = Append(@, ch)]
  BY LogSummary, Nulls DEF Abstract!Follows, Admitted, Chained, StoreManifest

(* The commit itself is the manifest write.                                 *)
LEMMA PutImplements ==
  ASSUME ConditionalWrites, CallsTyped, StoreInv, ArchiveRest, AnswersRest, NEW r \in Calls,
         PutRaw(r) \/ PutRange(r) \/ PutManifest(r)
  PROVE  Abstract!Next \/ UNCHANGED Abstract!vars
<1> DEFINE ch == req[r].chunk
<1>1. /\ req[r].pc \in Writing /\ late' = late /\ acked' = acked
      /\ ch \in Offered /\ ch.epoch \in Epochs
  BY BusyTyped DEF PutRaw, PutRange, PutManifest
<1>2. ASSUME NEW pc \in {"putRange", "putManifest", "callback"}, Goto(r, pc)
      PROVE  /\ req'[r].pc = pc /\ req'[r].chunk = ch
             /\ \A q \in Calls : q # r => req'[q] = req[q]
  BY <1>2 DEF Goto, CallsTyped, Requests
<1>3. CASE PutRaw(r) \/ PutRange(r)
  <2>1. /\ req'[r].pc \in Busy /\ req'[r].chunk = ch /\ log' = log
        /\ \A q \in Calls : q # r => req'[q] = req[q]
    BY <1>2, <1>3 DEF PutRaw, PutRange
  <2> QED
    BY <1>1, <2>1, PendingStutters
<1>4. CASE PutManifest(r)
  <2>1. manifest[ch.epoch] = req[r].view /\ StoreManifest(ch) /\ Goto(r, "callback")
    BY <1>4 DEF PutManifest, Precondition
  <2>2. Admitted(ch, req[r].view) /\ Chained(ch, req[r].view)
    BY <1>1 DEF ArchiveRest, CallsInv, CallInv, AnswersRest, StandsInv, StandInv
  <2>3. Abstract!Follows(ch, log[ch.epoch]) /\ log' = [log EXCEPT ![ch.epoch] = Append(@, ch)]
    BY <1>1, <2>1, <2>2, AppendFollows
  <2>4. /\ req'[r].pc = "callback" /\ req'[r].chunk = ch
        /\ \A q \in Calls : q # r => req'[q] = req[q]
    BY <1>2, <2>1
  <2>5. AbstractCall(r) = Pending(ch) /\ AbstractCall(r)' = Pending(ch)
    BY <1>1, <2>4, CallForms, CallFormsAfter
  <2>6. Calling' = Calling /\ Limbo' = Limbo /\ Calling[r].st = "sent" /\ Calling[r].chunk = ch
    <3>1. Calling' = Calling
      BY <2>4, <2>5, OneCallChanges
    <3>2. Calling[r] = Pending(ch) /\ Limbo' = Limbo
      BY <1>1, <2>5 DEF Calling, Limbo
    <3> QED
      BY <3>1, <3>2 DEF Pending
  <2>7. Abstract!Commit(r)
    BY <1>1, <2>3, <2>6 DEF Abstract!Commit, Calling, Limbo
  <2> QED
    BY <2>7 DEF Abstract!Next
<1> QED
  BY <1>3, <1>4

(* A refused manifest write: an error, or the commit begins again.          *)
LEMMA ConflictImplements ==
  ASSUME CallsTyped, StoreInv, NEW r \in Calls, ManifestConflict(r)
  PROVE  Abstract!Next \/ UNCHANGED Abstract!vars
<1>1. /\ log' = log /\ late' = late /\ Limbo' = Limbo /\ req[r].pc = "putManifest"
  BY DEF ManifestConflict, storeVars, Limbo
<1>2. CASE Settle(r, "error")
  BY <1>1, <1>2, ErrorImplements
<1>3. CASE /\ req' = [req EXCEPT ![r].pc = "queued", ![r].tries = @ + 1, ![r].view = NoManifest]
           /\ UNCHANGED acked
  <2>1. /\ req'[r].pc = "queued" /\ req'[r].chunk = req[r].chunk
        /\ \A q \in Calls : q # r => req'[q] = req[q]
    BY <1>3 DEF CallsTyped, Requests
  <2> QED
    BY <1>1, <1>3, <2>1, PendingStutters
<1> QED
  BY <1>2, <1>3 DEF ManifestConflict

(* A failed write answers "error"; a manifest write may be left in limbo.   *)
LEMMA PutFailsImplements ==
  ASSUME ConditionalWrites, CallsTyped, StoreInv, NEW r \in Calls, PutFails(r)
  PROVE  Abstract!Next
<1>1. /\ Settle(r, "error") /\ req[r].pc \in Busy
      /\ log' = log
      /\ late' = late \/ late' = late \union {[chunk |-> req[r].chunk, view |-> req[r].view]}
  <2>1. ~ \E rs \in SUBSET Calls : TornWrite(rs)
    BY StorageAssumption DEF TornWrite
  <2> QED
    BY <2>1 DEF PutFails, storeVars
<1>2. Limbo' = Limbo \/ Limbo' = Limbo \union {req[r].chunk}
  BY <1>1 DEF Limbo
<1> QED
  BY <1>1, <1>2, ErrorImplements

(* The ACK of a commit.                                                     *)
LEMMA ReportImplements ==
  ASSUME CallsTyped, StoreInv, ArchiveRest, NEW r \in Calls, Report(r)
  PROVE  Abstract!Next
<1>1. /\ Settle(r, "ack") /\ log' = log /\ late' = late /\ req[r].pc = "callback"
  BY DEF Report, storeVars
<1>2. Committed(req[r].chunk)
  BY <1>1 DEF ArchiveRest, CallsInv, CallInv
<1> QED
  BY <1>1, <1>2, AckImplements

(* A write in limbo is completed or refused.                                *)
LEMMA LateWriteImplements ==
  ASSUME ConditionalWrites, StoreTyped, StoreInv, ArchiveRest, AnswersRest,
         NEW w \in late, LateWrite(w)
  PROVE  Abstract!Next \/ UNCHANGED Abstract!vars
<1>1. /\ w.chunk \in Offered /\ w.chunk.epoch \in Epochs /\ Ready(w) /\ Chained(w.chunk, w.view)
      /\ acked' = acked /\ late' = late \ {w}
  BY Nulls DEF StoreTyped, ArchiveRest, LateInv, AnswersRest, LateChained, LateWrite
<1>2. Calling' = Calling
  BY DEF LateWrite, ctrlVars, Calling, AbstractCall
<1>3. w.chunk \in Limbo /\ (Limbo' = Limbo \/ Limbo' = Limbo \ {w.chunk})
  BY <1>1 DEF Limbo
<1>4. CASE Precondition(w.chunk.epoch, w.view) /\ StoreManifest(w.chunk)
  <2>1. manifest[w.chunk.epoch] = w.view
    BY <1>4 DEF Precondition
  <2>2. /\ Abstract!Follows(w.chunk, log[w.chunk.epoch])
        /\ log' = [log EXCEPT ![w.chunk.epoch] = Append(@, w.chunk)]
    BY <1>1, <1>4, <2>1, AppendFollows DEF Ready
  <2>3. Abstract!CommitLate(w.chunk)
    BY <1>1, <1>2, <1>3, <2>2 DEF Abstract!CommitLate, Calling, Limbo
  <2> QED
    BY <1>3, <2>3 DEF Abstract!Next, Limbo
<1>5. CASE log' = log
  <2>1. CASE Limbo' = Limbo
    BY <1>1, <1>2, <1>5, <2>1, Stutters
  <2>2. CASE Limbo' = Limbo \ {w.chunk}
    <3>1. Abstract!Fizzle(w.chunk)
      BY <1>1, <1>2, <1>5, <2>2 DEF Abstract!Fizzle, Calling, Limbo
    <3> QED
      BY <1>3, <3>1 DEF Abstract!Next, Limbo
  <2> QED
    BY <1>3, <2>1, <2>2
<1> QED
  BY <1>4, <1>5 DEF LateWrite

(* A crash drops the calls of its controller.                               *)
LEMMA CrashImplements ==
  ASSUME ConditionalWrites, CallsTyped, NEW c \in Controllers, Crash(c)
  PROVE  Abstract!Next
<1> DEFINE dead == {q \in Calls : req[q].ctrl = c /\ req[q].pc \in Busy}
           lost == {q \in {p \in dead : req[p].pc \in Writing} : req[q].pc = "putManifest"}
<1>1. /\ req' = [q \in Calls |-> IF q \in dead THEN IdleRequest ELSE req[q]]
      /\ log' = log /\ acked' = acked
  BY DEF Crash
<1>2. \/ late' = late
      \/ late' = late \union {[chunk |-> req[q].chunk, view |-> req[q].view] : q \in lost}
  <2>1. ~ \E rs \in SUBSET Calls : TornWrite(rs)
    BY StorageAssumption DEF TornWrite
  <2> QED
    BY <2>1 DEF Crash, storeVars
<1>3. \A q \in dead : Calling[q].st = "sent" /\ Calling[q].chunk = req[q].chunk
  BY CallForms DEF Calling, Pending
<1>4. ASSUME NEW q \in Calls
      PROVE  AbstractCall(q)' = IF q \in dead THEN Abstract!Idle ELSE AbstractCall(q)
  <2>1. CASE q \in dead
    <3>1. req'[q].pc = "idle"
      BY <1>1, <2>1 DEF IdleRequest
    <3> QED
      BY <2>1, <3>1, CallFormsAfter DEF Abstract!Idle
  <2>2. CASE q \notin dead
    <3>1. req'[q] = req[q]
      BY <1>1, <2>2
    <3> QED
      BY <2>2, <3>1 DEF AbstractCall
  <2> QED
    BY <2>1, <2>2
<1>5. Calling' = [q \in Calls |-> IF q \in dead THEN Abstract!Idle ELSE Calling[q]]
  BY <1>4 DEF Calling
<1>6. \E left \in SUBSET {Calling[q].chunk : q \in dead} : Limbo' = Limbo \union left
  <2>1. CASE late' = late
    <3>1. {} \in SUBSET {Calling[q].chunk : q \in dead} /\ Limbo' = Limbo \union {}
      BY <2>1 DEF Limbo
    <3> QED
      BY <3>1
  <2>2. CASE late' = late \union {[chunk |-> req[q].chunk, view |-> req[q].view] : q \in lost}
    <3> DEFINE new == {[chunk |-> req[q].chunk, view |-> req[q].view] : q \in lost}
    <3>1. Limbo' = Limbo \union {w.chunk : w \in new}
      <4> HIDE DEF new
      <4> QED
        BY <2>2 DEF Limbo, new
    <3>2. {w.chunk : w \in new} \in SUBSET {Calling[q].chunk : q \in dead}
      BY <1>3
    <3> QED
      BY <3>1, <3>2
  <2> QED
    BY <1>2, <2>1, <2>2
<1>7. PICK rs \in SUBSET Calls : rs = dead
  OBVIOUS
<1>8. Abstract!Drop(rs)
  <2>1. \A q \in rs : Calling[q].st = "sent"
    BY <1>3, <1>7
  <2>2. Calling' = [q \in Calls |-> IF q \in rs THEN Abstract!Idle ELSE Calling[q]]
    BY <1>5, <1>7
  <2>3. \E left \in SUBSET {Calling[q].chunk : q \in rs} : Limbo' = Limbo \union left
    BY <1>6, <1>7
  <2> QED
    BY <1>1, <2>1, <2>2, <2>3 DEF Abstract!Drop, Calling, Limbo
<1> QED
  BY <1>8 DEF Abstract!Next

-----------------------------------------------------------------------------
(* The archive is empty when EpochLog is.                                   *)
LEMMA AbstractInit == Init => Abstract!Init
<1> SUFFICES ASSUME Init PROVE Abstract!Init
  OBVIOUS
<1>1. \A r \in Calls : AbstractCall(r) = Abstract!Idle
  BY CallForms DEF Init, IdleRequest, Abstract!Idle
<1> QED
  BY <1>1 DEF Init, Abstract!Init

(* Every step is a step of EpochLog, or one it does not see.                *)
LEMMA AbstractNext ==
  ASSUME ConditionalWrites, AnswersInv, [Next]_vars
  PROVE  [Abstract!Next]_(Abstract!vars)
<1>1. CallsTyped /\ StoreTyped /\ StoreInv /\ ArchiveRest /\ AnswersRest
  BY TypeParts DEF AnswersInv, ArchiveInv
<1> DEFINE Implements == Abstract!Next \/ UNCHANGED Abstract!vars
<1>2. CASE UNCHANGED vars
  <2>1. log' = log /\ acked' = acked /\ late' = late /\ req' = req
    BY <1>2 DEF vars, storeVars, ctrlVars
  <2>2. Calling' = Calling /\ Limbo' = Limbo
    BY <2>1 DEF Calling, Limbo, AbstractCall
  <2> QED
    BY <2>1, <2>2, Stutters
<1>3. CASE Next
  <2>1. ASSUME NEW r \in Calls, NEW c \in Controllers, NEW ch \in Offered, Submit(r, c, ch)
        PROVE  Implements
    BY <1>1, <2>1, CallerImplements
  <2>2. ASSUME NEW r \in Calls, Leave(r) \/ Consume(r) PROVE Implements
    BY <1>1, <2>2, CallerImplements
  <2>3. ASSUME NEW r \in Calls,
               AbandonRead(r) \/ ReadManifest(r) \/ WalkRange(r) \/ VerifyRaw(r)
        PROVE  Implements
    BY <1>1, <2>3, OtherReadsImplement, ReadManifestImplements, WalkRangeImplements
  <2>4. ASSUME NEW r \in Calls, PutRaw(r) \/ PutRange(r) \/ PutManifest(r) PROVE Implements
    BY <1>1, <2>4, PutImplements
  <2>5. ASSUME NEW r \in Calls, ManifestConflict(r) PROVE Implements
    BY <1>1, <2>5, ConflictImplements
  <2>6. ASSUME NEW r \in Calls, PutFails(r) PROVE Implements
    BY <1>1, <2>6, PutFailsImplements
  <2>7. ASSUME NEW r \in Calls, Report(r) PROVE Implements
    BY <1>1, <2>7, ReportImplements
  <2>8. ASSUME NEW w \in late, LateWrite(w) PROVE Implements
    BY <1>1, <2>8, LateWriteImplements
  <2>9. ASSUME NEW c \in Controllers, Crash(c) PROVE Implements
    BY <1>1, <2>9, CrashImplements
  <2> HIDE DEF Implements
  <2>10. Implements
    BY <1>3, <2>1, <2>2, <2>3, <2>4, <2>5, <2>6, <2>7, <2>8, <2>9
       DEF Next, Proceed, Serve, Disturb
  <2> QED
    BY <2>10 DEF Implements
<1> QED
  BY <1>2, <1>3

(* On an object store with conditional writes the archive implements        *)
(* EpochLog: what connectors see of it, with its three writes to a commit,  *)
(* its queues and walks, its crashes and its late writes, is an append-only *)
(* sequence of chunks and answers that are true of it.                      *)
THEOREM ArchiveImplementsEpochLog ==
  ASSUME ConditionalWrites PROVE Spec => ImplementsEpochLog
<1>1. AnswersInv /\ [Next]_vars => [Abstract!Next]_(Abstract!vars)
  BY AbstractNext
<1>2. AnswersInv /\ [Next]_vars => AnswersInv'
  BY AnswersNext
<1> QED
  BY AnswersInit, AbstractInit, <1>1, <1>2, PTL DEF Spec, ImplementsEpochLog, Abstract!Spec

-----------------------------------------------------------------------------
(* A range that was written whole names the chunk that ended where it       *)
(* starts when it was written.                                              *)
RangesNoted ==
  \A ch \in DOMAIN ranges : <<"range", ch>> \notin torn =>
    \E n \in 0 .. Len(log[ch.epoch]) :
      Summary(ch.epoch, n).off = ch.start /\ ranges[ch] = Summary(ch.epoch, n).last

DiskStore == LogOrdered /\ ManifestIsLast /\ RangesNoted

(* The manifest that a commit has read is the present one until it ends.    *)
ViewInv(r) ==
  /\ req[r].pc \in Writing \union {"walk"} => req[r].view = manifest[req[r].chunk.epoch]
  /\ req[r].pc \in Writing => req[r].chunk.start = req[r].view.off

ViewsInv == \A r \in Calls : ViewInv(r)

DiskRest == late = {} /\ DiskStore /\ ViewsInv

DiskInv == TypeInv /\ DiskRest

NoRollBack == \A e \in Epochs : manifest'[e].off >= manifest[e].off

(* The ranges stay noted by a step that leaves the log, and adds only torn  *)
(* ranges or such as follow the present manifest.                           *)
LEMMA StillNoted ==
  ASSUME DiskStore, StoreTyped, log' = log, torn \subseteq torn',
         \A x \in DOMAIN ranges' :
           \/ x \in DOMAIN ranges /\ ranges'[x] = ranges[x]
           \/ <<"range", x>> \in torn'
           \/ /\ x \in Offered /\ x.start = manifest[x.epoch].off
              /\ ranges'[x] = manifest[x.epoch].last
  PROVE  RangesNoted'
<1>1. ASSUME NEW x \in DOMAIN ranges', <<"range", x>> \notin torn'
      PROVE  \E n \in 0 .. Len(log[x.epoch]) :
               Summary(x.epoch, n).off = x.start /\ ranges'[x] = Summary(x.epoch, n).last
  <2>1. CASE x \in DOMAIN ranges /\ ranges'[x] = ranges[x]
    BY <1>1, <2>1 DEF DiskStore, RangesNoted
  <2>2. CASE /\ x \in Offered /\ x.start = manifest[x.epoch].off
             /\ ranges'[x] = manifest[x.epoch].last
    <3>1. x.epoch \in Epochs /\ manifest[x.epoch] = Summary(x.epoch, Len(log[x.epoch]))
      BY <2>2, Nulls DEF DiskStore, ManifestIsLast
    <3>2. Len(log[x.epoch]) \in 0 .. Len(log[x.epoch])
      BY <3>1 DEF DiskStore, LogOrdered
    <3> QED
      BY <2>2, <3>1, <3>2
  <2> QED
    BY <1>1, <2>1, <2>2
<1>2. \A e, n : Summary(e, n)' = Summary(e, n)
  BY DEF Summary
<1> QED
  BY <1>1, <1>2 DEF RangesNoted

(* A step that leaves the manifests keeps the invariant, if what it writes  *)
(* of ranges and of the request it moves does.                              *)
LEMMA StillDisk ==
  ASSUME DiskRest, StoreTyped, UNCHANGED <<manifest, late, log>>, RangesNoted',
         \A q \in Calls : req'[q] = req[q] \/ ViewInv(q)'
  PROVE  DiskRest' /\ NoRollBack
<1>1. LogOrdered' /\ ManifestIsLast'
  BY DEF DiskRest, DiskStore, LogOrdered, ManifestIsLast, Summary
<1>2. ViewsInv'
  BY DEF DiskRest, ViewsInv, ViewInv
<1>3. NoRollBack
  <2>1. \A e \in Epochs : manifest[e].off \in Nat
    BY DEF StoreTyped, Manifests
  <2> QED
    BY <2>1 DEF NoRollBack
<1> QED
  BY <1>1, <1>2, <1>3 DEF DiskRest, DiskStore

(* A step of one commit that writes nothing.                                *)
LEMMA OnlyMoves ==
  ASSUME DiskRest, StoreTyped, UNCHANGED <<storeVars, log>>, NEW r \in Calls,
         \A q \in Calls : q # r => req'[q] = req[q], req'[r] = req[r] \/ ViewInv(r)'
  PROVE  DiskRest' /\ NoRollBack
<1>1. RangesNoted'
  BY StillNoted DEF DiskRest, storeVars
<1> QED
  BY <1>1, StillDisk DEF storeVars

(* A commit that ends has no view.                                          *)
LEMMA SettledView ==
  ASSUME CallsTyped, NEW r \in Calls, NEW res, Settle(r, res)
  PROVE  ViewInv(r)' /\ \A q \in Calls : q # r => req'[q] = req[q]
<1>1. req'[r].pc \in {"idle", "answered"} /\ \A q \in Calls : q # r => req'[q] = req[q]
  BY SettleFacts
<1> QED
  BY <1>1 DEF ViewInv

(* Admission under the present manifest.                                    *)
LEMMA AdmittedView ==
  ASSUME CallsTyped, NEW r \in Calls, manifest' = manifest,
         Admit(r, manifest[req[r].chunk.epoch])
  PROVE  ViewInv(r)' /\ \A q \in Calls : q # r => req'[q] = req[q]
<1> DEFINE m == manifest[req[r].chunk.epoch]
<1>1. CASE Settle(r, "cursorMismatch") \/ Settle(r, "chainMismatch")
  BY <1>1, SettledView
<1>2. CASE /\ req[r].chunk.start = m.off
           /\ req' = [req EXCEPT ![r].pc = "putRaw", ![r].view = m]
  <2>1. /\ req'[r].pc = "putRaw" /\ req'[r].view = m /\ req'[r].chunk = req[r].chunk
        /\ \A q \in Calls : q # r => req'[q] = req[q]
    BY <1>2 DEF CallsTyped, Requests
  <2> QED
    BY <1>2, <2>1 DEF ViewInv
<1> QED
  BY <1>1, <1>2 DEF Admit

(* The reading steps of a commit, and the end of one that is done.          *)
LEMMA DiskReads ==
  ASSUME CallsTyped, StoreTyped, DiskRest, NEW r \in Calls,
         \/ AbandonRead(r) \/ ReadManifest(r) \/ WalkRange(r) \/ VerifyRaw(r) \/ Report(r)
  PROVE  DiskRest' /\ NoRollBack
<1>1. UNCHANGED <<storeVars, log>> /\ manifest' = manifest
  BY DEF AbandonRead, ReadManifest, WalkRange, VerifyRaw, Report, storeVars
<1> DEFINE Fine == ViewInv(r)' /\ \A q \in Calls : q # r => req'[q] = req[q]
<1>2. ASSUME NEW res, Settle(r, res) PROVE Fine
  BY <1>2, SettledView
<1>3. ASSUME Admit(r, manifest[req[r].chunk.epoch]) PROVE Fine
  BY <1>1, <1>3, AdmittedView
<1>4. req \in [Calls -> Requests]
  BY DEF CallsTyped
<1>5. CASE AbandonRead(r) \/ VerifyRaw(r) \/ Report(r)
  BY <1>1, <1>2, <1>5, OnlyMoves DEF AbandonRead, VerifyRaw, Report
<1>6. CASE ReadManifest(r)
  <2>1. ASSUME req' = [req EXCEPT ![r].pc = "walk",
                                  ![r].view = manifest[req[r].chunk.epoch], ![r].reads = 0]
        PROVE  Fine
    <3>1. /\ req'[r].pc = "walk" /\ req'[r].chunk = req[r].chunk
          /\ req'[r].view = manifest[req[r].chunk.epoch]
          /\ \A q \in Calls : q # r => req'[q] = req[q]
      BY <1>4, <2>1 DEF Requests
    <3> QED
      BY <1>1, <3>1 DEF ViewInv
  <2>2. Fine
    BY <1>2, <1>3, <1>6, <2>1 DEF ReadManifest
  <2> QED
    BY <1>1, <2>2, OnlyMoves
<1>7. CASE WalkRange(r)
  <2>1. req[r].pc = "walk" /\ req[r].view = manifest[req[r].chunk.epoch]
    BY <1>7 DEF WalkRange, DiskRest, ViewsInv, ViewInv
  <2>2. ASSUME Goto(r, "verifyRaw") PROVE Fine
    BY <1>4, <2>2 DEF Goto, ViewInv, Requests
  <2>3. ASSUME req' = [req EXCEPT ![r].reads = @ + 1] PROVE Fine
    <3>1. /\ req'[r].pc = "walk" /\ req'[r].chunk = req[r].chunk
          /\ req'[r].view = req[r].view
          /\ \A q \in Calls : q # r => req'[q] = req[q]
      BY <1>4, <2>1, <2>3 DEF Requests
    <3> QED
      BY <1>1, <2>1, <3>1 DEF ViewInv
  <2>4. \/ \E res : Settle(r, res)
        \/ Admit(r, req[r].view)
        \/ Goto(r, "verifyRaw")
        \/ req' = [req EXCEPT ![r].reads = @ + 1]
    BY <1>7, Zenon DEF WalkRange
  <2>5. Fine
    BY <1>2, <1>3, <2>1, <2>2, <2>3, <2>4
  <2> QED
    BY <1>1, <2>5, OnlyMoves
<1> QED
  BY <1>5, <1>6, <1>7

(* What an interrupted write leaves is known to be torn.                    *)
LEMMA TornIsNoted ==
  ASSUME StoreTyped, DiskStore, log' = log, NEW rs \in SUBSET Calls, TornWrite(rs)
  PROVE  RangesNoted'
<1>1. torn \subseteq torn'
  BY DEF TornWrite
<1>2. ASSUME NEW x \in DOMAIN ranges', ~ (x \in DOMAIN ranges /\ ranges'[x] = ranges[x])
      PROVE  <<"range", x>> \in torn'
  <2>1. PICK r \in rs : req[r].pc = "putRange" /\ req[r].chunk = x /\ x \notin DOMAIN ranges
    BY <1>2 DEF TornWrite
  <2>2. ObjectOf(r) = <<"range", x>>
    BY <2>1 DEF ObjectOf
  <2> QED
    BY <2>1, <2>2 DEF TornWrite
<1> QED
  BY <1>1, <1>2, StillNoted

(* A commit that fails while it writes.                                     *)
LEMMA DiskPutFails ==
  ASSUME ~ ConditionalWrites, CallsTyped, StoreTyped, DiskRest, NEW r \in Calls, PutFails(r)
  PROVE  DiskRest' /\ NoRollBack
<1>1. ViewInv(r)' /\ \A q \in Calls : q # r => req'[q] = req[q]
  BY SettledView DEF PutFails
<1>2. CASE UNCHANGED <<storeVars, log>>
  BY <1>1, <1>2, OnlyMoves
<1>3. CASE TornWrite({r}) /\ UNCHANGED <<manifest, late, log>>
  <2>1. RangesNoted'
    BY <1>3, TornIsNoted DEF DiskRest
  <2> QED
    BY <1>1, <1>3, <2>1, StillDisk
<1> QED
  BY <1>2, <1>3 DEF PutFails

(* The controller dies.                                                     *)
LEMMA DiskCrash ==
  ASSUME ~ ConditionalWrites, CallsTyped, StoreTyped, DiskRest, NEW c \in Controllers, Crash(c)
  PROVE  DiskRest' /\ NoRollBack
<1>1. \A q \in Calls : req'[q] = req[q] \/ req'[q] = IdleRequest
  BY DEF Crash
<1>2. \A q \in Calls : req'[q] = req[q] \/ ViewInv(q)'
  BY <1>1 DEF ViewInv, IdleRequest
<1>3. log' = log /\ manifest' = manifest /\ late' = late
  BY DEF Crash, storeVars
<1>4. RangesNoted'
  <2>1. CASE UNCHANGED storeVars
    BY <1>3, <2>1, StillNoted DEF storeVars, DiskRest
  <2>2. CASE \E rs \in SUBSET Calls : TornWrite(rs)
    BY <1>3, <2>2, TornIsNoted DEF DiskRest
  <2> QED
    BY <2>1, <2>2 DEF Crash
<1> QED
  BY <1>2, <1>3, <1>4, StillDisk

(* The first two writes of a commit.                                        *)
LEMMA DiskPuts ==
  ASSUME CallsTyped, StoreTyped, DiskRest, NEW r \in Calls, PutRaw(r) \/ PutRange(r)
  PROVE  DiskRest' /\ NoRollBack
<1>1. req \in [Calls -> Requests] /\ req[r].pc \in Busy /\ req[r].chunk \in Offered
  BY BusyTyped DEF CallsTyped, PutRaw, PutRange
<1>2. /\ manifest' = manifest /\ late' = late /\ log' = log /\ torn' = torn
      /\ req[r].pc \in Writing /\ \E pc \in Writing : Goto(r, pc)
  BY DEF PutRaw, PutRange
<1>3. \A q \in Calls : req'[q] = req[q] \/ ViewInv(q)'
  <2>1. PICK pc \in Writing : Goto(r, pc)
    BY <1>2
  <2>2. /\ req'[r].pc = pc /\ req'[r].chunk = req[r].chunk /\ req'[r].view = req[r].view
        /\ \A q \in Calls : q # r => req'[q] = req[q]
    BY <1>1, <2>1 DEF Goto, Requests
  <2> QED
    BY <1>2, <2>2 DEF DiskRest, ViewsInv, ViewInv
<1>4. RangesNoted'
  <2>1. CASE PutRaw(r)
    BY <1>2, <2>1, StillNoted DEF PutRaw, DiskRest
  <2>2. CASE PutRange(r)
    <3>1. /\ req[r].chunk.start = manifest[req[r].chunk.epoch].off
          /\ req[r].view = manifest[req[r].chunk.epoch]
      BY <1>2 DEF DiskRest, ViewsInv, ViewInv
    <3>2. \A x \in DOMAIN ranges' :
            \/ x \in DOMAIN ranges /\ ranges'[x] = ranges[x]
            \/ x = req[r].chunk /\ ranges'[x] = manifest[req[r].chunk.epoch].last
      BY <2>2, <3>1 DEF PutRange, StoreRange
    <3> QED
      BY <1>1, <1>2, <3>1, <3>2, StillNoted DEF DiskRest
  <2> QED
    BY <2>1, <2>2
<1> QED
  BY <1>2, <1>3, <1>4, StillDisk

(* The manifest write.  With one controller and one commit at a time, no    *)
(* other commit of the epoch has a view that it could make old.             *)
LEMMA DiskManifest ==
  ASSUME ~ ConditionalWrites, CallsTyped, StoreTyped, DiskRest, NEW r \in Calls, PutManifest(r)
  PROVE  DiskRest' /\ NoRollBack
<1> DEFINE ch == req[r].chunk
           e == ch.epoch
<1>1. /\ req \in [Calls -> Requests] /\ req[r].pc = "putManifest"
      /\ ch \in Offered /\ e \in Epochs /\ ch.start \in Nat /\ ch.end \in Nat
      /\ ch.start < ch.end
  BY BusyTyped, Nulls DEF CallsTyped, PutManifest
<1>2. /\ ranges' = ranges /\ torn' = torn /\ late' = late
      /\ StoreManifest(ch) /\ Goto(r, "callback")
  BY DEF PutManifest
<1>3. manifest \in [Epochs -> Manifests] /\ ch.start = manifest[e].off
  BY <1>1 DEF StoreTyped, DiskRest, ViewsInv, ViewInv
<1>4. /\ LogOrdered' /\ ManifestIsLast'
      /\ \A x \in Epochs :
           /\ Len(log[x]) \in Nat
           /\ Len(log'[x]) = IF x = e THEN Len(log[x]) + 1 ELSE Len(log[x])
           /\ \A i \in 1 .. Len(log[x]) : log'[x][i] = log[x][i]
  BY <1>1, <1>2, <1>3, ManifestGrowsLog DEF DiskRest, DiskStore
<1>5. \A x \in Epochs : \A n \in 0 .. Len(log[x]) :
        n \in 0 .. Len(log'[x]) /\ Summary(x, n)' = Summary(x, n)
  BY <1>4 DEF Summary
<1>6. RangesNoted'
  <2>1. ASSUME NEW x \in DOMAIN ranges, <<"range", x>> \notin torn
        PROVE  \E n \in 0 .. Len(log'[x.epoch]) :
                 Summary(x.epoch, n)'.off = x.start /\ ranges[x] = Summary(x.epoch, n)'.last
    <3>1. x.epoch \in Epochs
      BY Nulls DEF StoreTyped
    <3>2. PICK n \in 0 .. Len(log[x.epoch]) :
            Summary(x.epoch, n).off = x.start /\ ranges[x] = Summary(x.epoch, n).last
      BY <2>1 DEF DiskRest, DiskStore, RangesNoted
    <3> QED
      BY <1>5, <3>1, <3>2
  <2> QED
    BY <1>2, <2>1 DEF RangesNoted
<1>7. manifest' = [manifest EXCEPT ![e] = [off |-> ch.end, last |-> ch]]
  BY <1>2 DEF StoreManifest
<1>8. NoRollBack
  BY <1>1, <1>3, <1>7 DEF NoRollBack, Manifests
<1>9. ViewsInv'
  <2>1. Leading(r)
    BY <1>1 DEF CallsTyped, Serial
  <2>2. ASSUME NEW q \in Calls PROVE ViewInv(q)'
    <3>1. CASE q = r
      BY <1>1, <1>2, <3>1 DEF Goto, Requests, ViewInv
    <3>2. CASE q # r /\ req[q].pc \in Running
      <4>1. req[q].ctrl \in Controllers /\ req[r].ctrl \in Controllers
            /\ req[q].chunk.epoch \in Epochs
        BY <1>1, <3>2, BusyTyped
      <4>2. req[q].ctrl = req[r].ctrl
        BY <4>1, StorageAssumption
      <4>3. req[q].chunk.epoch # e
        BY <2>1, <3>2, <4>2, OthersElsewhere
      <4>4. req'[q] = req[q] /\ manifest'[req[q].chunk.epoch] = manifest[req[q].chunk.epoch]
        BY <1>1, <1>2, <1>3, <1>7, <3>2, <4>1, <4>3 DEF Goto
      <4> QED
        BY <4>4 DEF DiskRest, ViewsInv, ViewInv
    <3>3. CASE q # r /\ req[q].pc \notin Running
      <4>1. req'[q] = req[q]
        BY <1>1, <1>2, <3>3 DEF Goto
      <4> QED
        BY <3>3, <4>1 DEF ViewInv
    <3> QED
      BY <3>1, <3>2, <3>3
  <2> QED
    BY <2>2 DEF ViewsInv
<1> QED
  BY <1>2, <1>4, <1>6, <1>8, <1>9 DEF DiskRest, DiskStore

(* What callers do.                                                         *)
LEMMA DiskCallers ==
  ASSUME CallsTyped, StoreTyped, DiskRest, NEW r \in Calls,
         \/ \E c \in Controllers, ch \in Offered : Submit(r, c, ch)
         \/ Leave(r) \/ Consume(r)
  PROVE  DiskRest' /\ NoRollBack
<1>1. UNCHANGED <<storeVars, log>> /\ manifest' = manifest
  BY DEF Submit, Leave, Consume, storeVars
<1>2. req \in [Calls -> Requests] /\ \A q \in Calls : q # r => req'[q] = req[q]
  BY DEF CallsTyped, Submit, Leave, Consume
<1>3. ViewInv(r)'
  <2>1. CASE (\E c \in Controllers, ch \in Offered : Submit(r, c, ch)) \/ Consume(r)
    <3>1. CASE Consume(r)
      BY <1>2, <3>1 DEF Consume, IdleRequest, ViewInv
    <3>2. CASE \E c \in Controllers, ch \in Offered : Submit(r, c, ch)
      <4>1. req'[r].pc = "queued"
        BY <1>2, <3>2 DEF Submit, IdleRequest
      <4> QED
        BY <4>1 DEF ViewInv
    <3> QED
      BY <2>1, <3>1, <3>2
  <2>2. CASE Leave(r)
    <3>1. /\ req'[r].pc = req[r].pc /\ req'[r].chunk = req[r].chunk
          /\ req'[r].view = req[r].view
      BY <1>2, <2>2 DEF Leave, Requests
    <3> QED
      BY <1>1, <3>1 DEF DiskRest, ViewsInv, ViewInv
  <2> QED
    BY <2>1, <2>2
<1> QED
  BY <1>1, <1>2, <1>3, OnlyMoves

LEMMA DiskInit == Init => DiskInv
<1> SUFFICES ASSUME Init PROVE DiskRest
  BY TypeInit DEF DiskInv
<1>1. /\ \A e \in Epochs : log[e] = <<>> /\ Len(log[e]) = 0 /\ manifest[e] = NoManifest
      /\ log \in [Epochs -> Seq(Offered)] /\ DOMAIN ranges = {} /\ late = {}
  BY DEF Init
<1>2. DiskStore
  BY <1>1 DEF DiskStore, LogOrdered, ManifestIsLast, RangesNoted, Summary
<1>3. \A r \in Calls : req[r].pc = "idle"
  BY DEF Init, IdleRequest
<1> QED
  BY <1>1, <1>2, <1>3 DEF DiskRest, ViewsInv, ViewInv

(* The invariant is inductive, and no step rolls a manifest back.           *)
LEMMA DiskNext ==
  ASSUME ~ ConditionalWrites, DiskInv, [Next]_vars
  PROVE  DiskInv' /\ NoRollBack
<1>1. CallsTyped /\ StoreTyped /\ DiskRest
  BY TypeParts DEF DiskInv
<1> DEFINE Fine == DiskRest' /\ NoRollBack
<1>2. ASSUME UNCHANGED vars PROVE Fine
  <2>1. UNCHANGED <<storeVars, log>> /\ req' = req
    BY <1>2 DEF vars, ctrlVars
  <2>2. RangesNoted'
    BY <1>1, <2>1, StillNoted DEF DiskRest, storeVars
  <2> QED
    BY <1>1, <2>1, <2>2, StillDisk DEF storeVars
<1>3. ASSUME NEW r \in Calls, Leave(r) \/ Consume(r) PROVE Fine
  BY <1>1, <1>3, DiskCallers
<1>4. ASSUME NEW r \in Calls, NEW c \in Controllers, NEW ch \in Offered, Submit(r, c, ch)
      PROVE  Fine
  BY <1>1, <1>4, DiskCallers
<1>5. ASSUME NEW r \in Calls,
             \/ AbandonRead(r) \/ ReadManifest(r) \/ WalkRange(r) \/ VerifyRaw(r) \/ Report(r)
      PROVE  Fine
  BY <1>1, <1>5, DiskReads
<1>6. ASSUME NEW r \in Calls, PutRaw(r) \/ PutRange(r) PROVE Fine
  BY <1>1, <1>6, DiskPuts
<1>7. ASSUME NEW r \in Calls, PutManifest(r) PROVE Fine
  BY <1>1, <1>7, DiskManifest
<1>8. ASSUME NEW r \in Calls, PutFails(r) PROVE Fine
  BY <1>1, <1>8, DiskPutFails
<1>9. \A r \in Calls : ~ ManifestConflict(r)
  BY DEF ManifestConflict, Precondition
<1>10. \A w \in late : ~ LateWrite(w)
  BY <1>1 DEF DiskRest
<1>11. ASSUME NEW c \in Controllers, Crash(c) PROVE Fine
  BY <1>1, <1>11, DiskCrash
<1>12. Fine
  BY <1>2, <1>3, <1>4, <1>5, <1>6, <1>7, <1>8, <1>9, <1>10, <1>11
     DEF Next, Proceed, Serve, Disturb
<1> QED
  BY <1>12, TypeNext DEF DiskInv

-----------------------------------------------------------------------------
(* The least element of a set of numbers, from the order's well-foundedness.*)
Below == {ss \in Nat \X Nat : ss[1] < ss[2]}

LEMMA Least ==
  ASSUME NEW T, T \subseteq Nat, T # {}
  PROVE  \E x \in T : \A y \in T : x <= y
<1>1. IsWellFoundedOn(Below, Nat)
  <2>1. Below = OpToRel(<, Nat)
    BY Zenon DEF OpToRel, Below
  <2> QED
    BY <2>1, NatLessThanWellFounded, Zenon
<1>2. PICK x \in T : \A y \in T : ~ (<<y, x>> \in Below)
  BY <1>1, WFMin
<1>3. ASSUME NEW y \in T, y < x PROVE FALSE
  BY <1>2, <1>3 DEF Below
<1> QED
  BY <1>3

(* A walk back through n ranges, wherever it ends, is a finite sequence.    *)
LEMMA ReplayTyped ==
  ASSUME NEW e, NEW S, \A i \in DOMAIN Replay(e) : Replay(e)[i] \in S
  PROVE  Replay(e) \in Seq(S)
<1> DEFINE ends == {n \in 0 .. Cardinality(DOMAIN ranges) : Back(e)[n] = NoChunk}
<1>1. ReplayLength(e) \in Nat
  <2>1. ends \subseteq Nat
    OBVIOUS
  <2>2. CASE ends = {}
    BY <2>2 DEF ReplayLength
  <2>3. CASE ends # {}
    <3>1. \E n \in ends : \A m \in ends : n <= m
      BY <2>1, <2>3, Least
    <3>2. ReplayLength(e) = CHOOSE n \in ends : \A m \in ends : n <= m
      BY <2>3 DEF ReplayLength
    <3> QED
      BY <2>1, <3>1, <3>2
  <2> QED
    BY <2>2, <2>3
<1> QED
  BY <1>1 DEF Replay

(* What a read of the epoch can return is the log: it leads from the same   *)
(* last chunk, through the same ranges, to offset zero.  Otherwise there    *)
(* would be a first place, counted from the end, where they part.           *)
LEMMA OnlyTheLogIsRead ==
  ASSUME DiskStore, RangesTyped, NEW e \in Epochs, NEW l \in Seq(Offered), Reads(e, l)
  PROVE  l = log[e]
<1> DEFINE N == Len(l)
           n == Len(log[e])
           Same(k) == k < n /\ l[N - k] = log[e][n - k]
<1>1. /\ N \in Nat /\ n \in Nat /\ DOMAIN l = 1 .. N
      /\ log[e] \in Seq(Offered) /\ DOMAIN log[e] = 1 .. n
      /\ \A i \in 1 .. N : l[i] \in Offered /\ l[i] # NoChunk
      /\ \A i \in 1 .. n : /\ log[e][i] \in Offered /\ log[e][i] # NoChunk
                           /\ log[e][i].start \in Nat /\ log[e][i].end \in Nat
                           /\ log[e][i].start < log[e][i].end /\ log[e][i].epoch = e
                           /\ log[e][i].start = IF i = 1 THEN 0 ELSE log[e][i - 1].end
  BY Nulls DEF DiskStore, LogOrdered
<1>2. manifest[e] = Summary(e, n)
  BY DEF DiskStore, ManifestIsLast
<1>3. manifest[e] = IF N = 0 THEN NoManifest ELSE [off |-> l[N].end, last |-> l[N]]
  <2>1. l = <<>> <=> N = 0
    OBVIOUS
  <2> QED
    BY <2>1 DEF Reads
<1>4. ASSUME NEW i \in 1 .. N
      PROVE  /\ l[i] \in DOMAIN ranges
             /\ ranges[l[i]] = IF i = 1 THEN NoChunk ELSE l[i - 1]
  BY <1>1 DEF Reads
<1>5. \A k \in 0 .. n : /\ Summary(e, k).off = IF k = 0 THEN 0 ELSE log[e][k].end
                        /\ Summary(e, k).last = IF k = 0 THEN NoChunk ELSE log[e][k]
  BY DEF Summary, NoManifest
<1> HIDE DEF N, n
<1>6. /\ manifest[e].last = IF n = 0 THEN NoChunk ELSE log[e][n]
      /\ manifest[e].last = IF N = 0 THEN NoChunk ELSE l[N]
  <2>1. n \in 0 .. n
    BY <1>1
  <2>2. manifest[e].last = IF n = 0 THEN NoChunk ELSE log[e][n]
    BY <1>2, <1>5, <2>1
  <2>3. NoManifest.last = NoChunk /\ \A m : [off |-> m, last |-> l[N]].last = l[N]
    BY DEF NoManifest
  <2>4. manifest[e].last = IF N = 0 THEN NoChunk ELSE l[N]
    BY <1>3, <2>3
  <2> QED
    BY <2>2, <2>4
<1>7. (N = 0 <=> n = 0) /\ (N # 0 => l[N] = log[e][n])
  <2>1. (n # 0 => n \in 1 .. n) /\ (N # 0 => N \in 1 .. N)
    BY <1>1
  <2> QED
    BY <1>1, <1>6, <2>1
(* The range of a committed chunk names the chunk committed before it.      *)
<1>8. ASSUME NEW i \in 1 .. n, log[e][i] \in DOMAIN ranges
      PROVE  ranges[log[e][i]] = IF i = 1 THEN NoChunk ELSE log[e][i - 1]
  <2>1. log[e][i].end <= manifest[e].off
    <3>1. i \in 0 .. n /\ n \in 0 .. n /\ (i < n \/ i = n)
      BY <1>1
    <3>2. Summary(e, i).off <= Summary(e, n).off
      BY <3>1, OffsetsGrow DEF DiskStore, n
    <3> QED
      BY <1>1, <1>2, <1>5, <3>1, <3>2
  <2>2. <<"range", log[e][i]>> \notin torn
    BY <1>1, <1>8, <2>1 DEF Reads
  <2>3. PICK m \in 0 .. n : Summary(e, m).off = log[e][i].start
                            /\ ranges[log[e][i]] = Summary(e, m).last
    BY <1>1, <1>8, <2>2 DEF DiskStore, RangesNoted, n
  <2>4. i - 1 \in 0 .. n /\ Summary(e, i - 1).off = log[e][i].start
    BY <1>1, <1>5
  <2>5. m = i - 1
    BY <2>3, <2>4, OffsetsGrow DEF DiskStore, n
  <2> QED
    BY <1>5, <2>3, <2>4, <2>5
(* They agree wherever a read gets, counted from the end.                   *)
<1>9. ASSUME NEW k \in Nat, k < N PROVE Same(k)
  <2> DEFINE Parted == {j \in Nat : j < N /\ ~ Same(j)}
  <2>1. SUFFICES ASSUME Parted # {} PROVE FALSE
    BY <1>9
  <2>2. PICK j \in Parted : \A i \in Parted : j <= i
    BY <2>1, Least
  <2>3. j # 0
    BY <1>1, <1>7, <2>2
  <2>4. /\ j - 1 \in Nat /\ j - 1 < N /\ j < N
        /\ j - 1 < n /\ l[N - (j - 1)] = log[e][n - (j - 1)]
    <3>1. j \in Nat /\ j < N /\ j - 1 \in Nat /\ j - 1 < N
      BY <1>1, <2>2, <2>3
    <3>2. j - 1 \notin Parted
      BY <2>2, <3>1
    <3>3. Same(j - 1)
      BY <3>1, <3>2
    <3> QED
      BY <3>1, <3>3
  <2> DEFINE b == n - (j - 1)
             a == N - (j - 1)
  <2>5. a \in 1 .. N /\ b \in 1 .. n /\ a # 1 /\ a - 1 = N - j /\ b - 1 = n - j
        /\ (b # 1 => j < n)
    BY <1>1, <2>4
  <2>6. l[a - 1] = ranges[l[a]] /\ l[a] = log[e][b] /\ l[a - 1] # NoChunk
    BY <1>1, <1>4, <2>4, <2>5
  <2>7. log[e][b] \in DOMAIN ranges
    BY <1>4, <2>5, <2>6
  <2>8. b # 1 /\ l[a - 1] = log[e][b - 1]
    BY <1>8, <2>5, <2>6, <2>7
  <2>9. Same(j)
    BY <2>5, <2>8
  <2> QED
    BY <2>2, <2>9
(* And the read has ended where the log begins.                             *)
<1>10. N = n
  <2>1. CASE N # 0
    <3>1. N - 1 < n /\ l[N - (N - 1)] = log[e][n - (N - 1)]
      BY <1>1, <1>9, <2>1
    <3> DEFINE b == n - (N - 1)
    <3>2. b \in 1 .. n /\ N - (N - 1) = 1 /\ 1 \in 1 .. N
      BY <1>1, <2>1, <3>1
    <3>3. l[1] = log[e][b] /\ ranges[l[1]] = NoChunk /\ l[1] \in DOMAIN ranges
      <4>1. l[1] = log[e][b]
        BY <3>1, <3>2
      <4>2. ranges[l[1]] = NoChunk /\ l[1] \in DOMAIN ranges
        BY <1>4, <3>2
      <4> QED
        BY <4>1, <4>2
    <3>4. b = 1
      <4>1. b # 1 => b - 1 \in 1 .. n
        BY <1>1, <3>2
      <4>2. ranges[log[e][b]] = IF b = 1 THEN NoChunk ELSE log[e][b - 1]
        BY <1>8, <3>2, <3>3
      <4> QED
        BY <1>1, <3>3, <4>1, <4>2
    <3> QED
      BY <1>1, <3>4
  <2> QED
    BY <1>7, <2>1
<1>11. ASSUME NEW i \in 1 .. N PROVE l[i] = log[e][i]
  <2>1. N - i \in Nat /\ N - i < N /\ N - (N - i) = i
    BY <1>1
  <2> QED
    BY <1>1, <1>9, <1>10, <2>1
<1> QED
  BY <1>1, <1>10, <1>11 DEF N, n

(* Whatever can be read is what was committed.                              *)
LEMMA Noticed ==
  ASSUME DiskStore, StoreTyped
  PROVE  DamageIsNoticed
<1>1. ASSUME NEW e \in Epochs, Reads(e, Replay(e)) PROVE Replay(e) = log[e]
  <2>1. \A i \in DOMAIN Replay(e) : Replay(e)[i] \in Offered
    BY <1>1 DEF Reads, StoreTyped
  <2>2. Replay(e) \in Seq(Offered)
    BY <2>1, ReplayTyped
  <2> QED
    BY <1>1, <2>2, OnlyTheLogIsRead DEF StoreTyped, RangesTyped
<1> QED
  BY <1>1 DEF DamageIsNoticed

(* On any store, whatever writes are interrupted and leave a part of a      *)
(* file, whatever crashes: reading an epoch fails, or returns exactly the   *)
(* chunks whose commit took effect.                                         *)
THEOREM ArchiveDamageIsNoticed == Spec => []DamageIsNoticed
<1>1. CASE ConditionalWrites
  <2>1. ArchiveInv => DamageIsNoticed
    <3>1. ArchiveInv => DiskStore /\ StoreTyped
      BY TypeParts DEF ArchiveInv, StoreInv, DiskStore, RangesLinked, RangesNoted
    <3> QED
      BY <3>1, Noticed
  <2>2. ArchiveInv /\ [Next]_vars => ArchiveInv'
    BY <1>1, ArchiveNext
  <2> QED
    BY ArchiveInit, <2>1, <2>2, PTL DEF Spec
<1>2. CASE ~ ConditionalWrites
  <2>1. DiskInv => DamageIsNoticed
    BY Noticed, TypeParts DEF DiskInv, DiskRest
  <2>2. DiskInv /\ [Next]_vars => DiskInv'
    BY <1>2, DiskNext
  <2> QED
    BY DiskInit, <2>1, <2>2, PTL DEF Spec
<1> QED
  BY <1>1, <1>2

(* And a disk that cannot refuse a manifest write has no writer that would  *)
(* roll one back.                                                           *)
THEOREM DiskManifestNeverRollsBack ==
  ASSUME ~ ConditionalWrites PROVE Spec => ManifestNeverRollsBack
<1>1. DiskInv /\ [Next]_vars => [\A e \in Epochs : manifest'[e].off >= manifest[e].off]_manifest
  BY DiskNext DEF NoRollBack
<1>2. DiskInv /\ [Next]_vars => DiskInv'
  BY DiskNext
<1> QED
  BY DiskInit, <1>1, <1>2, PTL DEF Spec, ManifestNeverRollsBack
=============================================================================
