------------------------- MODULE ChunkArchiveProofs -------------------------
(***************************************************************************)
(* For any number of controllers, calls, epochs and chunks, on an object   *)
(* store with conditional writes: every manifest leads through a whole     *)
(* chain of chunks, and every chunk that was acknowledged is on it.        *)
(***************************************************************************)
EXTENDS ChunkArchive, TLAPS

(* A commit that runs is at the head of its queue.                          *)
Serial == \A r \in Calls : req[r].pc \in Running => Leading(r)

TypeInv == TypeOK /\ Serial

(* The manifest after the first n chunks of epoch e.                        *)
Summary(e, n) == IF n = 0 THEN NoManifest
                 ELSE [off |-> log[e][n].end, last |-> log[e][n]]

PrefixOf(m, e) == \E n \in 0 .. Len(log[e]) : m = Summary(e, n)

Committed(ch) == \E i \in DOMAIN log[ch.epoch] : log[ch.epoch][i] = ch

(* The log is contiguous.  That each chunk starts where the one before it   *)
(* ends makes the ends grow; stated for all pairs, it needs no induction.   *)
LogOrdered ==
  /\ log \in [Epochs -> Seq(Offered)]
  /\ \A e \in Epochs : \A i \in 1 .. Len(log[e]) :
       /\ log[e][i].epoch = e
       /\ log[e][i].start = IF i = 1 THEN 0 ELSE log[e][i - 1].end
       /\ \A j \in 1 .. Len(log[e]) : i < j => log[e][i].end <= log[e][j].start

ManifestIsLast == \A e \in Epochs : manifest[e] = Summary(e, Len(log[e]))

LogStored ==
  \A e \in Epochs : \A i \in 1 .. Len(log[e]) :
    log[e][i] \in DOMAIN ranges /\ RawKey(log[e][i]) \in raw

(* Every range, also one that is never committed, names the chunk that      *)
(* ended where it starts when it was written.                               *)
RangesLinked ==
  \A ch \in DOMAIN ranges : \E n \in 0 .. Len(log[ch.epoch]) :
    Summary(ch.epoch, n).off = ch.start /\ ranges[ch] = Summary(ch.epoch, n).last

StoreInv == torn = {} /\ LogOrdered /\ ManifestIsLast /\ LogStored /\ RangesLinked

(* A write in progress was admitted under a manifest of the past.           *)
Admitted(ch, view) == PrefixOf(view, ch.epoch) /\ ch.start = view.off

CallInv(r) ==
  LET ch == req[r].chunk
  IN /\ req[r].pc = "walk" => PrefixOf(req[r].view, ch.epoch)
     /\ req[r].pc \in Writing => Admitted(ch, req[r].view)
     /\ req[r].pc \in {"putRange", "putManifest"} => RawKey(ch) \in raw
     /\ req[r].pc = "putManifest" => ch \in DOMAIN ranges
     /\ req[r].pc \in {"verifyRaw", "callback"} => Committed(ch)

CallsInv == \A r \in Calls : CallInv(r)

Ready(w) == /\ Admitted(w.chunk, w.view)
            /\ RawKey(w.chunk) \in raw
            /\ w.chunk \in DOMAIN ranges

LateInv == \A w \in late : Ready(w)

(* A walk stands on a committed chunk, or is at its end.                    *)
WalksInv ==
  /\ DOMAIN walks = Controllers
  /\ \A c \in Controllers : \A ch \in DOMAIN walks[c] :
       /\ ch \in Offered
       /\ walks[c][ch].at = NoChunk
          \/ \E i \in 1 .. Len(log[ch.epoch]) : log[ch.epoch][i] = walks[c][ch].at
  /\ \A r \in Calls : req[r].pc = "walk" => req[r].chunk \in DOMAIN walks[req[r].ctrl]

AckedInv == \A ch \in acked : Committed(ch)

-----------------------------------------------------------------------------
USE DEF Reading, Writing, Running, Busy

(* What the assumptions say of the null values and of a chunk.              *)
LEMMA Nulls ==
  /\ NoManifest \in Manifests
  /\ IdleRequest \in Requests
  /\ \A ch \in Offered : ch \in Chunks /\ ch # NoChunk /\ ch.epoch \in Epochs
                        /\ ch.start \in Nat /\ ch.end \in Nat /\ ch.start < ch.end
<1>1. NoManifest \in Manifests
  BY DEF NoManifest, Manifests
<1>2. IdleRequest \in Requests
  BY <1>1 DEF IdleRequest, Requests, Results
<1>3. ASSUME NEW ch \in Offered
      PROVE  ch \in Chunks /\ ch # NoChunk /\ ch.epoch \in Epochs
             /\ ch.start \in Nat /\ ch.end \in Nat /\ ch.start < ch.end
  BY OfferedAssumption, NullAssumption DEF Chunks
<1> QED
  BY <1>1, <1>2, <1>3

(* A request as TypeOK wants it.                                            *)
WellTyped(q) ==
  /\ q \in Requests
  /\ q.pc = "idle" => q = IdleRequest
  /\ q.pc \in Busy => q.ctrl # NoController /\ q.chunk \in Offered
  /\ q.pc = "answered" => q.res # "none" /\ q.ctrl = NoController

(* A request keeps its type when the fields that a commit changes do.       *)
LEMMA Updated ==
  ASSUME NEW q \in Requests, NEW pc \in Busy, NEW view \in Manifests, NEW reads \in Nat,
         NEW tries \in Nat, NEW left \in BOOLEAN
  PROVE  [q EXCEPT !.pc = pc, !.view = view, !.reads = reads, !.tries = tries,
                   !.left = left] \in Requests
  BY DEF Requests

(* What a step leaves of TypeInv that it does not concern itself.           *)
CallsTyped ==
  /\ req \in [Calls -> Requests]
  /\ \A r \in Calls : WellTyped(req[r])
  /\ queue \in [Controllers -> [Epochs -> Seq(Calls)]]
  /\ acked \subseteq Offered
  /\ Serial

StoreTyped ==
  /\ raw \in SUBSET RawKeys
  /\ DOMAIN ranges \subseteq Offered
  /\ \A ch \in DOMAIN ranges : ranges[ch] \in Offered \union {NoChunk}
  /\ manifest \in [Epochs -> Manifests]
  /\ \A w \in late : w.chunk \in Offered /\ w.view \in Manifests

(* TypeInv in two parts: the controllers' and the store's.                  *)
LEMMA TypeParts ==
  /\ TypeInv <=> CallsTyped /\ StoreTyped
  /\ TypeInv' <=> CallsTyped' /\ StoreTyped'
  BY DEF TypeInv, TypeOK, CallsTyped, StoreTyped, WellTyped

(* The fields of a commit in progress.                                      *)
LEMMA BusyTyped ==
  ASSUME CallsTyped, NEW r \in Calls, req[r].pc \in Busy
  PROVE  /\ req[r] \in Requests /\ req[r].view \in Manifests
         /\ req[r].reads \in Nat /\ req[r].tries \in Nat /\ req[r].left \in BOOLEAN
         /\ req[r].ctrl \in Controllers /\ req[r].chunk \in Offered
         /\ req[r].chunk.epoch \in Epochs
  BY Nulls DEF CallsTyped, WellTyped, Requests

(* The commit of r goes on without leaving its place in its queue.          *)
LEMMA GoesOn ==
  ASSUME CallsTyped, NEW r \in Calls, req[r].pc \in Busy,
         NEW pc \in Busy, NEW view \in Manifests, NEW reads \in Nat, NEW left \in BOOLEAN,
         pc \in Running => Leading(r),
         req' = [req EXCEPT ![r] = [@ EXCEPT !.pc = pc, !.view = view, !.reads = reads,
                                             !.left = left]],
         queue' = queue, acked' = acked
  PROVE  CallsTyped'
<1> DEFINE new == [req[r] EXCEPT !.pc = pc, !.view = view, !.reads = reads, !.left = left]
<1>1. /\ new \in Requests
      /\ new.pc = pc /\ new.ctrl = req[r].ctrl /\ new.chunk = req[r].chunk
  <2>1. req[r] \in Requests /\ req[r].tries \in Nat
    BY BusyTyped
  <2>2. [req[r] EXCEPT !.pc = pc, !.view = view, !.reads = reads,
                       !.tries = req[r].tries, !.left = left] \in Requests
    BY <2>1, Updated
  <2>3. new = [req[r] EXCEPT !.pc = pc, !.view = view, !.reads = reads,
                             !.tries = req[r].tries, !.left = left]
    BY <2>1 DEF Requests
  <2>4. new.pc = pc /\ new.ctrl = req[r].ctrl /\ new.chunk = req[r].chunk
    BY <2>1 DEF Requests
  <2> QED
    BY <2>2, <2>3, <2>4
<1>2. req' = [req EXCEPT ![r] = new]
  OBVIOUS
<1> HIDE DEF new
<1>3. WellTyped(new)
  BY <1>1, BusyTyped, NullAssumption DEF WellTyped
<1>4. req' \in [Calls -> Requests] /\ \A q \in Calls : WellTyped(req'[q])
  BY <1>1, <1>2, <1>3 DEF CallsTyped
<1>5. Serial'
  <2>1. ASSUME NEW q \in Calls, req'[q].pc \in Running PROVE Leading(q)'
    <3>1. CASE q = r
      BY <1>1, <1>2, <2>1, <3>1 DEF Leading, MyQueue, CallsTyped
    <3>2. CASE q # r
      BY <1>2, <2>1, <3>2 DEF Serial, Leading, MyQueue, CallsTyped
    <3> QED
      BY <3>1, <3>2
  <2> QED
    BY <2>1 DEF Serial
<1> QED
  BY <1>4, <1>5 DEF CallsTyped

(* Two commits never run in one queue.                                      *)
LEMMA OthersElsewhere ==
  ASSUME CallsTyped, NEW r \in Calls, Leading(r), NEW q \in Calls, q # r,
         req[q].pc \in Running
  PROVE  Leading(q) /\ (req[q].ctrl # req[r].ctrl \/ req[q].chunk.epoch # req[r].chunk.epoch)
  BY DEF CallsTyped, Serial, Leading, MyQueue

(* Settling a commit passes its queue on and keeps the types.               *)
LEMMA Settles ==
  ASSUME CallsTyped, NEW r \in Calls, req[r].pc \in Busy, Leading(r),
         NEW res \in Results \ {"none"}, Settle(r, res)
  PROVE  CallsTyped'
<1> DEFINE new == IF req[r].left THEN IdleRequest
                  ELSE [IdleRequest EXCEPT !.pc = "answered", !.chunk = req[r].chunk,
                                           !.res = res]
<1>1. new \in Requests /\ WellTyped(new) /\ new.pc \notin Running
  <2>1. req[r].chunk \in Offered
    BY BusyTyped
  <2>2. [IdleRequest EXCEPT !.pc = "answered", !.chunk = req[r].chunk, !.res = res] \in Requests
    BY <2>1, Nulls DEF Requests
  <2>3. CASE req[r].left
    BY <2>3, Nulls DEF WellTyped, IdleRequest
  <2>4. CASE ~ req[r].left
    BY <2>2, <2>4 DEF WellTyped, IdleRequest
  <2> QED
    BY <2>3, <2>4
<1>2. req' = [req EXCEPT ![r] = new]
  BY DEF Settle, CallsTyped
<1> HIDE DEF new
<1>3. req' \in [Calls -> Requests] /\ \A q \in Calls : WellTyped(req'[q])
  BY <1>1, <1>2 DEF CallsTyped
<1>4. MyQueue(r) \in Seq(Calls) /\ MyQueue(r) # <<>>
  BY BusyTyped DEF Leading, MyQueue, CallsTyped
<1>5. Tail(MyQueue(r)) \in Seq(Calls)
  BY <1>4
<1>6. queue' = [queue EXCEPT ![req[r].ctrl][req[r].chunk.epoch] = Tail(MyQueue(r))]
  BY DEF Settle, Dequeue, MyQueue
<1>7. queue' \in [Controllers -> [Epochs -> Seq(Calls)]]
  BY <1>5, <1>6, BusyTyped DEF CallsTyped
<1>8. acked' \subseteq Offered
  BY BusyTyped DEF Settle, CallsTyped
<1>9. Serial'
  <2>1. ASSUME NEW q \in Calls, req'[q].pc \in Running PROVE Leading(q)'
    <3>1. q # r /\ req'[q] = req[q]
      BY <1>1, <1>2, <2>1 DEF CallsTyped
    <3>2. /\ Leading(q)
          /\ req[q].ctrl # req[r].ctrl \/ req[q].chunk.epoch # req[r].chunk.epoch
      BY <2>1, <3>1, OthersElsewhere
    <3>3. req[q].ctrl \in Controllers /\ req[q].chunk.epoch \in Epochs
      BY <2>1, <3>1, BusyTyped
    <3>4. queue'[req[q].ctrl][req[q].chunk.epoch] = queue[req[q].ctrl][req[q].chunk.epoch]
      BY <1>6, <3>2, <3>3, BusyTyped DEF CallsTyped
    <3> QED
      BY <3>1, <3>2, <3>4 DEF Leading, MyQueue
  <2> QED
    BY <2>1 DEF Serial
<1> QED
  BY <1>3, <1>7, <1>8, <1>9 DEF CallsTyped

(* An upload joins its queue at the end, so nobody loses the head.          *)
LEMMA Submits ==
  ASSUME CallsTyped, NEW r \in Calls, NEW c \in Controllers, NEW ch \in Offered,
         Submit(r, c, ch)
  PROVE  CallsTyped'
<1> DEFINE new == [IdleRequest EXCEPT !.pc = "queued", !.ctrl = c, !.chunk = ch]
<1>1. new \in Requests /\ WellTyped(new) /\ new.pc \notin Running
  BY Nulls, NullAssumption DEF Requests, WellTyped, IdleRequest
<1>2. req' = [req EXCEPT ![r] = new] /\ queue' = [queue EXCEPT ![c][ch.epoch] = Append(@, r)]
  BY DEF Submit
<1> HIDE DEF new
<1>3. req' \in [Calls -> Requests] /\ \A q \in Calls : WellTyped(req'[q])
  BY <1>1, <1>2 DEF CallsTyped
<1>4. queue' \in [Controllers -> [Epochs -> Seq(Calls)]]
  BY <1>2, Nulls DEF CallsTyped
<1>5. Serial'
  <2>1. ASSUME NEW q \in Calls, req'[q].pc \in Running PROVE Leading(q)'
    <3>1. q # r /\ req'[q] = req[q] /\ Leading(q)
      BY <1>1, <1>2, <2>1 DEF CallsTyped, Serial
    <3>2. req[q].ctrl \in Controllers /\ req[q].chunk.epoch \in Epochs
      BY <2>1, <3>1, BusyTyped
    <3>3. MyQueue(q) \in Seq(Calls) /\ MyQueue(q) # <<>> /\ Head(MyQueue(q)) = q
      BY <3>1, <3>2 DEF CallsTyped, MyQueue, Leading
    <3>4. MyQueue(q)' \in {MyQueue(q), Append(MyQueue(q), r)}
      BY <1>2, <3>1, <3>2, Nulls DEF CallsTyped, MyQueue
    <3> QED
      BY <3>3, <3>4 DEF Leading
  <2> QED
    BY <2>1 DEF Serial
<1> QED
  BY <1>3, <1>4, <1>5 DEF CallsTyped, Submit

(* One queue of many may change.                                            *)
LEMMA QueueTyped ==
  ASSUME queue \in [Controllers -> [Epochs -> Seq(Calls)]],
         NEW c \in Controllers, NEW e \in Epochs, NEW l \in Seq(Calls)
  PROVE  [queue EXCEPT ![c][e] = l] \in [Controllers -> [Epochs -> Seq(Calls)]]
  OBVIOUS

(* storage_version_conflict: the commit goes to the end of its queue.       *)
LEMMA Requeues ==
  ASSUME CallsTyped, NEW r \in Calls, req[r].pc = "putManifest", Leading(r),
         queue' = [queue EXCEPT ![req[r].ctrl][req[r].chunk.epoch] = Append(Tail(@), r)],
         req' = [req EXCEPT ![r].pc = "queued", ![r].tries = @ + 1,
                            ![r].view = NoManifest],
         acked' = acked
  PROVE  CallsTyped'
<1> DEFINE new == [req[r] EXCEPT !.pc = "queued", !.view = NoManifest,
                                 !.tries = req[r].tries + 1]
<1>1. /\ new \in Requests
      /\ new.pc = "queued" /\ new.ctrl = req[r].ctrl /\ new.chunk = req[r].chunk
  <2>1. req[r] \in Requests /\ req[r].tries + 1 \in Nat
    BY BusyTyped
  <2> QED
    BY <2>1, Nulls DEF Requests
<1>2. req' = [req EXCEPT ![r] = new]
  BY DEF CallsTyped
<1> HIDE DEF new
<1>0. req[r].ctrl \in Controllers /\ req[r].chunk \in Offered /\ req[r].chunk.epoch \in Epochs
  BY BusyTyped
<1>3. WellTyped(new)
  BY <1>0, <1>1, NullAssumption DEF WellTyped
<1>4. req' \in [Calls -> Requests] /\ \A q \in Calls : WellTyped(req'[q])
  BY <1>1, <1>2, <1>3 DEF CallsTyped
<1>5. MyQueue(r) \in Seq(Calls) /\ MyQueue(r) # <<>>
  BY BusyTyped DEF Leading, MyQueue, CallsTyped
<1>6. Append(Tail(MyQueue(r)), r) \in Seq(Calls)
  BY <1>5
<1>7. queue' = [queue EXCEPT ![req[r].ctrl][req[r].chunk.epoch] = Append(Tail(MyQueue(r)), r)]
  BY DEF MyQueue
<1>8. queue' \in [Controllers -> [Epochs -> Seq(Calls)]]
  <2> DEFINE l == Append(Tail(MyQueue(r)), r)
  <2>1. l \in Seq(Calls) /\ queue' = [queue EXCEPT ![req[r].ctrl][req[r].chunk.epoch] = l]
    BY <1>6, <1>7
  <2> HIDE DEF l
  <2>2. queue \in [Controllers -> [Epochs -> Seq(Calls)]]
    BY DEF CallsTyped
  <2>3. [queue EXCEPT ![req[r].ctrl][req[r].chunk.epoch] = l]
          \in [Controllers -> [Epochs -> Seq(Calls)]]
    BY <1>0, <2>1, <2>2, QueueTyped
  <2> QED
    BY <2>1, <2>3, Zenon
<1>9. Serial'
  <2>1. ASSUME NEW q \in Calls, req'[q].pc \in Running PROVE Leading(q)'
    <3>1. q # r /\ req'[q] = req[q]
      BY <1>1, <1>2, <2>1 DEF CallsTyped
    <3>2. /\ Leading(q)
          /\ req[q].ctrl # req[r].ctrl \/ req[q].chunk.epoch # req[r].chunk.epoch
      BY <2>1, <3>1, OthersElsewhere
    <3>3. req[q].ctrl \in Controllers /\ req[q].chunk.epoch \in Epochs
      BY <2>1, <3>1, BusyTyped
    <3>4. queue'[req[q].ctrl][req[q].chunk.epoch] = queue[req[q].ctrl][req[q].chunk.epoch]
      BY <1>7, <3>2, <3>3, BusyTyped DEF CallsTyped
    <3> QED
      BY <3>1, <3>2, <3>4 DEF Leading, MyQueue
  <2> QED
    BY <2>1 DEF Serial
<1> QED
  BY <1>4, <1>8, <1>9 DEF CallsTyped

(* A crash ends the commits of one controller, with all its queues.         *)
LEMMA Crashes ==
  ASSUME CallsTyped, NEW c \in Controllers, Crash(c)
  PROVE  CallsTyped'
<1>1. /\ req' \in [Calls -> Requests]
      /\ \A q \in Calls : req'[q] = req[q] \/ req'[q] = IdleRequest
      /\ \A q \in Calls : req[q].pc \in Busy /\ req[q].ctrl = c => req'[q] = IdleRequest
      /\ queue' = [queue EXCEPT ![c] = [e \in Epochs |-> <<>>]]
      /\ acked' = acked
  BY Nulls DEF Crash, CallsTyped
<1>2. IdleRequest.pc = "idle" /\ IdleRequest \in Requests
  BY Nulls DEF IdleRequest
<1>3. \A q \in Calls : WellTyped(req'[q])
  BY <1>1, <1>2 DEF CallsTyped, WellTyped
<1>4. queue' \in [Controllers -> [Epochs -> Seq(Calls)]]
  BY <1>1 DEF CallsTyped
<1>5. Serial'
  <2>1. ASSUME NEW q \in Calls, req'[q].pc \in Running PROVE Leading(q)'
    <3>1. req'[q] = req[q] /\ req[q].ctrl # c /\ Leading(q)
      BY <1>1, <1>2, <2>1 DEF CallsTyped, Serial
    <3>2. queue'[req[q].ctrl] = queue[req[q].ctrl]
      BY <1>1, <2>1, <3>1, BusyTyped DEF CallsTyped
    <3> QED
      BY <3>1, <3>2 DEF Leading, MyQueue
  <2> QED
    BY <2>1 DEF Serial
<1> QED
  BY <1>1, <1>3, <1>4, <1>5 DEF CallsTyped

(* The forms in which the actions say that a commit goes on.                *)
LEMMA GoesOnForms ==
  ASSUME CallsTyped, NEW r \in Calls, req[r].pc \in Busy,
         queue' = queue, acked' = acked, Leading(r)
  PROVE  /\ \A pc \in Busy : Goto(r, pc) => CallsTyped'
         /\ \A view \in Manifests :
              req' = [req EXCEPT ![r].pc = "putRaw", ![r].view = view] => CallsTyped'
         /\ \A view \in Manifests :
              req' = [req EXCEPT ![r].pc = "walk", ![r].view = view, ![r].reads = 0]
                => CallsTyped'
         /\ req[r].pc = "walk" /\ req' = [req EXCEPT ![r].reads = @ + 1] => CallsTyped'
<1>1. /\ req \in [Calls -> Requests] /\ req[r] \in Requests
      /\ req[r].view \in Manifests /\ req[r].reads \in Nat /\ req[r].reads + 1 \in Nat
      /\ 0 \in Nat /\ req[r].left \in BOOLEAN
  BY BusyTyped DEF CallsTyped
<1>2. ASSUME NEW pc \in Busy, Goto(r, pc) PROVE CallsTyped'
  <2>1. req' = [req EXCEPT ![r] = [@ EXCEPT !.pc = pc, !.view = req[r].view,
                                            !.reads = req[r].reads, !.left = req[r].left]]
    BY <1>1, <1>2 DEF Goto, Requests
  <2> QED
    BY <1>1, <2>1, GoesOn
<1>3. ASSUME NEW view \in Manifests,
             req' = [req EXCEPT ![r].pc = "putRaw", ![r].view = view]
      PROVE  CallsTyped'
  <2>1. req' = [req EXCEPT ![r] = [@ EXCEPT !.pc = "putRaw", !.view = view,
                                            !.reads = req[r].reads, !.left = req[r].left]]
    BY <1>1, <1>3 DEF Requests
  <2> QED
    BY <1>1, <2>1, GoesOn
<1>4. ASSUME NEW view \in Manifests,
             req' = [req EXCEPT ![r].pc = "walk", ![r].view = view, ![r].reads = 0]
      PROVE  CallsTyped'
  <2>1. req' = [req EXCEPT ![r] = [@ EXCEPT !.pc = "walk", !.view = view,
                                            !.reads = 0, !.left = req[r].left]]
    BY <1>1, <1>4 DEF Requests
  <2> QED
    BY <1>1, <2>1, GoesOn
<1>5. ASSUME req[r].pc = "walk", req' = [req EXCEPT ![r].reads = @ + 1]
      PROVE  CallsTyped'
  <2>1. req' = [req EXCEPT ![r] = [@ EXCEPT !.pc = "walk", !.view = req[r].view,
                                            !.reads = req[r].reads + 1,
                                            !.left = req[r].left]]
    BY <1>1, <1>5 DEF Requests
  <2> QED
    BY <1>1, <2>1, GoesOn
<1> QED
  BY <1>2, <1>3, <1>4, <1>5

(* A caller that leaves changes only that.                                  *)
LEMMA LeavesTyped ==
  ASSUME CallsTyped, NEW r \in Calls, Leave(r)
  PROVE  CallsTyped'
<1>1. /\ req \in [Calls -> Requests] /\ req[r] \in Requests /\ req[r].pc \in Busy
      /\ req[r].view \in Manifests /\ req[r].reads \in Nat
  BY BusyTyped DEF CallsTyped, Leave
<1>2. req' = [req EXCEPT ![r] = [@ EXCEPT !.pc = req[r].pc, !.view = req[r].view,
                                          !.reads = req[r].reads, !.left = TRUE]]
  BY <1>1 DEF Leave, Requests
<1>3. queue' = queue /\ acked' = acked /\ (req[r].pc \in Running => Leading(r))
  BY DEF Leave, CallsTyped, Serial
<1> QED
  BY <1>1, <1>2, <1>3, GoesOn

(* The checks before the first write settle the commit or let it go on.     *)
LEMMA Admits ==
  ASSUME CallsTyped, NEW r \in Calls, req[r].pc \in Busy, Leading(r),
         NEW view \in Manifests, Admit(r, view)
  PROVE  CallsTyped'
<1>1. CASE Settle(r, "cursorMismatch") \/ Settle(r, "chainMismatch")
  BY <1>1, Settles DEF Results
<1>2. CASE /\ req' = [req EXCEPT ![r].pc = "putRaw", ![r].view = view]
           /\ UNCHANGED <<queue, acked>>
  BY <1>2, GoesOnForms
<1> QED
  BY <1>1, <1>2 DEF Admit

RawTyped == raw \in SUBSET RawKeys
RangesTyped == /\ DOMAIN ranges \subseteq Offered
               /\ \A ch \in DOMAIN ranges : ranges[ch] \in Offered \union {NoChunk}
ManifestTyped == manifest \in [Epochs -> Manifests]
LateTyped == \A w \in late : w.chunk \in Offered /\ w.view \in Manifests

(* The store's part of TypeInv, object kind by object kind.                 *)
LEMMA StoreParts ==
  /\ StoreTyped <=> RawTyped /\ RangesTyped /\ ManifestTyped /\ LateTyped
  /\ StoreTyped' <=> RawTyped' /\ RangesTyped' /\ ManifestTyped' /\ LateTyped'
  BY DEF StoreTyped, RawTyped, RangesTyped, ManifestTyped, LateTyped

(* The key of a chunk's bytes.                                              *)
LEMMA RawKeyTyped == \A ch \in Offered : RawKey(ch) \in RawKeys
<1> SUFFICES ASSUME NEW ch \in Offered PROVE RawKey(ch) \in RawKeys
  OBVIOUS
<1>1. ch \in Chunks
  BY Nulls
<1> QED
  BY <1>1 DEF Chunks, RawKey, RawKeys

(* Each of the three writes keeps the type of what it writes.               *)
LEMMA StoresTyped ==
  ASSUME StoreTyped, NEW ch \in Offered
  PROVE  /\ StoreRaw(ch) => RawTyped'
         /\ \A before \in Offered \union {NoChunk} : StoreRange(ch, before) => RangesTyped'
         /\ StoreManifest(ch) => ManifestTyped'
<1>1. StoreRaw(ch) => RawTyped'
  BY RawKeyTyped DEF StoreRaw, StoreTyped, RawTyped
<1>2. ASSUME NEW before \in Offered \union {NoChunk}, StoreRange(ch, before)
      PROVE  RangesTyped'
  BY <1>2 DEF StoreRange, StoreTyped, RangesTyped
<1>3. ASSUME StoreManifest(ch) PROVE ManifestTyped'
  <2>1. [off |-> ch.end, last |-> ch] \in Manifests
    BY Nulls DEF Manifests
  <2>2. manifest' = [manifest EXCEPT ![ch.epoch] = [off |-> ch.end, last |-> ch]]
    BY <1>3 DEF StoreManifest
  <2> QED
    BY <2>1, <2>2 DEF StoreTyped, ManifestTyped
<1> QED
  BY <1>1, <1>2, <1>3

(* So does a write of which only a part was done.                           *)
LEMMA TornTyped ==
  ASSUME StoreTyped, NEW rs \in SUBSET Calls, \A r \in rs : req[r].chunk \in Offered,
         TornWrite(rs)
  PROVE  RawTyped' /\ RangesTyped'
<1> DEFINE creating == {r \in rs :
              \/ req[r].pc = "putRaw" /\ RawKey(req[r].chunk) \notin raw
              \/ req[r].pc = "putRange" /\ req[r].chunk \notin DOMAIN ranges
              \/ req[r].pc = "putManifest"}
           chunksAt(pc) == {req[r].chunk : r \in {q \in creating : req[q].pc = pc}}
<1>1. \A pc \in {"putRaw", "putRange"} : chunksAt(pc) \subseteq Offered
  OBVIOUS
<1>2. /\ raw' = raw \union {RawKey(ch) : ch \in chunksAt("putRaw")}
      /\ ranges' = [x \in DOMAIN ranges \union chunksAt("putRange") |->
                      IF x \in DOMAIN ranges THEN ranges[x] ELSE NoChunk]
  BY DEF TornWrite
<1> HIDE DEF chunksAt
<1>3. RawTyped'
  BY <1>1, <1>2, RawKeyTyped DEF RawTyped, StoreTyped
<1>4. RangesTyped'
  BY <1>1, <1>2 DEF RangesTyped, StoreTyped
<1> QED
  BY <1>3, <1>4

(* The initial states satisfy TypeInv.                                      *)
LEMMA TypeInit == Init => TypeInv
<1> SUFFICES ASSUME Init PROVE CallsTyped /\ StoreTyped
  BY TypeParts
<1>1. CallsTyped
  <2>1. IdleRequest.pc = "idle"
    BY DEF IdleRequest
  <2>2. <<>> \in Seq(Calls)
    OBVIOUS
  <2> QED
    BY <2>1, <2>2, Nulls DEF Init, CallsTyped, WellTyped, Serial
<1>2. StoreTyped
  BY Nulls DEF Init, StoreTyped
<1> QED
  BY <1>1, <1>2

(* A step that leaves a part alone keeps it.                                *)
LEMMA Unchanged ==
  /\ StoreTyped /\ UNCHANGED storeVars => StoreTyped'
  /\ CallsTyped /\ UNCHANGED <<req, queue, acked>> => CallsTyped'
<1>1. StoreTyped /\ UNCHANGED storeVars => StoreTyped'
  BY DEF StoreTyped, storeVars
<1>2. CallsTyped /\ UNCHANGED <<req, queue, acked>> => CallsTyped'
  BY DEF CallsTyped, Serial, Leading, MyQueue
<1> QED
  BY <1>1, <1>2

(* The steps of one commit.                                                 *)
LEMMA ReadsTyped ==
  ASSUME CallsTyped, StoreTyped, NEW r \in Calls,
         AbandonRead(r) \/ ReadManifest(r) \/ WalkRange(r) \/ VerifyRaw(r)
  PROVE  CallsTyped' /\ StoreTyped'
<1>1. StoreTyped'
  BY Unchanged DEF AbandonRead, ReadManifest, WalkRange, VerifyRaw
<1>2. req[r].pc \in Busy /\ Leading(r)
  BY DEF AbandonRead, ReadManifest, WalkRange, VerifyRaw, CallsTyped, Serial
<1>3. req[r].view \in Manifests /\ manifest[req[r].chunk.epoch] \in Manifests
  BY <1>2, BusyTyped DEF StoreTyped
<1>4. CASE \E res \in Results \ {"none"} : Settle(r, res)
  BY <1>1, <1>2, <1>4, Settles
<1>5. CASE \E view \in Manifests : Admit(r, view)
  BY <1>1, <1>2, <1>5, Admits
<1>6. CASE AbandonRead(r) \/ VerifyRaw(r)
  BY <1>4, <1>6 DEF AbandonRead, VerifyRaw, Results
<1>7. CASE ReadManifest(r)
  <2>1. CASE Settle(r, "invalid")
    BY <1>4, <2>1 DEF Results
  <2>2. CASE Admit(r, manifest[req[r].chunk.epoch])
    BY <1>3, <1>5, <2>2
  <2>3. CASE /\ req' = [req EXCEPT ![r].pc = "walk",
                                   ![r].view = manifest[req[r].chunk.epoch], ![r].reads = 0]
             /\ UNCHANGED <<queue, acked>>
    BY <1>1, <1>2, <1>3, <2>3, GoesOnForms
  <2> QED
    BY <1>1, <1>7, <2>1, <2>2, <2>3 DEF ReadManifest
<1>8. CASE WalkRange(r)
  <2>1. CASE \E res \in {"verifying", "invalid", "epochConflict"} : Settle(r, res)
    BY <1>4, <2>1 DEF Results
  <2>2. CASE Admit(r, req[r].view)
    BY <1>3, <1>5, <2>2
  <2>3. CASE Goto(r, "verifyRaw") /\ UNCHANGED <<queue, acked>>
    BY <1>1, <1>2, <2>3, GoesOnForms
  <2>4. CASE /\ req[r].pc = "walk" /\ req' = [req EXCEPT ![r].reads = @ + 1]
             /\ UNCHANGED <<queue, acked>>
    BY <1>1, <1>2, <2>4, GoesOnForms
  <2>5. \/ \E res \in {"verifying", "invalid", "epochConflict"} : Settle(r, res)
        \/ Admit(r, req[r].view)
        \/ Goto(r, "verifyRaw") /\ UNCHANGED <<queue, acked>>
        \/ /\ req[r].pc = "walk" /\ req' = [req EXCEPT ![r].reads = @ + 1]
           /\ UNCHANGED <<queue, acked>>
    BY <1>8, Zenon DEF WalkRange
  <2> QED
    BY <1>1, <2>1, <2>2, <2>3, <2>4, <2>5
<1> QED
  BY <1>1, <1>6, <1>7, <1>8

(* The writing steps of one commit, successful or not.                      *)
LEMMA WritesTyped ==
  ASSUME CallsTyped, StoreTyped, NEW r \in Calls,
         \/ PutRaw(r) \/ PutRange(r) \/ PutManifest(r) \/ ManifestConflict(r)
         \/ PutFails(r) \/ Report(r)
  PROVE  CallsTyped' /\ StoreTyped'
<1>1. req[r].pc \in Busy /\ Leading(r)
  BY DEF PutRaw, PutRange, PutManifest, ManifestConflict, PutFails, Report, CallsTyped, Serial
<1>2. /\ req[r].chunk \in Offered
      /\ req[r].view \in Manifests /\ req[r].view.last \in Offered \union {NoChunk}
  BY <1>1, BusyTyped DEF Manifests
<1>3. RawTyped /\ RangesTyped /\ ManifestTyped /\ LateTyped
  BY StoreParts
<1> USE DEF RawTyped, RangesTyped, ManifestTyped, LateTyped
<1>4. CASE PutRaw(r)
  <2>1. CallsTyped'
    BY <1>1, <1>4, GoesOnForms DEF PutRaw
  <2>2. RawTyped'
    BY <1>2, <1>4, StoresTyped DEF PutRaw
  <2> QED
    BY <1>3, <1>4, <2>1, <2>2, StoreParts DEF PutRaw
<1>5. CASE PutRange(r)
  <2>1. CallsTyped'
    BY <1>1, <1>5, GoesOnForms DEF PutRange
  <2>2. RangesTyped'
    BY <1>2, <1>5, StoresTyped DEF PutRange
  <2> QED
    BY <1>3, <1>5, <2>1, <2>2, StoreParts DEF PutRange
<1>6. CASE PutManifest(r)
  <2>1. CallsTyped'
    BY <1>1, <1>6, GoesOnForms DEF PutManifest
  <2>2. ManifestTyped'
    BY <1>2, <1>6, StoresTyped DEF PutManifest
  <2> QED
    BY <1>3, <1>6, <2>1, <2>2, StoreParts DEF PutManifest
<1>7. CASE ManifestConflict(r)
  <2>1. StoreTyped'
    BY <1>7, Unchanged DEF ManifestConflict
  <2>2. CASE Settle(r, "error")
    BY <1>1, <2>1, <2>2, Settles DEF Results
  <2>3. CASE ~ Settle(r, "error")
    BY <1>1, <1>7, <2>1, <2>3, Requeues DEF ManifestConflict
  <2> QED
    BY <2>2, <2>3
<1>8. CASE PutFails(r)
  <2>1. CallsTyped'
    BY <1>1, <1>8, Settles DEF PutFails, Results
  <2>2. CASE UNCHANGED storeVars
    BY <2>1, <2>2, Unchanged
  <2>3. CASE StoreRaw(req[r].chunk) /\ UNCHANGED <<ranges, manifest, torn, late>>
    BY <1>2, <1>3, <2>1, <2>3, StoresTyped, StoreParts
  <2>4. CASE StoreRange(req[r].chunk, req[r].view.last) /\ UNCHANGED <<raw, manifest, torn, late>>
    <3>1. RangesTyped'
      BY <1>2, <2>4, StoresTyped
    <3> QED
      BY <1>3, <2>1, <2>4, <3>1, StoreParts
  <2>5. CASE /\ late' = late \union {[chunk |-> req[r].chunk, view |-> req[r].view]}
             /\ UNCHANGED <<raw, ranges, manifest, torn>>
    BY <1>2, <1>3, <2>1, <2>5, StoreParts
  <2>6. CASE TornWrite({r}) /\ UNCHANGED <<manifest, late>>
    <3>1. RawTyped' /\ RangesTyped'
      BY <1>2, <2>6, TornTyped
    <3> QED
      BY <1>3, <2>1, <2>6, <3>1, StoreParts
  <2> QED
    BY <1>8, <2>2, <2>3, <2>4, <2>5, <2>6 DEF PutFails
<1>9. CASE Report(r)
  BY <1>1, <1>9, Settles, Unchanged DEF Report, Results
<1> QED
  BY <1>4, <1>5, <1>6, <1>7, <1>8, <1>9

(* A manifest write that lands late.                                        *)
LEMMA LateWriteTyped ==
  ASSUME CallsTyped, StoreTyped, NEW w \in late, LateWrite(w)
  PROVE  CallsTyped' /\ StoreTyped'
<1>1. CallsTyped'
  BY Unchanged DEF LateWrite, ctrlVars
<1>2. RawTyped /\ RangesTyped /\ ManifestTyped /\ LateTyped
  BY StoreParts
<1>3. ManifestTyped'
  BY <1>2, StoresTyped DEF LateWrite, ManifestTyped, LateTyped
<1>4. RawTyped' /\ RangesTyped' /\ LateTyped'
  BY <1>2 DEF LateWrite, RawTyped, RangesTyped, LateTyped
<1> QED
  BY <1>1, <1>3, <1>4, StoreParts

(* A crash, with whatever it leaves in the store.                           *)
LEMMA CrashTyped ==
  ASSUME CallsTyped, StoreTyped, NEW c \in Controllers, Crash(c)
  PROVE  CallsTyped' /\ StoreTyped'
<1>1. CallsTyped'
  BY Crashes
<1>2. RawTyped /\ RangesTyped /\ ManifestTyped /\ LateTyped
  BY StoreParts
<1> DEFINE inWrite == {r \in {q \in Calls : req[q].ctrl = c /\ req[q].pc \in Busy} :
                         req[r].pc \in Writing}
<1>3. \A r \in inWrite : req[r].chunk \in Offered /\ req[r].view \in Manifests
  BY BusyTyped
<1>4. CASE UNCHANGED storeVars
  BY <1>1, <1>4, Unchanged
<1>5. CASE /\ late' = late \union {[chunk |-> req[r].chunk, view |-> req[r].view] :
                                    r \in {q \in inWrite : req[q].pc = "putManifest"}}
           /\ UNCHANGED <<raw, ranges, manifest, torn>>
  <2>1. LateTyped'
    BY <1>2, <1>3, <1>5 DEF LateTyped
  <2>2. RawTyped' /\ RangesTyped' /\ ManifestTyped'
    BY <1>2, <1>5 DEF RawTyped, RangesTyped, ManifestTyped
  <2> QED
    BY <1>1, <2>1, <2>2, StoreParts
<1>6. CASE (\E rs \in SUBSET inWrite : TornWrite(rs)) /\ UNCHANGED <<manifest, late>>
  <2>1. PICK rs \in SUBSET inWrite : TornWrite(rs)
    BY <1>6
  <2>2. RawTyped' /\ RangesTyped'
    BY <1>3, <2>1, TornTyped
  <2>3. ManifestTyped' /\ LateTyped'
    BY <1>2, <1>6 DEF ManifestTyped, LateTyped
  <2> QED
    BY <1>1, <2>2, <2>3, StoreParts
<1>7. \/ UNCHANGED storeVars
      \/ /\ late' = late \union {[chunk |-> req[r].chunk, view |-> req[r].view] :
                                    r \in {q \in inWrite : req[q].pc = "putManifest"}}
         /\ UNCHANGED <<raw, ranges, manifest, torn>>
      \/ (\E rs \in SUBSET inWrite : TornWrite(rs)) /\ UNCHANGED <<manifest, late>>
  BY DEF Crash
<1> QED
  BY <1>4, <1>5, <1>6, <1>7

(* TypeInv is inductive.                                                    *)
LEMMA TypeNext == TypeInv /\ [Next]_vars => TypeInv'
<1> SUFFICES ASSUME CallsTyped, StoreTyped, [Next]_vars PROVE CallsTyped' /\ StoreTyped'
  BY TypeParts
<1>1. CASE UNCHANGED vars
  BY <1>1, Unchanged DEF vars, ctrlVars
<1>2. ASSUME NEW r \in Calls, NEW c \in Controllers, NEW ch \in Offered, Submit(r, c, ch)
      PROVE  CallsTyped' /\ StoreTyped'
  BY <1>2, Submits, Unchanged DEF Submit
<1>3. ASSUME NEW r \in Calls, Consume(r)
      PROVE  CallsTyped' /\ StoreTyped'
  <2>1. StoreTyped'
    BY <1>3, Unchanged DEF Consume
  <2>2. req' = [req EXCEPT ![r] = IdleRequest] /\ queue' = queue /\ acked' = acked
    BY <1>3 DEF Consume
  <2>3. IdleRequest.pc = "idle"
    BY DEF IdleRequest
  <2>4. req' \in [Calls -> Requests] /\ \A q \in Calls : WellTyped(req'[q])
    BY <2>2, <2>3, Nulls DEF CallsTyped, WellTyped
  <2>5. Serial'
    BY <2>2, <2>3 DEF CallsTyped, Serial, Leading, MyQueue
  <2> QED
    BY <2>1, <2>2, <2>4, <2>5 DEF CallsTyped
<1>4. ASSUME NEW r \in Calls, Serve(r) PROVE CallsTyped' /\ StoreTyped'
  BY <1>4, ReadsTyped, WritesTyped DEF Serve
<1>5. ASSUME NEW w \in late, LateWrite(w) PROVE CallsTyped' /\ StoreTyped'
  BY <1>5, LateWriteTyped
<1>6. ASSUME NEW r \in Calls, Leave(r) PROVE CallsTyped' /\ StoreTyped'
  BY <1>6, LeavesTyped, Unchanged DEF Leave
<1>7. ASSUME NEW r \in Calls, AbandonRead(r) \/ PutFails(r) PROVE CallsTyped' /\ StoreTyped'
  BY <1>7, ReadsTyped, WritesTyped
<1>8. ASSUME NEW c \in Controllers, Crash(c) PROVE CallsTyped' /\ StoreTyped'
  BY <1>8, CrashTyped
<1> QED
  BY <1>1, <1>2, <1>3, <1>4, <1>5, <1>6, <1>7, <1>8 DEF Next, Proceed, Disturb

(* The archive's type invariant, for any constants, with or without         *)
(* conditional writes.                                                      *)
THEOREM ArchiveTypeCorrect == Spec => []TypeOK
<1>1. TypeInv => TypeOK
  BY DEF TypeInv
<1> QED
  BY TypeInit, TypeNext, <1>1, PTL DEF Spec

-----------------------------------------------------------------------------
(* The log of a chunk that is committed.                                    *)
LEMMA Appended ==
  ASSUME log \in [Epochs -> Seq(Offered)], NEW ch \in Offered,
         log' = [log EXCEPT ![ch.epoch] = Append(@, ch)]
  PROVE  /\ log' \in [Epochs -> Seq(Offered)]
         /\ \A e \in Epochs :
              /\ Len(log[e]) \in Nat
              /\ Len(log'[e]) = IF e = ch.epoch THEN Len(log[e]) + 1 ELSE Len(log[e])
              /\ \A i \in 1 .. Len(log[e]) : log'[e][i] = log[e][i]
         /\ log'[ch.epoch][Len(log[ch.epoch]) + 1] = ch
<1>1. ch.epoch \in Epochs
  BY Nulls
<1>2. ASSUME NEW e \in Epochs PROVE log'[e] = IF e = ch.epoch THEN Append(log[e], ch) ELSE log[e]
  BY <1>1
<1>3. log' \in [Epochs -> Seq(Offered)]
  BY <1>1
<1>4. ASSUME NEW e \in Epochs
      PROVE  /\ Len(log[e]) \in Nat
             /\ Len(log'[e]) = IF e = ch.epoch THEN Len(log[e]) + 1 ELSE Len(log[e])
             /\ \A i \in 1 .. Len(log[e]) : log'[e][i] = log[e][i]
  <2>1. log[e] \in Seq(Offered)
    OBVIOUS
  <2> QED
    BY <1>2, <2>1
<1>5. log'[ch.epoch][Len(log[ch.epoch]) + 1] = ch
  <2>1. log[ch.epoch] \in Seq(Offered)
    BY <1>1
  <2> QED
    BY <1>1, <1>2, <2>1
<1> QED
  BY <1>3, <1>4, <1>5

(* What the growing of the archive leaves true.                             *)
Grows ==
  /\ raw \subseteq raw'
  /\ DOMAIN ranges \subseteq DOMAIN ranges'
  /\ \A e \in Epochs :
       /\ Len(log[e]) \in Nat /\ Len(log'[e]) \in Nat /\ Len(log[e]) <= Len(log'[e])
       /\ \A i \in 1 .. Len(log[e]) : log'[e][i] = log[e][i]

(* A manifest of the past stays one while the log grows.                    *)
LEMMA PrefixesStay ==
  ASSUME Grows, NEW e \in Epochs
  PROVE  /\ \A n \in 0 .. Len(log[e]) : n \in 0 .. Len(log'[e]) /\ Summary(e, n)' = Summary(e, n)
         /\ \A m : PrefixOf(m, e) => PrefixOf(m, e)'
<1>1. \A n \in 0 .. Len(log[e]) : n \in 0 .. Len(log'[e]) /\ Summary(e, n)' = Summary(e, n)
  BY DEF Grows, Summary
<1> QED
  BY <1>1 DEF PrefixOf

(* What is committed stays committed while the log grows.                   *)
LEMMA CommittedStays ==
  ASSUME Grows, log \in [Epochs -> Seq(Offered)], log' \in [Epochs -> Seq(Offered)],
         NEW ch \in Offered, Committed(ch)
  PROVE  Committed(ch)'
<1>1. ch.epoch \in Epochs
  BY Nulls
<1>2. PICK i \in 1 .. Len(log[ch.epoch]) : log[ch.epoch][i] = ch
  BY <1>1 DEF Committed
<1>3. i \in DOMAIN log'[ch.epoch] /\ log'[ch.epoch][i] = ch
  BY <1>1, <1>2 DEF Grows
<1> QED
  BY <1>3 DEF Committed

(* The offsets of the manifests of an epoch are all different.              *)
LEMMA OffsetsGrow ==
  ASSUME LogOrdered, NEW e \in Epochs, NEW m \in 0 .. Len(log[e]), NEW n \in 0 .. Len(log[e])
  PROVE  /\ m < n => Summary(e, m).off < Summary(e, n).off
         /\ Summary(e, m).off = Summary(e, n).off => m = n
         /\ Summary(e, m).off \in Nat
<1>1. \A i \in 1 .. Len(log[e]) : /\ log[e][i].start \in Nat /\ log[e][i].end \in Nat
                                  /\ log[e][i].start < log[e][i].end
  <2>1. log[e] \in Seq(Offered)
    BY DEF LogOrdered
  <2> QED
    BY <2>1, Nulls
<1>2. Len(log[e]) \in Nat
  BY DEF LogOrdered
<1>3. \A k \in 0 .. Len(log[e]) : Summary(e, k).off = IF k = 0 THEN 0 ELSE log[e][k].end
  BY DEF Summary, NoManifest
<1>4. ASSUME NEW k \in 0 .. Len(log[e]), NEW l \in 0 .. Len(log[e]), k < l
      PROVE  Summary(e, k).off < Summary(e, l).off
  <2>1. CASE k = 0
    BY <1>1, <1>2, <1>3, <1>4, <2>1
  <2>2. CASE k # 0
    <3>1. k \in 1 .. Len(log[e]) /\ l \in 1 .. Len(log[e])
      BY <1>2, <1>4, <2>2
    <3>2. log[e][k].end <= log[e][l].start
      BY <1>4, <3>1 DEF LogOrdered
    <3> QED
      BY <1>1, <1>3, <3>1, <3>2
  <2> QED
    BY <2>1, <2>2
<1>5. Summary(e, m).off \in Nat /\ Summary(e, n).off \in Nat
  BY <1>1, <1>2, <1>3
<1>6. m < n \/ m = n \/ n < m
  BY <1>2
<1> QED
  BY <1>4, <1>5, <1>6

(* The three writes keep the archive whole.                                 *)
LEMMA RawKeepsStore ==
  ASSUME StoreInv, NEW ch \in Offered, StoreRaw(ch), UNCHANGED <<ranges, manifest, torn, log>>
  PROVE  StoreInv' /\ Grows /\ RawKey(ch) \in raw'
<1>1. LogOrdered' /\ ManifestIsLast' /\ RangesLinked' /\ torn' = {}
  BY DEF StoreInv, LogOrdered, ManifestIsLast, Summary, RangesLinked
<1>2. LogStored' /\ RawKey(ch) \in raw'
  BY DEF StoreInv, LogStored, StoreRaw
<1>3. Grows
  BY DEF StoreInv, LogOrdered, Grows, StoreRaw
<1> QED
  BY <1>1, <1>2, <1>3 DEF StoreInv

(* Range metadata written under a manifest of the past is linked to what that*)
(* manifest named, and a second write of it says the same as the first.     *)
LEMMA RangeKeepsStore ==
  ASSUME StoreInv, NEW ch \in Offered, NEW view, Admitted(ch, view),
         StoreRange(ch, view.last), UNCHANGED <<raw, manifest, torn, log>>
  PROVE  StoreInv' /\ Grows /\ ch \in DOMAIN ranges'
<1>1. LogOrdered' /\ ManifestIsLast' /\ torn' = {}
  BY DEF StoreInv, LogOrdered, ManifestIsLast, Summary
<1>2. DOMAIN ranges' = DOMAIN ranges \union {ch}
  BY DEF StoreRange
<1>3. LogStored' /\ Grows
  BY <1>2 DEF StoreInv, LogStored, LogOrdered, Grows
<1>4. RangesLinked'
  <2>1. ASSUME NEW x \in DOMAIN ranges'
        PROVE  \E n \in 0 .. Len(log[x.epoch]) :
                 Summary(x.epoch, n).off = x.start /\ ranges'[x] = Summary(x.epoch, n).last
    <3>1. CASE x = ch /\ ranges'[x] = view.last
      BY <3>1 DEF Admitted, PrefixOf
    <3>2. CASE x \in DOMAIN ranges /\ ranges'[x] = ranges[x]
      BY <3>2 DEF StoreInv, RangesLinked
    <3> QED
      BY <2>1, <3>1, <3>2 DEF StoreRange
  <2> QED
    BY <2>1 DEF RangesLinked, Summary
<1> QED
  BY <1>1, <1>2, <1>3, <1>4 DEF StoreInv

(* A manifest write under the present manifest appends its chunk to the log,*)
(* in order.                                                                *)
LEMMA ManifestGrowsLog ==
  ASSUME LogOrdered, ManifestIsLast, NEW ch \in Offered,
         ch.start = manifest[ch.epoch].off, manifest \in [Epochs -> Manifests],
         StoreManifest(ch)
  PROVE  /\ LogOrdered' /\ ManifestIsLast'
         /\ \A x \in Epochs :
              /\ Len(log[x]) \in Nat
              /\ Len(log'[x]) = IF x = ch.epoch THEN Len(log[x]) + 1 ELSE Len(log[x])
              /\ \A i \in 1 .. Len(log[x]) : log'[x][i] = log[x][i]
         /\ log'[ch.epoch][Len(log[ch.epoch]) + 1] = ch
<1>1. /\ ch.epoch \in Epochs /\ ch.start \in Nat /\ ch.end \in Nat /\ ch.start < ch.end
      /\ log \in [Epochs -> Seq(Offered)] /\ log' = [log EXCEPT ![ch.epoch] = Append(@, ch)]
  BY Nulls DEF StoreManifest, LogOrdered
<1> DEFINE e == ch.epoch
           n == Len(log[e])
<1>2. /\ log' \in [Epochs -> Seq(Offered)]
      /\ \A x \in Epochs : /\ Len(log[x]) \in Nat
                           /\ Len(log'[x]) = IF x = e THEN Len(log[x]) + 1 ELSE Len(log[x])
                           /\ \A i \in 1 .. Len(log[x]) : log'[x][i] = log[x][i]
      /\ log'[e][n + 1] = ch
  BY <1>1, Appended
<1>4. manifest[e] = Summary(e, n) /\ ch.start = Summary(e, n).off
  BY <1>1 DEF ManifestIsLast
<1> HIDE DEF n
<1>5. n \in Nat /\ Len(log'[e]) = n + 1
  BY <1>1, <1>2 DEF n
<1>6. manifest' = [manifest EXCEPT ![e] = [off |-> ch.end, last |-> ch]]
  BY DEF StoreManifest
<1>7. LogOrdered'
  <2>1. ASSUME NEW x \in Epochs, NEW i \in 1 .. Len(log'[x])
        PROVE  /\ log'[x][i].epoch = x
               /\ log'[x][i].start = IF i = 1 THEN 0 ELSE log'[x][i - 1].end
               /\ \A j \in 1 .. Len(log'[x]) : i < j => log'[x][i].end <= log'[x][j].start
    <3>1. CASE i \in 1 .. Len(log[x])
      <4>1. /\ log[x][i].epoch = x
            /\ log[x][i].start = IF i = 1 THEN 0 ELSE log[x][i - 1].end
            /\ \A j \in 1 .. Len(log[x]) : i < j => log[x][i].end <= log[x][j].start
        BY <3>1 DEF LogOrdered
      <4>2. log'[x][i] = log[x][i] /\ (i # 1 => log'[x][i - 1] = log[x][i - 1])
        BY <1>2, <3>1
      <4>3. ASSUME NEW j \in 1 .. Len(log'[x]), i < j
            PROVE  log'[x][i].end <= log'[x][j].start
        <5>1. CASE j \in 1 .. Len(log[x])
          BY <1>2, <4>1, <4>2, <4>3, <5>1
        <5>2. CASE j \notin 1 .. Len(log[x])
          <6>1. x = e /\ j = n + 1 /\ log'[x][j] = ch
            BY <1>1, <1>2, <4>3, <5>2 DEF n
          <6>2. n # 0 /\ Summary(e, n).off = log[e][n].end
            BY <3>1, <6>1 DEF n, Summary
          <6>3. log[e][i] \in Offered /\ log[e][n] \in Offered
            BY <1>1, <1>5, <3>1, <6>1, <6>2 DEF n
          <6>4. i = n \/ log[e][i].end <= log[e][n].start
            BY <1>5, <3>1, <4>1, <6>1 DEF n
          <6>5. log[e][i].end <= log[e][n].end
            BY <6>3, <6>4, Nulls
          <6> QED
            BY <1>4, <4>2, <6>1, <6>2, <6>5
        <5> QED
          BY <5>1, <5>2
      <4> QED
        BY <4>1, <4>2, <4>3
    <3>2. CASE i \notin 1 .. Len(log[x])
      <4>1. x = e /\ i = n + 1 /\ log'[x][i] = ch
        BY <1>1, <1>2, <3>2 DEF n
      <4>2. ch.start = IF i = 1 THEN 0 ELSE log'[x][i - 1].end
        <5>1. Summary(e, n).off = IF n = 0 THEN 0 ELSE log[e][n].end
          BY DEF Summary, NoManifest
        <5>2. n # 0 => log'[e][n] = log[e][n]
          BY <1>1, <1>2, <1>5 DEF n
        <5> QED
          BY <1>4, <1>5, <4>1, <5>1, <5>2
      <4>3. \A j \in 1 .. Len(log'[x]) : ~ i < j
        BY <1>5, <4>1
      <4> QED
        BY <4>1, <4>2, <4>3
    <3> QED
      BY <3>1, <3>2
  <2> QED
    BY <1>2, <2>1 DEF LogOrdered
<1>8. ManifestIsLast'
  <2>1. ASSUME NEW x \in Epochs PROVE manifest'[x] = Summary(x, Len(log[x]))'
    <3>1. CASE x = e
      BY <1>1, <1>2, <1>5, <1>6, <3>1 DEF Summary, n
    <3>2. CASE x # e
      <4>1. manifest'[x] = manifest[x] /\ Len(log'[x]) = Len(log[x]) /\ Len(log[x]) \in Nat
        BY <1>2, <1>6, <3>2
      <4>2. manifest[x] = Summary(x, Len(log[x]))
        BY DEF ManifestIsLast
      <4>3. Len(log[x]) # 0 => Len(log[x]) \in 1 .. Len(log[x])
        BY <4>1
      <4>4. Len(log[x]) # 0 => log'[x][Len(log[x])] = log[x][Len(log[x])]
        BY <1>2, <4>3
      <4> QED
        BY <4>1, <4>2, <4>4 DEF Summary
    <3> QED
      BY <3>1, <3>2
  <2> QED
    BY <2>1 DEF ManifestIsLast
<1> QED
  BY <1>2, <1>7, <1>8 DEF n

(* The manifest write appends exactly the chunk to the log, because the     *)
(* precondition makes the manifest of the past the present one.             *)
LEMMA ManifestKeepsStore ==
  ASSUME StoreInv, NEW ch \in Offered, Admitted(ch, manifest[ch.epoch]),
         RawKey(ch) \in raw, ch \in DOMAIN ranges, manifest \in [Epochs -> Manifests],
         DOMAIN ranges \subseteq Offered,
         StoreManifest(ch), UNCHANGED <<raw, ranges, torn>>
  PROVE  /\ StoreInv' /\ Grows /\ Committed(ch)'
         /\ \A e \in Epochs : manifest'[e].off >= manifest[e].off
<1> DEFINE e == ch.epoch
           n == Len(log[e])
<1>1. /\ e \in Epochs /\ ch.start \in Nat /\ ch.end \in Nat /\ ch.start < ch.end
      /\ ch.start = manifest[e].off
  BY Nulls DEF Admitted
<1>2. /\ LogOrdered' /\ ManifestIsLast'
      /\ \A x \in Epochs : /\ Len(log[x]) \in Nat
                           /\ Len(log'[x]) = IF x = e THEN Len(log[x]) + 1 ELSE Len(log[x])
                           /\ \A i \in 1 .. Len(log[x]) : log'[x][i] = log[x][i]
      /\ log'[e][n + 1] = ch
  BY <1>1, ManifestGrowsLog DEF StoreInv
<1>3. Grows
  BY <1>2 DEF Grows
<1>5. n \in Nat /\ Len(log'[e]) = n + 1
  BY <1>1, <1>2
<1>6. manifest' = [manifest EXCEPT ![e] = [off |-> ch.end, last |-> ch]]
  BY DEF StoreManifest
<1>9. LogStored'
  <2>1. ASSUME NEW x \in Epochs, NEW i \in 1 .. Len(log'[x])
        PROVE  log'[x][i] \in DOMAIN ranges /\ RawKey(log'[x][i]) \in raw
    <3>1. CASE i \in 1 .. Len(log[x])
      BY <1>2, <3>1 DEF StoreInv, LogStored
    <3>2. CASE i \notin 1 .. Len(log[x])
      BY <1>1, <1>2, <3>2
    <3> QED
      BY <3>1, <3>2
  <2> QED
    BY <2>1 DEF LogStored
<1>10. RangesLinked'
  <2>1. ASSUME NEW x \in DOMAIN ranges
        PROVE  \E k \in 0 .. Len(log'[x.epoch]) :
                 Summary(x.epoch, k)'.off = x.start /\ ranges[x] = Summary(x.epoch, k)'.last
    <3>1. x.epoch \in Epochs
      BY Nulls
    <3>2. PICK k \in 0 .. Len(log[x.epoch]) :
            Summary(x.epoch, k).off = x.start /\ ranges[x] = Summary(x.epoch, k).last
      BY DEF StoreInv, RangesLinked
    <3>3. k \in 0 .. Len(log'[x.epoch]) /\ Summary(x.epoch, k)' = Summary(x.epoch, k)
      BY <1>3, <3>1, PrefixesStay
    <3> QED
      BY <3>2, <3>3
  <2> QED
    BY <2>1 DEF RangesLinked
<1>11. Committed(ch)'
  <2>1. n + 1 \in DOMAIN log'[e]
    BY <1>1, <1>2, <1>5
  <2> QED
    BY <1>2, <2>1 DEF Committed
<1>12. \A x \in Epochs : manifest'[x].off >= manifest[x].off
  BY <1>1, <1>6 DEF Manifests
<1> QED
  BY <1>2, <1>3, <1>9, <1>10, <1>11, <1>12 DEF StoreInv

-----------------------------------------------------------------------------
(* What a commit, a late write, a walk and an ACK rest on does not change   *)
(* while the archive grows.                                                 *)
LogTyped == log \in [Epochs -> Seq(Offered)]

(* An admitted chunk stays admitted.                                        *)
LEMMA AdmittedStays ==
  ASSUME Grows, NEW ch \in Offered, NEW view, Admitted(ch, view)
  PROVE  Admitted(ch, view)'
<1>1. ch.epoch \in Epochs
  BY Nulls
<1>2. PrefixOf(view, ch.epoch)'
  BY <1>1, PrefixesStay DEF Admitted
<1> QED
  BY <1>2 DEF Admitted

(* The commit of another call stays where it is.                            *)
LEMMA CallStays ==
  ASSUME Grows, LogTyped, LogTyped', CallsTyped, NEW q \in Calls, req'[q] = req[q], CallInv(q)
  PROVE  CallInv(q)'
<1>1. CASE req[q].pc \notin Running
  BY <1>1 DEF CallInv
<1>2. CASE req[q].pc \in Running
  <2>1. req[q].chunk \in Offered /\ req[q].chunk.epoch \in Epochs
    BY <1>2, BusyTyped
  <2>2. PrefixOf(req[q].view, req[q].chunk.epoch) => PrefixOf(req[q].view, req[q].chunk.epoch)'
    BY <2>1, PrefixesStay
  <2>3. Admitted(req[q].chunk, req[q].view) => Admitted(req[q].chunk, req[q].view)'
    BY <2>1, AdmittedStays
  <2>4. Committed(req[q].chunk) => Committed(req[q].chunk)'
    BY <2>1, CommittedStays DEF LogTyped
  <2>5. /\ RawKey(req[q].chunk) \in raw => RawKey(req[q].chunk) \in raw'
        /\ req[q].chunk \in DOMAIN ranges => req[q].chunk \in DOMAIN ranges'
    BY DEF Grows
  <2> QED
    BY <2>2, <2>3, <2>4, <2>5 DEF CallInv, PrefixOf, Admitted, Committed, Summary, RawKey
<1> QED
  BY <1>1, <1>2

(* So does a write that is still under way.                                 *)
LEMMA LateStays ==
  ASSUME Grows, LateTyped, NEW w \in late, Ready(w)
  PROVE  Ready(w)'
<1>1. w.chunk \in Offered
  BY DEF LateTyped
<1>2. Admitted(w.chunk, w.view)'
  BY <1>1, AdmittedStays DEF Ready
<1> QED
  BY <1>2 DEF Ready, Grows

(* A step of the commit of r: the other commits stay where they are.        *)
LEMMA OneCallMoves ==
  ASSUME Grows, LogTyped, LogTyped', CallsTyped, LateTyped, acked \subseteq Offered,
         CallsInv, LateInv, AckedInv, NEW r \in Calls,
         \A q \in Calls : q # r => req'[q] = req[q],
         CallInv(r)',
         \A w \in late' : w \in late \/ Ready(w)',
         \A ch \in acked' : ch \in acked \/ Committed(ch)'
  PROVE  CallsInv' /\ LateInv' /\ AckedInv'
<1>1. ASSUME NEW q \in Calls PROVE CallInv(q)'
  <2>1. CASE q = r
    BY <2>1
  <2>2. CASE q # r
    BY <2>2, CallStays DEF CallsInv
  <2> QED
    BY <2>1, <2>2
<1>2. ASSUME NEW w \in late' PROVE Ready(w)'
  BY <1>2, LateStays DEF LateInv
<1>3. ASSUME NEW ch \in acked' PROVE Committed(ch)'
  BY <1>3, CommittedStays DEF AckedInv, LogTyped
<1> QED
  BY <1>1, <1>2, <1>3 DEF CallsInv, LateInv, AckedInv

(* No walk moves, and no commit begins one.                                 *)
LEMMA WalksStay ==
  ASSUME Grows, WalksInv, walks' = walks,
         \A q \in Calls : req'[q].pc = "walk" => req'[q].chunk = req[q].chunk
                            /\ req'[q].ctrl = req[q].ctrl /\ req[q].pc = "walk"
  PROVE  WalksInv'
<1>1. ASSUME NEW c \in Controllers, NEW ch \in DOMAIN walks[c]
      PROVE  /\ ch \in Offered
             /\ walks[c][ch].at = NoChunk
                \/ \E i \in 1 .. Len(log'[ch.epoch]) : log'[ch.epoch][i] = walks[c][ch].at
  <2>1. ch \in Offered /\ ch.epoch \in Epochs
    BY Nulls DEF WalksInv
  <2>2. CASE walks[c][ch].at = NoChunk
    BY <2>1, <2>2
  <2>3. CASE \E i \in 1 .. Len(log[ch.epoch]) : log[ch.epoch][i] = walks[c][ch].at
    <3>1. PICK i \in 1 .. Len(log[ch.epoch]) : log[ch.epoch][i] = walks[c][ch].at
      BY <2>3
    <3>2. i \in 1 .. Len(log'[ch.epoch]) /\ log'[ch.epoch][i] = walks[c][ch].at
      BY <2>1, <3>1 DEF Grows
    <3> QED
      BY <2>1, <3>2
  <2> QED
    BY <2>2, <2>3 DEF WalksInv
<1>2. \A q \in Calls : req'[q].pc = "walk" => req'[q].chunk \in DOMAIN walks[req'[q].ctrl]
  BY DEF WalksInv
<1> QED
  BY <1>1, <1>2 DEF WalksInv

(* Nothing changes in the store.                                            *)
LEMMA StoreStays ==
  ASSUME StoreInv, UNCHANGED <<raw, ranges, manifest, torn, log>>
  PROVE  StoreInv' /\ Grows /\ LogTyped /\ LogTyped'
<1>1. StoreInv'
  <2>1. torn' = {} /\ LogOrdered' /\ LogStored'
    BY DEF StoreInv, LogOrdered, LogStored
  <2>2. ManifestIsLast'
    BY DEF StoreInv, ManifestIsLast, Summary
  <2>3. RangesLinked'
    BY DEF StoreInv, RangesLinked, Summary
  <2> QED
    BY <2>1, <2>2, <2>3 DEF StoreInv
<1>2. Grows /\ LogTyped /\ LogTyped'
  BY DEF StoreInv, LogOrdered, Grows, LogTyped
<1> QED
  BY <1>1, <1>2

(* The commit of r ends.                                                    *)
LEMMA SettleFacts ==
  ASSUME CallsTyped, NEW r \in Calls, NEW res, Settle(r, res)
  PROVE  /\ \A q \in Calls : q # r => req'[q] = req[q]
         /\ req'[r].pc \in {"idle", "answered"}
         /\ \A ch \in acked' : ch \in acked \/ (res = "ack" /\ ch = req[r].chunk)
         /\ CallInv(r)'
<1>1. \A q \in Calls : q # r => req'[q] = req[q]
  BY DEF Settle, CallsTyped
<1>2. req'[r].pc \in {"idle", "answered"}
  BY DEF Settle, CallsTyped, IdleRequest
<1>3. \A ch \in acked' : ch \in acked \/ (res = "ack" /\ ch = req[r].chunk)
  BY DEF Settle
<1>4. CallInv(r)'
  BY <1>2 DEF CallInv
<1> QED
  BY <1>1, <1>2, <1>3, <1>4

ArchiveRest == CallsInv /\ LateInv /\ WalksInv /\ AckedInv

(* A commit that ends keeps the rest, if its ACK tells the truth.           *)
LEMMA SettleKeeps ==
  ASSUME CallsTyped, StoreTyped, StoreInv, ArchiveRest, NEW r \in Calls, NEW res,
         Settle(r, res),
         \A ch \in Offered : res = "ack" /\ ch = req[r].chunk => Committed(ch)',
         req[r].chunk \in Offered,
         LogTyped', Grows, walks' = walks, \A w \in late' : w \in late \/ Ready(w)'
  PROVE  ArchiveRest'
<1>1. /\ \A q \in Calls : q # r => req'[q] = req[q]
      /\ req'[r].pc \in {"idle", "answered"}
      /\ \A ch \in acked' : ch \in acked \/ (res = "ack" /\ ch = req[r].chunk)
      /\ CallInv(r)'
  BY SettleFacts
<1>2. CallsInv' /\ LateInv' /\ AckedInv'
  <2>1. LogTyped /\ LateTyped /\ acked \subseteq Offered
    BY DEF StoreInv, LogOrdered, LogTyped, StoreTyped, LateTyped, CallsTyped
  <2>2. \A ch \in acked' : ch \in acked \/ Committed(ch)'
    BY <1>1
  <2> QED
    BY <1>1, <2>1, <2>2, OneCallMoves DEF ArchiveRest
<1>3. WalksInv'
  BY <1>1, WalksStay DEF ArchiveRest
<1> QED
  BY <1>2, <1>3 DEF ArchiveRest

(* A commit that goes on, with nothing else than its own request changing.  *)
LEMMA GoesOnKeeps ==
  ASSUME CallsTyped, StoreTyped, StoreInv, ArchiveRest, NEW r \in Calls,
         \A q \in Calls : q # r => req'[q] = req[q], req'[r].pc # "walk",
         CallInv(r)', LogTyped', Grows, walks' = walks, late' = late, acked' = acked
  PROVE  ArchiveRest'
<1>1. LogTyped /\ LateTyped /\ acked \subseteq Offered
  BY DEF StoreInv, LogOrdered, LogTyped, StoreTyped, LateTyped, CallsTyped
<1>2. CallsInv' /\ LateInv' /\ AckedInv'
  BY <1>1, OneCallMoves DEF ArchiveRest
<1>3. WalksInv'
  BY WalksStay DEF ArchiveRest
<1> QED
  BY <1>2, <1>3 DEF ArchiveRest

(* Admission under a manifest of the past keeps the rest.                   *)
LEMMA AdmitKeeps ==
  ASSUME CallsTyped, StoreTyped, StoreInv, ArchiveRest, NEW r \in Calls, req[r].pc \in Busy,
         NEW view, PrefixOf(view, req[r].chunk.epoch), Admit(r, view),
         UNCHANGED <<storeVars, walks, log>>
  PROVE  ArchiveRest'
<1>1. Grows /\ LogTyped' /\ late' = late /\ req[r].chunk \in Offered
  BY StoreStays, BusyTyped DEF storeVars
<1>2. CASE Settle(r, "cursorMismatch") \/ Settle(r, "chainMismatch")
  BY <1>1, <1>2, SettleKeeps
<1>3. CASE /\ req[r].chunk.start = view.off
           /\ req' = [req EXCEPT ![r].pc = "putRaw", ![r].view = view]
           /\ UNCHANGED <<queue, acked>>
  <2>1. req'[r].pc = "putRaw" /\ req'[r].view = view /\ req'[r].chunk = req[r].chunk
    BY <1>3, BusyTyped DEF CallsTyped, Requests
  <2>2. \A q \in Calls : q # r => req'[q] = req[q]
    BY <1>3 DEF CallsTyped
  <2>3. log' = log
    OBVIOUS
  <2>4. CallInv(r)'
    BY <1>3, <2>1, <2>3 DEF CallInv, Admitted, PrefixOf, Summary
  <2> QED
    BY <1>1, <1>3, <2>1, <2>2, <2>4, GoesOnKeeps
<1> QED
  BY <1>2, <1>3 DEF Admit

(* Reading the manifest starts a walk at a committed chunk, or admits.      *)
LEMMA ReadManifestKeeps ==
  ASSUME CallsTyped, StoreTyped, StoreInv, ArchiveRest, NEW r \in Calls, ReadManifest(r)
  PROVE  ArchiveRest'
<1> DEFINE ch == req[r].chunk
           e == ch.epoch
           c == req[r].ctrl
<1>1. /\ Grows /\ LogTyped /\ LogTyped' /\ late' = late /\ log' = log /\ req[r].pc = "queued"
      /\ UNCHANGED storeVars
  BY StoreStays DEF ReadManifest, storeVars
<1>2. ch \in Offered /\ e \in Epochs /\ c \in Controllers
  BY <1>1, BusyTyped
<1>3. PrefixOf(manifest[e], e)
  BY <1>1, <1>2 DEF StoreInv, ManifestIsLast, PrefixOf, LogTyped
<1>4. CASE Settle(r, "invalid") /\ UNCHANGED walks
  BY <1>1, <1>2, <1>4, SettleKeeps
<1>5. CASE Admit(r, manifest[e]) /\ UNCHANGED walks
  BY <1>1, <1>3, <1>5, AdmitKeeps
<1>6. CASE /\ req' = [req EXCEPT ![r].pc = "walk", ![r].view = manifest[e], ![r].reads = 0]
           /\ \/ ch \in DOMAIN walks[c] /\ walks' = walks
              \/ walks' = [walks EXCEPT ![c] =
                             [x \in DOMAIN @ \union {ch} |->
                                IF x = ch
                                THEN [anchor |-> manifest[e], at |-> manifest[e].last,
                                      upto |-> manifest[e].off]
                                ELSE @[x]]]
           /\ UNCHANGED <<queue, acked>>
  <2>1. /\ req'[r].pc = "walk" /\ req'[r].view = manifest[e]
        /\ req'[r].chunk = ch /\ req'[r].ctrl = c
    BY <1>1, <1>6, BusyTyped DEF CallsTyped, Requests
  <2>2. \A q \in Calls : q # r => req'[q] = req[q]
    BY <1>6 DEF CallsTyped
  <2>3. CallInv(r)'
    BY <1>1, <1>3, <2>1 DEF CallInv, PrefixOf, Summary
  <2>4. LateTyped /\ acked \subseteq Offered
    BY DEF StoreTyped, LateTyped, CallsTyped
  <2>5. CallsInv' /\ LateInv' /\ AckedInv'
    BY <1>1, <1>6, <2>2, <2>3, <2>4, OneCallMoves DEF ArchiveRest
  <2>6. WalksInv'
    <3>1. /\ DOMAIN walks' = Controllers
          /\ \A d \in Controllers : d # c => walks'[d] = walks[d]
          /\ ch \in DOMAIN walks'[c]
          /\ DOMAIN walks'[c] = DOMAIN walks[c] \union {ch}
          /\ \A x \in DOMAIN walks'[c] :
               \/ x \in DOMAIN walks[c] /\ walks'[c][x] = walks[c][x]
               \/ x = ch /\ walks'[c][x].at = manifest[e].last
      BY <1>2, <1>6 DEF ArchiveRest, WalksInv
    <3>2. manifest[e].last = NoChunk \/ \E i \in 1 .. Len(log[e]) : log[e][i] = manifest[e].last
      <4>1. Len(log[e]) \in Nat /\ manifest[e] = Summary(e, Len(log[e]))
        BY <1>1, <1>2 DEF StoreInv, ManifestIsLast, LogTyped
      <4>2. CASE Len(log[e]) = 0
        BY <4>1, <4>2 DEF Summary, NoManifest
      <4>3. CASE Len(log[e]) # 0
        BY <4>1, <4>3 DEF Summary
      <4> QED
        BY <4>2, <4>3
    <3>3. ASSUME NEW d \in Controllers, NEW x \in DOMAIN walks'[d]
          PROVE  /\ x \in Offered
                 /\ walks'[d][x].at = NoChunk
                    \/ \E i \in 1 .. Len(log'[x.epoch]) : log'[x.epoch][i] = walks'[d][x].at
      <4>1. CASE x \in DOMAIN walks[d] /\ walks'[d][x] = walks[d][x]
        BY <1>1, <4>1 DEF ArchiveRest, WalksInv
      <4>2. CASE d = c /\ x = ch /\ walks'[d][x].at = manifest[e].last
        BY <1>1, <1>2, <3>2, <4>2
      <4> QED
        BY <3>1, <3>3, <4>1, <4>2
    <3>4. ASSUME NEW q \in Calls, req'[q].pc = "walk"
          PROVE  req'[q].chunk \in DOMAIN walks'[req'[q].ctrl]
      <4>1. CASE q = r
        BY <2>1, <3>1, <4>1
      <4>2. CASE q # r
        <5>1. req'[q] = req[q] /\ req[q].chunk \in DOMAIN walks[req[q].ctrl]
          BY <2>2, <3>4, <4>2 DEF ArchiveRest, WalksInv
        <5>2. req[q].ctrl \in Controllers
          BY <3>4, <5>1, BusyTyped
        <5> QED
          BY <3>1, <5>1, <5>2
      <4> QED
        BY <4>1, <4>2
    <3> QED
      BY <3>1, <3>3, <3>4 DEF WalksInv
  <2> QED
    BY <2>5, <2>6 DEF ArchiveRest
<1> QED
  BY <1>4, <1>5, <1>6 DEF ReadManifest

(* One read of a walk leads to the chunk committed before.                  *)
LEMMA WalkRangeKeeps ==
  ASSUME CallsTyped, StoreTyped, StoreInv, ArchiveRest, NEW r \in Calls, WalkRange(r)
  PROVE  ArchiveRest'
<1> DEFINE ch == req[r].chunk
           e == ch.epoch
           c == req[r].ctrl
           at == walks[c][ch].at
<1>1. /\ Grows /\ LogTyped /\ LogTyped' /\ late' = late /\ log' = log /\ req[r].pc = "walk"
      /\ UNCHANGED storeVars
  BY StoreStays DEF WalkRange, storeVars
<1>2. ch \in Offered /\ e \in Epochs /\ c \in Controllers /\ ch \in DOMAIN walks[c]
  BY <1>1, BusyTyped DEF ArchiveRest, WalksInv
<1>3. PrefixOf(req[r].view, e)
  BY <1>1 DEF ArchiveRest, CallsInv, CallInv
<1>4. at = NoChunk \/ \E i \in 1 .. Len(log[e]) : log[e][i] = at
  BY <1>2 DEF ArchiveRest, WalksInv
<1>5. CASE /\ \E res \in {"verifying", "invalid", "epochConflict"} : Settle(r, res)
           /\ UNCHANGED walks
  BY <1>1, <1>2, <1>5, SettleKeeps
<1>6. CASE Admit(r, req[r].view) /\ UNCHANGED walks
  BY <1>1, <1>3, <1>6, AdmitKeeps
<1>7. CASE /\ at # NoChunk /\ Exact(at, ch)
           /\ Goto(r, "verifyRaw") /\ UNCHANGED <<queue, walks, acked>>
  <2>1. req'[r].pc = "verifyRaw" /\ req'[r].chunk = ch
    BY <1>1, <1>7, BusyTyped DEF Goto, CallsTyped, Requests
  <2>2. \A q \in Calls : q # r => req'[q] = req[q]
    BY <1>7 DEF Goto, CallsTyped
  <2>3. Committed(ch)
    BY <1>1, <1>2, <1>4, <1>7 DEF Exact, Committed, LogTyped
  <2>4. CallInv(r)'
    BY <1>1, <2>1, <2>3 DEF CallInv, Committed
  <2> QED
    BY <1>1, <1>7, <2>1, <2>2, <2>4, GoesOnKeeps
<1>8. CASE /\ at # NoChunk /\ at \in DOMAIN ranges
           /\ req' = [req EXCEPT ![r].reads = @ + 1]
           /\ walks' = [walks EXCEPT ![c][ch] =
                          [anchor |-> @.anchor, at |-> ranges[at], upto |-> at.start]]
           /\ UNCHANGED <<queue, acked>>
  <2>1. /\ req'[r].pc = "walk" /\ req'[r].view = req[r].view
        /\ req'[r].chunk = ch /\ req'[r].ctrl = c
    BY <1>1, <1>8, BusyTyped DEF CallsTyped, Requests
  <2>2. \A q \in Calls : q # r => req'[q] = req[q]
    BY <1>8 DEF CallsTyped
  <2>3. CallInv(r)'
    BY <1>1, <1>3, <2>1 DEF CallInv, PrefixOf, Summary
  <2>4. LateTyped /\ acked \subseteq Offered
    BY DEF StoreTyped, LateTyped, CallsTyped
  <2>5. CallsInv' /\ LateInv' /\ AckedInv'
    BY <1>1, <1>8, <2>2, <2>3, <2>4, OneCallMoves DEF ArchiveRest
  <2>6. ranges[at] = NoChunk \/ \E i \in 1 .. Len(log[e]) : log[e][i] = ranges[at]
    <3>1. at.epoch = e
      <4>1. PICK i \in 1 .. Len(log[e]) : log[e][i] = at
        BY <1>4, <1>8
      <4>2. log[e][i].epoch = e
        BY <1>2 DEF StoreInv, LogOrdered
      <4> QED
        BY <4>1, <4>2
    <3>2. PICK n \in 0 .. Len(log[e]) : ranges[at] = Summary(e, n).last
      BY <1>8, <3>1 DEF StoreInv, RangesLinked
    <3>3. CASE n = 0
      BY <3>2, <3>3 DEF Summary, NoManifest
    <3>4. CASE n # 0
      BY <3>2, <3>4 DEF Summary
    <3> QED
      BY <3>3, <3>4
  <2>7. WalksInv'
    <3>1. /\ DOMAIN walks' = Controllers
          /\ \A d \in Controllers : DOMAIN walks'[d] = DOMAIN walks[d]
          /\ \A d \in Controllers : \A x \in DOMAIN walks[d] :
               \/ walks'[d][x] = walks[d][x]
               \/ d = c /\ x = ch /\ walks'[d][x].at = ranges[at]
      BY <1>2, <1>8 DEF ArchiveRest, WalksInv
    <3>2. ASSUME NEW d \in Controllers, NEW x \in DOMAIN walks'[d]
          PROVE  /\ x \in Offered
                 /\ walks'[d][x].at = NoChunk
                    \/ \E i \in 1 .. Len(log'[x.epoch]) : log'[x.epoch][i] = walks'[d][x].at
      <4>1. CASE walks'[d][x] = walks[d][x]
        BY <1>1, <3>1, <4>1 DEF ArchiveRest, WalksInv
      <4>2. CASE d = c /\ x = ch /\ walks'[d][x].at = ranges[at]
        BY <1>1, <1>2, <2>6, <4>2
      <4> QED
        BY <3>1, <3>2, <4>1, <4>2
    <3>3. ASSUME NEW q \in Calls, req'[q].pc = "walk"
          PROVE  req'[q].chunk \in DOMAIN walks'[req'[q].ctrl]
      <4>1. CASE q = r
        BY <1>2, <2>1, <3>1, <4>1
      <4>2. CASE q # r
        <5>1. req'[q] = req[q] /\ req[q].chunk \in DOMAIN walks[req[q].ctrl]
          BY <2>2, <3>3, <4>2 DEF ArchiveRest, WalksInv
        <5>2. req[q].ctrl \in Controllers
          BY <3>3, <5>1, BusyTyped
        <5> QED
          BY <3>1, <5>1, <5>2
      <4> QED
        BY <4>1, <4>2
    <3> QED
      BY <3>1, <3>2, <3>3 DEF WalksInv
  <2> QED
    BY <2>5, <2>7 DEF ArchiveRest
<1> QED
  BY <1>5, <1>6, <1>7, <1>8 DEF WalkRange, WellFormedRange

(* Giving up a read, and the last check of a duplicate.                     *)
LEMMA OtherReadsKeep ==
  ASSUME CallsTyped, StoreTyped, StoreInv, ArchiveRest, NEW r \in Calls,
         AbandonRead(r) \/ VerifyRaw(r)
  PROVE  ArchiveRest'
<1>1. /\ Grows /\ LogTyped' /\ late' = late /\ log' = log /\ req[r].pc \in Busy
      /\ walks' = walks
  BY StoreStays DEF AbandonRead, VerifyRaw, storeVars
<1>2. req[r].chunk \in Offered
  BY <1>1, BusyTyped
<1>3. CASE \E res \in {"error", "invalid"} : Settle(r, res)
  BY <1>1, <1>2, <1>3, SettleKeeps
<1>4. CASE Settle(r, "ack") /\ req[r].pc = "verifyRaw"
  <2>1. Committed(req[r].chunk)
    BY <1>4 DEF ArchiveRest, CallsInv, CallInv
  <2>2. \A ch \in Offered : ch = req[r].chunk => Committed(ch)'
    BY <1>1, <2>1 DEF Committed
  <2> QED
    BY <1>1, <1>2, <1>4, <2>2, SettleKeeps
<1> QED
  BY <1>3, <1>4 DEF AbandonRead, VerifyRaw

(* A write of r's commit that took effect: its own next step is ready.      *)
LEMMA PutKeeps ==
  ASSUME ConditionalWrites, CallsTyped, StoreTyped, StoreInv, ArchiveRest, NEW r \in Calls,
         PutRaw(r) \/ PutRange(r) \/ PutManifest(r)
  PROVE  StoreInv' /\ ArchiveRest' /\ (\A e \in Epochs : manifest'[e].off >= manifest[e].off)
<1> DEFINE ch == req[r].chunk
<1>1. ch \in Offered /\ ch.epoch \in Epochs /\ Admitted(ch, req[r].view)
  BY BusyTyped DEF PutRaw, PutRange, PutManifest, ArchiveRest, CallsInv, CallInv
<1>2. \A e \in Epochs : manifest[e].off \in Nat
  BY DEF StoreTyped, Manifests
<1>3. ASSUME NEW pc \in {"putRange", "putManifest", "callback"}, Goto(r, pc)
      PROVE  /\ \A q \in Calls : q # r => req'[q] = req[q]
             /\ req'[r].pc = pc /\ req'[r].chunk = ch /\ req'[r].view = req[r].view
  <2>1. req[r] \in Requests
    BY DEF CallsTyped
  <2> QED
    BY <1>3, <2>1 DEF Goto, CallsTyped, Requests
<1>4. CASE PutRaw(r)
  <2>1. StoreInv' /\ Grows /\ RawKey(ch) \in raw'
    BY <1>1, <1>4, RawKeepsStore DEF PutRaw
  <2>2. /\ \A q \in Calls : q # r => req'[q] = req[q]
        /\ req'[r].pc = "putRange" /\ req'[r].chunk = ch /\ req'[r].view = req[r].view
    BY <1>3, <1>4 DEF PutRaw
  <2>3. Admitted(ch, req[r].view)'
    BY <1>1, <1>4, <2>2 DEF PutRaw, Admitted, PrefixOf, Summary
  <2>4. CallInv(r)'
    BY <2>1, <2>2, <2>3 DEF CallInv
  <2>5. LogTyped' /\ walks' = walks /\ late' = late /\ acked' = acked /\ manifest' = manifest
    BY <1>4, <2>1 DEF PutRaw, StoreInv, LogOrdered, LogTyped
  <2>6. ArchiveRest'
    BY <2>1, <2>2, <2>4, <2>5, GoesOnKeeps
  <2> QED
    BY <1>2, <2>1, <2>5, <2>6
<1>5. CASE PutRange(r)
  <2>1. StoreInv' /\ Grows /\ ch \in DOMAIN ranges'
    BY <1>1, <1>5, RangeKeepsStore DEF PutRange
  <2>2. /\ \A q \in Calls : q # r => req'[q] = req[q]
        /\ req'[r].pc = "putManifest" /\ req'[r].chunk = ch /\ req'[r].view = req[r].view
    BY <1>3, <1>5 DEF PutRange
  <2>3. Admitted(ch, req[r].view)'
    BY <1>1, <1>5, <2>2 DEF PutRange, Admitted, PrefixOf, Summary
  <2>4. RawKey(ch) \in raw /\ raw' = raw
    BY <1>5 DEF PutRange, ArchiveRest, CallsInv, CallInv
  <2>5. CallInv(r)'
    BY <2>1, <2>2, <2>3, <2>4 DEF CallInv
  <2>6. LogTyped' /\ walks' = walks /\ late' = late /\ acked' = acked /\ manifest' = manifest
    BY <1>5, <2>1 DEF PutRange, StoreInv, LogOrdered, LogTyped
  <2>7. ArchiveRest'
    BY <2>1, <2>2, <2>5, <2>6, GoesOnKeeps
  <2> QED
    BY <1>2, <2>1, <2>6, <2>7
<1>6. CASE PutManifest(r)
  <2>1. manifest[ch.epoch] = req[r].view /\ StoreManifest(ch) /\ UNCHANGED <<raw, ranges, torn>>
    BY <1>6 DEF PutManifest, Precondition
  <2>2. RawKey(ch) \in raw /\ ch \in DOMAIN ranges
    BY <1>6 DEF PutManifest, ArchiveRest, CallsInv, CallInv
  <2>3. manifest \in [Epochs -> Manifests] /\ DOMAIN ranges \subseteq Offered
    BY DEF StoreTyped
  <2>4. /\ StoreInv' /\ Grows /\ (\A x \in Offered : x = ch => Committed(x)')
        /\ \A e \in Epochs : manifest'[e].off >= manifest[e].off
    BY <1>1, <2>1, <2>2, <2>3, ManifestKeepsStore
  <2>5. /\ \A q \in Calls : q # r => req'[q] = req[q]
        /\ req'[r].pc = "callback" /\ req'[r].chunk = ch /\ req'[r].view = req[r].view
    BY <1>3, <1>6 DEF PutManifest
  <2>6. CallInv(r)'
    BY <1>1, <2>4, <2>5 DEF CallInv, Committed
  <2>7. LogTyped' /\ walks' = walks /\ late' = late /\ acked' = acked
    BY <1>6, <2>4 DEF PutManifest, StoreInv, LogOrdered, LogTyped
  <2>8. ArchiveRest'
    BY <2>4, <2>5, <2>6, <2>7, GoesOnKeeps
  <2> QED
    BY <2>4, <2>8
<1> QED
  BY <1>4, <1>5, <1>6

(* A step keeps the whole archive, and rolls no manifest back.              *)
Keeps == StoreInv' /\ ArchiveRest' /\ (\A e \in Epochs : manifest'[e].off >= manifest[e].off)

(* A step that leaves the store alone.                                      *)
LEMMA KeepsByStay ==
  ASSUME StoreTyped, StoreInv, UNCHANGED <<storeVars, log>>, ArchiveRest'
  PROVE  Keeps
<1>1. \A e \in Epochs : manifest[e].off \in Nat /\ manifest' = manifest
  BY DEF StoreTyped, Manifests, storeVars
<1> QED
  BY <1>1, StoreStays DEF Keeps, storeVars

(* A refused manifest write.                                                *)
LEMMA ConflictKeeps ==
  ASSUME CallsTyped, StoreTyped, StoreInv, ArchiveRest, NEW r \in Calls, ManifestConflict(r)
  PROVE  Keeps
<1>1. /\ Grows /\ LogTyped' /\ late' = late /\ req[r].pc \in Busy /\ walks' = walks
      /\ UNCHANGED <<storeVars, log>>
  BY StoreStays DEF ManifestConflict, storeVars
<1>2. req[r].chunk \in Offered
  BY <1>1, BusyTyped
<1>3. CASE Settle(r, "error")
  <2>1. ArchiveRest'
    BY <1>1, <1>2, <1>3, SettleKeeps
  <2> QED
    BY <1>1, <2>1, KeepsByStay
<1>4. CASE /\ req' = [req EXCEPT ![r].pc = "queued", ![r].tries = @ + 1, ![r].view = NoManifest]
           /\ UNCHANGED acked
  <2>1. req'[r].pc = "queued" /\ \A q \in Calls : q # r => req'[q] = req[q]
    BY <1>4 DEF CallsTyped, Requests
  <2>2. CallInv(r)'
    BY <2>1 DEF CallInv
  <2>3. ArchiveRest'
    BY <1>1, <1>4, <2>1, <2>2, GoesOnKeeps
  <2> QED
    BY <1>1, <2>3, KeepsByStay
<1> QED
  BY <1>3, <1>4 DEF ManifestConflict

(* A write that fails, done or not or still under way.                      *)
LEMMA PutFailsKeeps ==
  ASSUME ConditionalWrites, CallsTyped, StoreTyped, StoreInv, ArchiveRest, NEW r \in Calls,
         PutFails(r)
  PROVE  Keeps
<1> DEFINE ch == req[r].chunk
           w == [chunk |-> ch, view |-> req[r].view]
<1>1. /\ ch \in Offered /\ ch.epoch \in Epochs /\ Admitted(ch, req[r].view)
      /\ walks' = walks /\ Settle(r, "error")
  BY BusyTyped DEF PutFails, ArchiveRest, CallsInv, CallInv
<1>2. ASSUME StoreInv', Grows, manifest' = manifest, \A x \in late' : x \in late \/ Ready(x)'
      PROVE  Keeps
  <2>1. LogTyped'
    BY <1>2 DEF StoreInv, LogOrdered, LogTyped
  <2>2. ArchiveRest'
    BY <1>1, <1>2, <2>1, SettleKeeps
  <2>3. \A e \in Epochs : manifest[e].off \in Nat
    BY DEF StoreTyped, Manifests
  <2> QED
    BY <1>2, <2>2, <2>3 DEF Keeps
<1>3. CASE UNCHANGED <<storeVars, log>>
  BY <1>2, <1>3, StoreStays DEF storeVars
<1>4. CASE StoreRaw(ch) /\ UNCHANGED <<ranges, manifest, torn, late, log>>
  BY <1>1, <1>2, <1>4, RawKeepsStore
<1>5. CASE StoreRange(ch, req[r].view.last) /\ UNCHANGED <<raw, manifest, torn, late, log>>
  BY <1>1, <1>2, <1>5, RangeKeepsStore
<1>6. CASE /\ req[r].pc = "putManifest" /\ late' = late \union {w}
           /\ UNCHANGED <<raw, ranges, manifest, torn, log>>
  <2>1. Ready(w)
    BY <1>1, <1>6 DEF Ready, ArchiveRest, CallsInv, CallInv
  <2>2. StoreInv' /\ Grows
    BY <1>6, StoreStays
  <2>4. \A x \in late' : x \in late \/ Ready(x)'
    <3>1. \A x : Ready(x) => Ready(x)'
      BY <1>6 DEF Ready, Admitted, PrefixOf, Summary
    <3> QED
      BY <1>6, <2>1, <3>1
  <2> QED
    BY <1>2, <1>6, <2>2, <2>4
<1>7. ~ \E rs \in SUBSET Calls : TornWrite(rs)
  BY StorageAssumption DEF TornWrite
<1> QED
  BY <1>3, <1>4, <1>5, <1>6, <1>7 DEF PutFails

(* The ACK of a commit.                                                     *)
LEMMA ReportKeeps ==
  ASSUME CallsTyped, StoreTyped, StoreInv, ArchiveRest, NEW r \in Calls, Report(r)
  PROVE  Keeps
<1>1. /\ Grows /\ LogTyped' /\ late' = late /\ log' = log /\ walks' = walks
      /\ UNCHANGED <<storeVars, log>> /\ req[r].pc = "callback" /\ Settle(r, "ack")
  BY StoreStays DEF Report, storeVars
<1>2. req[r].chunk \in Offered /\ Committed(req[r].chunk)
  BY <1>1, BusyTyped DEF ArchiveRest, CallsInv, CallInv
<1>3. \A ch \in Offered : ch = req[r].chunk => Committed(ch)'
  BY <1>1, <1>2 DEF Committed
<1>4. ArchiveRest'
  BY <1>1, <1>2, <1>3, SettleKeeps
<1> QED
  BY <1>1, <1>4, KeepsByStay

(* A manifest write that lands late, or is refused.                         *)
LEMMA LateWriteKeeps ==
  ASSUME ConditionalWrites, CallsTyped, StoreTyped, StoreInv, ArchiveRest,
         NEW w \in late, LateWrite(w)
  PROVE  Keeps
<1>1. /\ w.chunk \in Offered /\ Ready(w)
      /\ UNCHANGED <<raw, ranges, torn, req, walks, acked>>
  BY DEF StoreTyped, ArchiveRest, LateInv, LateWrite, ctrlVars
<1>2. ASSUME StoreInv', Grows PROVE ArchiveRest'
  <2>1. LogTyped /\ LogTyped' /\ LateTyped
    BY <1>2 DEF StoreInv, LogOrdered, LogTyped, StoreTyped, LateTyped
  <2>2. \A q \in Calls : req'[q] = req[q]
    BY <1>1
  <2>3. CallsInv'
    BY <1>2, <2>1, <2>2, CallStays DEF ArchiveRest, CallsInv
  <2>4. LateInv'
    BY <1>2, <2>1, LateStays DEF ArchiveRest, LateInv, LateWrite
  <2>5. AckedInv'
    <3>1. ASSUME NEW ch \in acked PROVE Committed(ch)'
      BY <1>2, <2>1, CommittedStays DEF ArchiveRest, AckedInv, CallsTyped, LogTyped
    <3> QED
      BY <1>1, <3>1 DEF AckedInv
  <2>6. WalksInv'
    BY <1>1, <1>2, WalksStay DEF ArchiveRest
  <2> QED
    BY <2>3, <2>4, <2>5, <2>6 DEF ArchiveRest
<1>3. CASE Precondition(w.chunk.epoch, w.view) /\ StoreManifest(w.chunk)
  <2>1. manifest[w.chunk.epoch] = w.view
    BY <1>3 DEF Precondition
  <2>2. manifest \in [Epochs -> Manifests] /\ DOMAIN ranges \subseteq Offered
    BY DEF StoreTyped
  <2>3. StoreInv' /\ Grows /\ \A e \in Epochs : manifest'[e].off >= manifest[e].off
    BY <1>1, <1>3, <2>1, <2>2, ManifestKeepsStore DEF Ready
  <2> QED
    BY <1>2, <2>3 DEF Keeps
<1>4. CASE UNCHANGED <<manifest, log>>
  <2>1. StoreInv' /\ Grows
    BY <1>1, <1>4, StoreStays
  <2>3. \A e \in Epochs : manifest[e].off \in Nat
    BY DEF StoreTyped, Manifests
  <2> QED
    BY <1>2, <1>4, <2>1, <2>3 DEF Keeps
<1> QED
  BY <1>3, <1>4 DEF LateWrite

(* A crash of a controller.                                                 *)
LEMMA CrashKeeps ==
  ASSUME ConditionalWrites, CallsTyped, StoreTyped, StoreInv, ArchiveRest,
         NEW c \in Controllers, Crash(c)
  PROVE  Keeps
<1> DEFINE dead == {q \in Calls : req[q].ctrl = c /\ req[q].pc \in Busy}
           lost == {q \in {p \in dead : req[p].pc \in Writing} : req[q].pc = "putManifest"}
<1>1. /\ req' = [q \in Calls |-> IF q \in dead THEN IdleRequest ELSE req[q]]
      /\ walks' = [walks EXCEPT ![c] = <<>>]
      /\ log' = log /\ acked' = acked
  BY DEF Crash
<1>2. UNCHANGED <<raw, ranges, manifest, torn, log>>
      /\ (late' = late \/ late' = late \union {[chunk |-> req[q].chunk, view |-> req[q].view] :
                                               q \in lost})
  <2>1. ~ \E rs \in SUBSET Calls : TornWrite(rs)
    BY StorageAssumption DEF TornWrite
  <2> QED
    BY <2>1 DEF Crash, storeVars
<1>3. StoreInv' /\ Grows /\ LogTyped /\ LogTyped'
  BY <1>2, StoreStays
<1>4. \A q \in Calls : req'[q] = req[q] \/ req'[q].pc = "idle"
  BY <1>1 DEF IdleRequest
<1>5. CallsInv'
  <2>1. ASSUME NEW q \in Calls PROVE CallInv(q)'
    <3>1. CASE req'[q] = req[q]
      BY <1>3, <3>1, CallStays DEF ArchiveRest, CallsInv
    <3>2. CASE req'[q].pc = "idle"
      BY <3>2 DEF CallInv
    <3> QED
      BY <1>4, <3>1, <3>2
  <2> QED
    BY <2>1 DEF CallsInv
<1>6. LateInv'
  <2>1. LateTyped
    BY DEF StoreTyped, LateTyped
  <2>2. ASSUME NEW q \in lost PROVE Ready([chunk |-> req[q].chunk, view |-> req[q].view])
    BY <2>2 DEF Ready, ArchiveRest, CallsInv, CallInv
  <2>3. \A w : Ready(w) => Ready(w)'
    BY <1>2 DEF Ready, Admitted, PrefixOf, Summary
  <2>4. \A w \in late : Ready(w)
    BY DEF ArchiveRest, LateInv
  <2> QED
    BY <1>2, <2>2, <2>3, <2>4 DEF LateInv
<1>7. WalksInv'
  <2>1. /\ DOMAIN walks' = Controllers /\ walks'[c] = <<>>
        /\ \A d \in Controllers : d # c => walks'[d] = walks[d]
    BY <1>1 DEF ArchiveRest, WalksInv
  <2>2. ASSUME NEW d \in Controllers, NEW x \in DOMAIN walks'[d]
        PROVE  /\ x \in Offered
               /\ walks'[d][x].at = NoChunk
                  \/ \E i \in 1 .. Len(log'[x.epoch]) : log'[x.epoch][i] = walks'[d][x].at
    <3>1. d # c
      BY <2>1, <2>2
    <3> QED
      BY <1>1, <2>1, <2>2, <3>1 DEF ArchiveRest, WalksInv
  <2>3. ASSUME NEW q \in Calls, req'[q].pc = "walk"
        PROVE  req'[q].chunk \in DOMAIN walks'[req'[q].ctrl]
    <3>1. req'[q] = req[q] /\ req[q].ctrl # c
      BY <1>1, <1>4, <2>3 DEF IdleRequest
    <3>2. req[q].ctrl \in Controllers
      BY <2>3, <3>1, BusyTyped
    <3> QED
      BY <2>1, <2>3, <3>1, <3>2 DEF ArchiveRest, WalksInv
  <2> QED
    BY <2>1, <2>2, <2>3 DEF WalksInv
<1>8. AckedInv'
  BY <1>1 DEF ArchiveRest, AckedInv, Committed
<1>9. \A e \in Epochs : manifest'[e].off >= manifest[e].off
  BY <1>2 DEF StoreTyped, Manifests
<1> QED
  BY <1>3, <1>5, <1>6, <1>7, <1>8, <1>9 DEF Keeps, ArchiveRest

(* The steps that callers take.                                             *)
LEMMA CallerKeeps ==
  ASSUME CallsTyped, StoreTyped, StoreInv, ArchiveRest, NEW r \in Calls,
         \/ \E c \in Controllers, ch \in Offered : Submit(r, c, ch)
         \/ Leave(r)
         \/ Consume(r)
  PROVE  Keeps
<1>1. /\ UNCHANGED <<storeVars, walks, log, acked>>
      /\ Grows /\ LogTyped' /\ late' = late
  BY StoreStays DEF Submit, Leave, Consume, storeVars
<1>2. \A q \in Calls : q # r => req'[q] = req[q]
  BY DEF Submit, Leave, Consume, CallsTyped
<1>3. CASE req'[r].pc \in {"queued", "idle"}
  <2>1. CallInv(r)'
    BY <1>3 DEF CallInv
  <2>2. ArchiveRest'
    BY <1>1, <1>2, <1>3, <2>1, GoesOnKeeps
  <2> QED
    BY <1>1, <2>2, KeepsByStay
<1>4. CASE Leave(r)
  <2>1. /\ req'[r].pc = req[r].pc /\ req'[r].chunk = req[r].chunk
        /\ req'[r].view = req[r].view /\ req'[r].ctrl = req[r].ctrl
    BY <1>4, BusyTyped DEF Leave, CallsTyped, Requests
  <2>2. CallInv(r)'
    BY <1>1, <2>1
       DEF ArchiveRest, CallsInv, CallInv, Admitted, PrefixOf, Summary, Committed, storeVars
  <2>3. LogTyped /\ LateTyped /\ acked \subseteq Offered
    BY DEF StoreInv, LogOrdered, LogTyped, StoreTyped, LateTyped, CallsTyped
  <2>4. CallsInv' /\ LateInv' /\ AckedInv'
    BY <1>1, <1>2, <2>2, <2>3, OneCallMoves DEF ArchiveRest
  <2>5. WalksInv'
    BY <1>1, <1>2, <2>1, WalksStay DEF ArchiveRest
  <2> QED
    BY <1>1, <2>4, <2>5, KeepsByStay DEF ArchiveRest
<1>5. CASE Consume(r) \/ \E c \in Controllers, ch \in Offered : Submit(r, c, ch)
  <2>1. req'[r].pc \in {"queued", "idle"}
    <3>1. CASE Consume(r)
      BY <3>1 DEF Consume, CallsTyped, IdleRequest
    <3>2. CASE \E c \in Controllers, ch \in Offered : Submit(r, c, ch)
      BY <3>2 DEF Submit, CallsTyped, IdleRequest
    <3> QED
      BY <1>5, <3>1, <3>2
  <2> QED
    BY <1>3, <2>1
<1> QED
  BY <1>4, <1>5

ArchiveInv == TypeInv /\ StoreInv /\ ArchiveRest

(* The initial states satisfy the invariant.                                *)
LEMMA ArchiveInit == Init => ArchiveInv
<1> SUFFICES ASSUME Init PROVE StoreInv /\ ArchiveRest
  BY TypeInit DEF ArchiveInv
<1>1. /\ \A e \in Epochs : log[e] = <<>> /\ Len(log[e]) = 0 /\ manifest[e] = NoManifest
      /\ log \in [Epochs -> Seq(Offered)] /\ DOMAIN ranges = {} /\ torn = {}
  BY DEF Init
<1>2. StoreInv
  BY <1>1 DEF StoreInv, LogOrdered, ManifestIsLast, LogStored, RangesLinked, Summary
<1>3. \A r \in Calls : req[r].pc = "idle"
  BY DEF Init, IdleRequest
<1>4. ArchiveRest
  BY <1>3 DEF Init, ArchiveRest, CallsInv, CallInv, LateInv, WalksInv, AckedInv
<1> QED
  BY <1>2, <1>4

(* The invariant is inductive, and no step rolls a manifest back.           *)
LEMMA ArchiveNext ==
  ASSUME ConditionalWrites, ArchiveInv, [Next]_vars
  PROVE  ArchiveInv' /\ (\A e \in Epochs : manifest'[e].off >= manifest[e].off)
<1>1. CallsTyped /\ StoreTyped /\ StoreInv /\ ArchiveRest
  BY TypeParts DEF ArchiveInv
<1>2. CASE UNCHANGED vars
  <2>1. UNCHANGED <<storeVars, log>> /\ req' = req /\ walks' = walks /\ acked' = acked
    BY <1>2 DEF vars, ctrlVars
  <2>2. Grows /\ LogTyped /\ LogTyped' /\ LateTyped /\ late' = late
    BY <1>1, <2>1, StoreStays DEF storeVars, StoreTyped, LateTyped
  <2>3. CallsInv'
    BY <1>1, <2>1, <2>2, CallStays DEF ArchiveRest, CallsInv
  <2>4. LateInv'
    BY <1>1, <2>2, LateStays DEF ArchiveRest, LateInv
  <2>5. WalksInv'
    BY <1>1, <2>1, <2>2, WalksStay DEF ArchiveRest
  <2>6. AckedInv'
    BY <1>1, <2>1 DEF ArchiveRest, AckedInv, Committed
  <2> QED
    BY <1>1, <2>1, <2>3, <2>4, <2>5, <2>6, KeepsByStay, TypeNext DEF Keeps, ArchiveRest, ArchiveInv
<1>3. CASE Next
  <2>1. ASSUME NEW r \in Calls, NEW c \in Controllers, NEW ch \in Offered, Submit(r, c, ch)
        PROVE  Keeps
    BY <1>1, <2>1, CallerKeeps
  <2>2. ASSUME NEW r \in Calls, Leave(r) \/ Consume(r) PROVE Keeps
    BY <1>1, <2>2, CallerKeeps
  <2>3. ASSUME NEW r \in Calls,
               AbandonRead(r) \/ ReadManifest(r) \/ WalkRange(r) \/ VerifyRaw(r)
        PROVE  Keeps
    <3>1. ArchiveRest'
      BY <1>1, <2>3, OtherReadsKeep, ReadManifestKeeps, WalkRangeKeeps
    <3>2. UNCHANGED <<storeVars, log>>
      BY <2>3 DEF AbandonRead, ReadManifest, WalkRange, VerifyRaw
    <3> QED
      BY <1>1, <3>1, <3>2, KeepsByStay
  <2>4. ASSUME NEW r \in Calls, PutRaw(r) \/ PutRange(r) \/ PutManifest(r) PROVE Keeps
    BY <1>1, <2>4, PutKeeps DEF Keeps
  <2>5. ASSUME NEW r \in Calls, ManifestConflict(r) PROVE Keeps
    BY <1>1, <2>5, ConflictKeeps
  <2>6. ASSUME NEW r \in Calls, PutFails(r) PROVE Keeps
    BY <1>1, <2>6, PutFailsKeeps
  <2>7. ASSUME NEW r \in Calls, Report(r) PROVE Keeps
    BY <1>1, <2>7, ReportKeeps
  <2>8. ASSUME NEW w \in late, LateWrite(w) PROVE Keeps
    BY <1>1, <2>8, LateWriteKeeps
  <2>9. ASSUME NEW c \in Controllers, Crash(c) PROVE Keeps
    BY <1>1, <2>9, CrashKeeps
  <2>10. Keeps
    BY <1>3, <2>1, <2>2, <2>3, <2>4, <2>5, <2>6, <2>7, <2>8, <2>9
       DEF Next, Proceed, Serve, Disturb
  <2> QED
    BY <1>3, <2>10, TypeNext DEF Keeps, ArchiveInv
<1> QED
  BY <1>2, <1>3

(* What readEpoch needs to return the log, from what the archive keeps.     *)
LEMMA Readable ==
  ASSUME StoreInv, NEW e \in Epochs
  PROVE  Reads(e, log[e])
<1>1. log[e] \in Seq(Offered) /\ Len(log[e]) \in Nat /\ DOMAIN log[e] = 1 .. Len(log[e])
  BY DEF StoreInv, LogOrdered
<1>2. manifest[e] = IF log[e] = <<>> THEN NoManifest
                    ELSE [off |-> log[e][Len(log[e])].end, last |-> log[e][Len(log[e])]]
  <2>1. log[e] = <<>> <=> Len(log[e]) = 0
    BY <1>1
  <2> QED
    BY <2>1 DEF StoreInv, ManifestIsLast, Summary
<1>3. ASSUME NEW i \in 1 .. Len(log[e])
      PROVE  /\ log[e][i] \in DOMAIN ranges /\ RawKey(log[e][i]) \in raw
             /\ log[e][i].start = IF i = 1 THEN 0 ELSE log[e][i - 1].end
             /\ ranges[log[e][i]] = IF i = 1 THEN NoChunk ELSE log[e][i - 1]
  <2>1. /\ log[e][i] \in DOMAIN ranges /\ RawKey(log[e][i]) \in raw
        /\ log[e][i].epoch = e
        /\ log[e][i].start = IF i = 1 THEN 0 ELSE log[e][i - 1].end
    BY DEF StoreInv, LogStored, LogOrdered
  <2>2. PICK n \in 0 .. Len(log[e]) : Summary(e, n).off = log[e][i].start
                                     /\ ranges[log[e][i]] = Summary(e, n).last
    BY <2>1 DEF StoreInv, RangesLinked
  <2>3. i - 1 \in 0 .. Len(log[e]) /\ Summary(e, i - 1).off = log[e][i].start
    BY <1>1, <2>1 DEF Summary, NoManifest
  <2>4. n = i - 1
    BY <2>2, <2>3, OffsetsGrow DEF StoreInv
  <2> QED
    BY <1>1, <2>1, <2>2, <2>4 DEF Summary, NoManifest
<1>4. torn = {}
  BY DEF StoreInv
<1> QED
  BY <1>1, <1>2, <1>3, <1>4 DEF Reads

(* On an object store with conditional writes, whatever controllers overlap *)
(* or crash, whatever writes fail, or land late, or are repeated: reading   *)
(* an epoch succeeds and returns the committed chunks in their order.       *)
THEOREM ArchiveCommittedIsReadable ==
  ASSUME ConditionalWrites PROVE Spec => []CommittedIsReadable
<1>1. ArchiveInv => CommittedIsReadable
  BY Readable DEF ArchiveInv, CommittedIsReadable
<1>2. ArchiveInv /\ [Next]_vars => ArchiveInv'
  BY ArchiveNext
<1> QED
  BY ArchiveInit, <1>1, <1>2, PTL DEF Spec

(* ... a chunk that was acknowledged is among them for good ...             *)
THEOREM ArchiveAckedStaysReadable ==
  ASSUME ConditionalWrites PROVE Spec => []AckedStaysReadable
<1>1. ArchiveInv => AckedStaysReadable
  BY Readable, Nulls
     DEF ArchiveInv, ArchiveRest, AckedInv, Committed, AckedStaysReadable, TypeInv, TypeOK
<1>2. ArchiveInv /\ [Next]_vars => ArchiveInv'
  BY ArchiveNext
<1> QED
  BY ArchiveInit, <1>1, <1>2, PTL DEF Spec

(* ... and no manifest is ever rolled back.                                 *)
THEOREM ArchiveManifestNeverRollsBack ==
  ASSUME ConditionalWrites PROVE Spec => ManifestNeverRollsBack
<1>1. ArchiveInv /\ [Next]_vars => [\A e \in Epochs : manifest'[e].off >= manifest[e].off]_manifest
  BY ArchiveNext
<1>2. ArchiveInv /\ [Next]_vars => ArchiveInv'
  BY ArchiveNext
<1> QED
  BY ArchiveInit, <1>1, <1>2, PTL DEF Spec, ManifestNeverRollsBack
=============================================================================
