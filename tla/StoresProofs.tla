---------------------------- MODULE StoresProofs ----------------------------
(***************************************************************************)
(* What the controller keeps for its users.                                *)
(*                                                                         *)
(* Pins, for any number of users, requests, pins and contents: whatever    *)
(* the requests interleave or fail, what is pinned can be opened, a link   *)
(* that was revoked stays so, the share of a pin is the one its owner was  *)
(* told of, and the versions of a file differ, unless changes of the same  *)
(* contents or of the same file overlapped.                                *)
(*                                                                         *)
(* Drafts, for any number of clients, pages, versions and comments, beside *)
(* pins that put and remove objects of the same store: a version follows   *)
(* the one its client had seen, its bytes are stored unless a pin took     *)
(* them with it, and a selection that is kept with a comment is of the     *)
(* version the comment is on.                                              *)
(*                                                                         *)
(* Notifications, for any number of agents and topics: an answer is        *)
(* announced once, in the end, and not in quiet hours.                     *)
(*                                                                         *)
(* Progress reports, for any number of controllers, hours and turns: a     *)
(* journal is stored turn for turn, a finished report stays, and the       *)
(* report of a whole day holds what those of its hours hold.               *)
(***************************************************************************)
EXTENDS InstallProofs

(* The pins (PinStore).                                                     *)

Changing == {"put", "persist", "delete", "scan", "purge"}

(* A pin that was made.                                                     *)
Made(p) == /\ p \in PinRecords /\ p.family \in Families /\ p.body \in Bodies
           /\ p.id \in 1..made.pins /\ p.version <= made.pins

SamePin(p, q) == p.family = q.family /\ p.body = q.body

JobRecords == [at : {"idle", "read", "put", "persist", "delete", "scan", "purge", "visit"},
               op : Ops, user : Users \union {Nothing}, id : 0..MaxPins,
               pin : PinRecords, share : Scopes \union {Nothing}, comment : 0..MaxComments]

(* What a request has at hand.                                              *)
JobTyped(req) ==
  /\ req \in JobRecords
  /\ req.at # "idle" => req.user \in Users
  /\ req.at = "read" /\ req.op = "share" => req.share # Nothing
  /\ req.at = "read" /\ req.op = "pin" => req.pin.family \in Families /\ req.pin.body \in Bodies
  /\ req.at \in Changing \union {"visit"} => Made(req.pin)
  /\ req.at = "put" => req.op = "pin"

JobsTyped == jobs \in [Jobs -> JobRecords] /\ \A j \in Jobs : JobTyped(jobs[j])

StoreTyped ==
  /\ \A p \in index : Made(p)
  /\ blobs \subseteq Bodies
  /\ made \in [pins : 0..MaxPins, comments : 0..MaxComments]
  /\ revoked \subseteq 1..made.pins
  /\ scoped \in [PinIds -> Scopes \union {Nothing}]
  /\ raced \subseteq Bodies \union Families

CommentsTyped == comments \subseteq [id : 1..MaxComments, family : Families, by : Users]

(* A pin has one record, and keeps its file and its contents.               *)
OneRecord ==
  /\ \A p, q \in index : p.id = q.id => p = q
  /\ \A j \in Jobs : jobs[j].at \in Changing =>
       /\ \A p \in index : p.id = jobs[j].pin.id => SamePin(p, jobs[j].pin)
       /\ \A i \in Jobs : jobs[i].at \in Changing /\ jobs[i].pin.id = jobs[j].pin.id
                            => SamePin(jobs[i].pin, jobs[j].pin)

(* Changes that overlap on contents or on a file are known to.              *)
OverlapsAreKnown ==
  \A i, j \in Jobs : i # j /\ jobs[i].at \in Changing /\ jobs[j].at \in Changing =>
    /\ jobs[i].pin.body = jobs[j].pin.body => jobs[i].pin.body \in raced
    /\ jobs[i].pin.family = jobs[j].pin.family => jobs[i].pin.family \in raced

(* The versions of a file differ.                                           *)
VersionsDiffer ==
  \A p, q \in index : p.family = q.family /\ p.version = q.version => p = q \/ p.family \in raced

(* What a change goes by still holds when it writes, if nothing overlaps it.*)
ChangeInv(req) ==
  req.at \in Changing =>
    /\ req.at \in {"put", "persist"} =>
         \/ req.pin.family \in raced
         \/ \A q \in index : q.family = req.pin.family /\ q.version = req.pin.version
                               => q.id = req.pin.id
    /\ req.at = "purge" =>
         req.pin.body \in raced \/ \A p \in index : p.body # req.pin.body
    /\ \/ Raced(req.pin)
       \/ /\ req.at \in {"put", "persist"} => req.pin.id \notin revoked
          /\ req.at = "persist" => req.pin.body \in blobs
          /\ req.at = "persist" /\ req.op = "rename" => req.pin.scope = scoped[req.pin.id]
          /\ req.at \in {"scan", "purge"} => \A p \in index : p.id # req.pin.id

ChangesInv == \A j \in Jobs : ChangeInv(jobs[j])

PinsInv == /\ JobsTyped /\ StoreTyped /\ CommentsTyped
           /\ OneRecord /\ OverlapsAreKnown /\ VersionsDiffer /\ ChangesInv /\ PinsAreSound

-----------------------------------------------------------------------------
USE DEF Changing

(* The number of the newest version is one of them, and none is above it.   *)
LEMMA NewestIsGreatest ==
  ASSUME NEW m \in Nat, NEW S, \A p \in S : p.version \in 0..m
  PROVE  Newest(S) \in 0..m /\ \A p \in S : p.version <= Newest(S)
<1> DEFINE T == {p.version : p \in S} \union {0}
<1>1. T \subseteq 0..m /\ T # {}
  OBVIOUS
<1>2. PICK x \in T : \A y \in T : y <= x
  BY <1>1, Greatest
<1>3. \A p \in S : p.version <= x
  BY <1>2
<1>4. Newest(S) \in T /\ \A p \in S : p.version <= Newest(S)
  BY <1>3 DEF Newest
<1> QED
  BY <1>1, <1>4

(* The overlaps that a change finds as it begins are all it has.            *)
LEMMA RacingFinds ==
  ASSUME NEW j \in Jobs, NEW i \in Jobs, i # j, NEW pin, jobs[i].at \in Changing
  PROVE  /\ jobs[i].pin.body = pin.body => pin.body \in Racing(j, pin)
         /\ jobs[i].pin.family = pin.family => pin.family \in Racing(j, pin)
         /\ Racing(j, pin) \subseteq {pin.body, pin.family}
  BY DEF Racing, Busy

(* The type of the parts is that of the whole.                              *)
LEMMA TypeParts ==
  ASSUME PinsAssumption, JobsTyped, StoreTyped, CommentsTyped
  PROVE  TypeOK
<1>1. index \subseteq PinRecords /\ blobs \subseteq Bodies /\ raced \subseteq Bodies \union Families
  BY DEF StoreTyped, Made
<1>2. made.pins \in 0..MaxPins /\ MaxPins \in Nat
  BY DEF StoreTyped, PinsAssumption
<1>3. revoked \subseteq PinIds
  BY <1>2 DEF StoreTyped, PinIds
<1>4. jobs \in [Jobs -> JobRecords]
  BY DEF JobsTyped
<1> QED
  BY <1>1, <1>3, <1>4 DEF TypeOK, StoreTyped, CommentsTyped, JobRecords

(* The step of one request, as it is for the others.                        *)
OneMoves(j, new) ==
  /\ j \in Jobs /\ JobTyped(new)'
  /\ jobs' = [jobs EXCEPT ![j] = new]
  /\ raced \subseteq raced' /\ made'.pins \in Nat /\ made.pins <= made'.pins

LEMMA OthersStay ==
  ASSUME JobsTyped, StoreTyped, NEW j, NEW new, OneMoves(j, new)
  PROVE  /\ JobsTyped'
         /\ jobs'[j] = new /\ \A i \in Jobs : i # j => jobs'[i] = jobs[i]
         /\ \A p : Made(p) => Made(p)'
         /\ \A p : Raced(p) => Raced(p)'
<1>1. /\ jobs \in [Jobs -> JobRecords] /\ new \in JobRecords
      /\ jobs'[j] = new /\ \A i \in Jobs : i # j => jobs'[i] = jobs[i]
  BY DEF JobsTyped, OneMoves, JobTyped
<1>2. ASSUME NEW p, Made(p) PROVE Made(p)'
  <2>1. made.pins \in Nat /\ p.id \in 1..made.pins /\ p.version \in Nat
    BY <1>2 DEF StoreTyped, Made, PinRecords
  <2>2. p.id \in 1..made'.pins /\ p.version <= made'.pins
    BY <1>2, <2>1 DEF OneMoves, Made
  <2> QED
    BY <1>2, <2>2 DEF Made
<1>3. ASSUME NEW i \in Jobs PROVE JobTyped(jobs[i])'
  <2>1. CASE i = j
    BY <1>1, <2>1 DEF OneMoves
  <2>2. CASE i # j
    BY <1>1, <1>2, <2>2 DEF JobsTyped, JobTyped
  <2> QED
    BY <2>1, <2>2
<1>4. JobsTyped'
  BY <1>1, <1>3 DEF JobsTyped, OneMoves
<1>5. \A p : Raced(p) => Raced(p)'
  BY DEF Raced, OneMoves
<1> QED
  BY <1>1, <1>2, <1>4, <1>5

Parts == OneRecord /\ OverlapsAreKnown /\ VersionsDiffer /\ ChangesInv /\ PinsAreSound

(* A request that changes nothing, or that comes to its end.                *)
LEMMA JobEnds ==
  ASSUME JobsTyped, StoreTyped, Parts, NEW j, NEW new, OneMoves(j, new),
         new.at \notin Changing, UNCHANGED <<index, blobs, revoked, scoped>>
  PROVE  JobsTyped' /\ Parts'
<1>1. /\ JobsTyped' /\ jobs'[j] = new /\ \A i \in Jobs : i # j => jobs'[i] = jobs[i]
      /\ \A p : Raced(p) => Raced(p)'
  BY OthersStay
<1>2. OneRecord'
  BY <1>1 DEF Parts, OneRecord, SamePin
<1>3. OverlapsAreKnown'
  BY <1>1 DEF Parts, OverlapsAreKnown, OneMoves
<1>4. ChangesInv'
  BY <1>1 DEF Parts, ChangesInv, ChangeInv, OneMoves
<1>5. VersionsDiffer' /\ PinsAreSound'
  BY <1>1 DEF Parts, OneMoves, VersionsDiffer, PinsAreSound, BytesBehindPins, PinsKeepTheirWord
<1> QED
  BY <1>1, <1>2, <1>3, <1>4, <1>5 DEF Parts

(* A request that begins to change a pin.                                   *)
LEMMA ChangeBegins ==
  ASSUME JobsTyped, StoreTyped, Parts, NEW j, NEW new, OneMoves(j, new),
         new.at \in Changing, raced' = raced \union Racing(j, new.pin),
         UNCHANGED <<index, blobs, revoked, scoped>>,
         \A p \in index : p.id = new.pin.id => SamePin(p, new.pin),
         \A i \in Jobs : jobs[i].at \in Changing /\ jobs[i].pin.id = new.pin.id
                           => SamePin(jobs[i].pin, new.pin),
         ChangeInv(new)'
  PROVE  JobsTyped' /\ Parts'
<1>1. /\ JobsTyped' /\ jobs'[j] = new /\ \A i \in Jobs : i # j => jobs'[i] = jobs[i]
      /\ \A p : Raced(p) => Raced(p)'
      /\ j \in Jobs
  BY OthersStay DEF OneMoves
<1>2. OneRecord'
  BY <1>1 DEF Parts, OneRecord, SamePin
<1>3. OverlapsAreKnown'
  <2>1. \A i \in Jobs : i # j /\ jobs[i].at \in Changing =>
          /\ jobs[i].pin.body = new.pin.body => new.pin.body \in raced'
          /\ jobs[i].pin.family = new.pin.family => new.pin.family \in raced'
    BY <1>1, RacingFinds
  <2>2. raced \subseteq raced'
    OBVIOUS
  <2> QED
    BY <1>1, <2>1, <2>2 DEF Parts, OverlapsAreKnown
<1>4. ChangesInv'
  <2>1. ASSUME NEW i \in Jobs PROVE ChangeInv(jobs[i])'
    <3>1. CASE i = j
      BY <1>1, <3>1 DEF ChangeInv
    <3>2. CASE i # j
      BY <1>1, <3>2 DEF Parts, ChangesInv, ChangeInv
    <3> QED
      BY <3>1, <3>2
  <2> QED
    BY <2>1 DEF ChangesInv
<1>5. VersionsDiffer' /\ PinsAreSound'
  BY <1>1 DEF Parts, OneMoves, VersionsDiffer, PinsAreSound, BytesBehindPins, PinsKeepTheirWord
<1> QED
  BY <1>1, <1>2, <1>3, <1>4, <1>5 DEF Parts

(* A change that goes on, with the pin it has.                              *)
LEMMA ChangeGoesOn ==
  ASSUME JobsTyped, StoreTyped, Parts, NEW j, NEW new, OneMoves(j, new),
         jobs[j].at \in Changing, new.at \in Changing, new.pin = jobs[j].pin,
         index' \subseteq index, raced' = raced
  PROVE  OneRecord' /\ OverlapsAreKnown'
<1>1. /\ jobs'[j] = new /\ \A i \in Jobs : i # j => jobs'[i] = jobs[i]
      /\ j \in Jobs
  BY OthersStay DEF OneMoves
<1>2. \A i \in Jobs : /\ jobs'[i].pin = jobs[i].pin
                      /\ jobs'[i].at \in Changing <=> jobs[i].at \in Changing
  BY <1>1
<1> QED
  BY <1>2 DEF Parts, OneRecord, SamePin, OverlapsAreKnown

-----------------------------------------------------------------------------
(* The requests.                                                            *)

Stored == StoreTyped /\ CommentsTyped
Keeps == JobsTyped' /\ Stored' /\ Parts'

LEMMA IdleTyped ==
  ASSUME PinsAssumption
  PROVE  /\ NoPin \in PinRecords /\ Idle \in JobRecords /\ Idle.at = "idle"
         /\ JobTyped(Idle) /\ JobTyped(Idle)'
<1>1. NoPin \in PinRecords
  BY DEF PinsAssumption, NoPin, PinRecords
<1>2. Idle \in JobRecords /\ Idle.at = "idle"
  BY <1>1 DEF PinsAssumption, Idle, JobRecords, Ops
<1> QED
  BY <1>1, <1>2 DEF JobTyped

(* The store is as it was.                                                  *)
LEMMA StoreStays ==
  ASSUME Stored, UNCHANGED <<index, blobs, comments, made, revoked, scoped>>,
         raced' \subseteq Bodies \union Families
  PROVE  Stored'
  BY DEF Stored, StoreTyped, CommentsTyped, Made

(* A request that comes to its end without writing.                         *)
LEMMA Ends ==
  ASSUME PinsAssumption, JobsTyped, Stored, Parts, NEW j \in Jobs, Done(j),
         UNCHANGED <<index, blobs, comments, made, revoked, scoped, raced>>
  PROVE  Keeps
<1>1. Stored'
  BY StoreStays DEF Stored, StoreTyped
<1>2. OneMoves(j, Idle)
  BY IdleTyped DEF Done, OneMoves, Stored, StoreTyped
<1>3. Idle.at \notin Changing
  BY IdleTyped
<1> QED
  BY <1>1, <1>2, <1>3, JobEnds DEF Keeps, Stored

LEMMA RequestKeeps ==
  ASSUME PinsAssumption, JobsTyped, Stored, Parts, NEW j \in Jobs, Request(j)
  PROVE  Keeps
<1>1. PICK op \in Ops, u \in Users, i \in 0..made.pins, s \in Scopes \union {Nothing} :
        /\ (op = "share") => s # Nothing
        /\ (op \notin {"pin", "share"}) => s = Nothing
        /\ (op = "pin") <=> (i = 0)
        /\ \E src \in Sources, b \in Bodies, c \in 0..made.comments :
             /\ op # "pin" => src = (CHOOSE x \in Sources : TRUE) /\ b = (CHOOSE x \in Bodies : TRUE)
             /\ (op = "uncomment") <=> (c # 0)
             /\ jobs' = [jobs EXCEPT ![j] = [Idle EXCEPT
                 !.at = "read", !.op = op, !.user = u, !.id = i, !.share = s, !.comment = c,
                 !.pin = IF op = "pin" THEN [NoPin EXCEPT !.family = <<u, src>>, !.body = b]
                                       ELSE NoPin]]
  BY Zenon DEF Request
<1>2. PICK src \in Sources, b \in Bodies, c \in 0..made.comments :
        jobs' = [jobs EXCEPT ![j] = [Idle EXCEPT
                 !.at = "read", !.op = op, !.user = u, !.id = i, !.share = s, !.comment = c,
                 !.pin = IF op = "pin" THEN [NoPin EXCEPT !.family = <<u, src>>, !.body = b]
                                       ELSE NoPin]]
  BY <1>1
<1> DEFINE pin == IF op = "pin" THEN [NoPin EXCEPT !.family = <<u, src>>, !.body = b] ELSE NoPin
           new == [Idle EXCEPT !.at = "read", !.op = op, !.user = u, !.id = i, !.share = s,
                               !.comment = c, !.pin = pin]
<1>3. pin \in PinRecords
  <2>1. NoPin \in PinRecords /\ <<u, src>> \in Families
    BY IdleTyped DEF Families
  <2> QED
    BY <2>1 DEF PinRecords
<1>4. op = "pin" => pin.family \in Families /\ pin.body \in Bodies
  BY DEF NoPin, Families
<1> HIDE DEF pin
<1>5. i \in 0..MaxPins /\ c \in 0..MaxComments
  BY DEF Stored, StoreTyped, PinsAssumption
<1>6. /\ new \in JobRecords /\ new.at = "read" /\ new.op = op /\ new.user = u
      /\ new.pin = pin /\ new.share = s
  BY <1>3, <1>5, IdleTyped DEF JobRecords
<1>7. jobs' = [jobs EXCEPT ![j] = new]
  BY <1>2 DEF pin
<1> HIDE DEF new
<1>8. JobTyped(new)'
  BY <1>1, <1>4, <1>6 DEF JobTyped
<1>9. UNCHANGED <<index, blobs, comments, made, revoked, scoped, raced>>
  BY DEF Request
<1>10. OneMoves(j, new)
  BY <1>7, <1>8, <1>9 DEF OneMoves, Stored, StoreTyped
<1>11. JobsTyped' /\ Parts'
  BY <1>6, <1>9, <1>10, JobEnds DEF Stored
<1>12. Stored'
  BY <1>9, StoreStays DEF Stored, StoreTyped
<1> QED
  BY <1>11, <1>12 DEF Keeps

(* A visit of a pin, its comments, and the end of a request that fails.     *)
LEMMA VisitKeeps ==
  ASSUME PinsAssumption, JobsTyped, Stored, Parts, NEW j \in Jobs,
         Visit(j) \/ Serve(j) \/ PersistFails(j) \/ Abort(j)
  PROVE  Keeps
<1>1. UNCHANGED <<index, blobs, comments, made, revoked, scoped, raced>>
  BY DEF Visit, Serve, PersistFails, Abort
<1>2. CASE Done(j)
  BY <1>1, <1>2, Ends
<1>3. CASE \E p \in index : jobs' = [jobs EXCEPT ![j].at = "visit", ![j].pin = p]
  <2>1. PICK p \in index : jobs' = [jobs EXCEPT ![j].at = "visit", ![j].pin = p]
    BY <1>3
  <2>2. Made(p) /\ jobs[j] \in JobRecords /\ JobTyped(jobs[j]) /\ jobs \in [Jobs -> JobRecords]
    BY DEF Stored, StoreTyped, JobsTyped
  <2>3. PICK new \in JobRecords :
          /\ new.at = "visit" /\ new.user = jobs[j].user /\ new.pin = p
          /\ jobs' = [jobs EXCEPT ![j] = new]
    <3> DEFINE moved == [jobs[j] EXCEPT !.at = "visit", !.pin = p]
    <3>1. /\ moved \in JobRecords /\ moved.at = "visit" /\ moved.user = jobs[j].user
          /\ moved.pin = p
      BY <2>2 DEF JobRecords, Made
    <3>2. jobs' = [jobs EXCEPT ![j] = moved]
      BY <2>1, <2>2 DEF JobRecords
    <3> QED
      BY <3>1, <3>2
  <2>4. CASE Visit(j)
    <3>1. Made(p)'
      BY <1>1, <2>2 DEF Made
    <3>2. JobTyped(new)'
      <4>1. jobs[j].at = "read" /\ jobs[j].user \in Users
        BY <2>2, <2>4 DEF Visit, JobTyped
      <4> QED
        BY <2>3, <3>1, <4>1 DEF JobTyped, Made
    <3>3. OneMoves(j, new)
      BY <1>1, <2>3, <3>2 DEF OneMoves, Stored, StoreTyped
    <3>4. JobsTyped' /\ Parts'
      BY <1>1, <2>3, <3>3, JobEnds DEF Stored
    <3>5. Stored'
      BY <1>1, StoreStays DEF Stored, StoreTyped
    <3> QED
      BY <3>4, <3>5 DEF Keeps
  <2>5. CASE ~ Visit(j)
    BY <1>2, <2>5 DEF Serve, PersistFails, Abort
  <2> QED
    BY <2>4, <2>5
<1> QED
  BY <1>2, <1>3 DEF Visit, Serve, PersistFails, Abort, Pins

LEMMA CommentKeeps ==
  ASSUME PinsAssumption, JobsTyped, Stored, Parts, NEW j \in Jobs,
         AddComment(j) \/ DeleteComment(j)
  PROVE  Keeps
<1>1. /\ Done(j) /\ UNCHANGED <<index, blobs, revoked, scoped, raced>>
      /\ made'.pins = made.pins /\ made.pins \in Nat
      /\ jobs[j].user \in Users /\ Made(jobs[j].pin)
  BY DEF AddComment, DeleteComment, Stored, StoreTyped, JobsTyped, JobTyped
<1>2. OneMoves(j, Idle)
  BY <1>1, IdleTyped DEF Done, OneMoves
<1>3. JobsTyped' /\ Parts'
  BY <1>1, <1>2, IdleTyped, JobEnds DEF Stored
<1>4. made' \in [pins : 0..MaxPins, comments : 0..MaxComments] /\ CommentsTyped'
  <2>1. CASE AddComment(j)
    <3>1. /\ made.comments \in Nat /\ made.comments < MaxComments /\ MaxComments \in Nat
          /\ jobs[j].pin.family \in Families
      BY <1>1, <2>1 DEF AddComment, Stored, StoreTyped, Made, PinsAssumption
    <3>2. made.comments + 1 \in 1..MaxComments /\ made.comments + 1 \in 0..MaxComments
      BY <3>1
    <3> QED
      BY <1>1, <2>1, <3>1, <3>2 DEF AddComment, Stored, StoreTyped, CommentsTyped
  <2>2. CASE DeleteComment(j)
    BY <2>2 DEF DeleteComment, Stored, StoreTyped, CommentsTyped
  <2> QED
    BY <2>1, <2>2
<1>5. StoreTyped'
  BY <1>1, <1>4 DEF Stored, StoreTyped, Made
<1> QED
  BY <1>3, <1>4, <1>5 DEF Keeps, Stored

(* A pin in the index can be changed: nothing stands against it but what    *)
(* overlaps.                                                                *)
LEMMA Changeable ==
  ASSUME JobsTyped, StoreTyped, Parts, NEW p \in index, NEW new,
         SamePin(new.pin, p), new.pin.id = p.id, new.pin.version = p.version,
         new.at \in {"persist", "delete"},
         new.op = "rename" => new.pin.scope = p.scope,
         raced \subseteq raced', UNCHANGED <<index, blobs, revoked, scoped>>
  PROVE  /\ \A q \in index : q.id = new.pin.id => SamePin(q, new.pin)
         /\ \A i \in Jobs : jobs[i].at \in Changing /\ jobs[i].pin.id = new.pin.id
                              => SamePin(jobs[i].pin, new.pin)
         /\ ChangeInv(new)'
<1>1. \A q \in index : q.id = new.pin.id => SamePin(q, new.pin)
  BY DEF Parts, OneRecord, SamePin
<1>2. \A i \in Jobs : jobs[i].at \in Changing /\ jobs[i].pin.id = new.pin.id
                        => SamePin(jobs[i].pin, new.pin)
  BY DEF Parts, OneRecord, SamePin
<1>3. \/ p.family \in raced'
      \/ \A q \in index : q.family = p.family /\ q.version = p.version => q.id = p.id
  BY DEF Parts, VersionsDiffer
<1>4. Raced(p)' \/ (p.id \notin revoked /\ p.scope = scoped[p.id] /\ p.body \in blobs)
  BY DEF Parts, PinsAreSound, BytesBehindPins, PinsKeepTheirWord, Raced
<1>5. Raced(p)' => Raced(new.pin)'
  BY DEF Raced, SamePin
<1>6. ChangeInv(new)'
  BY <1>3, <1>4, <1>5 DEF ChangeInv, SamePin
<1> QED
  BY <1>1, <1>2, <1>6

LEMMA RacingTyped ==
  ASSUME NEW j, NEW pin, pin.body \in Bodies, pin.family \in Families,
         raced \subseteq Bodies \union Families
  PROVE  raced \union Racing(j, pin) \subseteq Bodies \union Families
  BY DEF Racing

(* A change of a pin begins.                                                *)
LEMMA BeginsKeeps ==
  ASSUME PinsAssumption, JobsTyped, Stored, Parts, NEW j \in Jobs,
         NEW p \in index, NEW at \in {"persist", "delete"}, NEW scope \in Scopes,
         NEW renamed \in BOOLEAN,
         jobs[j].at = "read", jobs[j].op = "rename" => scope = p.scope,
         jobs' = [jobs EXCEPT ![j].at = at,
                              ![j].pin = [p EXCEPT !.scope = scope, !.renamed = renamed]],
         raced' = raced \union Racing(j, p),
         UNCHANGED <<index, blobs, comments, made, revoked, scoped>>
  PROVE  Keeps
<1>1. Made(p) /\ jobs \in [Jobs -> JobRecords] /\ JobTyped(jobs[j])
  BY DEF Stored, StoreTyped, JobsTyped
<1>2. PICK pin \in PinRecords :
        /\ pin = [p EXCEPT !.scope = scope, !.renamed = renamed]
        /\ pin.id = p.id /\ pin.family = p.family /\ pin.body = p.body
        /\ pin.version = p.version /\ pin.scope = scope
  <2> DEFINE shown == [p EXCEPT !.scope = scope, !.renamed = renamed]
  <2>1. shown \in PinRecords /\ shown.id = p.id /\ shown.family = p.family /\ shown.body = p.body
        /\ shown.version = p.version /\ shown.scope = scope
    BY <1>1 DEF Made, PinRecords
  <2> QED
    BY <2>1
<1>3. PICK new \in JobRecords :
        /\ new.at = at /\ new.pin = pin /\ new.op = jobs[j].op /\ new.user = jobs[j].user
        /\ jobs' = [jobs EXCEPT ![j] = new]
  <2> DEFINE moved == [jobs[j] EXCEPT !.at = at, !.pin = pin]
  <2>1. /\ moved \in JobRecords /\ moved.at = at /\ moved.pin = pin
        /\ moved.op = jobs[j].op /\ moved.user = jobs[j].user
    BY <1>1, <1>2 DEF JobRecords
  <2>2. jobs' = [jobs EXCEPT ![j] = moved]
    BY <1>1, <1>2 DEF JobRecords
  <2> QED
    BY <2>1, <2>2
<1>4. Made(pin)'
  BY <1>1, <1>2 DEF Made
<1>5. JobTyped(new)'
  BY <1>1, <1>3, <1>4 DEF JobTyped, Made
<1>6. raced \subseteq raced' /\ Racing(j, pin) = Racing(j, p)
  BY <1>2 DEF Racing, Busy
<1>7. OneMoves(j, new)
  <2>1. made'.pins \in Nat /\ made.pins <= made'.pins
    BY DEF Stored, StoreTyped
  <2> QED
    BY <1>3, <1>5, <1>6, <2>1, Zenon DEF OneMoves
<1>8. /\ \A q \in index : q.id = new.pin.id => SamePin(q, new.pin)
      /\ \A i \in Jobs : jobs[i].at \in Changing /\ jobs[i].pin.id = new.pin.id
                           => SamePin(jobs[i].pin, new.pin)
      /\ ChangeInv(new)'
  BY <1>2, <1>3, <1>6, Changeable DEF SamePin, Stored
<1>9. JobsTyped' /\ Parts'
  BY <1>3, <1>6, <1>7, <1>8, ChangeBegins DEF Stored
<1>10. Stored'
  <2>1. p.body \in Bodies /\ p.family \in Families /\ raced \subseteq Bodies \union Families
    BY <1>1 DEF Stored, StoreTyped, Made
  <2>2. raced' \subseteq Bodies \union Families
    BY <2>1, RacingTyped
  <2> QED
    BY <2>2, StoreStays DEF Stored, StoreTyped
<1> QED
  BY <1>9, <1>10 DEF Keeps

LEMMA ReadPinKeeps ==
  ASSUME PinsAssumption, JobsTyped, Stored, Parts, NEW j \in Jobs, ReadPin(j)
  PROVE  Keeps
<1>1. /\ UNCHANGED <<index, blobs, comments, made, revoked, scoped>>
      /\ jobs[j].at = "read" /\ jobs[j].op \in {"share", "rename", "unpin"}
  BY DEF ReadPin
<1>2. CASE Done(j) /\ UNCHANGED raced
  BY <1>1, <1>2, Ends
<1>3. CASE \E p \in index :
             /\ raced' = raced \union Racing(j, p)
             /\ jobs' = [jobs EXCEPT
                  ![j].at = IF jobs[j].op = "unpin" THEN "delete" ELSE "persist",
                  ![j].pin = CASE jobs[j].op = "share" -> [p EXCEPT !.scope = jobs[j].share]
                               [] jobs[j].op = "rename" -> [p EXCEPT !.renamed = TRUE]
                               [] OTHER -> p]
  <2>1. PICK p \in index :
             /\ raced' = raced \union Racing(j, p)
             /\ jobs' = [jobs EXCEPT
                  ![j].at = IF jobs[j].op = "unpin" THEN "delete" ELSE "persist",
                  ![j].pin = CASE jobs[j].op = "share" -> [p EXCEPT !.scope = jobs[j].share]
                               [] jobs[j].op = "rename" -> [p EXCEPT !.renamed = TRUE]
                               [] OTHER -> p]
    BY <1>3
  <2>2. /\ p \in PinRecords /\ p.scope \in Scopes /\ p.renamed \in BOOLEAN
        /\ jobs[j].op = "share" => jobs[j].share \in Scopes
    BY <1>1 DEF Stored, StoreTyped, Made, PinRecords, JobsTyped, JobTyped, JobRecords
  <2>3. CASE jobs[j].op = "share"
    <3>1. jobs' = [jobs EXCEPT ![j].at = "persist",
                    ![j].pin = [p EXCEPT !.scope = jobs[j].share, !.renamed = p.renamed]]
      <4>1. [p EXCEPT !.scope = jobs[j].share]
              = [p EXCEPT !.scope = jobs[j].share, !.renamed = p.renamed]
        BY <2>2 DEF PinRecords
      <4> QED
        BY <2>1, <2>3, <4>1
    <3> QED
      BY <1>1, <2>1, <2>2, <2>3, <3>1, BeginsKeeps
  <2>4. CASE jobs[j].op = "rename"
    <3>1. jobs' = [jobs EXCEPT ![j].at = "persist",
                    ![j].pin = [p EXCEPT !.scope = p.scope, !.renamed = TRUE]]
      <4>1. [p EXCEPT !.renamed = TRUE] = [p EXCEPT !.scope = p.scope, !.renamed = TRUE]
        BY <2>2 DEF PinRecords
      <4> QED
        BY <2>1, <2>4, <4>1
    <3> QED
      BY <1>1, <2>1, <2>2, <3>1, BeginsKeeps
  <2>5. CASE jobs[j].op = "unpin"
    <3>1. jobs' = [jobs EXCEPT ![j].at = "delete",
                    ![j].pin = [p EXCEPT !.scope = p.scope, !.renamed = p.renamed]]
      <4>1. p = [p EXCEPT !.scope = p.scope, !.renamed = p.renamed]
        BY <2>2 DEF PinRecords
      <4> QED
        BY <2>1, <2>5, <4>1
    <3> QED
      BY <1>1, <2>1, <2>2, <3>1, BeginsKeeps
  <2> QED
    BY <1>1, <2>3, <2>4, <2>5
<1> QED
  BY <1>2, <1>3 DEF ReadPin, Pins

(* A new version of a file, or a file that is pinned for the first time.    *)
NewPin(j, version, scope) ==
  jobs' = [jobs EXCEPT ![j].at = "put", ![j].pin.id = made.pins + 1,
                       ![j].pin.version = version, ![j].pin.scope = scope]

LEMMA NewPinKeeps ==
  ASSUME PinsAssumption, JobsTyped, Stored, Parts, NEW j \in Jobs,
         jobs[j].at = "read", jobs[j].op = "pin",
         NEW version, version = Newest({p \in index : p.family = jobs[j].pin.family}) + 1,
         NEW scope \in Scopes,
         made.pins < MaxPins, made' = [made EXCEPT !.pins = @ + 1],
         NewPin(j, version, scope),
         raced' = raced \union Racing(j, jobs[j].pin),
         UNCHANGED <<index, blobs, comments, revoked, scoped>>
  PROVE  Keeps
<1>1. /\ jobs \in [Jobs -> JobRecords] /\ JobTyped(jobs[j]) /\ jobs[j] \in JobRecords
      /\ jobs[j].pin \in PinRecords /\ jobs[j].user \in Users
      /\ jobs[j].pin.family \in Families /\ jobs[j].pin.body \in Bodies
  BY DEF JobsTyped, JobTyped, JobRecords
<1>2. /\ MaxPins \in Nat /\ made.pins \in Nat /\ made.pins + 1 \in 0..MaxPins
      /\ made'.pins = made.pins + 1
      /\ made' \in [pins : 0..MaxPins, comments : 0..MaxComments]
  <2>1. /\ MaxPins \in Nat /\ made \in [pins : 0..MaxPins, comments : 0..MaxComments]
        /\ made.pins \in 0..MaxPins
    BY DEF PinsAssumption, Stored, StoreTyped
  <2>2. made.pins \in Nat /\ made.pins + 1 \in 0..MaxPins
    BY <2>1
  <2> QED
    BY <2>1, <2>2
<1> DEFINE S == {p \in index : p.family = jobs[j].pin.family}
<1>3. Newest(S) \in 0..made.pins /\ \A p \in S : p.version <= Newest(S)
  <2>1. \A p \in S : p.version \in 0..made.pins
    <3>1. ASSUME NEW p \in S PROVE p.version \in 0..made.pins
      <4>1. Made(p)
        BY DEF Stored, StoreTyped
      <4>2. p.version \in 0..MaxPins /\ p.version <= made.pins
        BY <4>1 DEF Made, PinRecords
      <4> QED
        BY <1>2, <4>2
    <3> QED
      BY <3>1
  <2> HIDE DEF S
  <2> QED
    BY <1>2, <2>1, NewestIsGreatest
<1>4. /\ version \in 0..MaxPins /\ version <= made'.pins
      /\ \A p \in index : p.family = jobs[j].pin.family => p.version # version
  <2>1. \A p \in S : p.version # version
    <3>1. \A p \in S : p.version \in Nat
      BY <1>2 DEF Stored, StoreTyped, Made, PinRecords
    <3> QED
      BY <1>3, <3>1
  <2> QED
    BY <1>2, <1>3, <2>1
<1>5. PICK pin \in PinRecords :
        /\ pin = [jobs[j].pin EXCEPT !.id = made.pins + 1, !.version = version, !.scope = scope]
        /\ pin.id = made.pins + 1 /\ pin.family = jobs[j].pin.family
        /\ pin.body = jobs[j].pin.body /\ pin.version = version /\ pin.scope = scope
  <2> DEFINE new == [jobs[j].pin EXCEPT !.id = made.pins + 1, !.version = version,
                                        !.scope = scope]
  <2>1. /\ new \in PinRecords
        /\ new.id = made.pins + 1 /\ new.family = jobs[j].pin.family
        /\ new.body = jobs[j].pin.body /\ new.version = version /\ new.scope = scope
    BY <1>1, <1>2, <1>4 DEF PinRecords
  <2> QED
    BY <2>1
<1>6. PICK new \in JobRecords :
        /\ new.at = "put" /\ new.pin = pin /\ new.op = jobs[j].op /\ new.user = jobs[j].user
        /\ jobs' = [jobs EXCEPT ![j] = new]
  <2> DEFINE moved == [jobs[j] EXCEPT !.at = "put", !.pin = pin]
  <2>1. /\ moved \in JobRecords /\ moved.at = "put" /\ moved.pin = pin
        /\ moved.op = jobs[j].op /\ moved.user = jobs[j].user
    BY <1>1, <1>5 DEF JobRecords
  <2>2. jobs' = [jobs EXCEPT ![j] = [jobs[j] EXCEPT !.at = "put",
                   !.pin = [jobs[j].pin EXCEPT !.id = made.pins + 1, !.version = version,
                                               !.scope = scope]]]
    BY Zenon DEF NewPin
  <2>3. jobs' = [jobs EXCEPT ![j] = moved]
    BY <1>5, <2>2
  <2> QED
    BY <2>1, <2>3
<1>7. Made(pin)'
  BY <1>1, <1>2, <1>4, <1>5 DEF Made
<1>8. JobTyped(new)'
  BY <1>1, <1>6, <1>7 DEF JobTyped, Made
<1>9. raced \subseteq raced' /\ Racing(j, pin) = Racing(j, jobs[j].pin)
  BY <1>5 DEF Racing, Busy
<1>10. OneMoves(j, new)
  <2>1. made'.pins \in Nat /\ made.pins <= made'.pins
    BY <1>2
  <2> QED
    BY <1>6, <1>8, <1>9, <2>1, Zenon DEF OneMoves
<1>11. /\ \A q \in index : q.id # pin.id
       /\ \A i \in Jobs : jobs[i].at \in Changing => jobs[i].pin.id # pin.id
       /\ pin.id \notin revoked
  <2>1. \A q : Made(q) => q.id # pin.id
    BY <1>2, <1>5 DEF Made
  <2> QED
    BY <1>2, <1>5, <2>1 DEF Stored, StoreTyped, JobsTyped, JobTyped
<1>12. ChangeInv(new)'
  BY <1>4, <1>5, <1>6, <1>11 DEF ChangeInv
<1>13. JobsTyped' /\ Parts'
  BY <1>6, <1>9, <1>10, <1>11, <1>12, ChangeBegins DEF Stored
<1>14. Stored'
  <2>1. raced' \subseteq Bodies \union Families
    BY <1>1, RacingTyped DEF Stored, StoreTyped
  <2>2. \A p \in index : Made(p)'
    <3>1. ASSUME NEW p \in index PROVE Made(p)'
      <4>1. Made(p) /\ p.id \in Nat /\ p.version \in Nat
        BY <1>2 DEF Stored, StoreTyped, Made, PinRecords
      <4> QED
        BY <1>2, <4>1 DEF Made
    <3> QED
      BY <3>1
  <2>3. revoked \subseteq 1..made'.pins
    BY <1>2 DEF Stored, StoreTyped
  <2> QED
    BY <1>2, <2>1, <2>2, <2>3 DEF Stored, StoreTyped, CommentsTyped
<1> QED
  BY <1>13, <1>14 DEF Keeps

LEMMA ReadPinsKeeps ==
  ASSUME PinsAssumption, JobsTyped, Stored, Parts, NEW j \in Jobs, ReadPins(j)
  PROVE  Keeps
<1> DEFINE req == jobs[j]
           same == {p \in index : p.family = req.pin.family /\ p.body = req.pin.body}
<1>1. /\ UNCHANGED <<index, blobs, comments, revoked, scoped>>
      /\ req.at = "read" /\ req.op = "pin"
  BY DEF ReadPins
<1>2. CASE Done(j) /\ UNCHANGED <<made, raced>>
  BY <1>1, <1>2, Ends
<1>3. CASE /\ ~ (same # {} /\ req.share = Nothing)
           /\ raced' = raced \union Racing(j, req.pin)
           /\ same # {}
           /\ \E p \in same : jobs' = [jobs EXCEPT ![j].at = "persist",
                ![j].pin = [p EXCEPT !.scope = req.share]]
           /\ UNCHANGED made
  <2>1. PICK p \in index : /\ p.family = req.pin.family /\ p.body = req.pin.body
                           /\ jobs' = [jobs EXCEPT ![j].at = "persist",
                                ![j].pin = [p EXCEPT !.scope = req.share]]
    BY <1>3
  <2>2. p \in PinRecords /\ p.renamed \in BOOLEAN /\ req.share \in Scopes
    BY <1>3 DEF Stored, StoreTyped, Made, PinRecords, JobsTyped, JobRecords
  <2>3. jobs' = [jobs EXCEPT ![j].at = "persist",
                  ![j].pin = [p EXCEPT !.scope = req.share, !.renamed = p.renamed]]
    <3>1. [p EXCEPT !.scope = req.share] = [p EXCEPT !.scope = req.share, !.renamed = p.renamed]
      BY <2>2 DEF PinRecords
    <3> QED
      BY <2>1, <3>1
  <2>4. Racing(j, p) = Racing(j, req.pin)
    BY <2>1 DEF Racing, Busy
  <2> QED
    BY <1>1, <1>3, <2>2, <2>3, <2>4, BeginsKeeps
<1>4. CASE /\ raced' = raced \union Racing(j, req.pin)
           /\ made.pins < MaxPins
           /\ made' = [made EXCEPT !.pins = @ + 1]
           /\ jobs' = [jobs EXCEPT ![j].at = "put",
                ![j].pin.id = made.pins + 1,
                ![j].pin.version = Newest({p \in index : p.family = req.pin.family}) + 1,
                ![j].pin.scope = IF req.share = Nothing THEN "private" ELSE req.share]
  <2>1. (IF req.share = Nothing THEN "private" ELSE req.share) \in Scopes
    BY DEF JobsTyped, JobRecords, PinsAssumption
  <2> QED
    BY <1>1, <1>4, <2>1, NewPinKeeps DEF NewPin
<1> QED
  BY <1>2, <1>3, <1>4 DEF ReadPins

-----------------------------------------------------------------------------
(* The writes of a change.                                                  *)

(* What a change of the pin p leaves to one that does not overlap it.       *)
LEMMA Apart ==
  ASSUME Parts, NEW i \in Jobs, NEW j \in Jobs, i # j,
         jobs[i].at \in Changing, jobs[j].at \in Changing
  PROVE  /\ jobs[i].pin.body \in raced \/ jobs[i].pin.body # jobs[j].pin.body
         /\ jobs[i].pin.family \in raced \/ jobs[i].pin.family # jobs[j].pin.family
         /\ Raced(jobs[i].pin) \/ jobs[i].pin.id # jobs[j].pin.id
  BY DEF Parts, OverlapsAreKnown, OneRecord, SamePin, Raced

(* The request of a change that is over, or goes on with the same pin.      *)
LEMMA GoesOnOrEnds ==
  ASSUME PinsAssumption, JobsTyped, Stored, Parts, NEW j \in Jobs, jobs[j].at \in Changing,
         \/ Done(j)
         \/ \E at \in Changing \ {"put"} : jobs' = [jobs EXCEPT ![j].at = at],
         raced' = raced, made' = made
  PROVE  /\ JobsTyped'
         /\ \A i \in Jobs : i # j => jobs'[i] = jobs[i]
         /\ jobs'[j].at \in Changing => jobs'[j] = [jobs[j] EXCEPT !.at = jobs'[j].at]
         /\ \A i \in Jobs : jobs'[i].at \in Changing
              => jobs[i].at \in Changing /\ jobs'[i].pin = jobs[i].pin
         /\ OverlapsAreKnown'
<1>1. PICK new : /\ new \in JobRecords /\ jobs' = [jobs EXCEPT ![j] = new] /\ JobTyped(new)'
                 /\ new.at \in Changing => new = [jobs[j] EXCEPT !.at = new.at]
                                           /\ new.pin = jobs[j].pin
  <2>1. CASE Done(j)
    BY <2>1, IdleTyped DEF Done
  <2>2. CASE \E at \in Changing \ {"put"} : jobs' = [jobs EXCEPT ![j].at = at]
    <3>1. PICK at \in Changing \ {"put"} : jobs' = [jobs EXCEPT ![j].at = at]
      BY <2>2
    <3>2. jobs[j] \in JobRecords /\ JobTyped(jobs[j])
      BY DEF JobsTyped
    <3>3. PICK new : new = [jobs[j] EXCEPT !.at = at]
      OBVIOUS
    <3>4. /\ new \in JobRecords /\ new.at = at /\ new.pin = jobs[j].pin
          /\ new.user = jobs[j].user
      BY <3>2, <3>3 DEF JobRecords
    <3>5. Made(new.pin)' /\ new.user \in Users
      BY <3>2, <3>4 DEF JobTyped, Made
    <3>6. JobTyped(new)'
      BY <3>4, <3>5 DEF JobTyped, Made
    <3> QED
      BY <3>1, <3>3, <3>4, <3>6
  <2> QED
    BY <2>1, <2>2
<1>2. OneMoves(j, new)
  <2>1. made'.pins \in Nat /\ made.pins <= made'.pins /\ raced \subseteq raced'
    BY DEF Stored, StoreTyped
  <2> QED
    BY <1>1, <2>1, Zenon DEF OneMoves
<1>3. JobsTyped' /\ jobs'[j] = new /\ \A i \in Jobs : i # j => jobs'[i] = jobs[i]
  BY <1>2, OthersStay DEF Stored
<1>4. \A i \in Jobs : jobs'[i].at \in Changing
        => jobs[i].at \in Changing /\ jobs'[i].pin = jobs[i].pin
  BY <1>1, <1>3
<1>5. OverlapsAreKnown'
  BY <1>4 DEF Parts, OverlapsAreKnown
<1> QED
  BY <1>1, <1>3, <1>4, <1>5

LEMMA PutBytesKeeps ==
  ASSUME PinsAssumption, JobsTyped, Stored, Parts, NEW j \in Jobs, PutBytes(j)
  PROVE  Keeps
<1>1. /\ jobs[j].at = "put" /\ jobs' = [jobs EXCEPT ![j].at = "persist"]
      /\ blobs' = blobs \union {jobs[j].pin.body}
      /\ UNCHANGED <<index, comments, made, revoked, scoped, raced>>
  BY DEF PutBytes
<1>2. /\ jobs[j] \in JobRecords /\ Made(jobs[j].pin)
  BY <1>1 DEF JobsTyped, JobTyped
<1>3. /\ JobsTyped' /\ OverlapsAreKnown'
      /\ \A i \in Jobs : i # j => jobs'[i] = jobs[i]
      /\ \A i \in Jobs : jobs'[i].at \in Changing
           => jobs[i].at \in Changing /\ jobs'[i].pin = jobs[i].pin
  <2>1. \E at \in Changing \ {"put"} : jobs' = [jobs EXCEPT ![j].at = at]
    BY <1>1
  <2>2. raced' = raced /\ made' = made /\ jobs[j].at \in Changing
    BY <1>1
  <2> QED
    BY <2>1, <2>2, GoesOnOrEnds
<1>4. Stored'
  BY <1>1, <1>2 DEF Stored, StoreTyped, CommentsTyped, Made
<1>5. OneRecord' /\ VersionsDiffer' /\ PinsAreSound'
  BY <1>1, <1>3 DEF Parts, OneRecord, SamePin, VersionsDiffer, PinsAreSound, BytesBehindPins,
                    PinsKeepTheirWord, Raced
<1>6. ChangesInv'
  <2>1. /\ jobs'[j].at = "persist" /\ jobs'[j].pin = jobs[j].pin /\ jobs'[j].op = jobs[j].op
    BY <1>1, <1>2 DEF JobsTyped, JobRecords
  <2>2. jobs[j].op # "rename"
    BY <1>1 DEF JobsTyped, JobTyped
  <2> QED
    BY <1>1, <1>3, <2>1, <2>2 DEF Parts, ChangesInv, ChangeInv, Raced
<1> QED
  BY <1>3, <1>4, <1>5, <1>6 DEF Keeps, Parts

LEMMA PersistKeeps ==
  ASSUME PinsAssumption, JobsTyped, Stored, Parts, NEW j \in Jobs, Persist(j)
  PROVE  Keeps
<1>1. /\ jobs[j].at = "persist" /\ Done(j) /\ index' = Put(jobs[j].pin)
      /\ UNCHANGED <<blobs, comments, made, revoked, raced>>
      /\ scoped' = IF jobs[j].op = "rename" THEN scoped
                   ELSE [scoped EXCEPT ![jobs[j].pin.id] = jobs[j].pin.scope]
  BY DEF Persist
<1>2. PICK pin : pin = jobs[j].pin
  OBVIOUS
<1>3. /\ Made(pin) /\ pin \in PinRecords /\ pin.id \in PinIds /\ pin.scope \in Scopes
  <2>1. Made(pin) /\ pin \in PinRecords /\ pin.scope \in Scopes
    BY <1>1, <1>2 DEF JobsTyped, JobTyped, Made, PinRecords
  <2>2. made.pins \in 0..MaxPins /\ MaxPins \in Nat /\ pin.id \in 1..made.pins
    BY <2>1 DEF Stored, StoreTyped, PinsAssumption, Made
  <2> QED
    BY <2>1, <2>2 DEF PinIds
<1>4. index' = {p \in index : p.id # pin.id} \union {pin}
  BY <1>1, <1>2 DEF Put, Pins
<1>5. /\ JobsTyped' /\ OverlapsAreKnown'
      /\ \A i \in Jobs : i # j => jobs'[i] = jobs[i]
      /\ \A i \in Jobs : jobs'[i].at \in Changing
           => i # j /\ jobs[i].at \in Changing /\ jobs'[i] = jobs[i]
  <2>1. /\ JobsTyped' /\ OverlapsAreKnown'
        /\ \A i \in Jobs : i # j => jobs'[i] = jobs[i]
        /\ \A i \in Jobs : jobs'[i].at \in Changing
             => jobs[i].at \in Changing /\ jobs'[i].pin = jobs[i].pin
    BY <1>1, GoesOnOrEnds
  <2>2. jobs'[j].at = "idle"
    BY <1>1, IdleTyped DEF Done, JobsTyped
  <2> QED
    BY <2>1, <2>2
<1>6. /\ scoped' \in [PinIds -> Scopes \union {Nothing}]
      /\ \A x \in PinIds : x # pin.id => scoped'[x] = scoped[x]
      /\ jobs[j].op # "rename" => scoped'[pin.id] = pin.scope
      /\ jobs[j].op = "rename" => scoped' = scoped
  BY <1>1, <1>2, <1>3 DEF Stored, StoreTyped
<1>7. Stored'
  <2>1. \A p \in index' : Made(p)'
    BY <1>1, <1>3, <1>4 DEF Stored, StoreTyped, Made
  <2> QED
    BY <1>1, <1>6, <2>1 DEF Stored, StoreTyped, CommentsTyped
(* What stands in the index for the pin, and for the others.                *)
<1>8. \A p \in index : p.id \in PinIds
  <2>1. \A p \in index : p.id \in 1..made.pins
    BY DEF Stored, StoreTyped, Made
  <2>2. made.pins \in 0..MaxPins /\ MaxPins \in Nat
    BY DEF Stored, StoreTyped, PinsAssumption
  <2> QED
    BY <2>1, <2>2 DEF PinIds
<1>9. ChangeInv(jobs[j])
  BY DEF Parts, ChangesInv
<1>10. OneRecord'
  <2>1. \A p, q \in index' : p.id = q.id => p = q
    BY <1>4 DEF Parts, OneRecord
  <2>2. ASSUME NEW i \in Jobs, jobs'[i].at \in Changing
        PROVE  \A p \in index' : p.id = jobs'[i].pin.id => SamePin(p, jobs'[i].pin)
    BY <1>1, <1>2, <1>4, <1>5, <2>2 DEF Parts, OneRecord, SamePin
  <2>3. \A i, k \in Jobs :
          jobs'[k].at \in Changing /\ jobs'[i].at \in Changing /\ jobs'[i].pin.id = jobs'[k].pin.id
            => SamePin(jobs'[i].pin, jobs'[k].pin)
    BY <1>5 DEF Parts, OneRecord
  <2> QED
    BY <2>1, <2>2, <2>3 DEF OneRecord, SamePin
<1>11. VersionsDiffer'
  <2>1. \A q \in index : q.family = pin.family /\ q.version = pin.version
                           => q.id = pin.id \/ pin.family \in raced
    BY <1>1, <1>2, <1>9 DEF ChangeInv
  <2> QED
    BY <1>1, <1>4, <2>1 DEF Parts, VersionsDiffer
<1>12. ChangesInv'
  <2>1. ASSUME NEW i \in Jobs, jobs'[i].at \in Changing PROVE ChangeInv(jobs[i])'
    <3>1. /\ i # j /\ jobs[i].at \in Changing /\ jobs'[i] = jobs[i] /\ ChangeInv(jobs[i])
          /\ jobs[i].pin.id \in PinIds
      <4>1. jobs[i].pin.id \in 1..made.pins /\ made.pins \in 0..MaxPins /\ MaxPins \in Nat
        BY <1>5, <2>1 DEF Stored, StoreTyped, PinsAssumption, JobsTyped, JobTyped, Made
      <4> QED
        BY <1>5, <2>1, <4>1 DEF Parts, ChangesInv, PinIds
    <3>2. /\ jobs[i].pin.body \in raced \/ jobs[i].pin.body # pin.body
          /\ jobs[i].pin.family \in raced \/ jobs[i].pin.family # pin.family
          /\ Raced(jobs[i].pin) \/ jobs[i].pin.id # pin.id
      BY <1>1, <1>2, <3>1, Apart
    <3> QED
      BY <1>1, <1>4, <1>6, <3>1, <3>2 DEF ChangeInv, Raced
  <2> QED
    BY <2>1 DEF ChangesInv, ChangeInv
<1>13. PinsAreSound'
  <2>1. ASSUME NEW p \in index'
        PROVE  \/ Raced(p)
               \/ p.body \in blobs' /\ p.id \notin revoked' /\ p.scope = scoped'[p.id]
    <3>1. CASE p = pin
      BY <1>1, <1>2, <1>6, <1>9, <3>1 DEF ChangeInv
    <3>2. CASE p \in index /\ p.id # pin.id
      BY <1>1, <1>6, <1>8, <3>2
         DEF Parts, PinsAreSound, BytesBehindPins, PinsKeepTheirWord
    <3> QED
      BY <1>4, <3>1, <3>2
  <2> QED
    BY <1>1, <1>11, <2>1
       DEF PinsAreSound, BytesBehindPins, PinsKeepTheirWord, VersionsDiffer, Raced
<1> QED
  BY <1>5, <1>7, <1>10, <1>11, <1>12, <1>13 DEF Keeps, Parts

(* deletePin: the record, the search for other references, the bytes.       *)
LEMMA DeleteRecordKeeps ==
  ASSUME PinsAssumption, JobsTyped, Stored, Parts, NEW j \in Jobs, DeleteRecord(j)
  PROVE  Keeps
<1>1. /\ jobs[j].at = "delete" /\ jobs' = [jobs EXCEPT ![j].at = "scan"]
      /\ index' = {p \in index : p.id # jobs[j].pin.id}
      /\ UNCHANGED <<blobs, comments, made, revoked, scoped, raced>>
  BY DEF DeleteRecord, Pins
<1>2. /\ JobsTyped' /\ OverlapsAreKnown'
      /\ \A i \in Jobs : i # j => jobs'[i] = jobs[i]
      /\ \A i \in Jobs : jobs'[i].at \in Changing
           => jobs[i].at \in Changing /\ jobs'[i].pin = jobs[i].pin
  <2>1. \E at \in Changing \ {"put"} : jobs' = [jobs EXCEPT ![j].at = at]
    BY <1>1
  <2>2. raced' = raced /\ made' = made /\ jobs[j].at \in Changing
    BY <1>1
  <2> QED
    BY <2>1, <2>2, GoesOnOrEnds
<1>3. Stored'
  BY <1>1 DEF Stored, StoreTyped, CommentsTyped, Made
<1>4. OneRecord' /\ VersionsDiffer' /\ PinsAreSound'
  BY <1>1, <1>2 DEF Parts, OneRecord, SamePin, VersionsDiffer, PinsAreSound, BytesBehindPins,
                    PinsKeepTheirWord, Raced
<1>5. ChangesInv'
  <2>1. jobs'[j].at = "scan" /\ jobs'[j].pin = jobs[j].pin
    BY <1>1 DEF JobsTyped, JobRecords
  <2>2. ChangeInv(jobs[j])'
    BY <1>1, <2>1 DEF ChangeInv
  <2>3. ASSUME NEW i \in Jobs, i # j PROVE ChangeInv(jobs[i])'
    BY <1>1, <1>2, <2>3 DEF Parts, ChangesInv, ChangeInv, Raced
  <2> QED
    BY <2>2, <2>3 DEF ChangesInv
<1> QED
  BY <1>2, <1>3, <1>4, <1>5 DEF Keeps, Parts

(* A link is revoked when its record is gone: no record has its name, or    *)
(* changes of it overlapped.                                                *)
LEMMA RevokesOnlyGone ==
  ASSUME Parts, NEW j \in Jobs, jobs[j].at \in {"scan", "purge"},
         NEW p \in index, p.id = jobs[j].pin.id
  PROVE  Raced(p)
<1>1. Raced(jobs[j].pin)
  BY DEF Parts, ChangesInv, ChangeInv
<1>2. SamePin(p, jobs[j].pin)
  BY DEF Parts, OneRecord
<1> QED
  BY <1>1, <1>2 DEF SamePin, Raced

LEMMA ScanKeeps ==
  ASSUME PinsAssumption, JobsTyped, Stored, Parts, NEW j \in Jobs, Scan(j)
  PROVE  Keeps
<1> DEFINE used == \E p \in index : p.body = jobs[j].pin.body
<1>1. /\ jobs[j].at = "scan"
      /\ jobs' = [jobs EXCEPT ![j] = IF used THEN Idle ELSE [@ EXCEPT !.at = "purge"]]
      /\ revoked' = IF used THEN revoked \union {jobs[j].pin.id} ELSE revoked
      /\ UNCHANGED <<index, blobs, comments, made, scoped, raced>>
  BY DEF Scan
<1>2. /\ JobsTyped' /\ OverlapsAreKnown'
      /\ \A i \in Jobs : i # j => jobs'[i] = jobs[i]
      /\ \A i \in Jobs : jobs'[i].at \in Changing
           => jobs[i].at \in Changing /\ jobs'[i].pin = jobs[i].pin
  <2>1. used => Done(j)
    BY <1>1 DEF Done
  <2>2. ~ used => \E at \in Changing \ {"put"} : jobs' = [jobs EXCEPT ![j].at = at]
    BY <1>1
  <2>3. raced' = raced /\ made' = made /\ jobs[j].at \in Changing
    BY <1>1
  <2> QED
    BY <2>1, <2>2, <2>3, GoesOnOrEnds
<1>3. Stored'
  <2>1. jobs[j].pin.id \in 1..made.pins
    BY <1>1 DEF JobsTyped, JobTyped, Made
  <2> QED
    BY <1>1, <2>1 DEF Stored, StoreTyped, CommentsTyped, Made
<1>4. OneRecord' /\ VersionsDiffer'
  BY <1>1, <1>2 DEF Parts, OneRecord, SamePin, VersionsDiffer
<1>5. PinsAreSound'
  BY <1>1, RevokesOnlyGone
     DEF Parts, PinsAreSound, BytesBehindPins, PinsKeepTheirWord, Raced
<1>6. ChangesInv'
  <2>1. ChangeInv(jobs[j])'
    <3>1. CASE used
      BY <1>1, <3>1, IdleTyped DEF ChangeInv, JobsTyped
    <3>2. CASE ~ used
      <4>1. jobs'[j].at = "purge" /\ jobs'[j].pin = jobs[j].pin
        BY <1>1, <3>2 DEF JobsTyped, JobRecords
      <4> QED
        BY <1>1, <3>2, <4>1 DEF Parts, ChangesInv, ChangeInv, Raced
    <3> QED
      BY <3>1, <3>2
  <2>2. ASSUME NEW i \in Jobs, i # j, jobs[i].at \in Changing PROVE ChangeInv(jobs[i])'
    <3>1. Raced(jobs[i].pin) \/ jobs[i].pin.id # jobs[j].pin.id
      BY <1>1, <2>2, Apart
    <3>2. ChangeInv(jobs[i])
      BY DEF Parts, ChangesInv
    <3> QED
      BY <1>1, <1>2, <2>2, <3>1, <3>2 DEF ChangeInv, Raced
  <2>3. \A i \in Jobs : i # j /\ jobs[i].at \notin Changing => ChangeInv(jobs[i])'
    BY <1>2 DEF ChangeInv
  <2> QED
    BY <2>1, <2>2, <2>3 DEF ChangesInv
<1> QED
  BY <1>2, <1>3, <1>4, <1>5, <1>6 DEF Keeps, Parts

LEMMA PurgeKeeps ==
  ASSUME PinsAssumption, JobsTyped, Stored, Parts, NEW j \in Jobs, Purge(j)
  PROVE  Keeps
<1>1. /\ jobs[j].at = "purge" /\ Done(j)
      /\ blobs' = blobs \ {jobs[j].pin.body} /\ revoked' = revoked \union {jobs[j].pin.id}
      /\ UNCHANGED <<index, comments, made, scoped, raced>>
  BY DEF Purge
<1>2. /\ JobsTyped' /\ OverlapsAreKnown'
      /\ \A i \in Jobs : i # j => jobs'[i] = jobs[i]
      /\ \A i \in Jobs : jobs'[i].at \in Changing
           => jobs[i].at \in Changing /\ jobs'[i].pin = jobs[i].pin
  BY <1>1, GoesOnOrEnds
<1>3. Stored'
  <2>1. jobs[j].pin.id \in 1..made.pins
    BY <1>1 DEF JobsTyped, JobTyped, Made
  <2> QED
    BY <1>1, <2>1 DEF Stored, StoreTyped, CommentsTyped, Made
<1>4. OneRecord' /\ VersionsDiffer'
  BY <1>1, <1>2 DEF Parts, OneRecord, SamePin, VersionsDiffer
<1>5. PinsAreSound'
  <2>1. \A p \in index : p.body = jobs[j].pin.body => p.body \in raced
    BY <1>1 DEF Parts, ChangesInv, ChangeInv
  <2>2. BytesBehindPins'
    BY <1>1, <2>1 DEF Parts, PinsAreSound, BytesBehindPins, Raced
  <2>3. PinsKeepTheirWord'
    BY <1>1, RevokesOnlyGone DEF Parts, PinsAreSound, PinsKeepTheirWord, Raced
  <2> QED
    BY <2>2, <2>3 DEF PinsAreSound
<1>6. ChangesInv'
  <2>1. ASSUME NEW i \in Jobs, jobs'[i].at \in Changing PROVE ChangeInv(jobs[i])'
    <3>1. i # j /\ jobs[i].at \in Changing /\ jobs'[i] = jobs[i] /\ ChangeInv(jobs[i])
      <4>1. jobs'[j].at = "idle"
        BY <1>1, IdleTyped DEF Done, JobsTyped
      <4> QED
        BY <1>2, <2>1, <4>1 DEF Parts, ChangesInv
    <3>2. /\ jobs[i].pin.body \in raced \/ jobs[i].pin.body # jobs[j].pin.body
          /\ Raced(jobs[i].pin) \/ jobs[i].pin.id # jobs[j].pin.id
      BY <1>1, <3>1, Apart
    <3> QED
      BY <1>1, <3>1, <3>2 DEF ChangeInv, Raced
  <2> QED
    BY <2>1 DEF ChangesInv, ChangeInv
<1> QED
  BY <1>2, <1>3, <1>4, <1>5, <1>6 DEF Keeps, Parts

-----------------------------------------------------------------------------
(* The initial states satisfy the invariant.                                *)
LEMMA PinsInit == ASSUME PinsAssumption PROVE Init => PinsInv
<1> SUFFICES ASSUME Init PROVE PinsInv
  OBVIOUS
<1>1. \A j \in Jobs : jobs[j] = Idle /\ jobs[j].at = "idle"
  BY IdleTyped DEF Init
<1>2. JobsTyped
  <2>1. jobs \in [Jobs -> JobRecords]
    BY IdleTyped DEF Init
  <2> QED
    BY <1>1, <2>1, IdleTyped DEF JobsTyped
<1>3. StoreTyped /\ CommentsTyped
  <2>1. /\ made \in [pins : 0..MaxPins, comments : 0..MaxComments]
        /\ scoped \in [PinIds -> Scopes \union {Nothing}]
    BY DEF Init, PinsAssumption
  <2> QED
    BY <2>1 DEF Init, StoreTyped, CommentsTyped
<1>4. /\ OneRecord /\ OverlapsAreKnown /\ VersionsDiffer /\ PinsAreSound /\ ChangesInv
  BY <1>1 DEF Init, OneRecord, OverlapsAreKnown, VersionsDiffer, ChangesInv, ChangeInv,
              PinsAreSound, BytesBehindPins, PinsKeepTheirWord
<1> QED
  BY <1>2, <1>3, <1>4 DEF PinsInv

(* The invariant is inductive.                                              *)
LEMMA PinsNext ==
  ASSUME PinsAssumption, PinsInv, [Next]_vars
  PROVE  PinsInv'
<1>1. JobsTyped /\ Stored /\ Parts
  BY DEF PinsInv, Stored, Parts
<1>2. Keeps => PinsInv'
  BY DEF Keeps, Stored, Parts, PinsInv
<1>3. ASSUME UNCHANGED vars PROVE PinsInv'
  BY <1>3 DEF vars, PinsInv, JobsTyped, JobTyped, StoreTyped, CommentsTyped, Made, OneRecord,
              OverlapsAreKnown, VersionsDiffer, ChangesInv, ChangeInv, PinsAreSound,
              BytesBehindPins, PinsKeepTheirWord, Raced
<1>4. ASSUME NEW j \in Jobs, Request(j) PROVE Keeps
  BY <1>1, <1>4, RequestKeeps
<1>5. ASSUME NEW j \in Jobs, ReadPins(j) \/ ReadPin(j) PROVE Keeps
  BY <1>1, <1>5, ReadPinsKeeps, ReadPinKeeps
<1>6. ASSUME NEW j \in Jobs, PutBytes(j) \/ Persist(j) PROVE Keeps
  BY <1>1, <1>6, PutBytesKeeps, PersistKeeps
<1>7. ASSUME NEW j \in Jobs, DeleteRecord(j) \/ Scan(j) \/ Purge(j) PROVE Keeps
  BY <1>1, <1>7, DeleteRecordKeeps, ScanKeeps, PurgeKeeps
<1>8. ASSUME NEW j \in Jobs, Visit(j) \/ Serve(j) \/ PersistFails(j) \/ Abort(j) PROVE Keeps
  BY <1>1, <1>8, VisitKeeps
<1>9. ASSUME NEW j \in Jobs, AddComment(j) \/ DeleteComment(j) PROVE Keeps
  BY <1>1, <1>9, CommentKeeps
<1>10. ASSUME NEW b \in Bodies, Published(b) PROVE PinsInv'
  BY <1>10 DEF Published, PinsInv, JobsTyped, JobTyped, StoreTyped, CommentsTyped, Made,
               OneRecord, OverlapsAreKnown, VersionsDiffer, ChangesInv, ChangeInv, PinsAreSound,
               BytesBehindPins, PinsKeepTheirWord, Raced
<1> QED
  BY <1>2, <1>3, <1>4, <1>5, <1>6, <1>7, <1>8, <1>9, <1>10 DEF Next, Steps, Faults, Beside

(* The pins have the types the module declares.                             *)
THEOREM PinsTypeCorrect == ASSUME PinsAssumption PROVE Spec => []TypeOK
<1>1. PinsInv => TypeOK
  BY TypeParts DEF PinsInv
<1>2. PinsInv /\ [Next]_vars => PinsInv'
  BY PinsNext
<1>3. Init => PinsInv
  BY PinsInit
<1> QED
  BY <1>1, <1>2, <1>3, PTL DEF Spec

(* What is pinned can be opened, a revoked link stays revoked, the share of *)
(* a pin is the last its owner was told of, and the versions of a file      *)
(* differ, however the requests interleave, fail or are abandoned, but for  *)
(* contents and files that two changes overlapped on.                       *)
THEOREM PinsStaySound == ASSUME PinsAssumption PROVE Spec => []PinsAreSound
<1>1. PinsInv => PinsAreSound
  BY DEF PinsInv
<1>2. PinsInv /\ [Next]_vars => PinsInv'
  BY PinsNext
<1>3. Init => PinsInv
  BY PinsInit
<1> QED
  BY <1>1, <1>2, <1>3, PTL DEF Spec

-----------------------------------------------------------------------------
(* The drafts (Drafts).                                                     *)

Versions == [html : Bodies, by : Clients, base : Nat]
Publishes == [at : {"none", "sent", "put", "commit", "done", "refused"},
              html : Bodies \union {Nothing}, expected : Nat, old : Nat]

(* What was put in the store, and removed by nothing but deletePin.         *)
Held == blobs \union unpinned

(* A request has passed its check with the version that was the latest, and *)
(* the head it will replace is that one.                                    *)
RequestSound(r, latest, stored) ==
  /\ r.at \in {"sent", "put", "commit"} => r.html \in Bodies
  /\ r.at \in {"put", "commit"} => r.expected = r.old
  /\ r.at \in {"put", "commit", "done"} => r.old <= latest
  /\ r.at = "commit" => r.html \in stored

RequestsSound == \A c \in Clients : RequestSound(request[c], Len(versions), Held)

PublishTyped ==
  /\ versions \in Seq(Versions) /\ Len(versions) <= MaxVersions
  /\ Held \subseteq Bodies
  /\ file \in [Clients -> Bodies] /\ receipt \in [Clients -> Nat]
  /\ request \in [Clients -> Publishes]

PublishInv == PublishTyped /\ RequestsSound /\ Drafting!PublishingIsSafe

(* A selection is of the version the page is at.                            *)
PageInv ==
  /\ remarks \subseteq Drafting!Comments /\ IsFiniteSet(remarks)
  /\ view \in [version : 0..MaxVersions, frame : 0..MaxVersions, anchor : 0..MaxVersions,
               posting : BOOLEAN, text : BOOLEAN]
  /\ loads \subseteq [current : BOOLEAN, head : 0..MaxVersions, want : 0..MaxVersions,
                     keep : BOOLEAN]
  /\ slipped \in BOOLEAN
  /\ view.anchor \in {0, view.version} \/ slipped
  /\ Drafting!SelectionsMatchVersions

DraftsInv == PublishInv /\ PageInv

(* The operators of the standard modules are the instance's own.            *)
LEMMA DraftsCount == ASSUME NEW S PROVE Drafting!Cardinality(S) = Cardinality(S)
  BY DEF Drafting!Cardinality, Cardinality

LEMMA RequestAnswered ==
  ASSUME NEW r \in Publishes, NEW n \in Nat
  PROVE  [r EXCEPT !.at = "done", !.old = n] \in Publishes
  BY DEF Publishes

LEMMA ViewMoves ==
  ASSUME NEW M, NEW v \in M, NEW a \in M,
         NEW w \in [version : M, frame : M, anchor : M, posting : BOOLEAN, text : BOOLEAN]
  PROVE  [w EXCEPT !.version = v, !.anchor = a] \in
           [version : M, frame : M, anchor : M, posting : BOOLEAN, text : BOOLEAN]
  OBVIOUS

LEMMA DraftsInit == ASSUME Drafting!DraftsAssumption PROVE Drafting!Init => DraftsInv
<1> SUFFICES ASSUME Drafting!Init PROVE DraftsInv
  OBVIOUS
<1> USE DEF Drafting!Init, Drafting!DraftsAssumption
<1>. MaxVersions \in Nat
  OBVIOUS
<1>1. PublishTyped
  BY DEF PublishTyped, Drafting!NoRequest, Publishes, Held
<1>2. RequestsSound
  BY DEF RequestsSound, RequestSound, Drafting!NoRequest
<1>3. Drafting!PublishingIsSafe
  BY DEF Drafting!PublishingIsSafe, Drafting!VersionsFollow, Drafting!VersionsAreStored,
         Drafting!ReceiptsAreTrue, Drafting!Latest
<1>4. PageInv
  <2>1. remarks = {} /\ loads = {} /\ slipped = FALSE /\ IsFiniteSet({})
    BY FS_EmptySet
  <2>2. /\ view.anchor = 0
        /\ view \in [version : 0..MaxVersions, frame : 0..MaxVersions, anchor : 0..MaxVersions,
                     posting : BOOLEAN, text : BOOLEAN]
    BY DEF Drafting!NoAnchor
  <2> QED
    BY <2>1, <2>2 DEF PageInv, Drafting!SelectionsMatchVersions
<1> QED
  BY <1>1, <1>2, <1>3, <1>4 DEF DraftsInv, PublishInv

(* The clients' steps that leave the versions alone.                        *)
LEMMA RequestsMove ==
  ASSUME PublishInv, NEW c \in Clients, versions' = versions, Held \subseteq Held',
         Held' \subseteq Bodies, file' \in [Clients -> Bodies],
         NEW r \in Publishes,
         request' = [request EXCEPT ![c] = r], RequestSound(r, Len(versions'), Held'),
         receipt' = receipt \/ \E n \in 0..Len(versions) : receipt' = [receipt EXCEPT ![c] = n]
  PROVE  PublishInv'
<1> USE DEF Held
<1>1. PublishTyped'
  BY DEF PublishInv, PublishTyped
<1>2. RequestsSound'
  BY DEF PublishInv, PublishTyped, RequestsSound, RequestSound
<1>3. Drafting!PublishingIsSafe'
  <2>0. Len(versions) \in Nat /\ receipt \in [Clients -> Nat]
        /\ \A d \in Clients : receipt[d] <= Len(versions)
    BY DEF PublishInv, PublishTyped, Drafting!PublishingIsSafe, Drafting!ReceiptsAreTrue,
           Drafting!Latest
  <2>1. \A d \in Clients : receipt'[d] <= Len(versions)
    BY <2>0
  <2>2. \A n \in DOMAIN versions : versions[n].base = n - 1 /\ versions[n].html \in Held'
    BY DEF PublishInv, Drafting!PublishingIsSafe, Drafting!VersionsFollow,
           Drafting!VersionsAreStored
  <2> QED
    BY <2>1, <2>2 DEF Drafting!PublishingIsSafe, Drafting!VersionsFollow,
           Drafting!VersionsAreStored, Drafting!ReceiptsAreTrue, Drafting!Latest
<1> QED
  BY <1>1, <1>2, <1>3 DEF PublishInv

LEMMA RequestSteps ==
  ASSUME PublishInv, NEW c \in Clients,
         \/ Drafting!Edit(c) \/ Drafting!Publish(c) \/ Drafting!Check(c) \/ Drafting!PutPage(c)
         \/ Drafting!Answered(c) \/ Drafting!Lost(c)
  PROVE  PublishInv'
<1> USE DEF Held, Drafting!Latest, Drafting!server, Drafting!store, Drafting!page
<1>1. /\ request \in [Clients -> Publishes] /\ file \in [Clients -> Bodies] /\ Len(versions) \in Nat
      /\ receipt \in [Clients -> Nat] /\ receipt[c] <= Len(versions) /\ RequestSound(request[c], Len(versions), Held)
      /\ Held \subseteq Bodies
  <2>1. RequestSound(request[c], Len(versions), Held)
    BY DEF PublishInv, RequestsSound
  <2> QED
    BY <2>1 DEF PublishInv, PublishTyped, Drafting!PublishingIsSafe, Drafting!ReceiptsAreTrue
<1>2. Drafting!NoRequest \in Publishes /\ RequestSound(Drafting!NoRequest, Len(versions'), Held')
  BY DEF Drafting!NoRequest, RequestSound, Publishes
<1>3. CASE Drafting!Edit(c)
  <2>1. request' = [request EXCEPT ![c] = request[c]] /\ request[c] \in Publishes
    BY <1>1, <1>3 DEF Drafting!Edit
  <2>2. file' \in [Clients -> Bodies] /\ RequestSound(request[c], Len(versions'), Held')
    BY <1>1, <1>3 DEF Drafting!Edit, RequestSound
  <2> QED
    BY <1>3, <1>1, <2>1, <2>2, RequestsMove DEF Drafting!Edit
<1>4. CASE Drafting!Publish(c)
  <2>1. PICK v \in {receipt[c], Len(versions)} :
          request' = [request EXCEPT ![c] = [Drafting!NoRequest EXCEPT
                        !.at = "sent", !.html = file[c], !.expected = v]]
    BY <1>4 DEF Drafting!Publish
  <2> DEFINE r == [Drafting!NoRequest EXCEPT !.at = "sent", !.html = file[c], !.expected = v]
  <2>2. r \in Publishes /\ RequestSound(r, Len(versions'), Held')
    BY <1>1, <2>1 DEF Drafting!NoRequest, RequestSound, Publishes
  <2> HIDE DEF r
  <2> QED
    BY <1>4, <1>1, <2>1, <2>2, RequestsMove DEF Drafting!Publish, r
<1>5. CASE Drafting!Check(c)
  <2> DEFINE r == [request[c] EXCEPT
          !.at = IF Drafting!Same(c) THEN "done"
                 ELSE IF request[c].expected = Len(versions) THEN "put" ELSE "refused",
          !.old = Len(versions)]
  <2>1. request' = [request EXCEPT ![c] = r] /\ request[c].at = "sent" /\ UNCHANGED <<versions, Held>>
    BY <1>5 DEF Drafting!Check
  <2>2. r \in Publishes
    BY <1>1 DEF Publishes
  <2>3. RequestSound(r, Len(versions'), Held')
    <3>1. CASE Drafting!Same(c)
      BY <1>1, <2>1, <3>1 DEF RequestSound, Publishes
    <3>2. CASE ~ Drafting!Same(c)
      BY <1>1, <2>1, <3>2 DEF RequestSound, Publishes
    <3> QED
      BY <3>1, <3>2
  <2> HIDE DEF r
  <2> QED
    BY <1>5, <1>1, <2>1, <2>2, <2>3, RequestsMove DEF Drafting!Check
<1>6. CASE Drafting!PutPage(c)
  <2> DEFINE r == [request[c] EXCEPT !.at = "commit"]
  <2>1. r \in Publishes /\ RequestSound(r, Len(versions'), Held') /\ request' = [request EXCEPT ![c] = r]
    BY <1>1, <1>6 DEF Drafting!PutPage, RequestSound, Publishes
  <2>2. Held \subseteq Held' /\ Held' \subseteq Bodies
    BY <1>1, <1>6 DEF Drafting!PutPage, RequestSound
  <2> HIDE DEF r
  <2> QED
    BY <1>6, <1>1, <2>1, <2>2, RequestsMove DEF Drafting!PutPage
<1>7. CASE Drafting!Answered(c)
  <2>1. CASE request[c].at = "done"
    <3>1. request[c].old \in 0..Len(versions) /\ receipt' = [receipt EXCEPT ![c] = request[c].old]
      BY <1>1, <1>7, <2>1 DEF Drafting!Answered, RequestSound, Publishes
    <3> QED
      BY <1>7, <1>1, <1>2, <3>1, RequestsMove DEF Drafting!Answered
  <2>2. CASE request[c].at # "done"
    <3>1. receipt' = receipt
      BY <1>1, <1>7, <2>2 DEF Drafting!Answered
    <3> QED
      BY <1>7, <1>1, <1>2, <3>1, RequestsMove DEF Drafting!Answered
  <2> QED
    BY <2>1, <2>2
<1>8. CASE Drafting!Lost(c)
  BY <1>8, <1>1, <1>2, RequestsMove DEF Drafting!Lost
<1> QED
  BY <1>3, <1>4, <1>5, <1>6, <1>7, <1>8

(* The head is replaced only if it is still the one that was read.          *)
LEMMA CommitStep ==
  ASSUME PublishInv, MaxVersions \in Nat, NEW c \in Clients, Drafting!Commit(c)
  PROVE  PublishInv'
<1> USE DEF Held, Drafting!Latest, Drafting!page, Drafting!store
<1> DEFINE r == request[c]
           n == Len(versions)
           new == [html |-> r.html, by |-> c, base |-> r.expected]
<1>1. /\ request \in [Clients -> Publishes] /\ versions \in Seq(Versions) /\ n \in Nat
      /\ receipt \in [Clients -> Nat] /\ RequestSound(r, n, Held) /\ r \in Publishes
      /\ r.at = "commit" /\ r.html \in Bodies /\ r.html \in Held /\ r.expected = r.old
      /\ n < MaxVersions
      /\ file' = file /\ receipt' = receipt /\ Held' = Held
  BY DEF PublishInv, PublishTyped, RequestsSound, RequestSound, Drafting!Commit
<1>2. CASE n = r.old
  <2>1. /\ versions' = Append(versions, new) /\ new \in Versions
        /\ request' = [request EXCEPT ![c] = [r EXCEPT !.at = "done", !.old = n + 1]]
    BY <1>1, <1>2 DEF Drafting!Commit, Publishes, Versions
  <2>2. /\ versions' \in Seq(Versions) /\ Len(versions') = n + 1
        /\ \A i \in 1..n : versions'[i] = versions[i]
        /\ versions'[n + 1] = new
    BY <1>1, <2>1
  <2>3. PublishTyped'
    <3>0. n + 1 \in Nat /\ r \in Publishes
      BY <1>1
    <3> HIDE DEF r, n
    <3>1. [r EXCEPT !.at = "done", !.old = n + 1] \in Publishes
      BY <3>0, RequestAnswered
    <3> QED
      BY <1>1, <2>1, <2>2, <3>1 DEF PublishInv, PublishTyped
  <2>4. RequestsSound'
    <3>1. \A d \in Clients : request[d] \in Publishes /\ RequestSound(request[d], n, Held)
      BY <1>1 DEF PublishInv, RequestsSound
    <3>2. \A d \in Clients \ {c} : request'[d] = request[d]
      BY <1>1, <2>1
    <3>3. /\ request'[c].at = "done" /\ request'[c].old = n + 1
      BY <1>1, <2>1 DEF Publishes
    <3> HIDE DEF n, r, new
    <3>4. ASSUME NEW d \in Clients PROVE RequestSound(request'[d], n + 1, Held)
      <4>1. CASE d = c
        BY <1>1, <3>3, <4>1 DEF RequestSound
      <4>2. CASE d # c
        BY <1>1, <3>1, <3>2, <4>2 DEF RequestSound, Publishes
      <4> QED
        BY <4>1, <4>2
    <3> QED
      BY <1>1, <2>2, <3>4 DEF RequestsSound
  <2>5. Drafting!PublishingIsSafe'
    <3>1. \A i \in DOMAIN versions' : i \in 1..n \/ i = n + 1
      BY <1>1, <2>2
    <3>2. new.base = n /\ new.html \in Held'
      BY <1>1, <1>2
    <3>3. \A i \in 1..n : versions[i].base = i - 1 /\ versions[i].html \in Held
      BY <1>1 DEF PublishInv, Drafting!PublishingIsSafe, Drafting!VersionsFollow,
                  Drafting!VersionsAreStored
    <3>4. \A d \in Clients : receipt[d] \in Nat /\ receipt[d] <= n
      BY <1>1 DEF PublishInv, Drafting!PublishingIsSafe, Drafting!ReceiptsAreTrue
    <3> HIDE DEF new, n
    <3>5. \A i \in DOMAIN versions' : versions'[i].base = i - 1
      BY <1>1, <2>2, <3>1, <3>2, <3>3
    <3>6. \A i \in DOMAIN versions' : versions'[i].html \in Held'
      BY <1>1, <2>2, <3>1, <3>2, <3>3
    <3>7. \A d \in Clients : receipt'[d] <= Len(versions')
      BY <1>1, <2>2, <3>4
    <3> QED
      BY <3>5, <3>6, <3>7 DEF Drafting!PublishingIsSafe, Drafting!VersionsFollow,
                              Drafting!VersionsAreStored, Drafting!ReceiptsAreTrue
  <2> QED
    BY <2>3, <2>4, <2>5 DEF PublishInv
<1>3. CASE n # r.old
  <2> DEFINE q == [r EXCEPT !.at = "refused", !.old = n + 1]
  <2>1. versions' = versions /\ request' = [request EXCEPT ![c] = q]
    BY <1>1, <1>3 DEF Drafting!Commit
  <2>2. r \in Publishes /\ n + 1 \in Nat
    BY <1>1
  <2> HIDE DEF r, n
  <2>3. q \in Publishes /\ q.at = "refused"
    BY <2>2 DEF Publishes
  <2>4. RequestSound(q, Len(versions'), Held')
    BY <2>3 DEF RequestSound
  <2> HIDE DEF q
  <2> QED
    BY <1>1, <2>1, <2>3, <2>4, RequestsMove DEF PublishInv, PublishTyped
<1> QED
  BY <1>2, <1>3

(* What the reader does keeps selections with their versions.               *)
LEMMA PageSteps ==
  ASSUME PublishInv, PageInv, MaxVersions \in Nat,
         \/ Drafting!Load \/ (\E l \in loads : Drafting!Loaded(l))
         \/ Drafting!FrameLoads \/ Drafting!Select \/ Drafting!Begin \/ Drafting!Save
         \/ Drafting!Saved \/ \E m \in remarks : Drafting!Resolve(m)
  PROVE  PageInv'
<1> DEFINE V == [version : 0..MaxVersions, frame : 0..MaxVersions, anchor : 0..MaxVersions,
                 posting : BOOLEAN, text : BOOLEAN]
           L == [current : BOOLEAN, head : 0..MaxVersions, want : 0..MaxVersions,
                 keep : BOOLEAN]
<1> USE DEF Drafting!server, Drafting!store, Drafting!clients, Drafting!page, Drafting!Latest, Drafting!NoAnchor
<1>1. /\ remarks \subseteq Drafting!Comments /\ IsFiniteSet(remarks) /\ view \in V
      /\ loads \subseteq L /\ slipped \in BOOLEAN /\ (view.anchor \in {0, view.version} \/ slipped)
      /\ \A m \in remarks : m.anchor \in {0, m.version} \/ slipped
      /\ Len(versions) \in Nat /\ Len(versions) <= MaxVersions
  BY DEF PublishInv, PublishTyped, PageInv, Drafting!SelectionsMatchVersions
<1>2. ASSUME view' \in V, loads' \subseteq L, slipped' \in BOOLEAN, slipped => slipped',
             view'.anchor \in {0, view'.version} \/ slipped', remarks' = remarks
      PROVE  PageInv'
  BY <1>1, <1>2 DEF PageInv, Drafting!SelectionsMatchVersions
<1>3. CASE Drafting!Load
  <2>1. PICK v \in 0..Len(versions) :
          loads' = {[l EXCEPT !.current = FALSE] : l \in loads} \union
                     {[current |-> TRUE, head |-> Len(versions),
                       want |-> IF v = 0 THEN Len(versions) ELSE v, keep |-> v = 0]}
    BY <1>3 DEF Drafting!Load
  <2>2. Len(versions) \in 0..MaxVersions /\ v \in 0..MaxVersions
    BY <1>1
  <2>3. \A l \in L : [l EXCEPT !.current = FALSE] \in L
    OBVIOUS
  <2>4. [current |-> TRUE, head |-> Len(versions),
         want |-> IF v = 0 THEN Len(versions) ELSE v, keep |-> v = 0] \in L
    BY <2>2
  <2> HIDE DEF L
  <2>5. loads' \subseteq L
    BY <1>1, <2>1, <2>3, <2>4
  <2> USE DEF L
  <2> QED
    BY <1>1, <1>2, <1>3, <2>5 DEF Drafting!Load
<1>4. ASSUME NEW l \in loads, Drafting!Loaded(l) PROVE PageInv'
  <2>1. l \in L /\ loads' \subseteq L
    BY <1>1, <1>4 DEF Drafting!Loaded
  <2>2. view' = view \/ view' = [view EXCEPT !.version = l.want, !.anchor = 0]
    BY <1>4 DEF Drafting!Loaded
  <2>3. [view EXCEPT !.version = l.want, !.anchor = 0] \in V
    <3>1. 0 \in 0..MaxVersions
      OBVIOUS
    <3>2. view \in V /\ l.want \in 0..MaxVersions
      BY <1>1, <2>1
    <3> QED
      BY <3>1, <3>2, ViewMoves
  <2>4. view' \in V /\ (view'.anchor \in {0, view'.version} \/ slipped)
    <3>1. CASE view' = view
      BY <1>1, <3>1
    <3>2. CASE view' = [view EXCEPT !.version = l.want, !.anchor = 0]
      BY <1>1, <2>3, <3>2
    <3> QED
      BY <2>2, <3>1, <3>2
  <2> QED
    BY <1>1, <1>2, <1>4, <2>1, <2>4 DEF Drafting!Loaded
<1>5. CASE Drafting!FrameLoads
  BY <1>1, <1>2, <1>5 DEF Drafting!FrameLoads
<1>6. CASE Drafting!Select
  BY <1>1, <1>2, <1>6 DEF Drafting!Select
<1>7. CASE Drafting!Begin
  BY <1>1, <1>2, <1>7 DEF Drafting!Begin
<1>8. CASE Drafting!Save
  <2> DEFINE m == [id |-> Cardinality(remarks) + 1, version |-> view.version,
                   anchor |-> view.anchor, open |-> TRUE]
  <2>1. Cardinality(remarks) \in Nat
    BY <1>1, FS_CardinalityType
  <2>2. m \in Drafting!Comments /\ (m.anchor \in {0, m.version} \/ slipped)
    BY <1>1, <2>1 DEF Drafting!Comments
  <2>3. remarks' = remarks \union {m} /\ view' = [view EXCEPT !.posting = TRUE]
        /\ loads' = loads /\ slipped' = slipped
    BY <1>8, DraftsCount DEF Drafting!Save
  <2>4. IsFiniteSet(remarks')
    BY <1>1, <2>3, FS_AddElement
  <2> HIDE DEF m
  <2>5. view' \in V /\ view'.anchor = view.anchor /\ view'.version = view.version
    BY <1>1, <2>3
  <2> QED
    BY <1>1, <2>2, <2>3, <2>4, <2>5 DEF PageInv, Drafting!SelectionsMatchVersions
<1>9. CASE Drafting!Saved
  <2>1. PICK failed \in BOOLEAN :
          view' = [view EXCEPT !.posting = FALSE, !.text = failed,
                               !.anchor = IF failed THEN @ ELSE 0]
    BY <1>9 DEF Drafting!Saved
  <2>2. view' \in V /\ (view'.anchor = view.anchor \/ view'.anchor = 0)
        /\ view'.version = view.version
    <3>1. CASE failed
      BY <1>1, <2>1, <3>1
    <3>2. CASE ~failed
      <4>1. view' = [view EXCEPT !.posting = FALSE, !.text = FALSE, !.anchor = 0]
        BY <2>1, <3>2
      <4>2. 0 \in 0..MaxVersions
        OBVIOUS
      <4> QED
        BY <1>1, <4>1, <4>2
    <3> QED
      BY <3>1, <3>2
  <2> QED
    BY <1>1, <1>2, <1>9, <2>2 DEF Drafting!Saved
<1>10. ASSUME NEW m \in remarks, Drafting!Resolve(m) PROVE PageInv'
  <2> DEFINE k == [m EXCEPT !.open = FALSE]
  <2>1. remarks' = (remarks \ {m}) \union {k} /\ view' = view /\ loads' = loads
        /\ slipped' = slipped
    BY <1>10 DEF Drafting!Resolve
  <2>2. k \in Drafting!Comments /\ k.anchor = m.anchor /\ k.version = m.version
    BY <1>1 DEF Drafting!Comments
  <2>3. IsFiniteSet(remarks \ {m})
    BY <1>1, FS_RemoveElement
  <2>4. IsFiniteSet(remarks')
    BY <2>1, <2>3, FS_AddElement
  <2> HIDE DEF k
  <2> QED
    BY <1>1, <2>1, <2>2, <2>4 DEF PageInv, Drafting!SelectionsMatchVersions
<1> QED
  BY <1>3, <1>4, <1>5, <1>6, <1>7, <1>8, <1>9, <1>10

(* What the pins do to the store: what is put was not there, and what is    *)
(* removed was unpinned.                                                    *)
LEMMA BesideSteps == ASSUME PublishInv, Drafting!Beside PROVE PublishInv'
<1>1. /\ Held \subseteq Held' /\ Held' \subseteq Bodies
      /\ UNCHANGED <<versions, file, receipt, request>>
  BY DEF PublishInv, PublishTyped, Held, Drafting!Beside, Drafting!Pinned, Drafting!Unpinned,
         Drafting!clients
<1>2. PublishTyped'
  BY <1>1 DEF PublishInv, PublishTyped
<1>3. RequestsSound'
  BY <1>1 DEF PublishInv, RequestsSound, RequestSound
<1>4. Drafting!PublishingIsSafe'
  BY <1>1 DEF PublishInv, Drafting!PublishingIsSafe, Drafting!VersionsFollow, Held,
              Drafting!VersionsAreStored, Drafting!ReceiptsAreTrue, Drafting!Latest
<1> QED
  BY <1>2, <1>3, <1>4 DEF PublishInv

LEMMA DraftsNext ==
  ASSUME Drafting!DraftsAssumption, DraftsInv, [Drafting!Next]_drafts PROVE DraftsInv'
<1> USE DEF Drafting!DraftsAssumption, DraftsInv
<1>1. ASSUME NEW c \in Clients,
             \/ Drafting!Edit(c) \/ Drafting!Publish(c) \/ Drafting!Check(c)
             \/ Drafting!PutPage(c) \/ Drafting!Commit(c) \/ Drafting!Answered(c)
             \/ Drafting!Lost(c)
      PROVE  DraftsInv'
  <2>1. PublishInv'
    BY <1>1, RequestSteps, CommitStep
  <2>2. UNCHANGED <<remarks, view, loads, slipped>>
    BY <1>1 DEF Drafting!Edit, Drafting!Publish, Drafting!Check, Drafting!PutPage, Drafting!Commit,
                Drafting!Answered, Drafting!Lost, Drafting!server, Drafting!store, Drafting!page
  <2>3. PageInv'
    BY <2>2 DEF PageInv, Drafting!SelectionsMatchVersions, Drafting!NoAnchor
  <2> QED
    BY <2>1, <2>3
<1>2. ASSUME \/ Drafting!Load \/ (\E l \in loads : Drafting!Loaded(l))
             \/ Drafting!FrameLoads \/ Drafting!Select \/ Drafting!Begin \/ Drafting!Save
             \/ Drafting!Saved \/ \E m \in remarks : Drafting!Resolve(m)
      PROVE  DraftsInv'
  <2>1. PageInv'
    BY <1>2, PageSteps
  <2>2. UNCHANGED <<versions, blobs, unpinned, file, receipt, request>>
    BY <1>2 DEF Drafting!Load, Drafting!Loaded, Drafting!FrameLoads, Drafting!Select,
                Drafting!Begin, Drafting!Save, Drafting!Saved, Drafting!Resolve,
                Drafting!server, Drafting!store, Drafting!clients
  <2>3. PublishInv'
    BY <2>2 DEF PublishInv, PublishTyped, RequestsSound, RequestSound, Drafting!PublishingIsSafe,
                Held, Drafting!VersionsFollow, Drafting!VersionsAreStored, Drafting!ReceiptsAreTrue,
                Drafting!Latest
  <2> QED
    BY <2>1, <2>3
<1>3. CASE UNCHANGED drafts
  BY <1>3 DEF drafts, PublishInv, PublishTyped, RequestsSound, RequestSound, Held,
              Drafting!PublishingIsSafe,
              Drafting!VersionsFollow, Drafting!VersionsAreStored, Drafting!ReceiptsAreTrue,
              Drafting!Latest, PageInv, Drafting!SelectionsMatchVersions, Drafting!NoAnchor
<1>4. CASE Drafting!Beside
  <2>1. PublishInv'
    BY <1>4, BesideSteps
  <2>2. UNCHANGED <<remarks, view, loads, slipped>>
    BY <1>4 DEF Drafting!Beside, Drafting!Pinned, Drafting!Unpinned, Drafting!page
  <2> QED
    BY <2>1, <2>2 DEF PageInv, Drafting!SelectionsMatchVersions, Drafting!NoAnchor
<1> QED
  BY <1>1, <1>2, <1>3, <1>4 DEF Drafting!Next, Drafting!Steps

(* The steps of a behaviour are steps of the module, or none.               *)
LEMMA DraftsStep == [MCNext]_all => [Drafting!Next]_drafts
<1>1. PublishSteps \/ ReadSteps => Drafting!Next
  BY DEF PublishSteps, ReadSteps, Drafting!Next
<1>2. ShareSteps => [Drafting!Next]_drafts
  BY <1>1 DEF ShareSteps, Drafting!Next
<1> QED
  BY <1>1, <1>2 DEF MCNext, RecordSteps, InstallSteps, records, all, Drafting!Next

(* For any number of clients, pages, versions and comments: what is stored  *)
(* and what clients and the page of the reader know is that of DraftsInv.   *)
THEOREM DraftsAreKept == Drafting!Spec => []DraftsInv
<1>1. Drafting!Init => DraftsInv
  BY DraftsInit, DraftsBounds
<1>2. DraftsInv /\ [Drafting!Next]_drafts => DraftsInv'
  BY DraftsNext, DraftsBounds
<1>3. [Drafting!Next]_(Drafting!vars) => [Drafting!Next]_drafts
  BY DEF Drafting!vars, drafts
<1> QED
  BY <1>1, <1>2, <1>3, PTL DEF Drafting!Spec

(* Every version follows the one its client had seen and is stored, and a   *)
(* comment on selected text is kept with the version it was selected in.    *)
THEOREM DraftsStaySound == MCSpec => []DraftsAreSound
<1>1. MCInit => DraftsInv
  BY DraftsInit, DraftsBounds DEF MCInit
<1>2. DraftsInv /\ [MCNext]_all => DraftsInv'
  BY DraftsStep, DraftsNext, DraftsBounds
<1>3. DraftsInv => DraftsAreSound
  BY DEF DraftsInv, PublishInv, PageInv, DraftsAreSound
<1> QED
  BY <1>1, <1>2, <1>3, PTL DEF MCSpec

-----------------------------------------------------------------------------
(* The notifications of finished rounds (RoundNotifier).                     *)

AgentStates == [running : BOOLEAN, text : Notifier!Texts, hushed : BOOLEAN, turns : Nat]
Memories == [seen : BOOLEAN, running : BOOLEAN, last : Notifier!Texts,
             notified : Notifier!Texts, turns : Nat]
Batches == Seq(Notifier!Items)
Queues == [pending : Batches, timer : BOOLEAN, sending : Batches, recent : BOOLEAN]

(* What waits under a topic is of its agents, was not said in quiet hours,  *)
(* and is an answer.                                                        *)
BatchFits(t, b) ==
  \A m \in DOMAIN b : TopicOf[b[m].agent] = t /\ ~b[m].hushed /\ b[m].text # 0

QueueFits(t, q) ==
  /\ q \in Queues
  /\ q.pending # <<>> => q.timer \/ q.sending # <<>>
  /\ BatchFits(t, q.pending) /\ BatchFits(t, q.sending)

(* Nothing waits twice, and what waits has been noted and not been sent.    *)
Same(i, j) == i.agent = j.agent /\ i.text = j.text
Once(b) == \A m, n \in DOMAIN b : Same(b[m], b[n]) => m = n
Distinct(b, c) == \A m \in DOMAIN b, n \in DOMAIN c : ~Same(b[m], c[n])
Noted(b, st, sn) ==
  \A m \in DOMAIN b : b[m].text <= st[b[m].agent].notified /\ sn[b[m].agent][b[m].text] = 0

QueueIsNew(q, st, sn) ==
  /\ Once(q.pending) /\ Once(q.sending) /\ Distinct(q.pending, q.sending)
  /\ Noted(q.pending, st, sn) /\ Noted(q.sending, st, sn)

NotifierTyped ==
  /\ agents \in [Agents -> AgentStates] /\ quiet \in BOOLEAN /\ reordered \in BOOLEAN
  /\ scans \subseteq [Agents -> AgentStates]
  /\ states \in [Agents -> Memories]
  /\ sent \in [Agents -> [Notifier!Texts -> Nat]]
  /\ queue \in [Topics -> Queues]

(* As long as no scan was overtaken, an agent's last answer never goes back,*)
(* so that what is news is newer than all that was announced.               *)
NewsIsNew ==
  /\ \A a \in Agents :
       /\ states[a].notified <= states[a].last
       /\ ~states[a].seen => states[a].notified = 0
       /\ \A x \in Notifier!Texts :
            sent[a][x] <= 1 /\ (sent[a][x] = 1 => x # 0 /\ x <= states[a].notified)
  /\ \A t \in Topics : QueueIsNew(queue[t], states, sent)

NotifierInv ==
  /\ NotifierTyped /\ \A t \in Topics : QueueFits(t, queue[t])
  /\ reordered \/ NewsIsNew

-----------------------------------------------------------------------------
LEMMA BatchSeq ==
  ASSUME NEW b \in Batches
  PROVE  /\ Len(b) \in Nat /\ DOMAIN b = 1..Len(b) /\ \A m \in DOMAIN b : b[m] \in Notifier!Items
         /\ b = <<>> <=> DOMAIN b = {}
  BY DEF Batches

(* What the queue of a topic does when it is looked at.                     *)
LEMMA FlushLooks ==
  ASSUME NEW q \in Queues, quiet \in BOOLEAN
  PROVE  LET p == Notifier!FlushOrSchedule(q) IN
         /\ p \in Queues /\ (p.pending # <<>> => p.timer \/ p.sending # <<>>)
         /\ \/ p.pending = q.pending /\ p.sending = q.sending
            \/ p.pending = <<>> /\ q.sending = <<>> /\ p.sending \in {<<>>, q.pending}
<1>1. <<>> \in Batches
  BY DEF Batches
<1> QED
  BY <1>1 DEF Notifier!FlushOrSchedule, Queues

(* So it stays fit, and new.                                                *)
LEMMA FlushKeeps ==
  ASSUME NEW q \in Queues, quiet \in BOOLEAN, NEW t, NEW st, NEW sn,
         BatchFits(t, q.pending), BatchFits(t, q.sending)
  PROVE  /\ QueueFits(t, Notifier!FlushOrSchedule(q))
         /\ QueueIsNew(q, st, sn) => QueueIsNew(Notifier!FlushOrSchedule(q), st, sn)
<1> DEFINE p == Notifier!FlushOrSchedule(q)
<1>1. /\ p \in Queues /\ (p.pending # <<>> => p.timer \/ p.sending # <<>>)
      /\ \/ p.pending = q.pending /\ p.sending = q.sending
         \/ p.pending = <<>> /\ q.sending = <<>> /\ p.sending \in {<<>>, q.pending}
  BY FlushLooks
<1> HIDE DEF p
<1>2. BatchFits(t, <<>>) /\ Once(<<>>) /\ Noted(<<>>, st, sn)
      /\ \A b : Distinct(b, <<>>) /\ Distinct(<<>>, b)
  BY DEF BatchFits, Once, Noted, Distinct
<1>3. QueueFits(t, p)
  BY <1>1, <1>2 DEF QueueFits
<1>4. QueueIsNew(q, st, sn) => QueueIsNew(p, st, sn)
  BY <1>1, <1>2 DEF QueueIsNew
<1> QED
  BY <1>3, <1>4 DEF p

(* What an observer learns of an agent; if its answer is not an older one,  *)
(* an answer that is news is newer than all before.                         *)
LEMMA Learns ==
  ASSUME MaxTexts \in Nat, NEW a \in Agents, NEW r \in AgentStates, NEW recent \in BOOLEAN,
         states[a] \in Memories
  PROVE  LET m == Notifier!Remember(a, r, recent) IN
         /\ m \in Memories /\ m.seen
         /\ states[a].notified <= states[a].last /\ (~states[a].seen => states[a].notified = 0)
            /\ states[a].last <= r.text =>
              /\ states[a].notified <= m.notified /\ m.notified <= m.last
              /\ Notifier!IsNews(a, r, recent) =>
                   m.notified = r.text /\ states[a].notified < r.text
<1>1. /\ states[a].notified \in 0..MaxTexts /\ states[a].last \in 0..MaxTexts
      /\ states[a].turns \in Nat
      /\ r.text \in 0..MaxTexts /\ r.turns \in Nat /\ r.running \in BOOLEAN
  BY DEF Memories, AgentStates, Notifier!Texts
<1> QED
  BY <1>1 DEF Notifier!Remember, Notifier!IsNews, Memories, Notifier!Texts

(* A set is listed without repetition.                                      *)
LEMMA Listed ==
  ASSUME NEW S, IsFiniteSet(S)
  PROVE  /\ Notifier!SetToSeq(S) \in Seq(S)
         /\ \A m, n \in DOMAIN Notifier!SetToSeq(S) :
              Notifier!SetToSeq(S)[m] = Notifier!SetToSeq(S)[n] => m = n
<1> DEFINE F == {f \in [1..Cardinality(S) -> S] : \A m, n \in DOMAIN f : f[m] = f[n] => m = n}
<1>1. Cardinality(S) \in Nat /\ ExistsBijection(1..Cardinality(S), S)
  BY FS_CardinalityType
<1>2. \E f : f \in F
  BY <1>1 DEF ExistsBijection, Bijection, Injection, IsInjective
<1>3. Notifier!SetToSeq(S) =
        CHOOSE f \in [1..Cardinality(S) -> S] : \A m, n \in DOMAIN f : f[m] = f[n] => m = n
  BY DEF Notifier!SetToSeq, Notifier!IsInjective, Notifier!Cardinality, Cardinality
<1>4. Notifier!SetToSeq(S) \in F
  BY <1>2, <1>3
<1> QED
  BY <1>1, <1>4

(* One batch after another.                                                 *)
LEMMA Joined ==
  ASSUME NEW b \in Batches, NEW c \in Batches
  PROVE  /\ b \o c \in Batches
         /\ \A t : BatchFits(t, b) /\ BatchFits(t, c) => BatchFits(t, b \o c)
         /\ Once(b) /\ Once(c) /\ Distinct(b, c) => Once(b \o c)
         /\ \A st, sn : Noted(b, st, sn) /\ Noted(c, st, sn) => Noted(b \o c, st, sn)
         /\ \A d : Distinct(b, d) /\ Distinct(c, d) => Distinct(b \o c, d)
<1> DEFINE l == b \o c
<1>1. Len(b) \in Nat /\ Len(c) \in Nat /\ DOMAIN b = 1..Len(b) /\ DOMAIN c = 1..Len(c)
  BY DEF Batches
<1>2. l \in Batches /\ DOMAIN l = 1..(Len(b) + Len(c))
  BY DEF Batches
<1>3. ASSUME NEW m \in DOMAIN l
      PROVE  \/ m \in DOMAIN b /\ l[m] = b[m]
             \/ m - Len(b) \in DOMAIN c /\ m > Len(b) /\ l[m] = c[m - Len(b)]
  BY <1>1, <1>2, <1>3 DEF Batches
<1>4. \A m \in DOMAIN l : (\E n \in DOMAIN b : l[m] = b[n]) \/ \E n \in DOMAIN c : l[m] = c[n]
  BY <1>3
<1>5. ASSUME Once(b), Once(c), Distinct(b, c), NEW m \in DOMAIN l, NEW n \in DOMAIN l,
             Same(l[m], l[n])
      PROVE  m = n
  <2>1. m \in Nat /\ n \in Nat /\ Same(l[n], l[m])
    BY <1>1, <1>2, <1>5 DEF Same
  <2>2. CASE m \in DOMAIN b /\ l[m] = b[m] /\ n \in DOMAIN b /\ l[n] = b[n]
    BY <1>5, <2>2 DEF Once
  <2>3. CASE m \in DOMAIN b /\ l[m] = b[m] /\ n - Len(b) \in DOMAIN c /\ l[n] = c[n - Len(b)]
    BY <1>5, <2>3 DEF Distinct
  <2>4. CASE n \in DOMAIN b /\ l[n] = b[n] /\ m - Len(b) \in DOMAIN c /\ l[m] = c[m - Len(b)]
    BY <1>5, <2>1, <2>4 DEF Distinct
  <2>5. CASE /\ m - Len(b) \in DOMAIN c /\ l[m] = c[m - Len(b)]
             /\ n - Len(b) \in DOMAIN c /\ l[n] = c[n - Len(b)]
    <3>1. m - Len(b) = n - Len(b)
      BY <1>5, <2>5 DEF Once
    <3> QED
      BY <1>1, <2>1, <3>1
  <2> QED
    BY <1>3, <2>2, <2>3, <2>4, <2>5
<1> HIDE DEF l
<1>6. Once(b) /\ Once(c) /\ Distinct(b, c) => Once(l)
  BY <1>5 DEF Once
<1>7. \A t : BatchFits(t, b) /\ BatchFits(t, c) => BatchFits(t, l)
  BY <1>4 DEF BatchFits
<1>8. \A st, sn : Noted(b, st, sn) /\ Noted(c, st, sn) => Noted(l, st, sn)
  BY <1>4 DEF Noted
<1>9. \A d : Distinct(b, d) /\ Distinct(c, d) => Distinct(l, d)
  BY <1>4 DEF Distinct
<1> QED
  BY <1>2, <1>6, <1>7, <1>8, <1>9 DEF l

(* A scan is observed: its news joins what waits.                           *)
LEMMA Observed ==
  ASSUME Notifier!NotifierAssumption, NotifierInv,
         NEW s \in scans, NEW recent \in BOOLEAN, Notifier!Observe(s, recent)
  PROVE  NotifierInv'
<1> DEFINE News(t) == {a \in Agents : /\ TopicOf[a] = t /\ Notifier!IsNews(a, s[a], recent)
                                      /\ ~Notifier!Suppressed(s[a])}
           Item(a) == [agent |-> a, text |-> s[a].text, hushed |-> s[a].hushed]
           List(t) == Notifier!SetToSeq({Item(a) : a \in News(t)})
           Longer(t) == [queue[t] EXCEPT !.pending = @ \o List(t)]
<1>1. /\ MaxTexts \in Nat /\ IsFiniteSet(Agents) /\ NotifierTyped
      /\ s \in [Agents -> AgentStates]
      /\ \A t \in Topics : QueueFits(t, queue[t]) /\ queue[t] \in Queues
  BY DEF Notifier!NotifierAssumption, NotifierInv, NotifierTyped, QueueFits,
         Notifier!IsFiniteSet, IsFiniteSet
<1>2. /\ queue' = [t \in Topics |-> IF News(t) = {} THEN queue[t]
                                    ELSE Notifier!FlushOrSchedule(Longer(t))]
      /\ states' = [a \in Agents |-> Notifier!Remember(a, s[a], recent)]
      /\ scans' = scans \ {s} /\ UNCHANGED <<agents, quiet, sent>>
      /\ reordered' = (reordered \/ \E a \in Agents : s[a].text < states[a].last)
  BY DEF Notifier!Observe
<1>3. \A a \in Agents : /\ s[a] \in AgentStates /\ states[a] \in Memories
                        /\ s[a].text \in Notifier!Texts /\ states[a].last \in Notifier!Texts
                        /\ states[a].notified \in Notifier!Texts
  BY <1>1 DEF NotifierTyped, AgentStates, Memories
<1>4. ASSUME NEW t \in Topics
      PROVE  /\ List(t) \in Batches /\ BatchFits(t, List(t)) /\ Once(List(t))
             /\ \A m \in DOMAIN List(t) : \E a \in News(t) : List(t)[m] = Item(a)
  <2> DEFINE S == {Item(a) : a \in News(t)}
             f == [a \in News(t) |-> Item(a)]
  <2>1. IsFiniteSet(News(t))
    BY <1>1, FS_Subset
  <2>2. f \in Surjection(News(t), S)
    BY DEF Surjection
  <2>3. IsFiniteSet(S)
    BY <2>1, <2>2, FS_Surjection
  <2>4. /\ List(t) \in Seq(S)
        /\ \A m, n \in DOMAIN List(t) : List(t)[m] = List(t)[n] => m = n
    BY <2>3, Listed
  <2>5. \A a \in News(t) : /\ Item(a) \in Notifier!Items /\ Item(a).agent = a
                           /\ Item(a).text = s[a].text /\ Item(a).hushed = s[a].hushed
                           /\ TopicOf[a] = t /\ s[a].text # 0 /\ ~s[a].hushed
    BY <1>3 DEF Notifier!Items, AgentStates, Notifier!IsNews, Notifier!Suppressed
  <2>6. \A i \in S : i \in Notifier!Items /\ \E a \in News(t) : i = Item(a)
    BY <2>5
  <2> HIDE DEF S, List, Item, News
  <2>7. List(t) \in Batches /\ \A m \in DOMAIN List(t) : List(t)[m] \in S
    BY <2>4, <2>6 DEF Batches
  <2>8. \A m \in DOMAIN List(t) : \E a \in News(t) : List(t)[m] = Item(a)
    BY <2>6, <2>7
  <2>9. BatchFits(t, List(t))
    BY <2>5, <2>8 DEF BatchFits
  <2>10. ASSUME NEW m \in DOMAIN List(t), NEW n \in DOMAIN List(t),
                Same(List(t)[m], List(t)[n])
         PROVE  m = n
    <3>1. PICK a \in News(t) : List(t)[m] = Item(a)
      BY <2>8
    <3>2. PICK b \in News(t) : List(t)[n] = Item(b)
      BY <2>8
    <3>3. a = b
      BY <2>5, <2>10, <3>1, <3>2 DEF Same
    <3> QED
      BY <2>4, <3>1, <3>2, <3>3
  <2> QED
    BY <2>7, <2>8, <2>9, <2>10 DEF Once
<1>5. \A t \in Topics : \A a \in News(t) :
        /\ a \in Agents /\ Item(a).agent = a /\ Item(a).text = s[a].text
        /\ Notifier!IsNews(a, s[a], recent) /\ s[a].text # 0
  BY DEF Notifier!IsNews
<1> HIDE DEF List, Item, News
<1>6. ASSUME NEW t \in Topics
      PROVE  /\ Longer(t) \in Queues /\ Longer(t).sending = queue[t].sending
             /\ Longer(t).pending = queue[t].pending \o List(t)
             /\ BatchFits(t, Longer(t).pending) /\ BatchFits(t, Longer(t).sending)
  <2>1. queue[t] \in Queues /\ queue[t].pending \in Batches
    BY <1>1 DEF Queues
  <2>2. queue[t].pending \o List(t) \in Batches /\ BatchFits(t, queue[t].pending \o List(t))
    BY <1>1, <1>4, <2>1, Joined DEF QueueFits
  <2> QED
    BY <1>1, <2>1, <2>2 DEF Queues, QueueFits
<1> HIDE DEF Longer
<1>7. \A t \in Topics : QueueFits(t, queue'[t])
  BY <1>1, <1>2, <1>6, FlushKeeps DEF NotifierTyped
<1>8. NotifierTyped' /\ \A a \in Agents : states'[a] = Notifier!Remember(a, s[a], recent)
  <2>1. \A a \in Agents : Notifier!Remember(a, s[a], recent) \in Memories
    BY <1>1, <1>3, Learns
  <2>2. reordered' \in BOOLEAN
    BY <1>1, <1>2 DEF NotifierTyped
  <2>3. \A t \in Topics : queue'[t] \in Queues
    BY <1>7 DEF QueueFits
  <2>4. queue' \in [Topics -> Queues]
    BY <1>2, <2>3
  <2> QED
    BY <1>1, <1>2, <2>1, <2>2, <2>4 DEF NotifierTyped
<1>9. ASSUME ~reordered' PROVE NewsIsNew'
  <2>1. NewsIsNew /\ \A a \in Agents : s[a].text >= states[a].last
    <3>1. ~reordered /\ \A a \in Agents : ~(s[a].text < states[a].last)
      BY <1>2, <1>9
    <3>2. \A a \in Agents : s[a].text \in Nat /\ states[a].last \in Nat
      BY <1>1, <1>3 DEF Notifier!Texts
    <3> QED
      BY <3>1, <3>2 DEF NotifierInv
  <2>2. ASSUME NEW a \in Agents
        PROVE  /\ states'[a].seen /\ states[a].notified <= states'[a].notified
               /\ states'[a].notified <= states'[a].last
               /\ Notifier!IsNews(a, s[a], recent) =>
                    states'[a].notified = s[a].text /\ states[a].notified < s[a].text
    BY <1>1, <1>3, <1>8, <2>1, Learns DEF NewsIsNew
  <2>3. \A a \in Agents : states'[a].notified \in Nat /\ states[a].notified \in Nat
    BY <1>1, <1>8 DEF NotifierTyped, Memories, Notifier!Texts
  <2>4. ASSUME NEW a \in Agents, NEW x \in Notifier!Texts
        PROVE  sent'[a][x] <= 1 /\ (sent'[a][x] = 1 => x # 0 /\ x <= states'[a].notified)
    BY <1>1, <1>2, <2>1, <2>2, <2>3 DEF NewsIsNew, Notifier!Texts
  <2>5. ASSUME NEW t \in Topics, NEW b \in Batches, Noted(b, states, sent)
        PROVE  Noted(b, states', sent') /\ Distinct(b, List(t))
    <3>1. \A m \in DOMAIN b : /\ b[m].agent \in Agents /\ b[m].text \in Notifier!Texts
                              /\ b[m].text \in Nat
      BY <1>1, BatchSeq DEF Notifier!Items, Notifier!Texts
    <3>2. Noted(b, states', sent')
      BY <1>2, <2>2, <2>3, <2>5, <3>1 DEF Noted
    <3>3. ASSUME NEW m \in DOMAIN b, NEW n \in DOMAIN List(t), Same(b[m], List(t)[n])
          PROVE  FALSE
      <4>1. PICK a \in News(t) : List(t)[n] = Item(a)
        BY <1>4
      <4>2. b[m].agent = a /\ b[m].text = s[a].text /\ states[a].notified < s[a].text
        BY <1>5, <2>2, <3>3, <4>1 DEF Same
      <4>3. b[m].text <= states[a].notified
        BY <2>5, <4>2 DEF Noted
      <4> QED
        BY <2>3, <3>1, <4>2, <4>3, <1>5
    <3> QED
      BY <3>2, <3>3 DEF Distinct
  <2>6. ASSUME NEW t \in Topics PROVE Noted(List(t), states', sent')
    <3>1. ASSUME NEW m \in DOMAIN List(t)
          PROVE  /\ List(t)[m].text <= states'[List(t)[m].agent].notified
                 /\ sent'[List(t)[m].agent][List(t)[m].text] = 0
      <4>1. PICK a \in News(t) : List(t)[m] = Item(a)
        BY <1>4
      <4>2. /\ a \in Agents /\ List(t)[m].agent = a /\ List(t)[m].text = s[a].text
            /\ states'[a].notified = s[a].text /\ states[a].notified < s[a].text
        BY <1>5, <2>2, <4>1
      <4>3. s[a].text \in Notifier!Texts /\ s[a].text \in Nat
        BY <1>1, <1>3, <4>2 DEF Notifier!Texts
      <4>4. sent[a][s[a].text] \in Nat /\ sent[a][s[a].text] <= 1
            /\ (sent[a][s[a].text] = 1 => s[a].text <= states[a].notified)
        BY <1>1, <2>1, <4>2, <4>3 DEF NewsIsNew, NotifierTyped
      <4> QED
        BY <1>2, <2>3, <4>2, <4>3, <4>4
    <3> QED
      BY <3>1 DEF Noted
  <2>7. ASSUME NEW t \in Topics PROVE QueueIsNew(queue'[t], states', sent')
    <3> DEFINE p == queue[t].pending
               g == queue[t].sending
    <3>1. /\ p \in Batches /\ g \in Batches /\ Once(p) /\ Once(g) /\ Distinct(p, g)
          /\ Noted(p, states, sent) /\ Noted(g, states, sent)
      BY <1>1, <2>1 DEF NewsIsNew, QueueIsNew, Queues
    <3> HIDE DEF p, g
    <3>2. /\ Noted(p, states', sent') /\ Noted(g, states', sent')
          /\ Distinct(p, List(t)) /\ Distinct(g, List(t))
      BY <2>5, <3>1
    <3>3. Distinct(List(t), g)
      BY <3>2 DEF Distinct, Same
    <3>4. /\ Once(p \o List(t)) /\ Noted(p \o List(t), states', sent') /\ Distinct(p \o List(t), g)
      BY <1>4, <2>6, <3>1, <3>2, <3>3, Joined
    <3>5. QueueIsNew(queue[t], states', sent') /\ QueueIsNew(Longer(t), states', sent')
      BY <1>6, <3>1, <3>2, <3>4 DEF QueueIsNew, p, g
    <3> QED
      BY <1>1, <1>2, <1>6, <3>5, FlushKeeps DEF NotifierTyped
  <2>8. \A a \in Agents : /\ states'[a].notified <= states'[a].last
                          /\ ~states'[a].seen => states'[a].notified = 0
    BY <2>2
  <2> QED
    BY <2>4, <2>7, <2>8 DEF NewsIsNew
<1> QED
  BY <1>7, <1>8, <1>9 DEF NotifierInv

(* How often an answer is in a batch.                                       *)
LEMMA Counted ==
  ASSUME NEW b \in Batches, NEW a, NEW x
  PROVE  LET n == Notifier!Cardinality({i \in DOMAIN b : b[i].agent = a /\ b[i].text = x}) IN
         /\ n \in Nat
         /\ n # 0 => \E i \in DOMAIN b : b[i].agent = a /\ b[i].text = x
         /\ Once(b) => n <= 1
<1> DEFINE S == {i \in DOMAIN b : b[i].agent = a /\ b[i].text = x}
<1>1. IsFiniteSet(DOMAIN b)
  BY BatchSeq, FS_Interval, 1 \in Int, Len(b) \in Int
<1>2. IsFiniteSet(S) /\ Cardinality(S) \in Nat
  BY <1>1, FS_Subset, FS_CardinalityType
<1>3. Cardinality(S) # 0 => S # {}
  BY FS_EmptySet
<1>4. ASSUME Once(b) PROVE Cardinality(S) <= 1
  <2>1. CASE S = {}
    BY <2>1, FS_EmptySet
  <2>2. ASSUME NEW m \in S PROVE Cardinality(S) = 1
    <3>1. S = {m}
      BY <1>4, <2>2 DEF Once, Same
    <3> QED
      BY <3>1, FS_Singleton
  <2> QED
    BY <2>1, <2>2
<1> QED
  BY <1>2, <1>3, <1>4 DEF Notifier!Cardinality, Cardinality

LEMMA NotifierInit ==
  ASSUME Notifier!NotifierAssumption, Notifier!Init
  PROVE  NotifierInv
<1>1. 0 \in Notifier!Texts /\ <<>> \in Batches
  BY DEF Notifier!NotifierAssumption, Notifier!Texts, Batches
<1>2. Notifier!NoQueue \in Queues /\ Notifier!Unseen \in Memories
  BY <1>1 DEF Notifier!NoQueue, Notifier!Unseen, Queues, Memories
<1>3. NotifierTyped
  BY <1>1, <1>2 DEF Notifier!Init, NotifierTyped, AgentStates
<1>4. \A t \in Topics : queue[t].pending = <<>> /\ queue[t].sending = <<>>
  BY DEF Notifier!Init, Notifier!NoQueue
<1>5. \A t \in Topics : QueueFits(t, queue[t])
  BY <1>3, <1>4 DEF QueueFits, NotifierTyped, BatchFits
<1>6. \A t \in Topics : QueueIsNew(queue[t], states, sent)
  BY <1>4 DEF QueueIsNew, Once, Distinct, Noted
<1>7. \A a \in Agents : /\ states[a].notified = 0 /\ states[a].last = 0
                        /\ \A x \in Notifier!Texts : sent[a][x] = 0
  BY DEF Notifier!Init, Notifier!Unseen
<1>8. NewsIsNew
  BY <1>6, <1>7 DEF NewsIsNew
<1> QED
  BY <1>3, <1>5, <1>8 DEF NotifierInv

(* The agents, the clock and the start of a scan.                           *)
LEMMA WorldTurns ==
  ASSUME Notifier!NotifierAssumption, NotifierInv,
         \/ \E a \in Agents : Notifier!AgentRuns(a) \/ Notifier!AgentSpeaks(a) \/ Notifier!AgentEnds(a)
         \/ Notifier!QuietHours \/ Notifier!ScanStarts
  PROVE  NotifierInv'
<1>1. NotifierTyped /\ MaxTexts \in Nat
  BY DEF NotifierInv, Notifier!NotifierAssumption
<1>2. /\ UNCHANGED <<states, queue, sent, reordered>>
      /\ agents' \in [Agents -> AgentStates] /\ quiet' \in BOOLEAN
      /\ scans' \subseteq [Agents -> AgentStates]
  <2>1. CASE \E a \in Agents : Notifier!AgentRuns(a) \/ Notifier!AgentSpeaks(a) \/ Notifier!AgentEnds(a)
    <3>1. PICK a \in Agents : Notifier!AgentRuns(a) \/ Notifier!AgentSpeaks(a) \/ Notifier!AgentEnds(a)
      BY <2>1
    <3>2. agents[a] \in AgentStates
      BY <1>1 DEF NotifierTyped
    <3>3. CASE Notifier!AgentRuns(a)
      BY <1>1, <3>2, <3>3 DEF Notifier!AgentRuns, NotifierTyped, AgentStates
    <3>4. CASE Notifier!AgentSpeaks(a)
      <4>1. agents[a].text + 1 \in Notifier!Texts
        BY <1>1, <3>2, <3>4 DEF Notifier!AgentSpeaks, AgentStates, Notifier!Texts
      <4> QED
        BY <1>1, <3>2, <3>4, <4>1
           DEF Notifier!AgentSpeaks, Notifier!Answered, NotifierTyped, AgentStates
    <3>5. CASE Notifier!AgentEnds(a)
      BY <1>1, <3>2, <3>5 DEF Notifier!AgentEnds, NotifierTyped, AgentStates
    <3> QED
      BY <3>1, <3>3, <3>4, <3>5
  <2>2. CASE Notifier!QuietHours
    BY <1>1, <2>2 DEF Notifier!QuietHours, NotifierTyped
  <2>3. CASE Notifier!ScanStarts
    BY <1>1, <2>3 DEF Notifier!ScanStarts, NotifierTyped
  <2> QED
    BY <2>1, <2>2, <2>3
<1>3. NotifierTyped'
  BY <1>1, <1>2 DEF NotifierTyped
<1> QED
  BY <1>2, <1>3 DEF NotifierInv, NewsIsNew

(* A queue is looked at, or its interval is over.                           *)
LEMMA QueueTurns ==
  ASSUME Notifier!NotifierAssumption, NotifierInv, NEW t \in Topics,
         Notifier!TimerFires(t) \/ Notifier!IntervalPasses(t)
  PROVE  NotifierInv'
<1> DEFINE q == queue'[t]
<1>1. NotifierTyped /\ queue[t] \in Queues /\ QueueFits(t, queue[t])
  BY DEF NotifierInv, NotifierTyped
<1>2. /\ UNCHANGED <<agents, quiet, scans, states, sent, reordered>>
      /\ queue' = [queue EXCEPT ![t] = q]
  BY <1>1 DEF Notifier!TimerFires, Notifier!IntervalPasses, NotifierTyped
<1>3. QueueFits(t, q) /\ (QueueIsNew(queue[t], states, sent) => QueueIsNew(q, states, sent))
  <2>1. CASE Notifier!TimerFires(t)
    <3> DEFINE p == [queue[t] EXCEPT !.timer = FALSE]
    <3>1. /\ p \in Queues /\ p.pending = queue[t].pending /\ p.sending = queue[t].sending
          /\ q = Notifier!FlushOrSchedule(p) /\ quiet \in BOOLEAN
      BY <1>1, <2>1 DEF Notifier!TimerFires, Queues, NotifierTyped
    <3> HIDE DEF p, q
    <3>2. QueueIsNew(queue[t], states, sent) => QueueIsNew(p, states, sent)
      BY <3>1 DEF QueueIsNew
    <3>3. BatchFits(t, p.pending) /\ BatchFits(t, p.sending)
      BY <1>1, <3>1 DEF QueueFits
    <3> QED
      BY <3>1, <3>2, <3>3, FlushKeeps
  <2>2. CASE Notifier!IntervalPasses(t)
    <3>1. /\ q \in Queues /\ q.pending = queue[t].pending /\ q.sending = queue[t].sending
          /\ q.timer = queue[t].timer
      BY <1>1, <2>2 DEF Notifier!IntervalPasses, Queues, NotifierTyped
    <3> QED
      BY <1>1, <3>1 DEF QueueFits, QueueIsNew
  <2> QED
    BY <2>1, <2>2
<1> HIDE DEF q
<1>4. \A u \in Topics : queue'[u] = IF u = t THEN q ELSE queue[u]
  BY <1>1, <1>2 DEF NotifierTyped
<1>5. \A u \in Topics : QueueFits(u, queue'[u])
  BY <1>3, <1>4 DEF NotifierInv
<1>6. NotifierTyped'
  BY <1>1, <1>2, <1>3 DEF NotifierTyped, QueueFits
<1>7. NewsIsNew => NewsIsNew'
  BY <1>2, <1>3, <1>4 DEF NewsIsNew
<1> QED
  BY <1>2, <1>5, <1>6, <1>7 DEF NotifierInv

(* A message is out: what was in it has been sent once, and what waits has  *)
(* not.                                                                     *)
LEMMA MessageIsOut ==
  ASSUME Notifier!NotifierAssumption, NotifierInv, NEW t \in Topics, Notifier!SendEnds(t)
  PROVE  NotifierInv'
<1> DEFINE q == queue[t]
           p == [q EXCEPT !.sending = <<>>, !.recent = TRUE]
           n(a, x) == Notifier!Cardinality({i \in DOMAIN q.sending : /\ q.sending[i].agent = a
                                                                     /\ q.sending[i].text = x})
<1>1. /\ NotifierTyped /\ q \in Queues /\ QueueFits(t, q) /\ quiet \in BOOLEAN
      /\ MaxTexts \in Nat
  BY DEF NotifierInv, NotifierTyped, Notifier!NotifierAssumption
<1>2. /\ UNCHANGED <<agents, quiet, scans, states, reordered>>
      /\ queue' = [queue EXCEPT ![t] = Notifier!FlushOrSchedule(p)]
      /\ sent' = [a \in Agents |-> [x \in Notifier!Texts |-> sent[a][x] + n(a, x)]]
  BY DEF Notifier!SendEnds
<1>3. p \in Queues /\ p.pending = q.pending /\ p.sending = <<>>
      /\ q.sending \in Batches /\ q.pending \in Batches
  <2>1. <<>> \in Batches
    BY DEF Batches
  <2> HIDE DEF q
  <2> QED
    BY <1>1, <2>1 DEF Queues
<1>4. \A a, x : /\ n(a, x) \in Nat
                /\ n(a, x) # 0 => \E i \in DOMAIN q.sending : /\ q.sending[i].agent = a
                                                               /\ q.sending[i].text = x
                /\ Once(q.sending) => n(a, x) <= 1
  BY <1>3, Counted
<1> HIDE DEF p, n
<1>5. BatchFits(t, q.sending) /\ BatchFits(t, p.pending) /\ BatchFits(t, p.sending)
  BY <1>1, <1>3 DEF QueueFits, BatchFits
<1>6. QueueFits(t, Notifier!FlushOrSchedule(p))
  BY <1>1, <1>3, <1>5, FlushKeeps
<1>7. \A u \in Topics : queue'[u] = IF u = t THEN Notifier!FlushOrSchedule(p) ELSE queue[u]
  BY <1>1, <1>2 DEF NotifierTyped
<1> HIDE DEF q
<1>8. \A u \in Topics : QueueFits(u, queue'[u])
  BY <1>6, <1>7 DEF NotifierInv
<1>9. NotifierTyped'
  <2>1. \A a \in Agents : \A x \in Notifier!Texts : sent[a][x] + n(a, x) \in Nat
    BY <1>1, <1>4 DEF NotifierTyped
  <2>2. sent' \in [Agents -> [Notifier!Texts -> Nat]]
    BY <1>2, <2>1
  <2> QED
    BY <1>1, <1>2, <1>6, <2>2 DEF NotifierTyped, QueueFits
<1>10. ASSUME NewsIsNew PROVE NewsIsNew'
  <2>1. /\ Once(q.pending) /\ Once(q.sending) /\ Distinct(q.pending, q.sending)
        /\ Noted(q.pending, states, sent) /\ Noted(q.sending, states, sent)
    BY <1>10 DEF NewsIsNew, QueueIsNew, q
  <2>2. ASSUME NEW b \in Batches, Noted(b, states, sent),
               \A m \in DOMAIN b, i \in DOMAIN q.sending : ~Same(b[m], q.sending[i])
        PROVE  Noted(b, states', sent')
    <3>1. ASSUME NEW m \in DOMAIN b
          PROVE  /\ b[m].text <= states'[b[m].agent].notified
                 /\ sent'[b[m].agent][b[m].text] = 0
      <4>1. b[m].agent \in Agents /\ b[m].text \in Notifier!Texts
        BY BatchSeq DEF Notifier!Items
      <4>2. n(b[m].agent, b[m].text) = 0
        BY <1>4, <2>2 DEF Same
      <4>3. sent[b[m].agent][b[m].text] = 0 /\ b[m].text <= states[b[m].agent].notified
        BY <2>2 DEF Noted
      <4> QED
        BY <1>2, <4>1, <4>2, <4>3
    <3> QED
      BY <3>1 DEF Noted
  <2>3. QueueIsNew(p, states', sent')
    <3>1. Noted(q.pending, states', sent')
      BY <1>3, <2>1, <2>2 DEF Distinct
    <3> QED
      BY <1>3, <2>1, <3>1 DEF QueueIsNew, Once, Distinct, Noted
  <2>4. \A u \in Topics : QueueIsNew(queue'[u], states', sent')
    <3>1. QueueIsNew(Notifier!FlushOrSchedule(p), states', sent')
      BY <1>1, <1>3, <1>5, <2>3, FlushKeeps
    <3>2. ASSUME NEW u \in Topics, u # t PROVE QueueIsNew(queue[u], states', sent')
      <4>1. /\ queue[u] \in Queues /\ QueueFits(u, queue[u])
            /\ QueueIsNew(queue[u], states, sent)
        BY <1>1, <1>10 DEF NotifierTyped, NotifierInv, NewsIsNew
      <4>2. ASSUME NEW b \in {queue[u].pending, queue[u].sending}
            PROVE  Noted(b, states', sent')
        <5>1. b \in Batches /\ BatchFits(u, b) /\ Noted(b, states, sent)
          BY <4>1 DEF Queues, QueueFits, QueueIsNew
        <5>2. \A m \in DOMAIN b, i \in DOMAIN q.sending : ~Same(b[m], q.sending[i])
          BY <1>5, <3>2, <5>1 DEF BatchFits, Same
        <5> QED
          BY <2>2, <5>1, <5>2
      <4> QED
        BY <4>1, <4>2 DEF QueueIsNew
    <3> QED
      BY <1>7, <3>1, <3>2
  <2>5. ASSUME NEW a \in Agents, NEW x \in Notifier!Texts
        PROVE  sent'[a][x] <= 1 /\ (sent'[a][x] = 1 => x # 0 /\ x <= states'[a].notified)
    <3>1. /\ sent'[a][x] = sent[a][x] + n(a, x) /\ sent[a][x] \in Nat /\ n(a, x) \in Nat
          /\ states' = states
      BY <1>1, <1>2, <1>4 DEF NotifierTyped
    <3>2. sent[a][x] <= 1 /\ (sent[a][x] = 1 => x # 0 /\ x <= states[a].notified)
      BY <1>10 DEF NewsIsNew
    <3>3. CASE n(a, x) = 0
      BY <3>1, <3>2, <3>3
    <3>4. CASE n(a, x) # 0
      <4>1. PICK i \in DOMAIN q.sending : q.sending[i].agent = a /\ q.sending[i].text = x
        BY <1>4, <3>4
      <4>2. sent[a][x] = 0 /\ x # 0 /\ x <= states[a].notified /\ n(a, x) <= 1
        BY <1>4, <1>5, <2>1, <4>1 DEF BatchFits, Noted
      <4> QED
        BY <3>1, <4>2
    <3> QED
      BY <3>3, <3>4
  <2> QED
    BY <1>2, <1>10, <2>4, <2>5 DEF NewsIsNew
<1> QED
  BY <1>2, <1>8, <1>9, <1>10 DEF NotifierInv

LEMMA NotifierNext ==
  ASSUME Notifier!NotifierAssumption, NotifierInv, [Notifier!Next]_notifier
  PROVE  NotifierInv'
<1>1. CASE UNCHANGED notifier
  BY <1>1 DEF notifier, NotifierInv, NotifierTyped, NewsIsNew
<1>2. CASE Notifier!Next
  <2>1. CASE \/ \E a \in Agents : Notifier!AgentRuns(a) \/ Notifier!AgentSpeaks(a) \/ Notifier!AgentEnds(a)
             \/ Notifier!QuietHours \/ Notifier!ScanStarts
    BY <2>1, WorldTurns
  <2>2. ASSUME NEW s \in scans, NEW recent \in BOOLEAN, Notifier!Observe(s, recent)
        PROVE  NotifierInv'
    BY <2>2, Observed
  <2>3. ASSUME NEW t \in Topics,
               Notifier!TimerFires(t) \/ Notifier!IntervalPasses(t) \/ Notifier!SendEnds(t)
        PROVE  NotifierInv'
    BY <2>3, QueueTurns, MessageIsOut
  <2> QED
    BY <1>2, <2>1, <2>2, <2>3 DEF Notifier!Next
<1> QED
  BY <1>1, <1>2

(* What the runs check follows.                                             *)
LEMMA NotifierIsSound ==
  ASSUME Notifier!NotifierAssumption, NotifierInv
  PROVE  /\ Notifier!TypeOK /\ Notifier!EachAnswerOnce
         /\ Notifier!WaitingIsScheduled /\ Notifier!QuietAnswersStayQuiet
<1>1. NotifierTyped /\ \A t \in Topics : QueueFits(t, queue[t])
  BY DEF NotifierInv
<1>2. Notifier!WaitingIsScheduled
  BY <1>1 DEF QueueFits, Notifier!WaitingIsScheduled
<1>3. Notifier!QuietAnswersStayQuiet
  BY <1>1 DEF QueueFits, BatchFits, Notifier!QuietAnswersStayQuiet, Notifier!ToSet
<1>4. Notifier!TypeOK
  <2>1. AgentStates \subseteq [running : BOOLEAN, text : Notifier!Texts, hushed : BOOLEAN, turns : Nat]
    BY DEF AgentStates
  <2> QED
    BY <1>1, <2>1 DEF NotifierTyped, Notifier!TypeOK, AgentStates, Memories, Queues, Batches
<1>5. ASSUME ~reordered, NEW a \in Agents, NEW x \in Notifier!Texts
      PROVE  ~(sent[a][x] + Notifier!Cardinality(
                 {t \in Topics : \E i \in Notifier!Waiting(t) : i.agent = a /\ i.text = x}) > 1)
  <2> DEFINE S == {t \in Topics : \E i \in Notifier!Waiting(t) : i.agent = a /\ i.text = x}
  <2>1. NewsIsNew /\ sent[a][x] \in Nat /\ sent[a][x] <= 1
    BY <1>1, <1>5 DEF NotifierInv, NewsIsNew, NotifierTyped
  <2>2. ASSUME NEW t \in S PROVE t = TopicOf[a] /\ sent[a][x] = 0
    <3>1. PICK i \in Notifier!Waiting(t) : i.agent = a /\ i.text = x
      BY <2>2
    <3>2. \E b \in {queue[t].pending, queue[t].sending} : \E m \in DOMAIN b : i = b[m]
      BY <3>1 DEF Notifier!Waiting, Notifier!ToSet
    <3>3. PICK b \in {queue[t].pending, queue[t].sending} : \E m \in DOMAIN b : i = b[m]
      BY <3>2
    <3>4. BatchFits(t, b) /\ Noted(b, states, sent)
      BY <1>1, <2>1, <2>2, <3>3 DEF QueueFits, NewsIsNew, QueueIsNew
    <3> QED
      BY <3>1, <3>3, <3>4 DEF BatchFits, Noted
  <2>3. CASE S = {}
    <3>1. Cardinality(S) = 0
      BY <2>3, FS_EmptySet
    <3> HIDE DEF S
    <3>2. Notifier!Cardinality(S) = 0
      BY <3>1 DEF Notifier!Cardinality, Cardinality
    <3> QED
      BY <2>1, <3>2 DEF S
  <2>4. CASE S # {}
    <3>1. S = {TopicOf[a]} /\ sent[a][x] = 0
      BY <2>2, <2>4
    <3>2. Cardinality(S) = 1
      BY <3>1, FS_Singleton
    <3>3. Notifier!Cardinality(S) = 1
      BY <3>2 DEF Notifier!Cardinality, Cardinality
    <3> QED
      BY <3>1, <3>3
  <2> QED
    BY <2>3, <2>4
<1>6. Notifier!EachAnswerOnce
  BY <1>5 DEF Notifier!EachAnswerOnce
<1> QED
  BY <1>2, <1>3, <1>4, <1>6

-----------------------------------------------------------------------------
(* An answer is announced once, unless a scan was overtaken, as long as     *)
(* something waits somebody will look at it, and an answer of quiet hours   *)
(* is not sent; of the events of a transcript none is told twice, no turn   *)
(* that ended is missed, and none is told as completed that went on.        *)
THEOREM NotificationsStaySound == MCSpec => []NotificationsAreSound
<1>1. MCInit => NotifierInv /\ EventsInv
  BY NotifierInit, NotifierBounds, EventsInit, EventsBounds DEF MCInit
<1>2. [MCNext]_all => [Notifier!Next]_notifier /\ [Events!Next]_decoding
  BY DEF MCNext, RecordSteps, InstallSteps, all, records, installed, notifier, decoding
<1>3. NotifierInv /\ [MCNext]_all => NotifierInv'
  BY <1>2, NotifierNext, NotifierBounds
<1>4. EventsInv /\ [MCNext]_all => EventsInv'
  BY <1>2, EventsNext, EventsBounds
<1>5. NotifierInv /\ EventsInv => NotificationsAreSound
  BY NotifierIsSound, NotifierBounds DEF NotificationsAreSound, EventsInv
<1> QED
  BY <1>1, <1>3, <1>4, <1>5, PTL DEF MCSpec

(* The notifications of finished rounds, of whatever agents and topics.     *)
THEOREM AnswersAreAnnouncedOnce == Notifier!Spec => []NotifierInv
<1>1. Notifier!Init => NotifierInv
  BY NotifierInit, NotifierBounds
<1>2. NotifierInv /\ [Notifier!Next]_notifier => NotifierInv'
  BY NotifierNext, NotifierBounds
<1>3. [Notifier!Next]_(Notifier!vars) => [Notifier!Next]_notifier
  BY DEF Notifier!vars, notifier
<1> QED
  BY <1>1, <1>2, <1>3, PTL DEF Notifier!Spec

-----------------------------------------------------------------------------
(* The progress reports (ProgressReports).                                  *)

Page == [known : BOOLEAN, turns : SUBSET Turns, dirty : BOOLEAN]
PageSets == [Hours -> Page]
Reporting == [at : {"idle", "flush", "choose", "look", "claim", "take", "read", "write", "fail"},
              id : Reports!Ids \union {Nothing}, attempt : 0..Reports!MaxAttempts, lock : Nat,
              left : SUBSET (Hours \union Controllers), turns : SUBSET Turns,
              partial : BOOLEAN, done : SUBSET Reports!Ids]
Flush == [on : BOOLEAN, left : SUBSET Hours, writing : Hours \union {Nothing}]
Reporters == [stopped : BOOLEAN, pages : PageSets, job : Reporting,
              flush : [Reports!Flushers -> Flush],
              processed : SUBSET Reports!Ids, waits : SUBSET Reports!Ids]
Reported == [status : {"none", "ready", "failed"}, attempts : 0..Reports!MaxAttempts,
           turns : SUBSET Turns, partial : BOOLEAN, waits : BOOLEAN]

(* What a controller is at: the flush of a tick is on only while the tick   *)
(* is at it, that of stop only after it.                                    *)
ProcessFits(p) ==
  /\ p \in Reporters
  /\ p.job.at \in {"look", "claim", "take", "read", "write", "fail"} => p.job.id \in Reports!Ids
  /\ p.job.at # "flush" => p.flush["tick"] = Reports!NoFlush
  /\ ~p.stopped => p.flush["stop"] = Reports!NoFlush

StoreFits ==
  /\ closed \subseteq Hours
  /\ journal \in [Controllers -> [Hours -> (SUBSET Turns) \union {NoJournal}]]
  /\ former \in [Hours -> SUBSET Turns]
  /\ writes \subseteq [by : Controllers, from : Reports!Flushers, hour : Hours, turns : SUBSET Turns]
  /\ report \in [Reports!Ids -> Reported]
  /\ claim \in [Reports!Ids -> [version : Nat, live : BOOLEAN]]
  /\ outlived \subseteq Reports!Ids /\ unheard \subseteq Reports!Ids
  /\ crossed \subseteq Controllers \X Hours

ReportsTyped ==
  /\ ctl \in [Controllers -> Reporters] /\ \A c \in Controllers : ProcessFits(ctl[c])
  /\ StoreFits

(* A flush writes one journal at a time.                                    *)
WritesFit ==
  /\ \A w \in writes : ctl[w.by].flush[w.from].writing = w.hour
  /\ \A w, v \in writes : w.by = v.by /\ w.from = v.from => w = v

(* A journal that is not dirty is stored, or what is being written is it.   *)
JournalFits(c, h) ==
  LET p == ctl[c].pages[h] IN
  <<c, h>> \notin crossed =>
    /\ \A w, v \in writes : w.by = c /\ v.by = c /\ w.hour = h /\ v.hour = h => w = v
    /\ p.known /\ ~p.dirty =>
         /\ \A w \in writes : w.by = c /\ w.hour = h => w.turns = p.turns
         /\ (\A w \in writes : <<w.by, w.hour>> # <<c, h>>) => journal[c][h] = p.turns

JournalsFit == WritesFit /\ \A c \in Controllers, h \in Hours : JournalFits(c, h)

(* The claim of a report: who has it has it alone, and has it while the     *)
(* report is not ready; and it is not free while somebody who saw the       *)
(* report before it was ready may still take it.                            *)
OnIt(c, i, places) == ctl[c].job.id = i /\ ctl[c].job.at \in places
Having == {"read", "write", "fail"}

ClaimFits(i) ==
  /\ \A c \in Controllers : OnIt(c, i, Having) =>
       /\ claim[i].live /\ report[i].status # "ready"
       /\ \A d \in Controllers : OnIt(d, i, Having) => d = c
  /\ \A c \in Controllers : OnIt(c, i, {"claim", "take"}) /\ report[i].status = "ready" =>
       claim[i].live

LockFits(c) ==
  ctl[c].job.at = "take" =>
    /\ ctl[c].job.lock <= claim[ctl[c].job.id].version
    /\ ctl[c].job.lock = claim[ctl[c].job.id].version => ~claim[ctl[c].job.id].live
    /\ (\A d \in Controllers : d = c) => ctl[c].job.lock = claim[ctl[c].job.id].version

Mended == Reports!Ids \ (outlived \union unheard)

ClaimsFit ==
  /\ \A i \in Mended : ClaimFits(i)
  /\ \A c \in Controllers : LockFits(c)
  /\ \A i \in Reports!Ids : report[i].status = "ready" => ~report[i].waits

(* What a whole day is made of stays in it.                                   *)
Holds(turns, left) ==
  \A h \in (Hours \intersect Mended) \ left :
    report[h].status = "ready" /\ report[h].turns \subseteq turns

DayFits ==
  /\ \A c \in Controllers :
       /\ OnIt(c, Day, {"write"}) => ctl[c].job.left = {}
       /\ OnIt(c, Day, {"read", "write"}) /\ ~ctl[c].job.partial =>
            Holds(ctl[c].job.turns, ctl[c].job.left)
  /\ report[Day].status = "ready" /\ ~report[Day].partial => Holds(report[Day].turns, {})

ReportsInv == ReportsTyped /\ JournalsFit /\ ClaimsFit /\ DayFits

-----------------------------------------------------------------------------
(* What stays while nothing is stored: the jobs of the others, and those    *)
(* that are not yet, or no longer, about a report.                          *)
LEMMA ClaimsKeep ==
  ASSUME ReportsTyped, ClaimsFit, DayFits,
         UNCHANGED <<report, claim, outlived, unheard>>,
         \A c \in Controllers : \/ ctl'[c].job = ctl[c].job
                                \/ ctl'[c].job.at \notin {"claim", "take", "read", "write", "fail"}
  PROVE  ClaimsFit' /\ DayFits'
<1>1. Mended' = Mended
  BY DEF Mended
<1>2. \A c \in Controllers : \A i : \A S \in SUBSET {"claim", "take", "read", "write", "fail"} :
        OnIt(c, i, S)' => OnIt(c, i, S) /\ ctl'[c].job = ctl[c].job
  BY DEF OnIt
<1>3. {"claim", "take"} \in SUBSET {"claim", "take", "read", "write", "fail"}
      /\ Having \in SUBSET {"claim", "take", "read", "write", "fail"}
      /\ {"write"} \in SUBSET {"claim", "take", "read", "write", "fail"}
      /\ {"read", "write"} \in SUBSET {"claim", "take", "read", "write", "fail"}
  BY DEF Having
<1>4. \A i \in Mended : ClaimFits(i)'
  BY <1>2, <1>3 DEF ClaimsFit, ClaimFits
<1>5. \A c \in Controllers : LockFits(c)'
  BY DEF ClaimsFit, LockFits
<1>6. \A turns, left : Holds(turns, left)' <=> Holds(turns, left)
  BY <1>1 DEF Holds
<1>7. DayFits'
  BY <1>2, <1>3, <1>6 DEF DayFits
<1> QED
  BY <1>1, <1>4, <1>5, <1>7 DEF ClaimsFit

(* What stays while no journal is written: those of the others, and those   *)
(* that are forgotten.                                                      *)
LEMMA JournalsKeep ==
  ASSUME JournalsFit, ReportsTyped, UNCHANGED <<writes, journal, crossed>>,
         \A c \in Controllers : /\ ctl'[c].flush = ctl[c].flush
                                /\ \A h \in Hours : \/ ctl'[c].pages[h] = ctl[c].pages[h]
                                                    \/ ~ctl'[c].pages[h].known
                                                    \/ ctl'[c].pages[h].dirty
  PROVE  JournalsFit'
<1>1. \A w \in writes : w.by \in Controllers
  BY DEF ReportsTyped, StoreFits
<1>2. WritesFit'
  BY <1>1 DEF JournalsFit, WritesFit
<1>3. \A c \in Controllers, h \in Hours : JournalFits(c, h)'
  BY DEF JournalsFit, JournalFits
<1> QED
  BY <1>2, <1>3 DEF JournalsFit

LEMMA OneActs ==
  ASSUME ReportsTyped, NEW c \in Controllers, NEW q, ProcessFits(q), ctl' = [ctl EXCEPT ![c] = q]
  PROVE  /\ ctl' \in [Controllers -> Reporters] /\ ctl'[c] = q
         /\ \A d \in Controllers : d # c => ctl'[d] = ctl[d]
         /\ \A d \in Controllers : ProcessFits(ctl'[d])
<1>1. q \in Reporters
  BY DEF ProcessFits
<1> QED
  BY <1>1 DEF ReportsTyped

(* A step of one controller that stores nothing.                            *)
LEMMA OneKeeps ==
  ASSUME ReportsInv, NEW c \in Controllers, NEW q, ProcessFits(q), ctl' = [ctl EXCEPT ![c] = q],
         UNCHANGED <<closed, journal, former, report, claim, writes, outlived, unheard, crossed>>,
         q.job = ctl[c].job \/ q.job.at \notin {"claim", "take", "read", "write", "fail"},
         \A w \in writes : w.by = c => q.flush[w.from].writing = w.hour,
         \A h \in Hours : q.pages[h] = ctl[c].pages[h] \/ ~q.pages[h].known \/ q.pages[h].dirty
  PROVE  ReportsInv'
<1>1. ReportsTyped /\ StoreFits /\ \A w \in writes : w.by \in Controllers
  BY DEF ReportsInv, ReportsTyped, StoreFits
<1>2. /\ ctl' \in [Controllers -> Reporters] /\ ctl'[c] = q
      /\ \A d \in Controllers : d # c => ctl'[d] = ctl[d]
      /\ \A d \in Controllers : ProcessFits(ctl'[d])
  BY <1>1, OneActs
<1>3. ReportsTyped'
  BY <1>1, <1>2 DEF ReportsTyped, StoreFits
<1>4. ClaimsFit' /\ DayFits'
  <2>1. \A d \in Controllers : \/ ctl'[d].job = ctl[d].job
                               \/ ctl'[d].job.at \notin {"claim", "take", "read", "write", "fail"}
    BY <1>2
  <2> QED
    BY <1>1, <2>1, ClaimsKeep DEF ReportsInv
<1>5. WritesFit'
  BY <1>1, <1>2 DEF ReportsInv, JournalsFit, WritesFit
<1>6. ASSUME NEW d \in Controllers, NEW h \in Hours PROVE JournalFits(d, h)'
  <2>1. JournalFits(d, h)
    BY DEF ReportsInv, JournalsFit
  <2>2. \/ ctl'[d].pages[h] = ctl[d].pages[h]
        \/ ~ctl'[d].pages[h].known \/ ctl'[d].pages[h].dirty
    BY <1>2
  <2> QED
    BY <2>1, <2>2 DEF JournalFits
<1> QED
  BY <1>3, <1>4, <1>5, <1>6 DEF ReportsInv, JournalsFit

LEMMA ProcessParts ==
  ASSUME ReportsInv, NEW c \in Controllers
  PROVE  /\ ReportsTyped /\ StoreFits /\ ctl[c] \in Reporters /\ ProcessFits(ctl[c])
         /\ ctl[c].pages \in PageSets /\ ctl[c].job \in Reporting
         /\ ctl[c].flush \in [Reports!Flushers -> Flush]
         /\ \A w \in writes : w.by = c => ctl[c].flush[w.from].writing = w.hour
                                          /\ w.from \in Reports!Flushers /\ w.hour \in Hours
<1>1. ReportsTyped /\ StoreFits /\ ctl[c] \in Reporters /\ ProcessFits(ctl[c])
  BY DEF ReportsInv, ReportsTyped
<1> QED
  BY <1>1 DEF ReportsInv, JournalsFit, WritesFit, Reporters, StoreFits

LEMMA FlushesMade ==
  ASSUME Reports!ReportsAssumption
  PROVE  /\ Reports!NoFlush \in Flush /\ Reports!Flushing \in Flush
         /\ Reports!NoJob \in Reporting /\ Reports!NoPages \in PageSets
         /\ Reports!NoFlush.writing = Nothing /\ Reports!Flushing.writing = Nothing
         /\ Reports!NoJob.at = "idle"
         /\ \A h \in Hours : ~Reports!NoPages[h].known
         /\ ProcessFits(Reports!Fresh)
<1>1. /\ Reports!NoFlush \in Flush /\ Reports!Flushing \in Flush
      /\ Reports!NoFlush.writing = Nothing /\ Reports!Flushing.writing = Nothing
  BY DEF Reports!NoFlush, Reports!Flushing, Flush
<1>2. Reports!NoJob \in Reporting /\ Reports!NoJob.at = "idle"
  BY DEF Reports!NoJob, Reporting, Reports!MaxAttempts
<1>3. Reports!NoPages \in PageSets /\ \A h \in Hours : ~Reports!NoPages[h].known
  BY DEF Reports!NoPages, PageSets, Page
<1>4. ProcessFits(Reports!Fresh)
  BY <1>1, <1>2, <1>3 DEF Reports!Fresh, ProcessFits, Reporters, Reports!Flushers
<1> QED
  BY <1>1, <1>2, <1>3, <1>4

LEMMA RecordKeeps ==
  ASSUME Reports!ReportsAssumption, ReportsInv, NEW c \in Controllers, NEW t \in Turns,
         Reports!Record(c, t)
  PROVE  ReportsInv'
<1> DEFINE h == HourOf[t]
           p == ctl[c]
           q == [p EXCEPT !.pages[h] = [known |-> TRUE, turns |-> @.turns \union {t}, dirty |-> TRUE]]
<1>1. /\ p \in Reporters /\ ProcessFits(p) /\ p.pages \in PageSets /\ h \in Hours
      /\ \A w \in writes : w.by = c => p.flush[w.from].writing = w.hour
  BY ProcessParts DEF Reports!ReportsAssumption
<1>2. /\ ctl' = [ctl EXCEPT ![c] = q]
      /\ UNCHANGED <<closed, journal, former, report, claim, writes, outlived, unheard, crossed>>
  BY DEF Reports!Record, Reports!store, Reports!history
<1>3. /\ q.pages \in PageSets /\ q.job = p.job /\ q.flush = p.flush /\ q.stopped = p.stopped
      /\ q \in Reporters
      /\ \A g \in Hours : q.pages[g] = p.pages[g] \/ q.pages[g].dirty
  <2>1. q.pages = [p.pages EXCEPT ![h] = [known |-> TRUE, turns |-> @.turns \union {t}, dirty |-> TRUE]]
    BY <1>1 DEF Reporters
  <2>2. q.pages \in PageSets /\ \A g \in Hours : q.pages[g] = p.pages[g] \/ q.pages[g].dirty
    BY <1>1, <2>1 DEF PageSets, Page
  <2> QED
    BY <1>1, <2>2 DEF Reporters
<1> HIDE DEF p, q, h
<1>4. ProcessFits(q)
  BY <1>1, <1>3 DEF ProcessFits
<1>5. \A w \in writes : w.by = c => q.flush[w.from].writing = w.hour
  BY <1>1, <1>3
<1> QED
  BY <1>2, <1>3, <1>4, <1>5, OneKeeps DEF p

LEMMA TickKeeps ==
  ASSUME Reports!ReportsAssumption, ReportsInv, NEW c \in Controllers, Reports!Tick(c)
  PROVE  ReportsInv'
<1> DEFINE p == ctl[c]
           current == {h \in Hours \ closed : \A g \in Hours \ closed : h <= g}
           opened == [h \in Hours |-> IF h \in current /\ ~p.pages[h].known
                                    THEN [known |-> TRUE, turns |-> {}, dirty |-> TRUE] ELSE p.pages[h]]
           q == [p EXCEPT !.job = [Reports!NoJob EXCEPT !.at = "flush"],
                          !.flush["tick"] = Reports!Flushing, !.pages = opened]
<1>1. /\ p \in Reporters /\ ProcessFits(p) /\ p.pages \in PageSets
      /\ p.flush \in [Reports!Flushers -> Flush]
      /\ \A w \in writes : w.by = c => /\ p.flush[w.from].writing = w.hour /\ w.hour \in Hours
                                       /\ w.from \in Reports!Flushers
  BY ProcessParts
<1>2. /\ ctl' = [ctl EXCEPT ![c] = q] /\ p.job.at = "idle" /\ ~p.stopped
      /\ UNCHANGED <<closed, journal, former, report, claim, writes, outlived, unheard, crossed>>
  BY DEF Reports!Tick, Reports!store, Reports!history
<1>3. opened \in PageSets /\ \A h \in Hours : opened[h] = p.pages[h] \/ opened[h].dirty
  BY <1>1 DEF PageSets, Page
<1> HIDE DEF opened, current
<1>4. /\ Reports!Flushing \in Flush /\ Reports!NoJob \in Reporting
      /\ Reports!NoFlush.writing = Nothing
  BY FlushesMade
<1>5. [Reports!NoJob EXCEPT !.at = "flush"] \in Reporting
  BY <1>4 DEF Reporting
<1>6. /\ q \in Reporters /\ q.pages = opened /\ q.flush["stop"] = p.flush["stop"]
      /\ q.job.at = "flush" /\ q.stopped = p.stopped
  BY <1>1, <1>3, <1>4, <1>5 DEF Reporters, Reports!Flushers, Reporting
<1>7. p.flush["tick"] = Reports!NoFlush
  BY <1>1, <1>2 DEF ProcessFits
<1>8. \A w \in writes : w.by = c => q.flush[w.from].writing = w.hour
  <2>1. Nothing \notin Hours
    BY DEF Reports!ReportsAssumption
  <2> QED
    BY <1>1, <1>4, <1>7, <2>1 DEF Reporters, Reports!Flushers
<1> HIDE DEF p, q
<1>9. ProcessFits(q)
  BY <1>1, <1>2, <1>6 DEF ProcessFits
<1> QED
  BY <1>2, <1>3, <1>6, <1>8, <1>9, OneKeeps DEF p

LEMMA FlushEndsKeeps ==
  ASSUME Reports!ReportsAssumption, ReportsInv, NEW c \in Controllers,
         NEW f \in Reports!Flushers, Reports!FlushEnds(c, f)
  PROVE  ReportsInv'
<1> DEFINE p == ctl[c]
           q == [p EXCEPT !.flush[f] = Reports!NoFlush,
                          !.job.at = IF f = "tick" THEN "choose" ELSE @]
<1>1. /\ p \in Reporters /\ ProcessFits(p) /\ p.flush \in [Reports!Flushers -> Flush]
      /\ p.job \in Reporting
      /\ \A w \in writes : w.by = c => /\ p.flush[w.from].writing = w.hour /\ w.hour \in Hours
                                       /\ w.from \in Reports!Flushers
  BY ProcessParts
<1>2. /\ ctl' = [ctl EXCEPT ![c] = q] /\ p.flush[f].writing = Nothing
      /\ UNCHANGED <<closed, journal, former, report, claim, writes, outlived, unheard, crossed>>
  BY DEF Reports!FlushEnds, Reports!store, Reports!history
<1>3. Reports!NoFlush \in Flush
  BY FlushesMade
<1>4. /\ q.flush = [p.flush EXCEPT ![f] = Reports!NoFlush]
      /\ q.job = [p.job EXCEPT !.at = IF f = "tick" THEN "choose" ELSE @]
      /\ q.pages = p.pages /\ q.stopped = p.stopped
      /\ q.job = p.job \/ q.job.at = "choose"
      /\ q.job.at \in {"look", "claim", "take", "read", "write", "fail"} => q.job = p.job
      /\ q.job \in Reporting
      /\ q \in Reporters
  BY <1>1, <1>3 DEF Reporters, Reporting
<1>5. \A w \in writes : w.by = c => q.flush[w.from].writing = w.hour
  <2>1. Nothing \notin Hours
    BY DEF Reports!ReportsAssumption
  <2> QED
    BY <1>1, <1>2, <1>4, <2>1
<1>6. /\ f # "tick" => q.flush["tick"] = p.flush["tick"]  /\ q.job = p.job
      /\ f = "tick" => q.flush["tick"] = Reports!NoFlush
      /\ f # "stop" => q.flush["stop"] = p.flush["stop"]
      /\ f = "stop" => q.flush["stop"] = Reports!NoFlush
  BY <1>1, <1>4 DEF Reports!Flushers, Reporting
<1> HIDE DEF p, q
<1>7. ProcessFits(q)
  BY <1>1, <1>4, <1>6 DEF ProcessFits
<1> QED
  BY <1>2, <1>4, <1>5, <1>7, OneKeeps DEF p

LEMMA StopKeeps ==
  ASSUME Reports!ReportsAssumption, ReportsInv, NEW c \in Controllers, Reports!Stop(c)
  PROVE  ReportsInv'
<1> DEFINE p == ctl[c]
           q == [p EXCEPT !.stopped = TRUE, !.flush["stop"] = Reports!Flushing]
<1>1. /\ p \in Reporters /\ ProcessFits(p) /\ p.flush \in [Reports!Flushers -> Flush]
      /\ \A w \in writes : w.by = c => /\ p.flush[w.from].writing = w.hour /\ w.hour \in Hours
                                       /\ w.from \in Reports!Flushers
  BY ProcessParts
<1>2. /\ ctl' = [ctl EXCEPT ![c] = q] /\ ~p.stopped
      /\ UNCHANGED <<closed, journal, former, report, claim, writes, outlived, unheard, crossed>>
  BY DEF Reports!Stop, Reports!store, Reports!history
<1>3. /\ Reports!Flushing \in Flush /\ Reports!NoFlush.writing = Nothing
  BY FlushesMade
<1>4. /\ q \in Reporters /\ q.stopped /\ q.job = p.job /\ q.pages = p.pages
      /\ q.flush = [p.flush EXCEPT !["stop"] = Reports!Flushing]
      /\ q.flush["tick"] = p.flush["tick"]
  BY <1>1, <1>3 DEF Reporters, Reports!Flushers
<1>5. p.flush["stop"] = Reports!NoFlush
  BY <1>1, <1>2 DEF ProcessFits
<1>6. \A w \in writes : w.by = c => q.flush[w.from].writing = w.hour
  <2>1. Nothing \notin Hours
    BY DEF Reports!ReportsAssumption
  <2> QED
    BY <1>1, <1>3, <1>4, <1>5, <2>1
<1> HIDE DEF p, q
<1>7. ProcessFits(q)
  BY <1>1, <1>4 DEF ProcessFits
<1> QED
  BY <1>2, <1>4, <1>6, <1>7, OneKeeps DEF p

LEMMA FlushNextKeeps ==
  ASSUME Reports!ReportsAssumption, ReportsInv, NEW c \in Controllers,
         NEW f \in Reports!Flushers, NEW h \in Hours, Reports!FlushNext(c, f, h)
  PROVE  ReportsInv'
<1> DEFINE p == ctl[c]
<1>1. /\ p \in Reporters /\ ProcessFits(p) /\ p.pages \in PageSets
      /\ p.flush \in [Reports!Flushers -> Flush]
      /\ \A w \in writes : w.by = c => /\ p.flush[w.from].writing = w.hour /\ w.hour \in Hours
                                       /\ w.from \in Reports!Flushers
      /\ ReportsTyped /\ StoreFits /\ Nothing \notin Hours
  BY ProcessParts DEF Reports!ReportsAssumption
<1>2. /\ p.flush[f].on /\ p.flush[f].writing = Nothing
      /\ UNCHANGED <<closed, journal, former, report, claim, outlived, unheard>>
  BY DEF Reports!FlushNext, Reports!store
<1>3. p.flush[f] # Reports!NoFlush
  BY <1>2 DEF Reports!NoFlush
<1>4. CASE ~p.pages[h].dirty
  <2> DEFINE q == [p EXCEPT !.flush[f].left = @ \ {h}]
  <2>1. /\ ctl' = [ctl EXCEPT ![c] = q]
        /\ UNCHANGED <<closed, journal, former, report, claim, writes, outlived, unheard, crossed>>
    BY <1>2, <1>4 DEF Reports!FlushNext
  <2>2. /\ q \in Reporters /\ q.job = p.job /\ q.pages = p.pages /\ q.stopped = p.stopped
        /\ \A g \in Reports!Flushers : q.flush[g].writing = p.flush[g].writing
        /\ \A g \in Reports!Flushers : g # f => q.flush[g] = p.flush[g]
    BY <1>1 DEF Reporters, Flush
  <2>3. \A w \in writes : w.by = c => q.flush[w.from].writing = w.hour
    BY <1>1, <2>2
  <2> HIDE DEF p, q
  <2>4. ProcessFits(q)
    BY <1>1, <1>3, <2>2 DEF ProcessFits, Reports!Flushers
  <2> QED
    BY <2>1, <2>2, <2>3, <2>4, OneKeeps DEF p
<1>5. CASE p.pages[h].dirty
  <2> DEFINE q == [p EXCEPT !.pages[h].dirty = FALSE, !.flush[f].writing = h,
                            !.flush[f].left = @ \ {h}]
             w == [by |-> c, from |-> f, hour |-> h, turns |-> p.pages[h].turns]
  <2>1. /\ ctl' = [ctl EXCEPT ![c] = q]
        /\ crossed' = IF \E g \in Reports!Flushers \ {f} : p.flush[g].writing = h
                      THEN crossed \union {<<c, h>>} ELSE crossed
        /\ writes' = writes \union {w}
    BY <1>5 DEF Reports!FlushNext
  <2>2. /\ q \in Reporters /\ q.job = p.job /\ q.stopped = p.stopped
        /\ q.flush[f].writing = h
        /\ \A g \in Reports!Flushers : g # f => q.flush[g] = p.flush[g]
        /\ \A g \in Hours : g # h => q.pages[g] = p.pages[g]
        /\ q.pages[h].turns = p.pages[h].turns
    <3>1. /\ q.pages = [p.pages EXCEPT ![h].dirty = FALSE]
          /\ q.flush = [p.flush EXCEPT ![f].writing = h, ![f].left = @ \ {h}]
          /\ q.job = p.job /\ q.stopped = p.stopped
          /\ q = [p EXCEPT !.pages = q.pages, !.flush = q.flush]
      BY <1>1 DEF Reporters
    <3> HIDE DEF p, q
    <3>2. /\ q.pages \in PageSets /\ q.pages[h].turns = p.pages[h].turns
          /\ \A g \in Hours : g # h => q.pages[g] = p.pages[g]
      <4> DEFINE S == p.pages
                 r == [S[h] EXCEPT !.dirty = FALSE]
      <4>1. S \in PageSets /\ S[h] \in Page /\ q.pages = [S EXCEPT ![h] = r]
        BY <1>1, <3>1 DEF PageSets
      <4>2. r \in Page /\ r.turns = S[h].turns /\ r.dirty = FALSE
        BY <4>1 DEF Page
      <4> HIDE DEF r, S
      <4>3. /\ q.pages \in PageSets /\ q.pages[h] = r
            /\ \A g \in Hours : g # h => q.pages[g] = S[g]
        BY <1>1, <4>1, <4>2 DEF PageSets
      <4> QED
        BY <4>2, <4>3 DEF S
    <3>3. /\ q.flush \in [Reports!Flushers -> Flush] /\ q.flush[f].writing = h
          /\ \A g \in Reports!Flushers : g # f => q.flush[g] = p.flush[g]
      BY <1>1, <3>1 DEF Flush
    <3>4. q \in Reporters
      BY <1>1, <3>1, <3>2, <3>3 DEF Reporters
    <3> QED
      BY <3>1, <3>2, <3>3, <3>4
  <2>3. w \in [by : Controllers, from : Reports!Flushers, hour : Hours, turns : SUBSET Turns]
        /\ w.by = c /\ w.from = f /\ w.hour = h /\ w.turns = p.pages[h].turns
    BY <1>1 DEF PageSets, Page
  <2> HIDE DEF p, q, w
  <2>4. ProcessFits(q)
    BY <1>1, <1>3, <2>2 DEF ProcessFits, Reports!Flushers
  <2>5. /\ ctl' \in [Controllers -> Reporters] /\ ctl'[c] = q
        /\ \A d \in Controllers : d # c => ctl'[d] = ctl[d]
        /\ \A d \in Controllers : ProcessFits(ctl'[d])
    BY <1>1, <2>1, <2>4, OneActs
  <2>6. ReportsTyped'
    BY <1>1, <1>2, <2>1, <2>3, <2>5 DEF ReportsTyped, StoreFits
  <2>7. ClaimsFit' /\ DayFits'
    <3>1. \A d \in Controllers : ctl'[d].job = ctl[d].job
      BY <2>2, <2>5 DEF p
    <3> QED
      BY <1>1, <1>2, <3>1, ClaimsKeep DEF ReportsInv
  <2>8. \A v \in writes : v.by = c => v.from # f
    BY <1>1, <1>2
  <2>9. WritesFit'
    <3>1. WritesFit /\ \A v \in writes : v.by \in Controllers
      BY <1>1 DEF ReportsInv, JournalsFit, StoreFits
    <3> QED
      BY <1>1, <2>1, <2>2, <2>3, <2>5, <2>8, <3>1 DEF WritesFit, p
  <2>10. ASSUME NEW d \in Controllers, NEW g \in Hours PROVE JournalFits(d, g)'
    <3>1. JournalFits(d, g)
      BY DEF ReportsInv, JournalsFit
    <3>2. CASE d = c /\ g = h
      <4>1. SUFFICES ASSUME <<c, h>> \notin crossed' PROVE JournalFits(c, h)'
        BY <3>2 DEF JournalFits
      <4>2. <<c, h>> \notin crossed /\ \A e \in Reports!Flushers \ {f} : p.flush[e].writing # h
        BY <2>1, <4>1
      <4>3. \A v \in writes : v.by = c => v.hour # h
        BY <1>1, <2>8, <4>2
      <4> QED
        BY <2>1, <2>2, <2>3, <2>5, <4>3 DEF JournalFits
    <3>3. CASE d # c \/ g # h
      <4>1. ctl'[d].pages[g] = ctl[d].pages[g]
        BY <2>2, <2>5, <3>3 DEF p
      <4>2. <<d, g>> \notin crossed' => <<d, g>> \notin crossed
        BY <2>1
      <4>3. journal' = journal
        BY <1>2
      <4> QED
        BY <2>1, <2>3, <3>1, <3>3, <4>1, <4>2, <4>3 DEF JournalFits
    <3> QED
      BY <3>2, <3>3
  <2> QED
    BY <2>6, <2>7, <2>9, <2>10 DEF ReportsInv, JournalsFit
<1> QED
  BY <1>4, <1>5

LEMMA FlushWrittenKeeps ==
  ASSUME Reports!ReportsAssumption, ReportsInv, NEW w \in writes, Reports!FlushWritten(w)
  PROVE  ReportsInv'
<1> DEFINE c == w.by
           h == w.hour
           f == w.from
           p == ctl[c]
           q == [p EXCEPT !.flush[f].writing = Nothing]
<1>1. /\ c \in Controllers /\ h \in Hours /\ f \in Reports!Flushers /\ w.turns \in SUBSET Turns
      /\ \A v \in writes : v.by \in Controllers /\ v.from \in Reports!Flushers /\ v.hour \in Hours
  BY DEF ReportsInv, ReportsTyped, StoreFits
<1>2. /\ p \in Reporters /\ ProcessFits(p) /\ p.flush \in [Reports!Flushers -> Flush]
      /\ p.flush[f].writing = h /\ ReportsTyped /\ StoreFits /\ Nothing \notin Hours
  BY <1>1, ProcessParts DEF Reports!ReportsAssumption
<1>3. /\ ctl' = [ctl EXCEPT ![c] = q] /\ writes' = writes \ {w}
      /\ journal' = [journal EXCEPT ![c][h] = w.turns]
      /\ UNCHANGED <<closed, former, report, claim, outlived, unheard, crossed>>
  BY DEF Reports!FlushWritten, Reports!history
<1>4. /\ q \in Reporters /\ q.job = p.job /\ q.pages = p.pages /\ q.stopped = p.stopped
      /\ \A g \in Reports!Flushers : g # f => q.flush[g] = p.flush[g]
  BY <1>1, <1>2 DEF Reporters, Flush
<1>5. p.flush[f] # Reports!NoFlush
  BY <1>1, <1>2 DEF Reports!NoFlush
<1> HIDE DEF p, q
<1>6. ProcessFits(q)
  BY <1>2, <1>4, <1>5, <1>1 DEF ProcessFits, Reports!Flushers
<1>7. /\ ctl' \in [Controllers -> Reporters] /\ ctl'[c] = q
      /\ \A d \in Controllers : d # c => ctl'[d] = ctl[d]
      /\ \A d \in Controllers : ProcessFits(ctl'[d])
  BY <1>1, <1>2, <1>3, <1>6, OneActs
<1>8. /\ journal' \in [Controllers -> [Hours -> (SUBSET Turns) \union {NoJournal}]]
      /\ journal'[c][h] = w.turns
      /\ \A d \in Controllers, g \in Hours : d # c \/ g # h => journal'[d][g] = journal[d][g]
  BY <1>1, <1>2, <1>3 DEF StoreFits
<1>9. ReportsTyped'
  BY <1>2, <1>3, <1>7, <1>8 DEF ReportsTyped, StoreFits
<1>10. ClaimsFit' /\ DayFits'
  <2>1. \A d \in Controllers : ctl'[d].job = ctl[d].job
    BY <1>4, <1>7 DEF p
  <2> QED
    BY <1>2, <1>3, <2>1, ClaimsKeep DEF ReportsInv
<1>11. WritesFit /\ JournalsFit
  BY DEF ReportsInv, JournalsFit
<1>12. WritesFit'
  BY <1>1, <1>3, <1>4, <1>7, <1>11 DEF WritesFit, p
<1>13. ASSUME NEW d \in Controllers, NEW g \in Hours PROVE JournalFits(d, g)'
  <2>1. JournalFits(d, g) /\ ctl'[d].pages = ctl[d].pages
    BY <1>4, <1>7, <1>11 DEF JournalsFit, p
  <2>2. CASE d = c /\ g = h
    BY <1>3, <1>8, <2>1, <2>2 DEF JournalFits
  <2>3. CASE d # c \/ g # h
    <3>1. journal'[d][g] = journal[d][g]
      BY <1>8, <2>3
    <3> QED
      BY <1>3, <2>1, <2>3, <3>1 DEF JournalFits
  <2> QED
    BY <2>2, <2>3
<1> QED
  BY <1>9, <1>10, <1>12, <1>13 DEF ReportsInv, JournalsFit


LEMMA FlushFailsKeeps ==
  ASSUME Reports!ReportsAssumption, ReportsInv, NEW w \in writes, Reports!FlushFails(w)
  PROVE  ReportsInv'
<1> DEFINE c == w.by
           h == w.hour
           f == w.from
           p == ctl[c]
           q == [p EXCEPT !.pages[h].dirty = TRUE, !.flush[f] = Reports!NoFlush,
                          !.job = IF f = "tick" THEN Reports!NoJob ELSE @]
<1>1. /\ c \in Controllers /\ h \in Hours /\ f \in Reports!Flushers /\ w.turns \in SUBSET Turns
      /\ \A v \in writes : v.by \in Controllers /\ v.from \in Reports!Flushers /\ v.hour \in Hours
  BY DEF ReportsInv, ReportsTyped, StoreFits
<1>2. /\ p \in Reporters /\ ProcessFits(p) /\ p.flush \in [Reports!Flushers -> Flush]
      /\ p.pages \in PageSets /\ ReportsTyped /\ StoreFits
  BY <1>1, ProcessParts
<1>3. /\ ctl' = [ctl EXCEPT ![c] = q] /\ writes' = writes \ {w}
      /\ \/ journal' = [journal EXCEPT ![c][h] = w.turns]
         \/ UNCHANGED journal
      /\ UNCHANGED <<closed, former, report, claim, outlived, unheard, crossed>>
  BY DEF Reports!FlushFails, Reports!history
<1>4. Reports!NoFlush \in Flush /\ Reports!NoJob \in Reporting /\ Reports!NoJob.at = "idle"
  BY FlushesMade
<1>5. /\ q \in Reporters /\ q.stopped = p.stopped
      /\ q.job = IF f = "tick" THEN Reports!NoJob ELSE p.job
      /\ q.flush[f] = Reports!NoFlush
      /\ \A g \in Reports!Flushers : g # f => q.flush[g] = p.flush[g]
      /\ q.pages[h].dirty
      /\ \A g \in Hours : g # h => q.pages[g] = p.pages[g]
  <2>1. /\ q.pages = [p.pages EXCEPT ![h].dirty = TRUE]
        /\ q.flush = [p.flush EXCEPT ![f] = Reports!NoFlush]
        /\ q.job = IF f = "tick" THEN Reports!NoJob ELSE p.job
        /\ q.stopped = p.stopped
        /\ q = [p EXCEPT !.pages = q.pages, !.flush = q.flush, !.job = q.job]
    BY <1>2 DEF Reporters
  <2> HIDE DEF p, q
  <2>2. /\ q.pages \in PageSets /\ q.pages[h].dirty
        /\ \A g \in Hours : g # h => q.pages[g] = p.pages[g]
    <3> DEFINE S == p.pages
               r == [S[h] EXCEPT !.dirty = TRUE]
    <3>1. S \in PageSets /\ S[h] \in Page /\ q.pages = [S EXCEPT ![h] = r]
      BY <1>1, <1>2, <2>1 DEF PageSets
    <3>2. r \in Page /\ r.turns = S[h].turns /\ r.dirty = TRUE
      BY <3>1 DEF Page
    <3> HIDE DEF r, S
    <3>3. /\ q.pages \in PageSets /\ q.pages[h] = r
          /\ \A g \in Hours : g # h => q.pages[g] = S[g]
      BY <1>1, <3>1, <3>2 DEF PageSets
    <3> QED
      BY <3>2, <3>3 DEF S
  <2>3. /\ q.flush \in [Reports!Flushers -> Flush] /\ q.flush[f] = Reports!NoFlush
        /\ \A g \in Reports!Flushers : g # f => q.flush[g] = p.flush[g]
    BY <1>1, <1>2, <1>4, <2>1
  <2>4. q.job \in Reporting
    BY <1>2, <1>4, <2>1 DEF Reporters
  <2>5. q \in Reporters
    <3>1. /\ p \in Reporters /\ q = [p EXCEPT !.pages = q.pages, !.flush = q.flush, !.job = q.job]
          /\ q.pages \in PageSets /\ q.flush \in [Reports!Flushers -> Flush] /\ q.job \in Reporting
      BY <1>2, <2>1, <2>2, <2>3, <2>4
    <3> QED
      BY <3>1 DEF Reporters
  <2> QED
    BY <2>1, <2>2, <2>3, <2>5
<1> HIDE DEF p, q
<1>6. ProcessFits(q)
  BY <1>2, <1>4, <1>5, <1>1 DEF ProcessFits, Reports!Flushers
<1>7. /\ ctl' \in [Controllers -> Reporters] /\ ctl'[c] = q
      /\ \A d \in Controllers : d # c => ctl'[d] = ctl[d]
      /\ \A d \in Controllers : ProcessFits(ctl'[d])
  BY <1>1, <1>2, <1>3, <1>6, OneActs
<1>8. /\ journal' \in [Controllers -> [Hours -> (SUBSET Turns) \union {NoJournal}]]
      /\ \A d \in Controllers, g \in Hours : d # c \/ g # h => journal'[d][g] = journal[d][g]
  <2>1. journal \in [Controllers -> [Hours -> (SUBSET Turns) \union {NoJournal}]]
    BY <1>2 DEF StoreFits
  <2>2. CASE journal' = [journal EXCEPT ![c][h] = w.turns]
    BY <1>1, <2>1, <2>2
  <2>3. CASE UNCHANGED journal
    BY <2>1, <2>3
  <2> QED
    BY <1>3, <2>2, <2>3
<1>9. ReportsTyped'
  BY <1>2, <1>3, <1>7, <1>8 DEF ReportsTyped, StoreFits
<1>10. ClaimsFit' /\ DayFits'
  <2>1. \A d \in Controllers : \/ ctl'[d].job = ctl[d].job
                               \/ ctl'[d].job.at \notin {"claim", "take", "read", "write", "fail"}
    BY <1>4, <1>5, <1>7 DEF p
  <2> QED
    BY <1>2, <1>3, <2>1, ClaimsKeep DEF ReportsInv
<1>11. WritesFit /\ JournalsFit
  BY DEF ReportsInv, JournalsFit
<1>12. WritesFit'
  BY <1>1, <1>3, <1>5, <1>7, <1>11 DEF WritesFit, p
<1>13. ASSUME NEW d \in Controllers, NEW g \in Hours PROVE JournalFits(d, g)'
  <2>1. JournalFits(d, g)
    BY <1>11 DEF JournalsFit
  <2>2. CASE d = c /\ g = h
    <3>1. ctl'[c].pages[h].dirty
      BY <1>5, <1>7
    <3> QED
      BY <1>3, <2>1, <2>2, <3>1 DEF JournalFits
  <2>3. CASE d # c \/ g # h
    <3>1. journal'[d][g] = journal[d][g] /\ ctl'[d].pages[g] = ctl[d].pages[g]
      BY <1>5, <1>7, <1>8, <2>3 DEF p
    <3> QED
      BY <1>3, <2>1, <2>3, <3>1 DEF JournalFits
  <2> QED
    BY <2>2, <2>3
<1> QED
  BY <1>9, <1>10, <1>12, <1>13 DEF ReportsInv, JournalsFit

LEMMA RestartKeeps ==
  ASSUME Reports!ReportsAssumption, ReportsInv, NEW c \in Controllers, Reports!Restart(c)
  PROVE  ReportsInv'
<1> DEFINE q == Reports!Fresh
<1>1. ReportsTyped /\ StoreFits /\ \A v \in writes : v.by \in Controllers
  BY DEF ReportsInv, ReportsTyped, StoreFits
<1>2. /\ ctl' = [ctl EXCEPT ![c] = q] /\ writes' = {w \in writes : w.by # c}
      /\ journal' = [journal EXCEPT ![c] = [h \in Hours |-> NoJournal]]
      /\ former' = [h \in Hours |-> former[h] \union
                      (IF journal[c][h] = NoJournal THEN {} ELSE journal[c][h])]
      /\ crossed' = {x \in crossed : x[1] # c}
      /\ UNCHANGED <<closed, report, claim, outlived, unheard>>
  BY DEF Reports!Restart
<1>3. /\ ProcessFits(q) /\ q.job.at = "idle" /\ \A h \in Hours : ~q.pages[h].known
  BY FlushesMade DEF Reports!Fresh
<1> HIDE DEF q
<1>4. /\ ctl' \in [Controllers -> Reporters] /\ ctl'[c] = q
      /\ \A d \in Controllers : d # c => ctl'[d] = ctl[d]
      /\ \A d \in Controllers : ProcessFits(ctl'[d])
  BY <1>1, <1>2, <1>3, OneActs
<1>5. /\ journal' \in [Controllers -> [Hours -> (SUBSET Turns) \union {NoJournal}]]
      /\ \A d \in Controllers, g \in Hours : d # c => journal'[d][g] = journal[d][g]
      /\ former' \in [Hours -> SUBSET Turns]
  <2>1. /\ journal \in [Controllers -> [Hours -> (SUBSET Turns) \union {NoJournal}]]
        /\ former \in [Hours -> SUBSET Turns]
    BY <1>1 DEF StoreFits
  <2>2. \A h \in Hours : IF journal[c][h] = NoJournal THEN TRUE ELSE journal[c][h] \in SUBSET Turns
    BY <2>1
  <2>3. former' \in [Hours -> SUBSET Turns]
    BY <1>2, <2>1, <2>2
  <2> QED
    BY <1>2, <2>1, <2>3
<1>6. ReportsTyped'
  BY <1>1, <1>2, <1>4, <1>5 DEF ReportsTyped, StoreFits
<1>7. ClaimsFit' /\ DayFits'
  <2>1. \A d \in Controllers : \/ ctl'[d].job = ctl[d].job
                               \/ ctl'[d].job.at \notin {"claim", "take", "read", "write", "fail"}
    BY <1>3, <1>4
  <2> QED
    BY <1>1, <1>2, <2>1, ClaimsKeep DEF ReportsInv
<1>8. WritesFit'
  BY <1>1, <1>2, <1>4 DEF ReportsInv, JournalsFit, WritesFit
<1>9. ASSUME NEW d \in Controllers, NEW g \in Hours PROVE JournalFits(d, g)'
  <2>1. JournalFits(d, g)
    BY DEF ReportsInv, JournalsFit
  <2>2. CASE d = c
    BY <1>2, <1>3, <1>4, <2>2 DEF JournalFits
  <2>3. CASE d # c
    <3>1. journal'[d][g] = journal[d][g] /\ ctl'[d] = ctl[d]
          /\ (<<d, g>> \notin crossed' => <<d, g>> \notin crossed)
      BY <1>2, <1>4, <1>5, <2>3
    <3> QED
      BY <1>2, <2>1, <2>3, <3>1 DEF JournalFits
  <2> QED
    BY <2>2, <2>3
<1> QED
  BY <1>6, <1>7, <1>8, <1>9 DEF ReportsInv, JournalsFit


(* The job of a report, its journals aside.                                  *)
LEMMA PassedIsTyped ==
  ASSUME NEW work \in Reporting, work.id \in Reports!Ids
  PROVE  Reports!Passed(work) \in Reporting /\ Reports!Passed(work).at = "choose"
<1>1. Reports!NoJob \in Reporting
  BY DEF Reports!NoJob, Reporting, Reports!MaxAttempts
<1> QED
  BY <1>1 DEF Reports!Passed, Reporting

LEMMA DueIsTyped ==
  ASSUME ReportsInv, NEW c \in Controllers
  PROVE  Reports!Due(c) \subseteq Reports!Ids
BY DEF ReportsInv, ReportsTyped, StoreFits, Reports!Due, Reports!Ids

LEMMA JobFits ==
  ASSUME NEW p, ProcessFits(p), p.job.at # "flush", NEW q \in Reporters,
         q.flush = p.flush, q.stopped = p.stopped, q.job.at # "flush",
         q.job.at \in {"look", "claim", "take", "read", "write", "fail"} => q.job.id \in Reports!Ids
  PROVE  ProcessFits(q)
BY DEF ProcessFits

(* A step of a job that is not, or no longer, about a claimed report.         *)
LEMMA IdleKeeps ==
  ASSUME ReportsInv, NEW c \in Controllers, NEW q \in Reporters,
         ctl[c].job.at # "flush", q.job.at \in {"idle", "choose", "look"},
         q.job.at = "look" => q.job.id \in Reports!Ids,
         q.flush = ctl[c].flush, q.stopped = ctl[c].stopped, q.pages = ctl[c].pages,
         ctl' = [ctl EXCEPT ![c] = q],
         UNCHANGED <<closed, journal, former, report, claim, writes, outlived, unheard, crossed>>
  PROVE  ReportsInv'
<1>1. ProcessFits(ctl[c]) /\ \A w \in writes : w.by = c => ctl[c].flush[w.from].writing = w.hour
  BY ProcessParts
<1>2. ProcessFits(q)
  BY <1>1, JobFits
<1>3. /\ \A w \in writes : w.by = c => q.flush[w.from].writing = w.hour
      /\ q.job = ctl[c].job \/ q.job.at \notin {"claim", "take", "read", "write", "fail"}
      /\ \A h \in Hours : q.pages[h] = ctl[c].pages[h] \/ ~q.pages[h].known \/ q.pages[h].dirty
  BY <1>1
<1> QED
  BY <1>2, <1>3, OneKeeps

LEMMA ChooseKeeps ==
  ASSUME ReportsInv, NEW c \in Controllers, Reports!Choose(c)
  PROVE  ReportsInv'
<1> DEFINE p == ctl[c]
<1>1. p \in Reporters /\ p.job \in Reporting
  BY ProcessParts
<1>2. PICK i \in Reports!Ids :
        /\ p.job.at = "choose"
        /\ ctl' = [ctl EXCEPT ![c].job =
                     IF i \in ctl[c].processed \union ctl[c].waits
                     THEN Reports!Passed([@ EXCEPT !.id = i])
                     ELSE [@ EXCEPT !.at = "look", !.id = i]]
        /\ UNCHANGED <<closed, journal, former, report, claim, writes, outlived, unheard, crossed>>
  BY DueIsTyped DEF Reports!Choose, Reports!store, Reports!history
<1> DEFINE begun == [p.job EXCEPT !.at = "look", !.id = i]
           over == Reports!Passed([p.job EXCEPT !.id = i])
           j == IF i \in p.processed \union p.waits THEN over ELSE begun
           q == [p EXCEPT !.job = j]
<1>3. begun \in Reporting /\ begun.at = "look" /\ begun.id = i
  BY <1>1 DEF Reporting
<1>4. over \in Reporting /\ over.at = "choose"
  <2>1. [p.job EXCEPT !.id = i] \in Reporting /\ [p.job EXCEPT !.id = i].id = i
    BY <1>1 DEF Reporting
  <2> QED
    BY <2>1, PassedIsTyped
<1>5. ctl' = [ctl EXCEPT ![c] = q]
  BY <1>2
<1> HIDE DEF begun, over
<1>6. j \in Reporting /\ j.at \in {"choose", "look"} /\ (j.at = "look" => j.id = i)
  BY <1>3, <1>4
<1> HIDE DEF j
<1>7. /\ q \in Reporters /\ q.job = j /\ q.flush = p.flush /\ q.stopped = p.stopped
      /\ q.pages = p.pages
  BY <1>1, <1>6 DEF Reporters
<1> HIDE DEF p, q
<1> QED
  BY <1>2, <1>5, <1>6, <1>7, IdleKeeps DEF p

LEMMA JobEndsKeeps ==
  ASSUME ReportsInv, NEW c \in Controllers, ctl[c].job.at # "flush",
         ctl' = [ctl EXCEPT ![c].job = Reports!NoJob],
         UNCHANGED <<closed, journal, former, report, claim, writes, outlived, unheard, crossed>>
  PROVE  ReportsInv'
<1> DEFINE p == ctl[c]
           q == [p EXCEPT !.job = Reports!NoJob]
<1>1. p \in Reporters
  BY ProcessParts
<1>2. Reports!NoJob \in Reporting /\ Reports!NoJob.at = "idle"
  BY DEF Reports!NoJob, Reporting, Reports!MaxAttempts
<1>3. ctl' = [ctl EXCEPT ![c] = q]
  OBVIOUS
<1>4. /\ q \in Reporters /\ q.job = Reports!NoJob /\ q.flush = p.flush /\ q.stopped = p.stopped
      /\ q.pages = p.pages
  BY <1>1, <1>2 DEF Reporters
<1> HIDE DEF p, q
<1> QED
  BY <1>2, <1>3, <1>4, IdleKeeps DEF p

LEMMA WaitOverKeeps ==
  ASSUME ReportsInv, NEW c \in Controllers, NEW i,
         ctl' = [ctl EXCEPT ![c].waits = @ \ {i}],
         UNCHANGED <<closed, journal, former, report, claim, writes, outlived, unheard, crossed>>
  PROVE  ReportsInv'
<1> DEFINE p == ctl[c]
           q == [p EXCEPT !.waits = @ \ {i}]
<1>1. /\ p \in Reporters /\ ProcessFits(p)
      /\ \A w \in writes : w.by = c => p.flush[w.from].writing = w.hour
  BY ProcessParts
<1>3. ctl' = [ctl EXCEPT ![c] = q]
  OBVIOUS
<1>4. /\ q \in Reporters /\ q.job = p.job /\ q.flush = p.flush /\ q.stopped = p.stopped
      /\ q.pages = p.pages
  BY <1>1 DEF Reporters
<1> HIDE DEF p, q
<1>5. ProcessFits(q)
  BY <1>1, <1>4 DEF ProcessFits
<1>6. /\ \A w \in writes : w.by = c => q.flush[w.from].writing = w.hour
      /\ \A h \in Hours : q.pages[h] = ctl[c].pages[h] \/ ~q.pages[h].known \/ q.pages[h].dirty
  BY <1>1, <1>4 DEF p
<1> QED
  BY <1>3, <1>4, <1>5, <1>6, OneKeeps DEF p

(* What a step of a job leaves to be shown: that its own claim, its lock    *)
(* and what it has of the day are as they should be.                        *)
LEMMA MovesKeep ==
  ASSUME ReportsInv, NEW c \in Controllers, NEW q, ProcessFits(q),
         ctl' = [ctl EXCEPT ![c] = q],
         UNCHANGED <<closed, journal, former, report, claim, writes, outlived, unheard, crossed>>,
         q.flush = ctl[c].flush, q.pages = ctl[c].pages,
         q.job.at \in Having => ctl[c].job.at \in Having /\ q.job.id = ctl[c].job.id,
         q.job.at \in {"claim", "take"} /\ q.job.id \in Mended /\ report[q.job.id].status = "ready" =>
           claim[q.job.id].live,
         LockFits(c)',
         q.job.id = Day /\ q.job.at = "write" => q.job.left = {},
         q.job.id = Day /\ q.job.at \in {"read", "write"} /\ ~q.job.partial =>
           Holds(q.job.turns, q.job.left)
  PROVE  ReportsInv'
<1>1. ReportsTyped /\ StoreFits /\ ClaimsFit /\ DayFits /\ JournalsFit
  BY DEF ReportsInv, ReportsTyped
<1>2. /\ ctl' \in [Controllers -> Reporters] /\ ctl'[c] = q
      /\ \A d \in Controllers : d # c => ctl'[d] = ctl[d]
      /\ \A d \in Controllers : ProcessFits(ctl'[d])
  BY <1>1, OneActs
<1>3. ReportsTyped'
  BY <1>1, <1>2 DEF ReportsTyped, StoreFits
<1>4. JournalsFit'
  <2>1. \A d \in Controllers : ctl'[d].flush = ctl[d].flush /\ ctl'[d].pages = ctl[d].pages
    BY <1>2
  <2> QED
    BY <1>1, <2>1, JournalsKeep
<1>5. Mended' = Mended
  BY DEF Mended
<1>6. ASSUME NEW i \in Mended PROVE ClaimFits(i)'
  <2>1. ClaimFits(i)
    BY <1>1 DEF ClaimsFit
  <2>2. \A d \in Controllers : OnIt(d, i, Having)' => OnIt(d, i, Having)
    BY <1>2 DEF OnIt, Having
  <2>3. \A d \in Controllers : OnIt(d, i, {"claim", "take"})' /\ report[i].status = "ready" => claim[i].live
    BY <1>2, <2>1 DEF OnIt, ClaimFits
  <2> QED
    BY <2>1, <2>2, <2>3 DEF ClaimFits
<1>7. \A d \in Controllers : LockFits(d)'
  <2>1. \A d \in Controllers : d # c => LockFits(d)'
    BY <1>1, <1>2 DEF ClaimsFit, LockFits
  <2> QED
    BY <2>1
<1>8. ClaimsFit'
  BY <1>1, <1>5, <1>6, <1>7 DEF ClaimsFit
<1>9. \A turns, left : Holds(turns, left)' <=> Holds(turns, left)
  BY <1>5 DEF Holds
<1>10. DayFits'
  BY <1>1, <1>2, <1>9 DEF DayFits, OnIt
<1> QED
  BY <1>3, <1>4, <1>8, <1>10 DEF ReportsInv


LEMMA LookKeeps ==
  ASSUME ReportsInv, NEW c \in Controllers, Reports!Look(c)
  PROVE  ReportsInv'
<1> DEFINE p == ctl[c]
           work == p.job
           i == work.id
<1>1. /\ p \in Reporters /\ ProcessFits(p) /\ work \in Reporting /\ work.at = "look"
      /\ UNCHANGED <<closed, journal, former, report, claim, writes, outlived, unheard, crossed>>
  BY ProcessParts DEF Reports!Look, Reports!store, Reports!history
<1>2. i \in Reports!Ids /\ report[i] \in Reported
  BY <1>1 DEF ProcessFits, ReportsInv, ReportsTyped, StoreFits
<1>3. /\ Reports!Passed(work) \in Reporting /\ Reports!Passed(work).at = "choose"
  BY <1>1, <1>2, PassedIsTyped
<1>4. CASE ctl' = [ctl EXCEPT ![c].processed = @ \union {i}, ![c].job = Reports!Passed(@)]
  <2> DEFINE q == [p EXCEPT !.processed = @ \union {i}, !.job = Reports!Passed(work)]
  <2>1. ctl' = [ctl EXCEPT ![c] = q]
    BY <1>4
  <2>2. /\ q \in Reporters /\ q.job = Reports!Passed(work) /\ q.flush = p.flush
        /\ q.stopped = p.stopped /\ q.pages = p.pages
    BY <1>1, <1>2, <1>3 DEF Reporters
  <2> HIDE DEF p, q
  <2> QED
    BY <1>1, <1>3, <2>1, <2>2, IdleKeeps DEF p
<1>5. CASE ctl' = [ctl EXCEPT ![c].waits = @ \union {i}, ![c].job = Reports!Passed(@)]
  <2> DEFINE q == [p EXCEPT !.waits = @ \union {i}, !.job = Reports!Passed(work)]
  <2>1. ctl' = [ctl EXCEPT ![c] = q]
    BY <1>5
  <2>2. /\ q \in Reporters /\ q.job = Reports!Passed(work) /\ q.flush = p.flush
        /\ q.stopped = p.stopped /\ q.pages = p.pages
    BY <1>1, <1>2, <1>3 DEF Reporters
  <2> HIDE DEF p, q
  <2> QED
    BY <1>1, <1>3, <2>1, <2>2, IdleKeeps DEF p
<1>6. CASE /\ report[i].status # "ready" /\ report[i].attempts < Reports!MaxAttempts
           /\ ctl' = [ctl EXCEPT ![c].job.at = "claim", ![c].job.attempt = report[i].attempts + 1]
  <2> DEFINE j == [work EXCEPT !.at = "claim", !.attempt = report[i].attempts + 1]
             q == [p EXCEPT !.job = j]
  <2>1. ctl' = [ctl EXCEPT ![c] = q]
    BY <1>6
  <2>2. report[i].attempts + 1 \in 0..Reports!MaxAttempts
    BY <1>2, <1>6 DEF Reported, Reports!MaxAttempts
  <2>3. j \in Reporting /\ j.at = "claim" /\ j.id = i
    BY <1>1, <2>2 DEF Reporting
  <2> HIDE DEF j
  <2>4. /\ q \in Reporters /\ q.job = j /\ q.flush = p.flush
        /\ q.stopped = p.stopped /\ q.pages = p.pages
    BY <1>1, <2>3 DEF Reporters
  <2> HIDE DEF p, q
  <2>5. ProcessFits(q)
    BY <1>1, <1>2, <2>3, <2>4, JobFits
  <2>6. LockFits(c)'
    BY <2>1, <2>3, <2>4 DEF LockFits, ReportsInv, ReportsTyped
  <2> QED
    BY <1>1, <1>6, <2>1, <2>3, <2>4, <2>5, <2>6, MovesKeep DEF p, Having
<1> QED
  BY <1>4, <1>5, <1>6 DEF Reports!Look

LEMMA ReadClaimKeeps ==
  ASSUME ReportsInv, NEW c \in Controllers, Reports!ReadClaim(c)
  PROVE  ReportsInv'
<1> DEFINE p == ctl[c]
           work == p.job
           i == work.id
<1>1. /\ p \in Reporters /\ ProcessFits(p) /\ work \in Reporting /\ work.at = "claim"
      /\ UNCHANGED <<closed, journal, former, report, claim, writes, outlived, unheard, crossed>>
      /\ ctl \in [Controllers -> Reporters]
  BY ProcessParts DEF Reports!ReadClaim, Reports!store, Reports!history, ReportsTyped
<1>2. i \in Reports!Ids /\ claim[i] \in [version : Nat, live : BOOLEAN]
  BY <1>1 DEF ProcessFits, ReportsInv, ReportsTyped, StoreFits
<1>3. CASE claim[i].live
  <2> DEFINE q == [p EXCEPT !.waits = @ \union {i}, !.job = Reports!Passed(work)]
  <2>1. ctl' = [ctl EXCEPT ![c] = q]
    BY <1>3 DEF Reports!ReadClaim
  <2>2. /\ Reports!Passed(work) \in Reporting /\ Reports!Passed(work).at = "choose"
    BY <1>1, <1>2, PassedIsTyped
  <2>3. /\ q \in Reporters /\ q.job = Reports!Passed(work) /\ q.flush = p.flush
        /\ q.stopped = p.stopped /\ q.pages = p.pages
    BY <1>1, <1>2, <2>2 DEF Reporters
  <2> HIDE DEF p, q
  <2> QED
    BY <1>1, <2>1, <2>2, <2>3, IdleKeeps DEF p
<1>4. CASE ~claim[i].live
  <2> DEFINE j == [work EXCEPT !.at = "take", !.lock = claim[i].version]
             q == [p EXCEPT !.job = j]
  <2>1. ctl' = [ctl EXCEPT ![c] = q]
    BY <1>1, <1>4 DEF Reports!ReadClaim, Reporters
  <2>2. j \in Reporting /\ j.at = "take" /\ j.id = i /\ j.lock = claim[i].version
    BY <1>1, <1>2 DEF Reporting
  <2> HIDE DEF j
  <2>3. /\ q \in Reporters /\ q.job = j /\ q.flush = p.flush
        /\ q.stopped = p.stopped /\ q.pages = p.pages
    BY <1>1, <2>2 DEF Reporters
  <2>4. i \in Mended => ClaimFits(i)
    BY DEF ReportsInv, ClaimsFit
  <2>5. i \in Mended /\ report[i].status = "ready" => claim[i].live
    BY <1>1, <2>4 DEF ClaimFits, OnIt
  <2> HIDE DEF p, q
  <2>6. ProcessFits(q)
    BY <1>1, <1>2, <2>2, <2>3, JobFits
  <2>7. ctl'[c] = q
    BY <1>1, <2>1
  <2>8. LockFits(c)'
    BY <1>1, <1>2, <1>4, <2>2, <2>3, <2>7 DEF LockFits
  <2> QED
    BY <1>1, <1>4, <2>1, <2>2, <2>3, <2>5, <2>6, <2>8, MovesKeep DEF p, Having
<1> QED
  BY <1>3, <1>4

LEMMA ReadJournalKeeps ==
  ASSUME ReportsInv, NEW c \in Controllers, NEW d \in Controllers, Reports!ReadJournal(c, d)
  PROVE  ReportsInv'
<1> DEFINE p == ctl[c]
           work == p.job
           i == work.id
           heard == IF journal[d][i] = NoJournal THEN work.turns ELSE work.turns \union journal[d][i]
           j == [work EXCEPT !.left = @ \ {d}, !.turns = heard]
           q == [p EXCEPT !.job = j]
<1>1. /\ p \in Reporters /\ ProcessFits(p) /\ work \in Reporting /\ work.at = "read" /\ i # Day
      /\ UNCHANGED <<closed, journal, former, report, claim, writes, outlived, unheard, crossed>>
  BY ProcessParts DEF Reports!ReadJournal, Reports!store, Reports!history
<1>2. /\ i \in Hours /\ journal[d][i] \in (SUBSET Turns) \union {NoJournal}
      /\ ctl \in [Controllers -> Reporters]
  BY <1>1 DEF ProcessFits, Reports!Ids, ReportsInv, ReportsTyped, StoreFits
<1>3. heard \in SUBSET Turns
  BY <1>1, <1>2 DEF Reporting
<1>4. ctl' = [ctl EXCEPT ![c] = q]
  BY DEF Reports!ReadJournal
<1> HIDE DEF heard
<1>5. j \in Reporting /\ j.at = "read" /\ j.id = i
  BY <1>1, <1>3 DEF Reporting
<1> HIDE DEF j
<1>6. /\ q \in Reporters /\ q.job = j /\ q.flush = p.flush
      /\ q.stopped = p.stopped /\ q.pages = p.pages
  BY <1>1, <1>5 DEF Reporters
<1> HIDE DEF p, q
<1>7. ProcessFits(q)
  BY <1>1, <1>2, <1>5, <1>6, JobFits DEF Reports!Ids
<1>8. LockFits(c)'
  BY <1>2, <1>4, <1>5, <1>6 DEF LockFits
<1> QED
  BY <1>1, <1>4, <1>5, <1>6, <1>7, <1>8, MovesKeep DEF p, Having


LEMMA ReadHourKeeps ==
  ASSUME ReportsInv, NEW c \in Controllers, NEW h \in Hours, Reports!ReadHour(c, h)
  PROVE  ReportsInv'
<1> DEFINE p == ctl[c]
           work == p.job
           ready == report[h].status = "ready"
           heard == IF ready THEN work.turns \union report[h].turns ELSE work.turns
           part_ == work.partial \/ report[h].status # "ready" \/ report[h].partial
           j == [work EXCEPT !.left = @ \ {h}, !.partial = part_, !.turns = heard]
           q == [p EXCEPT !.job = j]
<1>1. /\ p \in Reporters /\ ProcessFits(p) /\ work \in Reporting /\ work.at = "read" /\ work.id = Day
      /\ UNCHANGED <<closed, journal, former, report, claim, writes, outlived, unheard, crossed>>
  BY ProcessParts DEF Reports!ReadHour, Reports!store, Reports!history
<1>2. /\ report[h] \in Reported /\ ctl \in [Controllers -> Reporters]
  BY DEF Reports!Ids, ReportsInv, ReportsTyped, StoreFits
<1>3. heard \in SUBSET Turns /\ part_ \in BOOLEAN
      /\ work.turns \subseteq heard /\ (ready => report[h].turns \subseteq heard)
      /\ (~part_ => ~work.partial /\ ready)
  BY <1>1, <1>2 DEF Reporting, Reported
<1>4. ctl' = [ctl EXCEPT ![c] = q]
  BY DEF Reports!ReadHour
<1> HIDE DEF heard, part_
<1>5. /\ j \in Reporting /\ j.at = "read" /\ j.id = Day
      /\ j.left = work.left \ {h} /\ j.turns = heard /\ j.partial = part_
  BY <1>1, <1>3 DEF Reporting
<1> HIDE DEF j
<1>6. /\ q \in Reporters /\ q.job = j /\ q.flush = p.flush
      /\ q.stopped = p.stopped /\ q.pages = p.pages
  BY <1>1, <1>5 DEF Reporters
<1>7. ~work.partial => Holds(work.turns, work.left)
  BY <1>1 DEF ReportsInv, DayFits, OnIt
<1>8. ~j.partial => Holds(j.turns, j.left)
  BY <1>3, <1>5, <1>7 DEF Holds
<1> HIDE DEF p, q
<1>9. ProcessFits(q)
  BY <1>1, <1>5, <1>6, JobFits DEF Reports!Ids
<1>10. LockFits(c)'
  BY <1>2, <1>4, <1>5, <1>6 DEF LockFits
<1> QED
  BY <1>1, <1>4, <1>5, <1>6, <1>8, <1>9, <1>10, MovesKeep DEF p, Having

LEMMA JobTurnsKeeps ==
  ASSUME ReportsInv, NEW c \in Controllers, NEW place \in {"write", "fail"},
         ctl[c].job.at \in {"read", "write"},
         place = "write" => ctl[c].job.at = "read" /\ ctl[c].job.left = {},
         ctl' = [ctl EXCEPT ![c].job.at = place],
         UNCHANGED <<closed, journal, former, report, claim, writes, outlived, unheard, crossed>>
  PROVE  ReportsInv'
<1> DEFINE p == ctl[c]
           work == p.job
           j == [work EXCEPT !.at = place]
           q == [p EXCEPT !.job = j]
<1>1. /\ p \in Reporters /\ ProcessFits(p) /\ work \in Reporting /\ work.at \in {"read", "write"}
      /\ ctl \in [Controllers -> Reporters] /\ work.id \in Reports!Ids
  BY ProcessParts DEF ReportsTyped, ProcessFits
<1>2. ctl' = [ctl EXCEPT ![c] = q]
  OBVIOUS
<1>3. /\ j \in Reporting /\ j.at = place /\ j.id = work.id
      /\ j.left = work.left /\ j.turns = work.turns /\ j.partial = work.partial
  BY <1>1 DEF Reporting
<1> HIDE DEF j
<1>4. /\ q \in Reporters /\ q.job = j /\ q.flush = p.flush
      /\ q.stopped = p.stopped /\ q.pages = p.pages
  BY <1>1, <1>3 DEF Reporters
<1>5. work.id = Day /\ ~work.partial => Holds(work.turns, work.left)
  BY <1>1 DEF ReportsInv, DayFits, OnIt
<1> HIDE DEF p, q
<1>6. ProcessFits(q)
  BY <1>1, <1>3, <1>4, JobFits
<1>7. LockFits(c)'
  BY <1>1, <1>2, <1>3, <1>4 DEF LockFits
<1>8. /\ work.at \in Having /\ q.job.at \notin {"claim", "take"} /\ q.job.id = work.id
      /\ q.job.id = Day /\ q.job.at = "write" => q.job.left = {}
      /\ q.job.id = Day /\ q.job.at \in {"read", "write"} /\ ~q.job.partial =>
           Holds(q.job.turns, q.job.left)
  BY <1>1, <1>3, <1>4, <1>5 DEF Having, p
<1> QED
  BY <1>2, <1>4, <1>6, <1>7, <1>8, MovesKeep DEF p

(* A report is stored, by the one who has its claim.                        *)
LEMMA HaverIsAlone ==
  ASSUME ReportsInv, NEW c \in Controllers, ctl[c].job.at \in Having, ctl[c].job.id \in Mended
  PROVE  LET i == ctl[c].job.id IN
         /\ claim[i].live /\ report[i].status # "ready"
         /\ \A d \in Controllers : OnIt(d, i, Having) => d = c
BY DEF ReportsInv, ClaimsFit, ClaimFits, OnIt

LEMMA ReportIsStored ==
  ASSUME ReportsInv, NEW c \in Controllers, NEW q, ProcessFits(q), NEW i, NEW r \in Reported,
         i = ctl[c].job.id, ctl[c].job.at \in {"write", "fail"},
         report' = [report EXCEPT ![i] = r],
         r.status = "ready" => /\ ~r.waits /\ ctl[c].job.at = "write"
                               /\ r.turns = ctl[c].job.turns /\ r.partial = ctl[c].job.partial,
         ctl' = [ctl EXCEPT ![c] = q], q.flush = ctl[c].flush,
         \A h \in Hours : q.pages[h] = ctl[c].pages[h] \/ ~q.pages[h].known,
         UNCHANGED <<closed, journal, former, claim, writes, outlived, crossed>>,
         \/ q.job.at = "choose" /\ UNCHANGED unheard
         \/ q.job.at = "fail" /\ q.job.id = i /\ unheard' = unheard \union {i}
  PROVE  ReportsInv'
<1>1. /\ ReportsTyped /\ StoreFits /\ ClaimsFit /\ DayFits /\ JournalsFit
      /\ report \in [Reports!Ids -> Reported]
  BY DEF ReportsInv, ReportsTyped, StoreFits
<1>2. i \in Reports!Ids
  BY ProcessParts DEF ProcessFits
<1>3. /\ ctl' \in [Controllers -> Reporters] /\ ctl'[c] = q
      /\ \A d \in Controllers : d # c => ctl'[d] = ctl[d]
      /\ \A d \in Controllers : ProcessFits(ctl'[d])
  BY <1>1, OneActs
<1>4. /\ report' \in [Reports!Ids -> Reported] /\ report'[i] = r
      /\ \A k \in Reports!Ids : k # i => report'[k] = report[k]
  BY <1>1, <1>2
<1>5. ReportsTyped'
  BY <1>1, <1>2, <1>3, <1>4 DEF ReportsTyped, StoreFits
<1>6. JournalsFit'
  <2>1. \A d \in Controllers : /\ ctl'[d].flush = ctl[d].flush
                               /\ \A h \in Hours : \/ ctl'[d].pages[h] = ctl[d].pages[h]
                                                   \/ ~ctl'[d].pages[h].known
                                                   \/ ctl'[d].pages[h].dirty
    BY <1>3
  <2> QED
    BY <1>1, <2>1, JournalsKeep
<1>7. Mended' \subseteq Mended /\ (i \in Mended' => q.job.at = "choose")
  BY DEF Mended
<1>8. i \in Mended => /\ claim[i].live /\ report[i].status # "ready"
                      /\ \A d \in Controllers : OnIt(d, i, Having) => d = c
  BY HaverIsAlone DEF Having
<1>9. ASSUME NEW k \in Mended' PROVE ClaimFits(k)'
  <2>1. ClaimFits(k) /\ k \in Reports!Ids
    BY <1>1, <1>7 DEF ClaimsFit, Mended
  <2>2. CASE k = i
    <3>1. \A d \in Controllers : ~OnIt(d, i, Having)'
      BY <1>3, <1>7, <1>8, <2>2 DEF OnIt, Having
    <3> QED
      BY <1>7, <1>8, <2>2, <3>1 DEF ClaimFits
  <2>3. CASE k # i
    <3>1. \A d \in Controllers : OnIt(d, k, Having)' => OnIt(d, k, Having)
      BY <1>3, <2>3 DEF OnIt, Having
    <3>2. \A d \in Controllers : OnIt(d, k, {"claim", "take"})' => OnIt(d, k, {"claim", "take"})
      BY <1>3 DEF OnIt
    <3> QED
      BY <1>4, <2>1, <2>3, <3>1, <3>2 DEF ClaimFits
  <2> QED
    BY <2>2, <2>3
<1>10. \A d \in Controllers : LockFits(d)'
  BY <1>1, <1>3 DEF ClaimsFit, LockFits
<1>11. ClaimsFit'
  BY <1>1, <1>4, <1>9, <1>10 DEF ClaimsFit
<1>12. \A k \in Mended' : report[k].status = "ready" => report'[k] = report[k]
  BY <1>4, <1>7, <1>8 DEF Mended
<1>13. \A turns, left : Holds(turns, left) => Holds(turns, left)'
  BY <1>7, <1>12 DEF Holds
<1>14. DayFits'
  <2>1. \A d \in Controllers : d # c =>
          /\ OnIt(d, Day, {"write"})' => ctl'[d].job.left = {}
          /\ OnIt(d, Day, {"read", "write"})' /\ ~ctl'[d].job.partial =>
               Holds(ctl[d].job.turns, ctl[d].job.left)'
    BY <1>1, <1>3, <1>13 DEF DayFits, OnIt
  <2>2. ~OnIt(c, Day, {"write"})' /\ ~OnIt(c, Day, {"read", "write"})'
    BY <1>3 DEF OnIt
  <2>3. report'[Day].status = "ready" /\ ~report'[Day].partial => Holds(report[Day].turns, {})'
    <3>1. CASE i # Day
      BY <1>1, <1>4, <1>13, <3>1 DEF DayFits, Reports!Ids
    <3>2. CASE i = Day /\ r.status = "ready" /\ ~r.partial
      <4>1. OnIt(c, Day, {"write"}) /\ OnIt(c, Day, {"read", "write"})
        BY <3>2 DEF OnIt
      <4>2. ctl[c].job.left = {} /\ Holds(ctl[c].job.turns, {})
        BY <1>1, <3>2, <4>1 DEF DayFits
      <4> QED
        BY <1>4, <1>13, <3>2, <4>2
    <3> QED
      BY <1>4, <3>1, <3>2
  <2> QED
    BY <2>1, <2>2, <2>3 DEF DayFits
<1> QED
  BY <1>5, <1>6, <1>11, <1>14 DEF ReportsInv


LEMMA ReportsMade ==
  ASSUME NEW work \in Reporting
  PROVE  /\ Reports!Ready(work) \in Reported /\ Reports!Failed(work) \in Reported
         /\ Reports!Ready(work).turns = work.turns /\ Reports!Ready(work).partial = work.partial
         /\ ~Reports!Ready(work).waits /\ Reports!Failed(work).status = "failed"
<1>1. Reports!NoReport \in Reported
  BY DEF Reports!NoReport, Reported, Reports!MaxAttempts
<1> QED
  BY <1>1 DEF Reports!Ready, Reports!Failed, Reported, Reporting

LEMMA WriteReadyKeeps ==
  ASSUME Reports!ReportsAssumption, ReportsInv, NEW c \in Controllers, Reports!WriteReady(c)
  PROVE  ReportsInv'
<1> DEFINE p == ctl[c]
           work == p.job
           i == work.id
           blank == [h \in Hours |-> IF h = i THEN Reports!NoPages[h] ELSE p.pages[h]]
           q == [p EXCEPT !.processed = @ \union {i}, !.job = Reports!Passed(work), !.pages = blank]
<1>1. /\ p \in Reporters /\ ProcessFits(p) /\ work \in Reporting /\ p.pages \in PageSets
      /\ work.at = "write"
      /\ report' = [report EXCEPT ![i] = Reports!Ready(work)]
      /\ UNCHANGED <<closed, journal, former, claim, writes, outlived, unheard, crossed>>
  BY ProcessParts DEF Reports!WriteReady, Reports!history
<1>2. i \in Reports!Ids
  BY <1>1 DEF ProcessFits
<1>3. ctl' = [ctl EXCEPT ![c] = q]
  BY DEF Reports!WriteReady
<1>4. /\ Reports!Passed(work) \in Reporting /\ Reports!Passed(work).at = "choose"
  BY <1>1, <1>2, PassedIsTyped
<1>5. blank \in PageSets /\ \A h \in Hours : blank[h] = p.pages[h] \/ ~blank[h].known
  <2>1. Reports!NoPages \in PageSets /\ \A h \in Hours : ~Reports!NoPages[h].known
    BY FlushesMade
  <2> QED
    BY <1>1, <2>1 DEF PageSets
<1> HIDE DEF blank
<1>6. /\ q \in Reporters /\ q.job = Reports!Passed(work) /\ q.flush = p.flush
      /\ q.stopped = p.stopped /\ q.pages = blank
  BY <1>1, <1>2, <1>4, <1>5 DEF Reporters
<1> HIDE DEF q
<1>7. ProcessFits(q)
  BY <1>1, <1>4, <1>6, JobFits
<1>8. Reports!Ready(work) \in Reported /\ ~Reports!Ready(work).waits
      /\ Reports!Ready(work).turns = work.turns /\ Reports!Ready(work).partial = work.partial
  BY <1>1, ReportsMade
<1> DEFINE r == Reports!Ready(work)
<1> HIDE DEF r
<1>9. /\ \A h \in Hours : q.pages[h] = ctl[c].pages[h] \/ ~q.pages[h].known
      /\ r \in Reported /\ ~r.waits /\ r.turns = ctl[c].job.turns /\ r.partial = ctl[c].job.partial
      /\ i = ctl[c].job.id /\ q.job.at = "choose" /\ q.flush = ctl[c].flush
      /\ ctl[c].job.at = "write" /\ report' = [report EXCEPT ![i] = r]
  BY <1>1, <1>4, <1>5, <1>6, <1>8 DEF r
<1> HIDE DEF i, p
<1>10. r.status = "ready" => /\ ~r.waits /\ ctl[c].job.at = "write"
                             /\ r.turns = ctl[c].job.turns /\ r.partial = ctl[c].job.partial
  BY <1>9
<1>11. \/ q.job.at = "choose" /\ UNCHANGED unheard
       \/ q.job.at = "fail" /\ q.job.id = i /\ unheard' = unheard \union {i}
  BY <1>1, <1>9
<1>12. UNCHANGED <<closed, journal, former, claim, writes, outlived, crossed>>
  BY <1>1
<1> QED
  BY <1>3, <1>7, <1>9, <1>10, <1>11, <1>12, ReportIsStored

LEMMA WriteReadyFailsKeeps ==
  ASSUME Reports!ReportsAssumption, ReportsInv, NEW c \in Controllers, Reports!WriteReadyFails(c)
  PROVE  ReportsInv'
<1> DEFINE p == ctl[c]
           work == p.job
           i == work.id
           j == [work EXCEPT !.at = "fail"]
           q == [p EXCEPT !.job = j]
<1>1. /\ p \in Reporters /\ ProcessFits(p) /\ work \in Reporting /\ work.at = "write"
      /\ ctl' = [ctl EXCEPT ![c].job.at = "fail"]
      /\ UNCHANGED <<closed, journal, former, claim, writes, outlived, crossed>>
      /\ \/ /\ report' = [report EXCEPT ![i] = Reports!Ready(work)]
            /\ unheard' = unheard \union {i}
         \/ UNCHANGED <<report, unheard>>
  BY ProcessParts DEF Reports!WriteReadyFails
<1>2. i \in Reports!Ids /\ ctl' = [ctl EXCEPT ![c] = q]
  BY <1>1 DEF ProcessFits
<1>3. CASE UNCHANGED <<report, unheard>>
  BY <1>1, <1>3, JobTurnsKeeps
<1>4. CASE /\ report' = [report EXCEPT ![i] = Reports!Ready(work)]
           /\ unheard' = unheard \union {i}
  <2>1. j \in Reporting /\ j.at = "fail" /\ j.id = i
    BY <1>1 DEF Reporting
  <2> HIDE DEF j
  <2>2. /\ q \in Reporters /\ q.job = j /\ q.flush = p.flush
        /\ q.stopped = p.stopped /\ q.pages = p.pages
    BY <1>1, <2>1 DEF Reporters
  <2> HIDE DEF q
  <2>3. ProcessFits(q)
    BY <1>1, <1>2, <2>1, <2>2, JobFits
  <2> DEFINE r == Reports!Ready(work)
  <2>4. /\ r \in Reported /\ ~r.waits /\ r.turns = work.turns /\ r.partial = work.partial
    BY <1>1, ReportsMade
  <2> HIDE DEF r
  <2>5. /\ \A h \in Hours : q.pages[h] = ctl[c].pages[h] \/ ~q.pages[h].known
        /\ i = ctl[c].job.id /\ q.job.at = "fail" /\ q.job.id = i /\ q.flush = ctl[c].flush
        /\ ctl[c].job.at = "write" /\ report' = [report EXCEPT ![i] = r]
        /\ r.turns = ctl[c].job.turns /\ r.partial = ctl[c].job.partial
    BY <1>1, <1>4, <2>1, <2>2, <2>4 DEF r
  <2> HIDE DEF i, p
  <2>6. r.status = "ready" => /\ ~r.waits /\ ctl[c].job.at = "write"
                              /\ r.turns = ctl[c].job.turns /\ r.partial = ctl[c].job.partial
    BY <2>4, <2>5
  <2>7. \/ q.job.at = "choose" /\ UNCHANGED unheard
        \/ q.job.at = "fail" /\ q.job.id = i /\ unheard' = unheard \union {i}
    BY <1>4, <2>5
  <2> QED
    BY <1>1, <1>2, <2>3, <2>4, <2>5, <2>6, <2>7, ReportIsStored
<1> QED
  BY <1>1, <1>3, <1>4

LEMMA WriteFailedKeeps ==
  ASSUME Reports!ReportsAssumption, ReportsInv, NEW c \in Controllers, Reports!WriteFailed(c)
  PROVE  ReportsInv'
<1> DEFINE p == ctl[c]
           work == p.job
           i == work.id
           r == Reports!Failed(work)
           q == [p EXCEPT !.waits = @ \union {i}, !.job = Reports!Passed(work)]
<1>1. /\ p \in Reporters /\ ProcessFits(p) /\ work \in Reporting /\ work.at = "fail"
      /\ report' = [report EXCEPT ![i] = r]
      /\ UNCHANGED <<closed, journal, former, claim, writes, outlived, unheard, crossed>>
  BY ProcessParts DEF Reports!WriteFailed, Reports!history
<1>2. i \in Reports!Ids
  BY <1>1 DEF ProcessFits
<1>3. ctl' = [ctl EXCEPT ![c] = q]
  BY DEF Reports!WriteFailed
<1>4. /\ Reports!Passed(work) \in Reporting /\ Reports!Passed(work).at = "choose"
  BY <1>1, <1>2, PassedIsTyped
<1>6. /\ q \in Reporters /\ q.job = Reports!Passed(work) /\ q.flush = p.flush
      /\ q.stopped = p.stopped /\ q.pages = p.pages
  BY <1>1, <1>2, <1>4 DEF Reporters
<1> HIDE DEF q
<1>7. ProcessFits(q)
  BY <1>1, <1>4, <1>6, JobFits
<1>8. r \in Reported /\ r.status # "ready"
  BY <1>1, ReportsMade
<1> HIDE DEF r
<1>9. /\ \A h \in Hours : q.pages[h] = ctl[c].pages[h] \/ ~q.pages[h].known
      /\ i = ctl[c].job.id /\ q.job.at = "choose" /\ q.flush = ctl[c].flush
      /\ ctl[c].job.at = "fail"
  BY <1>1, <1>4, <1>6
<1> HIDE DEF i
<1> QED
  BY <1>1, <1>3, <1>7, <1>8, <1>9, ReportIsStored

(* A claim is taken: nobody has it, and the report is not ready.            *)
LEMMA TakeClaimKeeps ==
  ASSUME Reports!ReportsAssumption, ReportsInv, NEW c \in Controllers, Reports!TakeClaim(c)
  PROVE  ReportsInv'
<1> DEFINE p == ctl[c]
           work == p.job
           i == work.id
<1>1. /\ p \in Reporters /\ ProcessFits(p) /\ work \in Reporting /\ work.at = "take"
      /\ UNCHANGED <<closed, journal, former, report, writes, outlived, unheard, crossed>>
      /\ ReportsTyped /\ StoreFits /\ ClaimsFit /\ DayFits /\ JournalsFit
  BY ProcessParts DEF Reports!TakeClaim, Reports!history, ReportsInv
<1>2. i \in Reports!Ids /\ claim[i] \in [version : Nat, live : BOOLEAN]
  BY <1>1 DEF ProcessFits, StoreFits
<1>3. CASE ConditionalWrites /\ claim[i].version # work.lock
  <2> DEFINE q == [p EXCEPT !.waits = @ \union {i}, !.job = Reports!Passed(work)]
  <2>1. ctl' = [ctl EXCEPT ![c] = q] /\ UNCHANGED claim
    BY <1>3 DEF Reports!TakeClaim
  <2>2. /\ Reports!Passed(work) \in Reporting /\ Reports!Passed(work).at = "choose"
    BY <1>1, <1>2, PassedIsTyped
  <2>3. /\ q \in Reporters /\ q.job = Reports!Passed(work) /\ q.flush = p.flush
        /\ q.stopped = p.stopped /\ q.pages = p.pages
    BY <1>1, <1>2, <2>2 DEF Reporters
  <2> HIDE DEF p, q
  <2> QED
    BY <1>1, <2>1, <2>2, <2>3, IdleKeeps DEF p
<1>4. CASE ~(ConditionalWrites /\ claim[i].version # work.lock)
  <2> DEFINE left == IF i = Day THEN Hours ELSE Controllers
             begun == IF i = Day THEN {} ELSE former[i]
             j == [work EXCEPT !.at = "read", !.left = left, !.turns = begun]
             q == [p EXCEPT !.job = j]
  <2>1. /\ ctl' = [ctl EXCEPT ![c] = q]
        /\ claim' = [claim EXCEPT ![i] = [version |-> @.version + 1, live |-> TRUE]]
    <3>1. /\ ctl' = [ctl EXCEPT ![c].job.at = "read", ![c].job.left = left, ![c].job.turns = begun]
          /\ claim' = [claim EXCEPT ![i] = [version |-> @.version + 1, live |-> TRUE]]
      BY <1>4 DEF Reports!TakeClaim
    <3> HIDE DEF left, begun
    <3>2. ctl' = [ctl EXCEPT ![c] = q]
      BY <3>1
    <3> QED
      BY <3>1, <3>2
  <2>2. left \in SUBSET (Hours \union Controllers) /\ begun \in SUBSET Turns
    BY <1>1, <1>2 DEF StoreFits, Reports!Ids
  <2> HIDE DEF left, begun
  <2>3. j \in Reporting /\ j.at = "read" /\ j.id = i /\ j.left = left
    BY <1>1, <2>2 DEF Reporting
  <2> HIDE DEF j
  <2>4. /\ q \in Reporters /\ q.job = j /\ q.flush = p.flush
        /\ q.stopped = p.stopped /\ q.pages = p.pages
    BY <1>1, <2>3 DEF Reporters
  <2> HIDE DEF q
  <2>5. ProcessFits(q)
    BY <1>1, <1>2, <2>3, <2>4, JobFits
  <2>6. /\ ctl' \in [Controllers -> Reporters] /\ ctl'[c] = q
        /\ \A d \in Controllers : d # c => ctl'[d] = ctl[d]
        /\ \A d \in Controllers : ProcessFits(ctl'[d])
    BY <1>1, <2>1, <2>5, OneActs
  <2>7. /\ claim' \in [Reports!Ids -> [version : Nat, live : BOOLEAN]]
        /\ claim'[i].version = claim[i].version + 1 /\ claim'[i].live
        /\ \A n \in Reports!Ids : n # i => claim'[n] = claim[n]
    BY <1>1, <1>2, <2>1 DEF StoreFits
  <2>8. ReportsTyped'
    BY <1>1, <2>6, <2>7 DEF ReportsTyped, StoreFits
  <2>9. JournalsFit'
    <3>1. \A d \in Controllers : ctl'[d].flush = ctl[d].flush /\ ctl'[d].pages = ctl[d].pages
      BY <2>4, <2>6
    <3> QED
      BY <1>1, <3>1, JournalsKeep
  <2>10. LockFits(c) /\ claim[i].version = work.lock /\ ~claim[i].live
    <3>1. LockFits(c)
      BY <1>1 DEF ClaimsFit
    <3>2. ConditionalWrites \/ \A d \in Controllers : d = c
      BY DEF Reports!ReportsAssumption
    <3> QED
      BY <1>1, <1>4, <3>1, <3>2 DEF LockFits
  <2>11. Mended' = Mended
    BY <1>1 DEF Mended
  <2>12. ASSUME NEW n \in Mended PROVE ClaimFits(n)'
    <3>1. ClaimFits(n) /\ n \in Reports!Ids
      BY <1>1 DEF ClaimsFit, Mended
    <3>2. CASE n = i
      <4>1. \A d \in Controllers : ~OnIt(d, n, Having)
        BY <2>10, <3>1, <3>2 DEF ClaimFits
      <4>2. report[n].status # "ready"
        BY <1>1, <2>10, <3>1, <3>2 DEF ClaimFits, OnIt
      <4>3. \A d \in Controllers : OnIt(d, n, Having)' => d = c
        BY <2>6, <4>1 DEF OnIt, Having
      <4> QED
        BY <1>1, <2>7, <3>2, <4>2, <4>3 DEF ClaimFits
    <3>3. CASE n # i
      <4>1. \A d \in Controllers : OnIt(d, n, Having)' => OnIt(d, n, Having)
        BY <2>3, <2>4, <2>6, <3>3 DEF OnIt, Having
      <4>2. \A d \in Controllers : OnIt(d, n, {"claim", "take"})' => OnIt(d, n, {"claim", "take"})
        BY <2>3, <2>4, <2>6 DEF OnIt
      <4> QED
        BY <1>1, <2>7, <3>1, <3>3, <4>1, <4>2 DEF ClaimFits
    <3> QED
      BY <3>2, <3>3
  <2>13. ASSUME NEW d \in Controllers PROVE LockFits(d)'
    <3>1. CASE d = c
      BY <2>3, <2>4, <2>6, <3>1 DEF LockFits
    <3>2. CASE d # c
      <4>1. LockFits(d) /\ ctl'[d] = ctl[d]
        BY <1>1, <2>6, <3>2 DEF ClaimsFit
      <4>2. ctl[d].job.at = "take" => ctl[d].job.id \in Reports!Ids /\ ctl[d].job.lock \in Nat
        <5>1. ctl[d].job \in Reporting /\ ProcessFits(ctl[d])
          BY ProcessParts
        <5> QED
          BY <5>1 DEF ProcessFits, Reporting
      <4>3. ~\A e \in Controllers : e = d
        BY <3>2
      <4>4. CASE ctl[d].job.id = i
        BY <1>2, <2>7, <4>1, <4>2, <4>3, <4>4 DEF LockFits
      <4>5. CASE ctl[d].job.id # i
        BY <2>7, <4>1, <4>2, <4>3, <4>5 DEF LockFits
      <4> QED
        BY <4>4, <4>5
    <3> QED
      BY <3>1, <3>2
  <2>14. ClaimsFit'
    BY <1>1, <2>11, <2>12, <2>13 DEF ClaimsFit
  <2>15. \A turns, rest : Holds(turns, rest)' <=> Holds(turns, rest)
    BY <1>1, <2>11 DEF Holds
  <2>16. i = Day => Holds(q.job.turns, q.job.left)
    BY <2>3, <2>4 DEF Holds, left
  <2>17. DayFits'
    BY <1>1, <2>3, <2>4, <2>6, <2>15, <2>16 DEF DayFits, OnIt
  <2> QED
    BY <2>8, <2>9, <2>14, <2>17 DEF ReportsInv
<1> QED
  BY <1>3, <1>4


LEMMA ClaimExpiresKeeps ==
  ASSUME Reports!ReportsAssumption, ReportsInv, NEW i \in Reports!Ids, Reports!ClaimExpires(i)
  PROVE  ReportsInv'
<1>1. /\ claim[i].live /\ claim' = [claim EXCEPT ![i].live = FALSE]
      /\ outlived' = IF \E c \in Controllers : ctl[c].job.id = i
                     THEN outlived \union {i} ELSE outlived
      /\ UNCHANGED <<closed, ctl, journal, former, report, writes, unheard, crossed>>
  BY DEF Reports!ClaimExpires
<1>2. ReportsTyped /\ StoreFits /\ ClaimsFit /\ DayFits /\ JournalsFit
  BY DEF ReportsInv, ReportsTyped
<1>3. /\ claim' \in [Reports!Ids -> [version : Nat, live : BOOLEAN]]
      /\ claim'[i].version = claim[i].version /\ ~claim'[i].live
      /\ \A n \in Reports!Ids : n # i => claim'[n] = claim[n]
  <2>1. claim[i] \in [version : Nat, live : BOOLEAN] /\ claim \in [Reports!Ids -> [version : Nat, live : BOOLEAN]]
    BY <1>2 DEF StoreFits
  <2> DEFINE r == [claim[i] EXCEPT !.live = FALSE]
  <2>2. r \in [version : Nat, live : BOOLEAN] /\ r.version = claim[i].version /\ ~r.live
    BY <2>1
  <2>3. claim' = [claim EXCEPT ![i] = r]
    BY <1>1
  <2> HIDE DEF r
  <2> QED
    BY <2>1, <2>2, <2>3
<1>4. ReportsTyped'
  BY <1>1, <1>2, <1>3 DEF ReportsTyped, StoreFits
<1>5. JournalsFit'
  BY <1>1, <1>2, JournalsKeep
<1>6. Mended' \subseteq Mended /\ \A n \in Mended' : n = i => \A c \in Controllers : ctl[c].job.id # i
  BY <1>1 DEF Mended
<1>7. ASSUME NEW n \in Mended' PROVE ClaimFits(n)'
  <2>1. ClaimFits(n) /\ n \in Reports!Ids
    BY <1>2, <1>6 DEF ClaimsFit, Mended
  <2>2. CASE n = i
    BY <1>1, <1>6, <2>2 DEF ClaimFits, OnIt
  <2>3. CASE n # i
    BY <1>1, <1>3, <2>1, <2>3 DEF ClaimFits, OnIt
  <2> QED
    BY <2>2, <2>3
<1>8. ASSUME NEW d \in Controllers PROVE LockFits(d)'
  <2>1. LockFits(d) /\ ctl'[d] = ctl[d]
    BY <1>1, <1>2 DEF ClaimsFit
  <2>2. ctl[d].job.at = "take" => ctl[d].job.id \in Reports!Ids
    BY ProcessParts DEF ProcessFits
  <2>3. CASE ctl[d].job.id = i
    BY <1>3, <2>1, <2>2, <2>3 DEF LockFits
  <2>4. CASE ctl[d].job.id # i
    BY <1>3, <2>1, <2>2, <2>4 DEF LockFits
  <2> QED
    BY <2>3, <2>4
<1>9. ClaimsFit'
  BY <1>1, <1>2, <1>7, <1>8 DEF ClaimsFit
<1>10. \A turns, left : Holds(turns, left) => Holds(turns, left)'
  BY <1>1, <1>6 DEF Holds
<1>11. DayFits'
  BY <1>1, <1>2, <1>10 DEF DayFits, OnIt
<1> QED
  BY <1>4, <1>5, <1>9, <1>11 DEF ReportsInv

LEMMA RetryDueKeeps ==
  ASSUME Reports!ReportsAssumption, ReportsInv, NEW i \in Reports!Ids, Reports!RetryDue(i)
  PROVE  ReportsInv'
<1>1. CASE \E c \in Controllers :
             /\ i \in ctl[c].waits
             /\ ctl' = [ctl EXCEPT ![c].waits = @ \ {i}]
             /\ UNCHANGED <<closed, Reports!store, writes, Reports!history>>
  <2>1. PICK c \in Controllers :
          /\ ctl' = [ctl EXCEPT ![c].waits = @ \ {i}]
          /\ UNCHANGED <<closed, Reports!store, writes, Reports!history>>
    BY <1>1
  <2>2. UNCHANGED <<closed, journal, former, report, claim, writes, outlived, unheard, crossed>>
    BY <2>1 DEF Reports!store, Reports!history
  <2> QED
    BY <2>1, <2>2, WaitOverKeeps
<1>2. CASE /\ report[i].waits
           /\ report' = [report EXCEPT ![i].waits = FALSE]
           /\ UNCHANGED <<closed, ctl, journal, former, claim, writes, Reports!history>>
  <2>1. UNCHANGED <<closed, ctl, journal, former, claim, writes, outlived, unheard, crossed>>
    BY <1>2 DEF Reports!history
  <2>2. ReportsTyped /\ StoreFits /\ ClaimsFit /\ DayFits /\ JournalsFit
    BY DEF ReportsInv, ReportsTyped
  <2>3. report[i].status # "ready"
    BY <1>2, <2>2 DEF ClaimsFit
  <2>4. /\ report' \in [Reports!Ids -> Reported] /\ report'[i].status = report[i].status
        /\ \A n \in Reports!Ids : n # i => report'[n] = report[n]
    <3>1. report[i] \in Reported /\ report \in [Reports!Ids -> Reported]
      BY <2>2 DEF StoreFits
    <3> DEFINE r == [report[i] EXCEPT !.waits = FALSE]
    <3>2. r \in Reported /\ r.status = report[i].status
      BY <3>1 DEF Reported
    <3>3. report' = [report EXCEPT ![i] = r]
      BY <1>2
    <3> HIDE DEF r
    <3> QED
      BY <3>1, <3>2, <3>3
  <2>5. ReportsTyped'
    BY <2>1, <2>2, <2>4 DEF ReportsTyped, StoreFits
  <2>6. JournalsFit'
    BY <2>1, <2>2, JournalsKeep
  <2>7. Mended' = Mended /\ Mended \subseteq Reports!Ids
    BY <2>1 DEF Mended
  <2>8. \A n \in Reports!Ids : report'[n].status = "ready" => report'[n] = report[n]
    BY <2>3, <2>4
  <2>9. ASSUME NEW n \in Mended PROVE ClaimFits(n)'
    <3>1. ClaimFits(n) /\ n \in Reports!Ids
      BY <2>2 DEF ClaimsFit, Mended
    <3> QED
      BY <2>1, <2>8, <3>1 DEF ClaimFits, OnIt
  <2>10. \A d \in Controllers : LockFits(d)'
    BY <2>1, <2>2 DEF ClaimsFit, LockFits
  <2>11. ClaimsFit'
    BY <2>2, <2>7, <2>8, <2>9, <2>10 DEF ClaimsFit
  <2>12. \A turns, left : Holds(turns, left) => Holds(turns, left)'
    <3>1. \A n \in Hours \intersect Mended : report[n].status = "ready" => report'[n] = report[n]
      BY <2>3, <2>4, <2>7
    <3> QED
      BY <2>7, <3>1 DEF Holds
  <2>13. DayFits'
    <3>1. Day \in Reports!Ids
      BY DEF Reports!Ids
    <3> QED
      BY <2>1, <2>2, <2>8, <2>12, <3>1 DEF DayFits, OnIt
  <2> QED
    BY <2>5, <2>6, <2>11, <2>13 DEF ReportsInv
<1> QED
  BY <1>1, <1>2 DEF Reports!RetryDue

LEMMA HourClosesKeeps ==
  ASSUME Reports!ReportsAssumption, ReportsInv, Reports!HourCloses
  PROVE  ReportsInv'
<1>1. /\ closed' \subseteq Hours
      /\ UNCHANGED <<ctl, journal, former, report, claim, writes, outlived, unheard, crossed>>
  BY DEF Reports!HourCloses, Reports!store, Reports!history, ReportsInv, ReportsTyped, StoreFits
<1>2. ReportsTyped'
  BY <1>1 DEF ReportsInv, ReportsTyped, StoreFits
<1>3. JournalsFit'
  BY <1>1, JournalsKeep DEF ReportsInv
<1>4. ClaimsFit' /\ DayFits'
  BY <1>1, ClaimsKeep DEF ReportsInv
<1> QED
  BY <1>2, <1>3, <1>4 DEF ReportsInv

(* Every step of the reports, whatever takes it.                            *)
LEMMA WorkKeeps ==
  ASSUME Reports!ReportsAssumption, ReportsInv, NEW c \in Controllers,
         Reports!Work(c) \/ Reports!Faults(c)
  PROVE  ReportsInv'
<1>1. CASE \E t \in Turns : Reports!Record(c, t)
  BY <1>1, RecordKeeps
<1>2. CASE \E f \in Reports!Flushers : Reports!FlushEnds(c, f)
  BY <1>2, FlushEndsKeeps
<1>3. CASE \E f \in Reports!Flushers, h \in Hours : Reports!FlushNext(c, f, h)
  BY <1>3, FlushNextKeeps
<1>4. CASE Reports!Tick(c)
  BY <1>4, TickKeeps
<1>5. CASE Reports!Choose(c)
  BY <1>5, ChooseKeeps
<1>6. CASE Reports!TickEnds(c) \/ Reports!TickFails(c)
  <2>1. /\ ctl[c].job.at # "flush" /\ ctl' = [ctl EXCEPT ![c].job = Reports!NoJob]
        /\ UNCHANGED <<closed, journal, former, report, claim, writes, outlived, unheard, crossed>>
    BY <1>6 DEF Reports!TickEnds, Reports!TickFails, Reports!store, Reports!history
  <2> QED
    BY <2>1, JobEndsKeeps
<1>7. CASE Reports!Look(c)
  BY <1>7, LookKeeps
<1>8. CASE Reports!ReadClaim(c)
  BY <1>8, ReadClaimKeeps
<1>9. CASE Reports!TakeClaim(c)
  BY <1>9, TakeClaimKeeps
<1>10. CASE \E d \in Controllers : Reports!ReadJournal(c, d)
  BY <1>10, ReadJournalKeeps
<1>11. CASE \E h \in Hours : Reports!ReadHour(c, h)
  BY <1>11, ReadHourKeeps
<1>12. CASE Reports!Summarised(c)
  <2>1. /\ ctl[c].job.at = "read" /\ ctl[c].job.left = {} /\ "write" \in {"write", "fail"}
        /\ ctl' = [ctl EXCEPT ![c].job.at = "write"]
        /\ UNCHANGED <<closed, journal, former, report, claim, writes, outlived, unheard, crossed>>
    BY <1>12 DEF Reports!Summarised, Reports!store, Reports!history
  <2> QED
    BY <2>1, JobTurnsKeeps
<1>13. CASE Reports!SummaryFails(c)
  <2>1. /\ ctl[c].job.at = "read" /\ "fail" \in {"write", "fail"}
        /\ ctl' = [ctl EXCEPT ![c].job.at = "fail"]
        /\ UNCHANGED <<closed, journal, former, report, claim, writes, outlived, unheard, crossed>>
    BY <1>13 DEF Reports!SummaryFails, Reports!store, Reports!history
  <2> QED
    BY <2>1, JobTurnsKeeps
<1>14. CASE Reports!WriteReady(c)
  BY <1>14, WriteReadyKeeps
<1>15. CASE Reports!WriteReadyFails(c)
  BY <1>15, WriteReadyFailsKeeps
<1>16. CASE Reports!WriteFailed(c)
  BY <1>16, WriteFailedKeeps
<1>17. CASE Reports!Stop(c)
  BY <1>17, StopKeeps
<1>18. CASE Reports!Restart(c)
  BY <1>18, RestartKeeps
<1> QED
  BY <1>1, <1>2, <1>3, <1>4, <1>5, <1>6, <1>7, <1>8, <1>9, <1>10, <1>11, <1>12, <1>13, <1>14,
     <1>15, <1>16, <1>17, <1>18 DEF Reports!Work, Reports!Faults

LEMMA ReportsBegin ==
  ASSUME Reports!ReportsAssumption, Reports!Init
  PROVE  ReportsInv
<1>1. /\ closed = {} /\ ctl = [c \in Controllers |-> Reports!Fresh]
      /\ journal = [c \in Controllers |-> [h \in Hours |-> NoJournal]]
      /\ former = [h \in Hours |-> {}] /\ writes = {}
      /\ report = [i \in Reports!Ids |-> Reports!NoReport]
      /\ claim = [i \in Reports!Ids |-> Reports!NoClaim]
      /\ outlived = {} /\ unheard = {} /\ crossed = {}
  BY DEF Reports!Init
<1>2. /\ ProcessFits(Reports!Fresh) /\ Reports!Fresh.job.at = "idle"
      /\ \A h \in Hours : ~Reports!Fresh.pages[h].known
  BY FlushesMade DEF Reports!Fresh
<1>3. Reports!NoReport \in Reported /\ Reports!NoReport.status = "none"
  BY DEF Reports!NoReport, Reported, Reports!MaxAttempts
<1>4. Reports!NoClaim \in [version : Nat, live : BOOLEAN]
  BY DEF Reports!NoClaim
<1>5. Day \in Reports!Ids /\ Mended \subseteq Reports!Ids
  BY DEF Reports!Ids, Mended
<1>6. ReportsTyped
  BY <1>1, <1>2, <1>3, <1>4 DEF ReportsTyped, StoreFits, ProcessFits
<1>7. JournalsFit
  BY <1>1, <1>2 DEF JournalsFit, WritesFit, JournalFits
<1>8. ClaimsFit
  BY <1>1, <1>2, <1>3, <1>5 DEF ClaimsFit, ClaimFits, LockFits, OnIt, Having
<1>9. DayFits
  BY <1>1, <1>2, <1>3, <1>5 DEF DayFits, OnIt
<1> QED
  BY <1>6, <1>7, <1>8, <1>9 DEF ReportsInv

LEMMA ReportsIdle ==
  ASSUME ReportsInv, UNCHANGED reports
  PROVE  ReportsInv'
<1>1. UNCHANGED <<closed, ctl, journal, former, report, claim, writes, outlived, unheard, crossed>>
  BY DEF reports
<1>2. ReportsTyped'
  BY <1>1 DEF ReportsInv, ReportsTyped, StoreFits
<1>3. JournalsFit'
  BY <1>1, JournalsKeep DEF ReportsInv
<1>4. ClaimsFit' /\ DayFits'
  BY <1>1, ClaimsKeep DEF ReportsInv
<1> QED
  BY <1>2, <1>3, <1>4 DEF ReportsInv

LEMMA ReportsKeep ==
  ASSUME Reports!ReportsAssumption, ReportsInv, Reports!Next
  PROVE  ReportsInv'
<1>1. CASE \E c \in Controllers : Reports!Work(c) \/ Reports!Faults(c)
  BY <1>1, WorkKeeps
<1>2. CASE \E w \in writes : Reports!FlushWritten(w) \/ Reports!FlushFails(w)
  BY <1>2, FlushWrittenKeeps, FlushFailsKeeps
<1>3. CASE Reports!Timers
  BY <1>3, HourClosesKeeps, ClaimExpiresKeeps, RetryDueKeeps DEF Reports!Timers
<1> QED
  BY <1>1, <1>2, <1>3 DEF Reports!Next


(* What the run checks follows.                                             *)
LEMMA ReportsFit ==
  ASSUME Reports!ReportsAssumption, ReportsInv
  PROVE  /\ Reports!TypeOK /\ Reports!CleanJournalIsStored /\ Reports!WholeDayHoldsItsHours
<1>1. ReportsTyped /\ StoreFits /\ ctl \in [Controllers -> Reporters]
  BY DEF ReportsInv, ReportsTyped
<1>2. Reports!TypeOK
  BY <1>1 DEF Reports!TypeOK, StoreFits, Reporters, Reporting, PageSets, Page, Flush, Reported
<1>3. Reports!CleanJournalIsStored
  <2>1. \A c \in Controllers, h \in Hours : JournalFits(c, h)
    BY DEF ReportsInv, JournalsFit
  <2> QED
    BY <2>1 DEF JournalFits, Reports!CleanJournalIsStored
<1>4. Reports!WholeDayHoldsItsHours
  <2>1. Hours \ (outlived \union unheard) \subseteq (Hours \intersect Mended) \ {}
    BY DEF Mended, Reports!Ids
  <2> QED
    BY <2>1 DEF ReportsInv, DayFits, Holds, Reports!WholeDayHoldsItsHours
<1> QED
  BY <1>2, <1>3, <1>4

(* Who stores a report has its claim: it was not ready.                     *)
LEMMA ReadyStays ==
  ASSUME Reports!ReportsAssumption, ReportsInv, Reports!Next, NEW i \in Mended,
         report[i].status = "ready"
  PROVE  report'[i] = report[i]
<1>1. /\ report \in [Reports!Ids -> Reported] /\ i \in Reports!Ids
      /\ ~report[i].waits
  BY DEF ReportsInv, ReportsTyped, StoreFits, ClaimsFit, Mended
<1>2. \A c \in Controllers : ctl[c].job.at \in {"write", "fail"} => ctl[c].job.id # i
  BY HaverIsAlone DEF Having
<1>3. ASSUME NEW c \in Controllers, Reports!WriteReady(c) \/ Reports!WriteReadyFails(c)
                                    \/ Reports!WriteFailed(c)
      PROVE  report'[i] = report[i]
  <2>1. \/ UNCHANGED report
        \/ \E r : ctl[c].job.id # i /\ report' = [report EXCEPT ![ctl[c].job.id] = r]
    BY <1>2, <1>3 DEF Reports!WriteReady, Reports!WriteReadyFails, Reports!WriteFailed
  <2> QED
    BY <1>1, <2>1
<1>4. ASSUME NEW k \in Reports!Ids, Reports!RetryDue(k) PROVE report'[i] = report[i]
  <2>1. CASE report[k].waits /\ report' = [report EXCEPT ![k].waits = FALSE]
    BY <1>1, <2>1
  <2> QED
    BY <1>4, <2>1 DEF Reports!RetryDue, Reports!store
<1>5. ASSUME NEW c \in Controllers, Reports!Work(c) \/ Reports!Faults(c),
             ~Reports!WriteReady(c), ~Reports!WriteReadyFails(c), ~Reports!WriteFailed(c)
      PROVE  UNCHANGED report
  BY <1>5 DEF Reports!Work, Reports!Faults, Reports!store, Reports!Record, Reports!FlushEnds,
     Reports!FlushNext, Reports!Tick, Reports!Choose, Reports!TickEnds, Reports!Look,
     Reports!ReadClaim, Reports!TakeClaim, Reports!ReadJournal, Reports!ReadHour,
     Reports!Summarised, Reports!Stop, Reports!SummaryFails, Reports!TickFails, Reports!Restart
<1>6. CASE \E w \in writes : Reports!FlushWritten(w) \/ Reports!FlushFails(w)
  BY <1>6 DEF Reports!FlushWritten, Reports!FlushFails
<1>7. CASE \E k \in Reports!Ids : Reports!ClaimExpires(k)
  BY <1>7 DEF Reports!ClaimExpires
<1>8. CASE Reports!HourCloses
  BY <1>8 DEF Reports!HourCloses, Reports!store
<1> QED
  BY <1>3, <1>4, <1>5, <1>6, <1>7, <1>8 DEF Reports!Next, Reports!Timers

LEMMA ReportsStep == [MCNext]_all => [Reports!Next]_reports
<1>1. ReportSteps => Reports!Next
  BY DEF ReportSteps, Reports!Next, Reports!Timers, Reports!Work
<1> QED
  BY <1>1 DEF MCNext, RecordSteps, InstallSteps, all, records, reports

LEMMA ReportsNext ==
  ASSUME Reports!ReportsAssumption
  PROVE  ReportsInv /\ [Reports!Next]_reports => ReportsInv'
BY ReportsKeep, ReportsIdle

LEMMA ReadyKept ==
  ASSUME Reports!ReportsAssumption, ReportsInv, [Reports!Next]_reports
  PROVE  \A i \in Reports!Ids : report[i].status = "ready" =>
           report'[i] = report[i] \/ i \in outlived \union unheard
BY ReadyStays DEF Mended, reports

-----------------------------------------------------------------------------
(* A journal is stored turn for turn, a report that is ready is not         *)
(* replaced, and a whole day holds what its hours hold, unless a claim ran  *)
(* out under the work or the answer to a write was lost.                    *)
THEOREM ReportsStayKept == MCSpec => ReportsAreKept
<1>1. MCInit => ReportsInv
  BY ReportsBegin, ReportsBounds DEF MCInit
<1>2. ReportsInv /\ [MCNext]_all => ReportsInv'
  BY ReportsStep, ReportsNext, ReportsBounds
<1>3. ReportsInv => Reports!CleanJournalIsStored /\ Reports!WholeDayHoldsItsHours
  BY ReportsFit, ReportsBounds
<1> DEFINE Kept == \A i \in Reports!Ids : report[i].status = "ready" =>
                     report'[i] = report[i] \/ i \in outlived \union unheard
<1>4. ReportsInv /\ [MCNext]_all => [Kept]_(Reports!vars)
  BY ReportsStep, ReadyKept, ReportsBounds
<1> QED
  BY <1>1, <1>2, <1>3, <1>4, PTL DEF MCSpec, ReportsAreKept, Reports!ReadyReportStays

(* The reports of whatever controllers, hours and turns.                    *)
THEOREM ReportsAreSound == Reports!Spec => []ReportsInv
<1>1. Reports!Init => ReportsInv
  BY ReportsBegin, ReportsBounds
<1>2. ReportsInv /\ [Reports!Next]_reports => ReportsInv'
  BY ReportsNext, ReportsBounds
<1>3. [Reports!Next]_(Reports!vars) => [Reports!Next]_reports
  BY DEF Reports!vars, reports
<1> QED
  BY <1>1, <1>2, <1>3, PTL DEF Reports!Spec

-----------------------------------------------------------------------------
(* The types of all parts.                                                  *)

LEMMA DraftsFit ==
  ASSUME Drafting!DraftsAssumption, DraftsInv
  PROVE  Drafting!TypeOK
<1>1. PublishTyped /\ PageInv /\ Len(versions) \in Nat
      /\ \A c \in Clients : receipt[c] <= Len(versions)
  BY DEF DraftsInv, PublishInv, PublishTyped, Drafting!PublishingIsSafe, Drafting!ReceiptsAreTrue,
         Drafting!Latest
<1>2. receipt \in [Clients -> 0..Len(versions)]
  BY <1>1 DEF PublishTyped
<1> QED
  BY <1>1, <1>2 DEF PublishTyped, PageInv, Versions, Publishes, Held, Drafting!TypeOK,
                    Drafting!Latest

LEMMA PinsStep == [MCNext]_all => [Next]_vars
<1>1. PinSteps => Next
  BY DEF PinSteps, Next
<1>2. [Beside]_pins => [Next]_vars
  BY DEF Next, pins
<1>3. ShareSteps => [Next]_vars
  BY <1>1, <1>2 DEF ShareSteps
<1> QED
  BY <1>1, <1>2, <1>3 DEF MCNext, RecordSteps, InstallSteps, all, records, pins

(* Every part of the stores has the types its module declares.              *)
THEOREM StoresTypeCorrect == MCSpec => []TypesOK
<1> DEFINE Begun == part \in {"reports", "publishing", "reading", "sharing", "pins", "notifier",
                             "updates", "connecting", "logging in", "events"}
<1>1. MCInit => /\ Begun
                /\ ReportsInv /\ DraftsInv /\ PinsInv /\ NotifierInv
                /\ UpdateInv /\ LoginInv /\ EventsInv
  BY ReportsBegin, ReportsBounds, DraftsInit, DraftsBounds, PinsInit, PinsBounds,
     NotifierInit, NotifierBounds, UpdateInit, UpdateBounds, LoginInit, LoginBounds,
     EventsInit, EventsBounds DEF MCInit
<1>2. Begun /\ [MCNext]_all => Begun'
  BY DEF MCNext, all
<1>3. ReportsInv /\ DraftsInv /\ PinsInv /\ [MCNext]_all => ReportsInv' /\ DraftsInv' /\ PinsInv'
  BY ReportsStep, ReportsNext, ReportsBounds, DraftsStep, DraftsNext, DraftsBounds,
     PinsStep, PinsNext, PinsBounds
<1>4. UpdateInv /\ LoginInv /\ [MCNext]_all => UpdateInv' /\ LoginInv'
  BY UpdatesStep, UpdateNext, UpdateBounds, LoginsStep, LoginNext, LoginBounds
<1>5. NotifierInv /\ EventsInv /\ [MCNext]_all => NotifierInv' /\ EventsInv'
  <2>1. [MCNext]_all => [Notifier!Next]_notifier /\ [Events!Next]_decoding
    BY DEF MCNext, RecordSteps, InstallSteps, all, records, installed, notifier, decoding
  <2> QED
    BY <2>1, NotifierNext, NotifierBounds, EventsNext, EventsBounds
<1>6. /\ ReportsInv => Reports!TypeOK
      /\ DraftsInv => Drafting!TypeOK
      /\ PinsInv => TypeOK
      /\ NotifierInv => Notifier!TypeOK
      /\ UpdateInv => Updates!TypeOK
      /\ LoginInv => Logins!TypeOK
      /\ EventsInv => Events!TypeOK
  <2>1. PinsInv => TypeOK
    BY TypeParts, PinsBounds DEF PinsInv
  <2>2. (UpdateInv => Updates!TypeOK) /\ (LoginInv => Logins!TypeOK)
    BY DEF UpdateInv, LoginInv
  <2> QED
    BY <2>1, <2>2, ReportsFit, ReportsBounds, DraftsFit, DraftsBounds, NotifierIsSound,
       NotifierBounds, EventsFit, EventsBounds
<1>7. /\ Begun /\ ReportsInv /\ DraftsInv /\ PinsInv
      /\ NotifierInv /\ UpdateInv /\ LoginInv /\ EventsInv
      => TypesOK
  BY <1>6 DEF TypesOK
<1> QED
  BY <1>1, <1>2, <1>3, <1>4, <1>5, <1>7, PTL DEF MCSpec
=============================================================================
