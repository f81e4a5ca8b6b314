------------------------------ MODULE PinStore ------------------------------
(***************************************************************************)
(* Pinned artifacts and their comments (lib/pins.mjs, lib/comments.mjs,    *)
(* their indexes, and the routes of the controller).                       *)
(*                                                                         *)
(* A pin is a record that names the bytes of an artifact; the bytes are    *)
(* stored under their hash, so several pins may name the same ones.  Every *)
(* request reads the records it needs, decides, and writes one whole       *)
(* record: requests that overlap interleave between those steps.  The      *)
(* store of the bytes is shared with the Drafts (Drafts).                  *)
(***************************************************************************)
EXTENDS Naturals, FiniteSets

CONSTANTS
  Users, Admins, Domain,  \* viewers, those who see all, and the domain of each
  Sources,      \* the files that are pinned; with its owner, a family of pins
  Bodies,       \* contents
  Scopes,       \* who a pin is shared with
  Jobs,         \* requests at one time
  MaxPins,      \* bound: pins ever made
  MaxComments,  \* bound: comments ever made
  Nothing

PinsAssumption ==
  /\ Scopes \subseteq {"private", "org", "all"} /\ "private" \in Scopes
  /\ Admins \subseteq Users /\ Nothing \notin Users \union Bodies \union Scopes
  /\ MaxPins \in Nat /\ MaxComments \in Nat

VARIABLES
  index,     \* the records of the pins
  blobs,     \* the stored bytes, those of the Drafts among them
  comments,  \* the records of the comments
  jobs,      \* the requests being served
  made,      \* pins and comments ever made
  revoked,   \* history: the pins an owner was told are gone
  scoped,    \* history: what the owner of a pin was last told it is shared with
  raced      \* history: contents and families that two changes overlapped on

vars == <<index, blobs, comments, jobs, made, revoked, scoped, raced>>

PinIds == 1..MaxPins
Families == Users \X Sources
Ops == {"pin", "share", "rename", "unpin", "serve", "comment", "uncomment"}

NoPin == [id |-> 0, family |-> Nothing, body |-> Nothing, scope |-> "private",
          renamed |-> FALSE, version |-> 0]
Idle == [at |-> "idle", op |-> "serve", user |-> Nothing, id |-> 0, pin |-> NoPin,
         share |-> Nothing, comment |-> 0]

Init ==
  /\ index = {} /\ blobs = {} /\ comments = {}
  /\ jobs = [j \in Jobs |-> Idle]
  /\ made = [pins |-> 0, comments |-> 0]
  /\ revoked = {} /\ scoped = [i \in PinIds |-> Nothing] /\ raced = {}

Owner(pin) == pin.family[1]

\* canSeePin.
CanSee(user, pin) ==
  \/ user = Owner(pin) \/ user \in Admins
  \/ pin.scope = "all"
  \/ pin.scope = "org" /\ Domain[user] = Domain[Owner(pin)] /\ Domain[user] # Nothing

Pins(i) == {p \in index : p.id = i}
Put(pin) == (index \ Pins(pin.id)) \union {pin}
Newest(S) == CHOOSE v \in {p.version : p \in S} \union {0} : \A p \in S : p.version <= v

\* The changes under way of the contents of a pin or of its family.
Busy(j, pin) ==
  {i \in Jobs \ {j} : /\ jobs[i].at \in {"put", "persist", "delete", "scan", "purge"}
                      /\ jobs[i].pin.body = pin.body \/ jobs[i].pin.family = pin.family}
Racing(j, pin) ==
  {x \in {pin.body, pin.family} : \E i \in Busy(j, pin) : x \in {jobs[i].pin.body, jobs[i].pin.family}}

-----------------------------------------------------------------------------
(* A request arrives; its user, and what it asks for.                      *)

Request(j) ==
  /\ jobs[j].at = "idle"
  /\ \E op \in Ops, u \in Users, i \in 0..made.pins, s \in Scopes \union {Nothing} :
       /\ (op = "share") => s # Nothing
       /\ (op \notin {"pin", "share"}) => s = Nothing
       /\ (op = "pin") <=> (i = 0)
       /\ \E src \in Sources, b \in Bodies, c \in 0..made.comments :
            /\ op # "pin" => src = (CHOOSE x \in Sources : TRUE) /\ b = (CHOOSE x \in Bodies : TRUE)
            /\ (op = "uncomment") <=> (c # 0)
            /\ jobs' = [jobs EXCEPT ![j] = [Idle EXCEPT
                 !.at = "read", !.op = op, !.user = u, !.id = i, !.share = s, !.comment = c,
                 !.pin = IF op = "pin" THEN [NoPin EXCEPT !.family = <<u, src>>, !.body = b]
                                       ELSE NoPin]]
  /\ UNCHANGED <<index, blobs, comments, made, revoked, scoped, raced>>

Done(j) == jobs' = [jobs EXCEPT ![j] = Idle]

-----------------------------------------------------------------------------
(* createPin.                                                              *)

\* allRecords: the same bytes of the same family are the same pin, whose share
\* is changed if the request names one; others are a new version.
ReadPins(j) ==
  LET job == jobs[j]
      same == {p \in index : p.family = job.pin.family /\ p.body = job.pin.body}
      family == {p \in index : p.family = job.pin.family} IN
  /\ job.at = "read" /\ job.op = "pin"
  /\ IF same # {} /\ job.share = Nothing
     THEN Done(j) /\ UNCHANGED <<made, raced>>
     ELSE /\ raced' = raced \union Racing(j, job.pin)
          /\ \/ /\ same # {}
                /\ \E p \in same : jobs' = [jobs EXCEPT ![j].at = "persist",
                     ![j].pin = [p EXCEPT !.scope = job.share]]
                /\ UNCHANGED made
             \/ /\ same = {} /\ made.pins < MaxPins
                /\ made' = [made EXCEPT !.pins = @ + 1]
                /\ jobs' = [jobs EXCEPT ![j].at = "put",
                     ![j].pin.id = made.pins + 1, ![j].pin.version = Newest(family) + 1,
                     ![j].pin.scope = IF job.share = Nothing THEN "private" ELSE job.share]
  /\ UNCHANGED <<index, blobs, comments, revoked, scoped>>

\* storage.put.
PutBytes(j) ==
  /\ jobs[j].at = "put"
  /\ blobs' = blobs \union {jobs[j].pin.body}
  /\ jobs' = [jobs EXCEPT ![j].at = "persist"]
  /\ UNCHANGED <<index, comments, made, revoked, scoped, raced>>

\* persistRecord, of createPin, updateShare and renamePin.
Persist(j) ==
  /\ jobs[j].at = "persist"
  /\ index' = Put(jobs[j].pin)
  /\ scoped' = IF jobs[j].op = "rename" THEN scoped
               ELSE [scoped EXCEPT ![jobs[j].pin.id] = jobs[j].pin.scope]
  /\ Done(j)
  /\ UNCHANGED <<blobs, comments, made, revoked, raced>>

\* The index refuses: the request is answered persisted:false.
PersistFails(j) ==
  /\ jobs[j].at = "persist"
  /\ Done(j)
  /\ UNCHANGED <<index, blobs, comments, made, revoked, scoped, raced>>

-----------------------------------------------------------------------------
(* updateShare, renamePin and deletePin.                                   *)

\* recordById, and whether it is the owner who asks.
ReadPin(j) ==
  LET job == jobs[j]
      mine == {p \in Pins(job.id) : Owner(p) = job.user} IN
  /\ job.at = "read" /\ job.op \in {"share", "rename", "unpin"}
  /\ \/ mine = {} /\ Done(j) /\ UNCHANGED raced
     \/ \E p \in mine :
          /\ raced' = raced \union Racing(j, p)
          /\ jobs' = [jobs EXCEPT
               ![j].at = IF job.op = "unpin" THEN "delete" ELSE "persist",
               ![j].pin = CASE job.op = "share" -> [p EXCEPT !.scope = job.share]
                            [] job.op = "rename" -> [p EXCEPT !.renamed = TRUE]
                            [] OTHER -> p]
  /\ UNCHANGED <<index, blobs, comments, made, revoked, scoped>>

\* deletePin: the record.
DeleteRecord(j) ==
  /\ jobs[j].at = "delete"
  /\ index' = index \ Pins(jobs[j].pin.id)
  /\ jobs' = [jobs EXCEPT ![j].at = "scan"]
  /\ UNCHANGED <<blobs, comments, made, revoked, scoped, raced>>

\* Mutant: only the versions of the same family are looked at.
ScanFamily(j) ==
  LET used == \E p \in index : p.body = jobs[j].pin.body /\ p.family = jobs[j].pin.family IN
  /\ jobs[j].at = "scan"
  /\ jobs' = [jobs EXCEPT ![j] = IF used THEN Idle ELSE [@ EXCEPT !.at = "purge"]]
  /\ revoked' = IF used THEN revoked \union {jobs[j].pin.id} ELSE revoked
  /\ UNCHANGED <<index, blobs, comments, made, scoped, raced>>

\* deletePin: whether another record names the bytes.
Scan(j) ==
  LET used == \E p \in index : p.body = jobs[j].pin.body IN
  /\ jobs[j].at = "scan"
  /\ jobs' = [jobs EXCEPT ![j] = IF used THEN Idle ELSE [@ EXCEPT !.at = "purge"]]
  /\ revoked' = IF used THEN revoked \union {jobs[j].pin.id} ELSE revoked
  /\ UNCHANGED <<index, blobs, comments, made, scoped, raced>>

\* deletePin: the bytes.
Purge(j) ==
  /\ jobs[j].at = "purge"
  /\ blobs' = blobs \ {jobs[j].pin.body}
  /\ revoked' = revoked \union {jobs[j].pin.id}
  /\ Done(j)
  /\ UNCHANGED <<index, comments, made, scoped, raced>>

-----------------------------------------------------------------------------
(* servePin and the comments, both behind the token of a pin.              *)

\* getPinByToken and canSeePin; a comment that is deleted is the user's own, or
\* on a pin of theirs.
Visit(j) ==
  LET job == jobs[j]
      seen == {p \in Pins(job.id) : CanSee(job.user, p)} IN
  /\ job.at = "read" /\ job.op \in {"serve", "comment", "uncomment"}
  /\ \/ seen = {} /\ Done(j)
     \/ \E p \in seen : jobs' = [jobs EXCEPT ![j].at = "visit", ![j].pin = p]
  /\ UNCHANGED <<index, blobs, comments, made, revoked, scoped, raced>>

\* The bytes are sent, or found to be gone.
Serve(j) ==
  /\ jobs[j].at = "visit" /\ jobs[j].op = "serve"
  /\ Done(j)
  /\ UNCHANGED <<index, blobs, comments, made, revoked, scoped, raced>>

\* addComment, to the family of the pin.
AddComment(j) ==
  /\ jobs[j].at = "visit" /\ jobs[j].op = "comment" /\ made.comments < MaxComments
  /\ made' = [made EXCEPT !.comments = @ + 1]
  /\ comments' = comments \union
       {[id |-> made.comments + 1, family |-> jobs[j].pin.family, by |-> jobs[j].user]}
  /\ Done(j)
  /\ UNCHANGED <<index, blobs, revoked, scoped, raced>>

\* deleteComment.
DeleteComment(j) ==
  LET job == jobs[j] IN
  /\ job.at = "visit" /\ job.op = "uncomment"
  /\ comments' = {c \in comments : ~(/\ c.id = job.comment /\ c.family = job.pin.family
                                     /\ job.user \in {c.by, Owner(job.pin)})}
  /\ Done(j)
  /\ UNCHANGED <<index, blobs, made, revoked, scoped, raced>>

\* The controller dies, or a call to the index or the storage throws.
Abort(j) ==
  /\ jobs[j].at \notin {"idle", "persist"}
  /\ Done(j)
  /\ UNCHANGED <<index, blobs, comments, made, revoked, scoped, raced>>

-----------------------------------------------------------------------------
Steps(j) ==
  \/ ReadPins(j) \/ PutBytes(j) \/ Persist(j)
  \/ ReadPin(j) \/ DeleteRecord(j) \/ Scan(j) \/ Purge(j)
  \/ Visit(j) \/ Serve(j) \/ AddComment(j) \/ DeleteComment(j)
Faults(j) == PersistFails(j) \/ Abort(j)

\* A Draft with these bytes is published, and puts them under the same key.
Published(b) ==
  /\ b \notin blobs
  /\ blobs' = blobs \union {b}
  /\ UNCHANGED <<index, comments, jobs, made, revoked, scoped, raced>>
Beside == \E b \in Bodies : Published(b)

Next == (\E j \in Jobs : Request(j) \/ Steps(j) \/ Faults(j)) \/ Beside

Spec == Init /\ [][Next]_vars

-----------------------------------------------------------------------------
(* Properties.                                                             *)

PinRecords == [id : 0..MaxPins, family : Families \union {Nothing},
               body : Bodies \union {Nothing}, scope : Scopes, renamed : BOOLEAN,
               version : 0..MaxPins]

TypeOK ==
  /\ index \subseteq PinRecords /\ blobs \subseteq Bodies
  /\ comments \subseteq [id : 1..MaxComments, family : Families, by : Users]
  /\ jobs \in [Jobs -> [at : {"idle", "read", "put", "persist", "delete", "scan", "purge",
                              "visit"},
                        op : Ops, user : Users \union {Nothing}, id : 0..MaxPins,
                        pin : PinRecords, share : Scopes \union {Nothing},
                        comment : 0..MaxComments]]
  /\ made \in [pins : 0..MaxPins, comments : 0..MaxComments]
  /\ revoked \subseteq PinIds /\ scoped \in [PinIds -> Scopes \union {Nothing}]
  /\ raced \subseteq Bodies \union Families

Raced(p) == p.body \in raced \/ p.family \in raced

\* The comment of deletePin: the stored object is deleted only when no other pin
\* or version references it.  So what is pinned can be served.
BytesBehindEveryPin == \A p \in index : p.body \in blobs

\* The same, but for contents that were pinned and unpinned at the same time.
BytesBehindPins == \A p \in index : p.body \in blobs \/ Raced(p)

\* A link that was revoked stays so; the share a pin has is the last its owner
\* was told of; the versions of a file have different numbers.  The exception:
\* changes of the same pin that overlap, each of which writes the whole record
\* it read.
PinsKeepTheirWord ==
  \A p \in index : Raced(p) \/
    /\ p.id \notin revoked
    /\ p.scope = scoped[p.id]
    /\ \A q \in index : q.family = p.family /\ q.version = p.version => q = p

PinsAreSound == BytesBehindPins /\ PinsKeepTheirWord

=============================================================================
