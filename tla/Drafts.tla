------------------------------- MODULE Drafts -------------------------------
(***************************************************************************)
(* One Draft: the clients that publish its versions                        *)
(* (public/draft-client.mjs), the controller (lib/drafts.mjs,              *)
(* lib/draft-http.mjs), its store (lib/draft-store.mjs), and the page of a *)
(* reader who comments on it (public/drafts.js, public/draft-frame.js).    *)
(*                                                                         *)
(* A client sends the version its receipt names along with the page, and   *)
(* the controller refuses it when another one has published since.  The    *)
(* page shows a version in a frame that is replaced some time after the    *)
(* page has switched to another version.                                   *)
(*                                                                         *)
(* The store of the pages is that of the pins (PinStore): a page that is   *)
(* pinned as well is one object, and deletePin removes it.                 *)
(***************************************************************************)
EXTENDS Naturals, Sequences, FiniteSets

CONSTANTS
  Clients,      \* clients, each in a directory of its own
  Pages,        \* contents of the HTML file
  MaxVersions,  \* bound: published versions
  MaxComments,  \* bound: comments of the reader
  MaxLoads,     \* bound: requests of the page at one time
  Nothing

DraftsAssumption ==
  /\ Nothing \notin Pages
  /\ {MaxVersions, MaxComments, MaxLoads} \subseteq Nat

VARIABLES
  versions,  \* the committed versions, the last of which is the head
  blobs,     \* the objects of the store
  file, receipt,  \* of a client: the file, and what its receipt says
  request,   \* of a client: its publish request
  comments,  \* the stored comments
  view,      \* the page of the reader
  loads,     \* requests of the page for what it shows
  slipped,   \* history: text was selected in a frame about to be replaced
  unpinned   \* history: objects that deletePin has removed, and nobody put again

store == <<blobs, unpinned>>
server == <<versions, store, comments>>
clients == <<file, receipt, request>>
page == <<view, loads, slipped>>
vars == <<versions, blobs, file, receipt, request, comments, view, loads, slipped, unpinned>>

NoRequest == [at |-> "none", html |-> Nothing, expected |-> 0, old |-> 0]
NoAnchor == 0

Init ==
  /\ versions = <<>> /\ blobs = {}
  /\ file \in [Clients -> Pages]
  /\ receipt = [c \in Clients |-> 0]
  /\ request = [c \in Clients |-> NoRequest]
  /\ comments = {}
  /\ view = [version |-> 0, frame |-> 0, anchor |-> NoAnchor, posting |-> FALSE,
             text |-> FALSE]
  /\ loads = {}
  /\ slipped = FALSE /\ unpinned = {}

Latest == Len(versions)

-----------------------------------------------------------------------------
(* Publishing.                                                             *)

\* The agent rewrites its file.
Edit(c) ==
  /\ request[c].at = "none"
  /\ \E p \in Pages \ {file[c]} : file' = [file EXCEPT ![c] = p]
  /\ UNCHANGED <<server, receipt, request, page>>

\* publish of the client, with the version of its receipt, or the one its user
\* has read (--version).
Publish(c) ==
  /\ request[c].at = "none"
  /\ \E v \in {receipt[c], Latest} :
       request' = [request EXCEPT ![c] = [NoRequest EXCEPT
                     !.at = "sent", !.html = file[c], !.expected = v]]
  /\ UNCHANGED <<server, file, receipt, page>>

\* The latest version is this page, from this directory.
Same(c) == Latest > 0 /\ versions[Latest].html = request[c].html /\ versions[Latest].by = c

\* Mutant: a page is published whatever its author has read.
CheckNothing(c) ==
  /\ request[c].at = "sent"
  /\ request' = [request EXCEPT ![c].at = IF Same(c) THEN "done" ELSE "put", ![c].old = Latest]
  /\ UNCHANGED <<server, file, receipt, page>>

\* publish of the controller, up to the checks: the same page again is answered
\* with its version, and a version that is not the latest is refused.
Check(c) ==
  /\ request[c].at = "sent"
  /\ request' = [request EXCEPT
       ![c].at = IF Same(c) THEN "done" ELSE IF request[c].expected = Latest THEN "put" ELSE "refused",
       ![c].old = Latest]
  /\ UNCHANGED <<server, file, receipt, page>>

\* The page is stored under its hash.
PutPage(c) ==
  /\ request[c].at = "put"
  /\ blobs' = blobs \union {request[c].html} /\ unpinned' = unpinned \ {request[c].html}
  /\ request' = [request EXCEPT ![c].at = "commit"]
  /\ UNCHANGED <<versions, comments, file, receipt, page>>

\* Mutant: the head is replaced without a condition.
CommitBlindly(c) ==
  LET r == request[c] IN
  /\ r.at = "commit" /\ Latest < MaxVersions
  /\ versions' = Append(versions, [html |-> r.html, by |-> c, base |-> r.expected])
  /\ request' = [request EXCEPT ![c].at = "done", ![c].old = r.old + 1]
  /\ UNCHANGED <<store, comments, file, receipt, page>>

\* commit: head and version together, if the head is still the one that was read.
Commit(c) ==
  LET r == request[c] IN
  /\ r.at = "commit" /\ Latest < MaxVersions
  /\ versions' = IF Latest = r.old
                 THEN Append(versions, [html |-> r.html, by |-> c, base |-> r.expected])
                 ELSE versions
  /\ request' = [request EXCEPT ![c].at = IF Latest = r.old THEN "done" ELSE "refused",
                                ![c].old = Latest + 1]
  /\ UNCHANGED <<store, comments, file, receipt, page>>

\* Mutant: a refused page has its receipt as well.
AnsweredAnyway(c) ==
  /\ request[c].at \in {"done", "refused"}
  /\ receipt' = [receipt EXCEPT ![c] = request[c].old]
  /\ request' = [request EXCEPT ![c] = NoRequest]
  /\ UNCHANGED <<server, file, page>>

\* The answer arrives: the receipt is written, or the error shown.
Answered(c) ==
  /\ request[c].at \in {"done", "refused"}
  /\ receipt' = [receipt EXCEPT ![c] = IF request[c].at = "done" THEN request[c].old ELSE @]
  /\ request' = [request EXCEPT ![c] = NoRequest]
  /\ UNCHANGED <<server, file, page>>

\* A write fails, the answer is lost, or the client dies before its receipt is
\* written; what the controller has done stays.
Lost(c) ==
  /\ request[c].at # "none"
  /\ request' = [request EXCEPT ![c] = NoRequest]
  /\ UNCHANGED <<server, file, receipt, page>>

-----------------------------------------------------------------------------
(* The page.                                                               *)

\* load, which takes the place of the load before it: to see what is new, or,
\* unless a comment is being written, another version.
Load ==
  /\ Cardinality(loads) < MaxLoads
  /\ \E v \in 0..Latest :
       /\ v # 0 => view.version # 0 /\ ~view.text
       /\ loads' = {[l EXCEPT !.current = FALSE] : l \in loads} \union
                     {[current |-> TRUE, head |-> Latest, want |-> IF v = 0 THEN Latest ELSE v,
                       keep |-> v = 0]}
  /\ UNCHANGED <<server, clients, view, slipped>>

\* Mutant: another version keeps the selection of the one before.
LoadedKeeping(l) ==
  LET stay == ~l.current \/ l.head = 0 \/ (l.keep /\ view.text /\ view.version # 0) IN
  /\ l \in loads
  /\ loads' = loads \ {l}
  /\ view' = IF stay THEN view ELSE [view EXCEPT !.version = l.want]
  /\ UNCHANGED <<server, clients, slipped>>

\* The answers of a load, which are dropped if it was replaced.  With a comment
\* begun, a refresh only brings the comments.
Loaded(l) ==
  LET stay == ~l.current \/ l.head = 0 \/ (l.keep /\ view.text /\ view.version # 0) IN
  /\ l \in loads
  /\ loads' = loads \ {l}
  /\ view' = IF stay \/ (l.keep /\ l.want = view.version) THEN view
             ELSE [view EXCEPT !.version = l.want, !.anchor = NoAnchor]
  /\ UNCHANGED <<server, clients, slipped>>

\* The frame shows what the page has asked for.
FrameLoads ==
  /\ view.frame # view.version
  /\ view' = [view EXCEPT !.frame = view.version]
  /\ UNCHANGED <<server, clients, loads, slipped>>

\* The reader selects text in what the frame shows, and writes.
Select ==
  /\ view.frame # 0
  /\ view' = [view EXCEPT !.anchor = view.frame]
  /\ slipped' = (slipped \/ view.frame # view.version)
  /\ UNCHANGED <<server, clients, loads>>

\* The reader begins a comment.
Begin ==
  /\ ~view.text /\ ~view.posting /\ view.version # 0
  /\ view' = [view EXCEPT !.text = TRUE]
  /\ UNCHANGED <<server, clients, loads, slipped>>

\* The comment is saved with the version the page is at.
Save ==
  /\ view.text /\ ~view.posting /\ Cardinality(comments) < MaxComments
  /\ comments' = comments \union {[id |-> Cardinality(comments) + 1, version |-> view.version,
                                   anchor |-> view.anchor, open |-> TRUE]}
  /\ view' = [view EXCEPT !.posting = TRUE]
  /\ UNCHANGED <<versions, store, clients, loads, slipped>>

\* The answer: the form is cleared.  Or an error, after which all stays.
Saved ==
  /\ view.posting
  /\ \E failed \in BOOLEAN :
       view' = [view EXCEPT !.posting = FALSE, !.text = failed,
                            !.anchor = IF failed THEN @ ELSE NoAnchor]
  /\ UNCHANGED <<server, clients, loads, slipped>>

\* resolve, by this reader or another.
Resolve(m) ==
  /\ m \in comments /\ m.open
  /\ comments' = (comments \ {m}) \union {[m EXCEPT !.open = FALSE]}
  /\ UNCHANGED <<versions, store, clients, page>>

-----------------------------------------------------------------------------
(* The pins beside it.                                                     *)

\* createPin puts the bytes under the same key (contentKey of their hash).
Pinned(p) ==
  /\ p \notin blobs
  /\ blobs' = blobs \union {p} /\ unpinned' = unpinned \ {p}
  /\ UNCHANGED <<versions, comments, clients, page>>

\* deletePin removes the object when no other pin names it; the versions of the
\* Drafts are not looked at.
Unpinned(p) ==
  /\ p \in blobs
  /\ blobs' = blobs \ {p} /\ unpinned' = unpinned \union {p}
  /\ UNCHANGED <<versions, comments, clients, page>>

-----------------------------------------------------------------------------
Steps ==
  \/ \E c \in Clients : Edit(c) \/ Publish(c) \/ Check(c) \/ PutPage(c) \/ Commit(c)
                          \/ Answered(c) \/ Lost(c)
  \/ Load \/ (\E l \in loads : Loaded(l))
  \/ FrameLoads \/ Select \/ Begin \/ Save \/ Saved
  \/ \E m \in comments : Resolve(m)

Beside == \E p \in Pages : Pinned(p) \/ Unpinned(p)

Next == Steps \/ Beside

Spec == Init /\ [][Next]_vars

-----------------------------------------------------------------------------
(* Properties.                                                             *)

Comments == [id : Nat, version : Nat, anchor : Nat, open : BOOLEAN]

TypeOK ==
  /\ versions \in Seq([html : Pages, by : Clients, base : Nat])
  /\ blobs \subseteq Pages /\ unpinned \subseteq Pages
  /\ file \in [Clients -> Pages] /\ receipt \in [Clients -> 0..Latest]
  /\ request \in [Clients -> [at : {"none", "sent", "put", "commit", "done", "refused"},
                              html : Pages \union {Nothing}, expected : Nat, old : Nat]]
  /\ comments \subseteq Comments
  /\ view \in [version : 0..MaxVersions, frame : 0..MaxVersions, anchor : 0..MaxVersions,
               posting : BOOLEAN, text : BOOLEAN]
  /\ loads \subseteq [current : BOOLEAN, head : 0..MaxVersions, want : 0..MaxVersions,
                     keep : BOOLEAN]
  /\ slipped \in BOOLEAN

\* Nobody's work is overwritten unread: every version was made by a client that
\* named the one before it.
VersionsFollow == \A n \in DOMAIN versions : versions[n].base = n - 1

\* What the list of versions names can be opened.  The exception: a page that was
\* also pinned, whose pin was deleted since: deletePin counts the pins that name
\* an object, and no versions of Drafts.
VersionsAreStored == \A n \in DOMAIN versions : versions[n].html \in blobs \union unpinned

\* In no run, because the code does less: the stored object is deleted "ONLY when
\* no other pin/version still references that content-addressed key"
\* (pins.mjs:463), and versions are immutable (draft-store.mjs:2).
EveryVersionIsStored == \A n \in DOMAIN versions : versions[n].html \in blobs

\* A receipt names a version that exists.
ReceiptsAreTrue == \A c \in Clients : receipt[c] <= Latest

\* Publishing keeps versions in order, readable, and known to their authors, for
\* any number of clients, whatever is lost on the way.
PublishingIsSafe == VersionsFollow /\ VersionsAreStored /\ ReceiptsAreTrue

\* A comment on selected text is stored with the version the text is of.  The
\* exception: the frame still shows the old version for a moment after the page
\* has switched, and its selection is taken.
SelectionsMatchVersions ==
  \A m \in comments : m.anchor \in {NoAnchor, m.version} \/ slipped
=============================================================================
