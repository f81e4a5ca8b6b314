------------------------------ MODULE UserLists ------------------------------
(***************************************************************************)
(* The lists a user keeps across devices: the cards with a star            *)
(* (public/command-center.js, lib/user-card-stars.mjs) and the snippets    *)
(* (public/snippets.js, lib/user-snippets.mjs).  The page keeps a copy in  *)
(* its browser, shows it at once and saves the whole list with each edit;  *)
(* the controller keeps the record in a file.                              *)
(*                                                                         *)
(* A list is a number: 0 is none or the default, n is the n-th that was    *)
(* made.  A page that leaves, a slow request, a failed write and a         *)
(* controller that dies are all there.                                     *)
(***************************************************************************)
EXTENDS Naturals, FiniteSets

CONSTANTS
  Guarded,    \* TRUE: stars; FALSE: snippets, whose first load does not look for edits
  MaxEdits,   \* bound: lists made
  MaxRequests \* bound: requests on their way at one time

UserListsAssumption == Guarded \in BOOLEAN /\ {MaxEdits, MaxRequests} \subseteq Nat

VARIABLES
  store,    \* the record in the controller, and its file
  browser,  \* localStorage: the list, and its marks
  page,     \* what is shown, and how far the first load has come
  requests, \* saves on their way
  made,     \* history: the number of the last list made
  hurt      \* history: what can lose an edit

vars == <<store, browser, page, requests, made, hurt>>

Lists == 0..MaxEdits
Torn == MaxEdits + 1        \* a file that was being written when the controller died
Hurts == {"left", "overlapped", "torn", "overlaid", "unread", "unwritten"}

\* A new user, one with a list from before the controller kept them, or one with a list
\* that was saved from another browser.
Init ==
  /\ \E old \in 0..1, kept \in {0, 2} :
       /\ store = [memory |-> kept, file |-> kept]
       /\ browser = [list |-> old, exists |-> old > 0, dirty |-> FALSE, migrated |-> FALSE]
       /\ made = IF kept > 0 THEN kept ELSE old
  /\ page = [at |-> "closed", shown |-> 0, local |-> 0, touched |-> FALSE]
  /\ requests = {} /\ hurt = {}

-----------------------------------------------------------------------------
(* The controller.                                                         *)

\* A file that cannot be parsed starts empty.
Hydrate(file) == IF file = Torn THEN 0 ELSE file

\* A request changes hands: it is served, and answered or not.
Becomes(r, at) == requests' = (requests \ {r}) \union {[r EXCEPT !.at = at]}

\* put, with its flush.
Served(r) ==
  /\ r.at = "sent" /\ Becomes(r, "saved")
  /\ store' = [memory |-> r.list, file |-> r.list]
  /\ UNCHANGED <<browser, page, made, hurt>>

\* The file cannot be written: the record is in memory all the same.
ServedBadly(r) ==
  /\ r.at = "sent" /\ Becomes(r, "refused")
  /\ store' = [store EXCEPT !.memory = r.list]
  /\ UNCHANGED <<browser, page, made, hurt>>

\* The request, or its answer, is lost.
Lost(r) ==
  /\ r.at \in {"sent", "saved"} /\ Becomes(r, "refused")
  /\ UNCHANGED <<store, browser, page, made, hurt>>

\* The controller dies, between two requests or while it writes the file.
Restart ==
  /\ \E file \in {store.file} \union (IF \E r \in requests : r.at = "sent" THEN {Torn} ELSE {}) :
       /\ store' = [memory |-> Hydrate(file), file |-> file]
       /\ hurt' = hurt \union (IF file = Torn THEN {"torn"} ELSE {})
                       \union (IF file # store.memory /\ browser.migrated /\ ~browser.dirty
                               THEN {"unwritten"} ELSE {})
  /\ UNCHANGED <<browser, page, requests, made>>

-----------------------------------------------------------------------------
(* The page.                                                               *)

\* A PUT of the whole list, by an edit or by the first load.
Put(list, by) ==
  /\ Cardinality(requests) < MaxRequests
  /\ requests' = requests \union {[list |-> list, by |-> by, at |-> "sent", heard |-> TRUE]}

Overlaps == IF requests = {} THEN {} ELSE {"overlapped"}

\* The module is loaded: it shows the copy of the browser, and asks for the record.
Open ==
  /\ page.at = "closed"
  /\ page' = [at |-> "loading", shown |-> browser.list, local |-> browser.list, touched |-> FALSE]
  /\ UNCHANGED <<store, browser, requests, made, hurt>>

\* Whether the copy of the browser is to be saved, and not the record shown.
PushesLocal ==
  /\ browser.dirty \/ (~browser.migrated /\ store.memory = 0 /\ page.local # 0)
  /\ browser.exists

Shows(list, at) == page' = [page EXCEPT !.shown = list, !.at = at]

\* Mutant: an edit since the load began is not looked for.
LoadedOverEdits ==
  /\ page.at = "loading"
  /\ Shows(store.memory, "ready")
  /\ browser' = [browser EXCEPT !.list = store.memory, !.exists = TRUE, !.migrated = TRUE]
  /\ UNCHANGED <<store, requests, made, hurt>>

\* initStarredCards, and initSnippets: the record is there.
Loaded ==
  /\ page.at = "loading"
  /\ IF Guarded /\ page.touched
     THEN page' = [page EXCEPT !.at = "ready"] /\ UNCHANGED <<browser, requests, hurt>>
     ELSE /\ IF PushesLocal
             THEN /\ Shows(page.local, "pushing") /\ Put(page.local, "load")
                  /\ browser' = [browser EXCEPT !.list = page.local]
             ELSE /\ Shows(store.memory, "ready") /\ UNCHANGED requests
                  /\ browser' = [browser EXCEPT !.list = store.memory, !.exists = TRUE,
                                                !.migrated = TRUE]
          /\ hurt' = hurt \union (IF page.touched THEN {"overlaid"} ELSE {})
                          \union (IF PushesLocal THEN Overlaps ELSE {})
  /\ UNCHANGED <<store, made>>

\* The first load fails: the copy of the browser is shown.
LoadFails ==
  /\ page.at = "loading"
  /\ Shows(IF Guarded THEN (IF page.touched THEN page.shown ELSE browser.list) ELSE page.local, "ready")
  /\ hurt' = hurt \union (IF ~Guarded /\ page.touched THEN {"overlaid"} ELSE {})
                  \union (IF browser.list # made THEN {"unread"} ELSE {})
  /\ UNCHANGED <<store, browser, requests, made>>

\* The push of the first load is answered.
Pushed(r) ==
  /\ r.by = "load" /\ r.heard /\ r.at = "saved"
  /\ LET shown == IF Guarded /\ page.touched THEN page.shown ELSE r.list IN
     /\ Shows(shown, "ready")
     /\ browser' = [list |-> shown, exists |-> TRUE, dirty |-> FALSE, migrated |-> TRUE]
  /\ hurt' = IF ~Guarded /\ page.touched THEN hurt \union {"overlaid"} ELSE hurt
  /\ requests' = requests \ {r}
  /\ UNCHANGED <<store, made>>

PushFails(r) ==
  /\ r.by = "load" /\ r.heard /\ r.at = "refused"
  /\ Shows(IF Guarded THEN (IF page.touched THEN page.shown ELSE browser.list) ELSE page.local, "ready")
  /\ hurt' = IF ~Guarded /\ page.touched THEN hurt \union {"overlaid"} ELSE hurt
  /\ requests' = requests \ {r}
  /\ UNCHANGED <<store, browser, made>>

\* saveStarredCards, setSnippets: shown, kept in the browser, and saved.
Edit ==
  /\ page.at # "closed" /\ made < MaxEdits
  /\ made' = made + 1
  /\ page' = [page EXCEPT !.shown = made + 1, !.touched = TRUE]
  /\ browser' = [browser EXCEPT !.list = made + 1, !.exists = TRUE]
  /\ Put(made + 1, "edit")
  /\ hurt' = hurt \union Overlaps
  /\ UNCHANGED store

Saved(r) ==
  /\ r.by = "edit" /\ r.heard /\ r.at = "saved"
  /\ browser' = [browser EXCEPT !.dirty = FALSE, !.migrated = TRUE]
  /\ requests' = requests \ {r}
  /\ UNCHANGED <<store, page, made, hurt>>

\* Mutant: a save that fails leaves no mark.
SaveFailsQuietly(r) ==
  /\ r.by = "edit" /\ r.heard /\ r.at = "refused"
  /\ requests' = requests \ {r}
  /\ UNCHANGED <<store, browser, page, made, hurt>>

\* A save fails: "a later page load retries".
SaveFails(r) ==
  /\ r.by = "edit" /\ r.heard /\ r.at = "refused"
  /\ browser' = [browser EXCEPT !.dirty = TRUE]
  /\ requests' = requests \ {r}
  /\ UNCHANGED <<store, page, made, hurt>>

\* The page is closed, or loaded again: nobody hears the answers.
Leave ==
  /\ page.at # "closed" /\ page' = [page EXCEPT !.at = "closed"]
  /\ requests' = {[r EXCEPT !.heard = FALSE] : r \in requests}
  /\ hurt' = hurt \union (IF requests = {} THEN {} ELSE {"left"})
  /\ UNCHANGED <<store, browser, made>>

Unheard(r) ==
  /\ ~r.heard /\ r.at # "sent" /\ requests' = requests \ {r}
  /\ UNCHANGED <<store, browser, page, made, hurt>>

Next ==
  \/ Restart \/ Open \/ Loaded \/ LoadFails \/ Edit \/ Leave
  \/ \E r \in requests :
       \/ Served(r) \/ ServedBadly(r) \/ Lost(r) \/ Unheard(r)
       \/ Pushed(r) \/ PushFails(r) \/ Saved(r) \/ SaveFails(r)

Spec == Init /\ [][Next]_vars

-----------------------------------------------------------------------------
(* Properties.                                                             *)

TypeOK ==
  /\ store \in [memory : Lists, file : Lists \union {Torn}]
  /\ browser \in [list : Lists, exists : BOOLEAN, dirty : BOOLEAN, migrated : BOOLEAN]
  /\ page \in [at : {"closed", "loading", "pushing", "ready"}, shown : Lists, local : Lists,
               touched : BOOLEAN]
  /\ requests \subseteq [list : Lists, by : {"edit", "load"}, at : {"sent", "saved", "refused"},
                         heard : BOOLEAN]
  /\ made \in Lists /\ hurt \subseteq Hurts

\* A load of the page saves the copy of the browser, and does not take the record.
Owed == browser.dirty \/ (~browser.migrated /\ store.memory = 0)

\* The last list the user has made is the one that is shown and kept in the browser,
\* and the controller has it or a later load will save it, however saves fail and
\* controllers restart.  What can lose it: a page that leaves before its save is
\* answered; two saves at once, of which the older may be the last to be served, or to
\* be answered; a file torn by the death of its writer, or that could not be written,
\* of which the page has been told, and then found its list in memory; a first load that fails in a
\* browser without the list, which the next edit then replaces; and, of snippets, an
\* edit before the first load is over.
EditsAreKept ==
  page.at = "ready" /\ requests = {} /\ hurt = {} =>
    /\ page.shown = made /\ browser.list = made
    /\ store.memory = made \/ Owed

\* "localStorage remains the immediate fallback; a later page load retries"
\* (snippets.js:145), of the page that has heard its saves fail: a list that is shown,
\* and that the controller does not have, is saved by the next load.
FailuresAreRetried ==
  /\ page.at = "ready" /\ page.touched /\ requests = {} /\ hurt \subseteq {"overlapped"}
  /\ store.memory # page.shown
  => Owed
=============================================================================
