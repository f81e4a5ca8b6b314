----------------------------- MODULE ViewRouter -----------------------------
(***************************************************************************)
(* The two views of the site kept alive in one document                    *)
(* (public/spa-router.mjs), what each does when it is hidden and shown     *)
(* (deactivateView and activateView of public/app.js and                   *)
(* public/command-center.js), and the scope its reads belong to            *)
(* (createReadScope of public/view-work.mjs).                              *)
(*                                                                         *)
(* A view is fetched and imported when it is first opened; a navigation    *)
(* that waits for it may be overtaken by others, by the page being hidden, *)
(* and by the end of the load itself.                                      *)
(***************************************************************************)
EXTENDS Naturals, FiniteSets

CONSTANTS
    Routes,         \* the views
    MaxNavigations  \* bound: navigations

ViewRouterAssumption == MaxNavigations \in Nat

VARIABLES
    views,      \* what the router knows of each view, and its wrapper
    page,       \* generation of the last navigation, its route, visibility
    mounts,     \* the navigations under way, by generation: route and await
    scopes      \* each view's read scope, and one read of it

vars == <<views, page, mounts, scopes>>

Navigations == 1..MaxNavigations
NoMount == [route |-> CHOOSE r \in Routes : TRUE, await |-> "none"]

TypeOK ==
    /\ views \in [Routes -> [load : {"none", "pending", "failed", "ready"},
                             shown : BOOLEAN, active : BOOLEAN]]
    /\ page \in [generation : 0..MaxNavigations, route : Routes,
                 hidden : BOOLEAN, expired : BOOLEAN]
    /\ mounts \in [Navigations -> [route : Routes, await : {"none", "view", "turn"}]]
    /\ scopes \in [Routes -> [read : {"none", "asked"}, valid : BOOLEAN,
                              hiddenSince : BOOLEAN, applied : {"none", "fresh", "stale"}]]

Init ==
    /\ views = [r \in Routes |-> [load |-> "none", shown |-> FALSE, active |-> FALSE]]
    /\ page \in [generation : {0}, route : Routes, hidden : BOOLEAN, expired : {FALSE}]
    /\ mounts = [n \in Navigations |-> NoMount]
    /\ scopes = [r \in Routes |-> [read |-> "none", valid |-> FALSE,
                                   hiddenSince |-> FALSE, applied |-> "none"]]

-----------------------------------------------------------------------------
(* The views and their read scopes.                                        *)

Loaded(r) == views[r].load = "ready"

\* Mutant: the scope only remembers whether it is active.
InvalidateNothing(s) == s

\* scope.invalidate: the reads of the generation that ends are aborted.
Invalidate(s) == [s EXCEPT !.valid = FALSE]

\* scope.stop, by a view that is hidden; "hiddenSince" records it.
Stop(s) == [Invalidate(s) EXCEPT !.hiddenSince = TRUE]

\* deactivateView of the views in "off", activateView of those in "on": the
\* latter does nothing in a hidden page.
Deactivated(vs, off) == [r \in Routes |->
    IF r \in off THEN [vs[r] EXCEPT !.active = FALSE] ELSE vs[r]]

\* Mutant: a view works whenever it is mounted.
MayActivateAnyway == TRUE

MayActivate == ~page.hidden

Stopped(off) == [r \in Routes |-> IF r \in off THEN Stop(scopes[r]) ELSE scopes[r]]

-----------------------------------------------------------------------------
(* Navigating.                                                             *)

\* navigate: every loaded view is put away, then the route is mounted; a view
\* that is not there yet is loaded once, whoever waits for it.
Navigate(r) ==
    /\ page.generation < MaxNavigations
    /\ LET n == page.generation + 1
           loaded == {q \in Routes : Loaded(q)}
       IN /\ page' = [page EXCEPT !.generation = n, !.route = r]
          /\ views' = [q \in Routes |->
                         [load |-> IF q = r /\ views[q].load = "none" THEN "pending"
                                   ELSE views[q].load,
                          shown |-> FALSE, active |-> FALSE]]
          /\ scopes' = Stopped(loaded)
          /\ mounts' = [mounts EXCEPT
                ![n] = CASE views[r].load = "failed" -> NoMount
                         [] views[r].load = "ready"  -> [route |-> r, await |-> "turn"]
                         [] OTHER                    -> [route |-> r, await |-> "view"]]

\* loadView settles: those that wait for it go on, or fail with it for good (the
\* rejected promise stays in "views").
LoadEnds(r) ==
    /\ views[r].load = "pending"
    /\ \E end \in {"ready", "failed"} :
         /\ views' = [views EXCEPT ![r].load = end]
         /\ mounts' = [n \in Navigations |->
                         IF mounts[n].route = r /\ mounts[n].await = "view"
                           THEN IF end = "ready" THEN [mounts[n] EXCEPT !.await = "turn"]
                                                 ELSE NoMount
                           ELSE mounts[n]]
    /\ UNCHANGED <<page, scopes>>

\* Mutant: the navigation shows its view, overtaken or not.
IsLastAnyway(n) == TRUE

IsLast(n) == n = page.generation

\* The rest of mount, a turn later: only the last navigation shows its view.
Mounted(n) ==
    /\ mounts[n].await = "turn"
    /\ mounts' = [mounts EXCEPT ![n] = NoMount]
    /\ views' = IF IsLast(n)
                  THEN [views EXCEPT ![mounts[n].route].shown = TRUE,
                                     ![mounts[n].route].active = @ \/ MayActivate]
                  ELSE views
    /\ UNCHANGED <<page, scopes>>

-----------------------------------------------------------------------------
(* The page is hidden and shown (syncViewVisibility of both views).        *)

Hide ==
    /\ ~page.hidden
    /\ page' = [page EXCEPT !.hidden = TRUE]
    /\ LET off == {r \in Routes : Loaded(r)}
       IN /\ views' = Deactivated(views, off)
          /\ scopes' = Stopped(off)
    /\ UNCHANGED mounts

Show ==
    /\ page.hidden
    /\ page' = [page EXCEPT !.hidden = FALSE]
    /\ views' = [r \in Routes |->
                   IF Loaded(r) THEN [views[r] EXCEPT !.active = views[r].shown] ELSE views[r]]
    /\ scopes' = Stopped({r \in Routes : Loaded(r) /\ ~views[r].shown})
    /\ UNCHANGED mounts

-----------------------------------------------------------------------------
(* Reads of a view (scope.json).                                           *)

Reads(r) == views[r].active /\ ~page.expired

Ask(r) ==
    /\ Reads(r)
    /\ scopes[r].read = "none"
    /\ scopes' = [scopes EXCEPT ![r] = [@ EXCEPT !.read = "asked", !.valid = TRUE,
                                                 !.hiddenSince = FALSE]]
    /\ UNCHANGED <<views, page, mounts>>

\* The answer is used only in the generation it was asked in.
Answered(r) ==
    /\ scopes[r].read = "asked"
    /\ LET s == scopes[r]
           used == s.valid /\ Reads(r)
       IN scopes' = [scopes EXCEPT ![r] = [s EXCEPT
             !.read = "none", !.valid = FALSE,
             !.applied = IF used THEN IF s.hiddenSince THEN "stale" ELSE "fresh" ELSE @]]
    /\ UNCHANGED <<views, page, mounts>>

\* A 401 stops every scope until the page is loaded again.
Expires(r) ==
    /\ scopes[r].read = "asked"
    /\ scopes[r].valid /\ Reads(r)
    /\ page' = [page EXCEPT !.expired = TRUE]
    /\ scopes' = [q \in Routes |-> IF q = r THEN [Stop(scopes[q]) EXCEPT !.read = "none"]
                                            ELSE Stop(scopes[q])]
    /\ UNCHANGED <<views, mounts>>

-----------------------------------------------------------------------------
Next ==
    \/ \E r \in Routes : Navigate(r) \/ LoadEnds(r) \/ Ask(r) \/ Answered(r) \/ Expires(r)
    \/ \E n \in Navigations : Mounted(n)
    \/ Hide \/ Show

Spec == Init /\ [][Next]_vars

-----------------------------------------------------------------------------
\* Hidden views pause all data work (public/spa-router.mjs): a view works only
\* while it is the one shown, in a visible page, and once the navigations have
\* settled the one shown is the one asked for last, unless it cannot be loaded.
OneViewWorks ==
    /\ \A r \in Routes : views[r].active => views[r].shown /\ ~page.hidden
    /\ \A r \in Routes : views[r].shown => r = page.route
    /\ (page.generation > 0 /\ \A n \in Navigations : mounts[n].await = "none") =>
         \/ views[page.route].load = "failed"
         \/ views[page.route].shown /\ (views[page.route].active <=> ~page.hidden)

\* What a view read before it was hidden is not shown in it afterwards.
NoOldAnswers == \A r \in Routes : scopes[r].applied # "stale"

\* Whatever the order of navigations, loads and visibility changes, one view
\* works and shows only what it read since it was shown (public/spa-router.mjs,
\* public/view-work.mjs).
RouterIsSound == OneViewWorks /\ NoOldAnswers
=============================================================================
