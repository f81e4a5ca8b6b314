--------------------------- MODULE ConnectorUpdate ---------------------------
(***************************************************************************)
(* How a machine replaces its connector: the updater that downloads the    *)
(* bundle of the controller (scripts/update-connector-bundle.mjs), the one *)
(* that pulls a checkout (scripts/update-connector.mjs), and the start of  *)
(* a connector behind its lock (server.mjs).                               *)
(*                                                                         *)
(* An updater runs beside the connector it replaces, in a terminal of its  *)
(* own.  What restarts a connector is launchd, systemd or nobody; launchd  *)
(* is told to unload and to load, and the updater looks whether it did.    *)
(***************************************************************************)
EXTENDS Naturals, FiniteSets

CONSTANTS
  Updaters,  \* updates at one time
  MaxPid     \* bound: processes ever started

UpdateAssumption == MaxPid \in Nat \ {0}

VARIABLES
  manager,   \* who restarts connectors on this machine
  disk,      \* the revision of the checkout, and of the bundle
  conf,      \* what the service is configured to run
  job,       \* the service: whether it is loaded, and what it runs
  procs,     \* the connectors that are alive
  lock,      \* the one that holds the lock
  pids,      \* processes ever started
  upd,       \* the updaters
  overlap,   \* history: two updates ran at the same time
  accident   \* history: an updater or an unmanaged connector died, or launchd
             \* could not be brought back to what it ran before

machine == <<procs, lock, pids>>
vars == <<manager, disk, conf, job, procs, lock, pids, upd, overlap, accident>>

Kinds == {"repo", "bundle"}
Revisions == {"none", "old", "new", "bad"}
Resting == {"idle", "done", "failed"}
NoUpdate == [at |-> "idle", kind |-> "repo", old |-> {}, missed |-> {}, keep |-> {},
             was |-> FALSE, orig |-> "repo", managed |-> FALSE]

Managed == {p \in procs : p.managed}
LockIsHeld == \E p \in procs : p.pid = lock

\* A connector started by hand, by the manager if there is one.
Init ==
  /\ manager \in {"launchd", "systemd", "nobody"}
  /\ conf \in Kinds
  /\ disk = [repo |-> "old", bundle |-> IF conf = "bundle" THEN "old" ELSE "none"]
  /\ \E managed \in BOOLEAN :
       /\ manager = "nobody" => ~managed
       /\ job = [loaded |-> managed, runs |-> conf]
       /\ procs = {[pid |-> 1, kind |-> conf, code |-> "old", managed |-> managed]}
  /\ lock = 1 /\ pids = 1
  /\ upd = [u \in Updaters |-> NoUpdate]
  /\ overlap = FALSE /\ accident = FALSE

-----------------------------------------------------------------------------
(* Connectors and the manager.                                             *)

\* The manager starts the service it has loaded, again and again.
ManagerStarts ==
  /\ job.loaded /\ Managed = {} /\ pids < MaxPid
  /\ pids' = pids + 1
  /\ procs' = procs \union {[pid |-> pids + 1, kind |-> job.runs,
                              code |-> disk[job.runs], managed |-> TRUE]}
  /\ UNCHANGED <<manager, disk, conf, job, lock, upd, overlap, accident>>

\* A connector that starts takes the lock, or leaves it to its holder and exits;
\* one that does not run at all exits.
TakeLock(p) ==
  /\ p.code \in {"old", "new"} /\ ~LockIsHeld
  /\ lock' = p.pid
  /\ UNCHANGED <<manager, disk, conf, job, procs, pids, upd, overlap, accident>>

Exit(p) ==
  /\ p.code \notin {"old", "new"} \/ (LockIsHeld /\ lock # p.pid)
  /\ procs' = procs \ {p}
  /\ UNCHANGED <<manager, disk, conf, job, lock, pids, upd, overlap, accident>>

-----------------------------------------------------------------------------
(* The updaters, up to the restart.                                        *)

Others(u) == {v \in Updaters \ {u} : upd[v].at \notin Resting}

\* startConnectorUpdate: an update is started by the connector it replaces.
Begin(u) ==
  /\ upd[u].at \in Resting /\ LockIsHeld
  /\ \E k \in Kinds : upd' = [upd EXCEPT ![u] = [NoUpdate EXCEPT !.at = "fetch", !.kind = k]]
  /\ overlap' = (overlap \/ Others(u) # {})
  /\ UNCHANGED <<manager, disk, conf, job, machine, accident>>

Goes(u, at) == upd' = [upd EXCEPT ![u].at = at]
Fails(u) == Goes(u, "failed")

\* The bundle is downloaded and put in the place of the old one, or the checkout
\* is pulled; what it brings may be another revision than the expected one, or
\* not run.
Fetch(u) ==
  /\ upd[u].at = "fetch"
  /\ \E r \in {"new", "bad"} : disk' = [disk EXCEPT ![upd[u].kind] = r]
  /\ Goes(u, "check")
  /\ UNCHANGED <<manager, conf, job, machine, overlap, accident>>

\* The revision of the manifest or of HEAD, and node --check.
Check(u) ==
  /\ upd[u].at = "check"
  /\ Goes(u, IF disk[upd[u].kind] = "new" THEN "list" ELSE "failed")
  /\ UNCHANGED <<manager, disk, conf, job, machine, overlap, accident>>

\* Something throws before the connector is touched.
GivesUp(u) ==
  /\ upd[u].at \in {"fetch", "check", "list", "configure"}
  /\ Fails(u)
  /\ UNCHANGED <<manager, disk, conf, job, machine, overlap, accident>>

\* connectorPids of the checkout lists the commands that name server.mjs, that of
\* the bundle the commands of either.
Sees(u, p) == upd[u].kind = "repo" => p.kind = "repo"

\* connectorPids, which lists nothing when ps fails; then the manager decides.  A
\* launchd service need not be loaded to be found.
ListPids(u) ==
  /\ upd[u].at = "list"
  /\ \E S \in {{p \in procs : Sees(u, p)}, {}} :
       upd' = [upd EXCEPT ![u].old = {p.pid : p \in S},
                ![u].missed = {p.pid : p \in procs \ S},
                ![u].at = IF manager = "nobody" THEN "stop" ELSE "configure"]
  /\ UNCHANGED <<manager, disk, conf, job, machine, overlap, accident>>

-----------------------------------------------------------------------------
(* restartLaunchdConnector.                                                *)

Launchd(u, at, kind) == manager = "launchd" /\ upd[u].at = at /\ upd[u].kind = kind

\* configureLaunchdPlist: the property list is replaced as a whole.
Configure(u) ==
  /\ Launchd(u, "configure", "bundle")
  /\ conf' = "bundle"
  /\ upd' = [upd EXCEPT ![u].at = IF job.loaded THEN "unload" ELSE "load",
               ![u].was = job.loaded, ![u].orig = conf]
  /\ UNCHANGED <<manager, disk, job, machine, overlap, accident>>

\* bootout and waitForLaunchdUnloaded, which may see it loaded to the end.
Unload(u) ==
  /\ Launchd(u, "unload", "bundle")
  /\ \/ job' = [job EXCEPT !.loaded = FALSE] /\ procs' = procs \ Managed /\ Goes(u, "load")
     \/ UNCHANGED <<job, procs>> /\ Goes(u, "recover")
  /\ UNCHANGED <<manager, disk, conf, lock, pids, overlap, accident>>

\* startAndVerifyLaunchdService: bootstrap, which may not load the service.
Load(u) ==
  /\ Launchd(u, "load", "bundle")
  /\ \/ job' = [loaded |-> TRUE, runs |-> conf] /\ Goes(u, "verify")
     \/ UNCHANGED job /\ Goes(u, "recover")
  /\ UNCHANGED <<manager, disk, conf, machine, overlap, accident>>

\* It is seen running, or not within the attempts.
Verify(u) ==
  /\ upd[u].at = "verify"
  /\ \/ /\ Managed # {}
        /\ upd' = [upd EXCEPT ![u].keep = {p.pid : p \in Managed},
                     ![u].managed = TRUE, ![u].at = "stop"]
     \/ Goes(u, IF manager = "launchd" THEN "recover" ELSE "failed")
  /\ UNCHANGED <<manager, disk, conf, job, machine, overlap, accident>>

\* Mutant: the property list is restored and the job left as it is.
RecoverHalf(u) ==
  /\ upd[u].at = "recover"
  /\ conf' = upd[u].orig
  /\ job' = [job EXCEPT !.loaded = FALSE] /\ procs' = procs \ Managed /\ Fails(u)
  /\ UNCHANGED <<manager, disk, lock, pids, overlap, accident>>

\* The failed replacement is unloaded, the property list restored, and what was
\* loaded is loaded again; when the replacement stays loaded only the property
\* list is restored.
Recover(u) ==
  /\ upd[u].at = "recover"
  /\ conf' = upd[u].orig
  /\ \/ /\ job' = [job EXCEPT !.loaded = FALSE] /\ procs' = procs \ Managed
        /\ Goes(u, IF upd[u].was THEN "reload" ELSE "failed")
        /\ UNCHANGED accident
     \/ job.loaded /\ Fails(u) /\ accident' = TRUE /\ UNCHANGED <<job, procs>>
  /\ UNCHANGED <<manager, disk, lock, pids, overlap>>

Reload(u) ==
  /\ upd[u].at = "reload"
  /\ \/ job' = [loaded |-> TRUE, runs |-> conf] /\ UNCHANGED accident
     \/ accident' = TRUE /\ UNCHANGED job
  /\ Fails(u)
  /\ UNCHANGED <<manager, disk, conf, machine, overlap>>

\* restartLaunchd of the checkout: a kickstart, or unload and load when there is
\* an environment to write; a detached connector when neither works.
RepoLaunchd(u) ==
  /\ Launchd(u, "configure", "repo")
  /\ \E done, reload \in BOOLEAN :
       /\ ~job.loaded => reload
       /\ job' = IF reload THEN [loaded |-> done, runs |-> conf] ELSE job
       /\ procs' = IF reload \/ done THEN procs \ Managed ELSE procs
       /\ upd' = [upd EXCEPT ![u].managed = done, ![u].at = "stop"]
  /\ UNCHANGED <<manager, disk, conf, lock, pids, overlap, accident>>

-----------------------------------------------------------------------------
(* restartSystemdConnector, and restartSystemd of the checkout, which does *)
(* not look whether it runs.                                               *)

RestartUnit(u) ==
  /\ manager = "systemd" /\ upd[u].at = "configure"
  /\ conf' = IF upd[u].kind = "bundle" THEN "bundle" ELSE conf
  /\ job' = [loaded |-> TRUE, runs |-> conf']
  /\ procs' = procs \ Managed
  /\ upd' = [upd EXCEPT ![u].at = IF upd[u].kind = "bundle" THEN "verify" ELSE "stop",
                        ![u].managed = TRUE]
  /\ UNCHANGED <<manager, disk, lock, pids, overlap, accident>>

-----------------------------------------------------------------------------
(* stopOldConnectorPids and startDetachedConnector.                        *)

Old(u) == {p \in procs : p.pid \in upd[u].old \ upd[u].keep}

\* SIGTERM, which some of them answer.
Stop(u) ==
  /\ upd[u].at = "stop"
  /\ \E S \in SUBSET Old(u) : procs' = procs \ S
  /\ Goes(u, "kill")
  /\ UNCHANGED <<manager, disk, conf, job, lock, pids, overlap, accident>>

\* Mutant: the ones that did not answer are left alone.
KillNone(u) ==
  /\ upd[u].at = "kill"
  /\ Goes(u, IF upd[u].managed THEN "done" ELSE "spawn")
  /\ UNCHANGED <<manager, disk, conf, job, machine, overlap, accident>>

\* SIGKILL, a second and a half later.
Kill(u) ==
  /\ upd[u].at = "kill"
  /\ procs' = procs \ Old(u)
  /\ Goes(u, IF upd[u].managed THEN "done" ELSE "spawn")
  /\ UNCHANGED <<manager, disk, conf, job, lock, pids, overlap, accident>>

Spawn(u) ==
  /\ upd[u].at = "spawn" /\ pids < MaxPid
  /\ pids' = pids + 1
  /\ procs' = procs \union {[pid |-> pids + 1, kind |-> upd[u].kind,
                              code |-> disk[upd[u].kind], managed |-> FALSE]}
  /\ Goes(u, "done")
  /\ UNCHANGED <<manager, disk, conf, job, lock, overlap, accident>>

-----------------------------------------------------------------------------
(* Accidents.                                                              *)

\* An updater is killed.
UpdaterDies(u) ==
  /\ upd[u].at \notin Resting
  /\ Fails(u) /\ accident' = TRUE
  /\ UNCHANGED <<manager, disk, conf, job, machine, overlap>>

Crash(p) ==
  /\ procs' = procs \ {p}
  /\ accident' = (accident \/ ~p.managed)
  /\ UNCHANGED <<manager, disk, conf, job, lock, pids, upd, overlap>>

\* The machine restarts, and its manager loads what is configured.
Reboot ==
  /\ procs' = {}
  /\ job' = [loaded |-> manager # "nobody", runs |-> conf]
  /\ upd' = [u \in Updaters |-> [upd[u] EXCEPT !.at = IF @ \in Resting THEN "idle" ELSE "failed"]]
  /\ accident' = (accident \/ manager = "nobody")
  /\ UNCHANGED <<manager, disk, conf, lock, pids, overlap>>

-----------------------------------------------------------------------------
Steps(u) ==
  \/ Fetch(u) \/ Check(u) \/ ListPids(u)
  \/ Configure(u) \/ Unload(u) \/ Load(u) \/ Verify(u) \/ Recover(u) \/ Reload(u)
  \/ RepoLaunchd(u) \/ RestartUnit(u)
  \/ Stop(u) \/ Kill(u) \/ Spawn(u)
Lives == ManagerStarts \/ \E p \in procs : TakeLock(p) \/ Exit(p)
Faults ==
  \/ \E u \in Updaters : GivesUp(u) \/ UpdaterDies(u)
  \/ \E p \in procs : Crash(p)
  \/ Reboot

Next == Lives \/ Faults \/ \E u \in Updaters : Begin(u) \/ Steps(u)

Spec == Init /\ [][Next]_vars

-----------------------------------------------------------------------------
(* Properties.                                                             *)

TypeOK ==
  /\ manager \in {"launchd", "systemd", "nobody"}
  /\ disk \in [Kinds -> Revisions] /\ conf \in Kinds
  /\ job \in [loaded : BOOLEAN, runs : Kinds]
  /\ procs \subseteq [pid : 1..MaxPid, kind : Kinds, code : Revisions, managed : BOOLEAN]
  /\ lock \in 0..MaxPid /\ pids \in 0..MaxPid
  /\ upd \in [Updaters -> [at : Resting \union {"fetch", "check", "list", "configure",
                                  "unload", "load", "verify", "recover", "reload",
                                  "stop", "kill", "spawn"},
                           kind : Kinds, old : SUBSET (1..MaxPid),
                           missed : SUBSET (1..MaxPid), keep : SUBSET (1..MaxPid),
                           was : BOOLEAN, orig : Kinds, managed : BOOLEAN]]
  /\ overlap \in BOOLEAN /\ accident \in BOOLEAN

Quiet == \A u \in Updaters : upd[u].at \in Resting

\* However an update ends, the machine has a connector, or a service that will
\* start one: a replacement that launchd does not start is taken back.  The
\* exceptions: accidents, which the updater reports if it lives; two updates at
\* the same time, which nothing prevents, and the second of which may take back
\* what the first has started; and a bundle that fails its checks, which has
\* already taken the place of the old one when they fail, so that the service
\* cannot restart its connector.
SomethingServes ==
  (Quiet /\ ~accident /\ ~overlap) =>
    \/ \E p \in procs : p.code \in {"old", "new"}
    \/ job.loaded /\ disk[job.runs] \in {"old", "new"}
    \/ job.loaded /\ \E k \in Kinds : disk[k] = "bad"

\* An update that reports success has replaced the connector: none of the old
\* revision is left to hold the lock.  (A checkout can be updated while the
\* service runs the bundle; that update replaces nothing.)  The exception: the
\* connectors the updater did not see.  The update of a checkout sees none that
\* runs the bundle, and neither sees any when ps fails; such a one keeps the lock,
\* and the connector the updater starts beside it exits.
FinishedMeansReplaced ==
  \A u \in Updaters :
    (/\ upd[u].at = "done" /\ Quiet /\ ~overlap
     /\ manager = "nobody" \/ conf = upd[u].kind)
      => \A p \in procs : p.code # "old" \/ p.pid \in upd[u].missed

\* In no run, because the code does less: "A replacement must wait until the old
\* Connector has released its per-controller + agent-identity singleton lock"
\* (update-connector.mjs:239).  The lock is the same for a checkout and a bundle,
\* the list of what is stopped is not.
ReplacementWaitsForTheLock ==
  \A u \in Updaters :
    (upd[u].at = "spawn" /\ ~overlap /\ ~accident) =>
      \A p \in procs : p.pid = lock => p.code # "old"

UpdatesEndWell == SomethingServes /\ FinishedMeansReplaced
=============================================================================
