---------------------------- MODULE ConnectorLock ----------------------------
(***************************************************************************)
(* The machine-local lock that keeps two connector processes from serving  *)
(* one controller and agent identity (lib/connector-lock.mjs).             *)
(*                                                                         *)
(* The lock is a directory.  mkdir excludes; an owner record, written      *)
(* after mkdir, tells whose it is; a lock whose owner is dead, or that has *)
(* no owner record although it is older than a grace period, is moved away *)
(* under a second directory, the guard.  Every file system call is a step, *)
(* and works on a path: on whatever is there by then.                      *)
(*                                                                         *)
(* A process runs once: a connector that is started again is another       *)
(* process.                                                                *)
(***************************************************************************)
EXTENDS Naturals, FiniteSets

CONSTANTS
  Procs,
  NoProc,
  NoDir,
  MaxTries,    \* attempts of acquireConnectorLock (3)
  PromptSteps  \* no live process is delayed by as much as the grace period
               \* while it makes or removes a lock, or between its look for
               \* an owner record and its look at the age

ASSUME LockAssumption ==
  /\ NoProc \notin Procs
  /\ MaxTries \in Nat \ {0}
  /\ PromptSteps \in BOOLEAN

Dirs == [owner : Procs \union {NoProc}, drafts : SUBSET Procs, fresh : BOOLEAN]

ASSUME NoDirAssumption == NoDir \notin Dirs

VARIABLES
  dir,       \* lockPath
  guard,     \* reclaimPath: the process that made it
  pc,
  tries,     \* attempts that p has finished
  verdict,   \* why p was refused, or "none"
  stale,     \* what made p judge the lock to be stale
  company,   \* history: another process ran while p tried
  misjudged  \* history: a lock was moved away because, before, there was none

vars == <<dir, guard, pc, tries, verdict, stale, company, misjudged>>

Making == {"write", "publish", "cleanup"}
Removing == {"rmdir"}
Examining == {"age", "recheckAge"}
Guarding == {"recheck", "recheckAge", "rename", "unguard"}
Trying == {"mkdir", "readOwner", "age", "guard"} \union Making \union Guarding
Running == Trying \union Removing \union {"holding", "unlink"}

Verdicts == {"none", "held", "initializing", "contended", "error"}

Alive(p) == pc[p] \in Running

Unclaimed == [owner |-> NoProc, drafts |-> {}, fresh |-> TRUE]

(* readOwner: no record and no directory look the same.                     *)
Owner == IF dir = NoDir THEN NoProc ELSE dir.owner

Young == IF dir = NoDir THEN FALSE ELSE dir.fresh

Init ==
  /\ dir = NoDir
  /\ guard = NoProc
  /\ pc = [p \in Procs |-> "new"]
  /\ tries = [p \in Procs |-> 0]
  /\ verdict = [p \in Procs |-> "none"]
  /\ stale = [p \in Procs |-> "none"]
  /\ company = [p \in Procs |-> FALSE]
  /\ misjudged = FALSE

Goto(p, step) == pc' = [pc EXCEPT ![p] = step]

Refuse(p, why) ==
  /\ Goto(p, "gone")
  /\ verdict' = [verdict EXCEPT ![p] = why]

(* Mutant of TryAgain.                                                      *)
TryOnceMore(p) ==
  /\ tries' = [tries EXCEPT ![p] = @ + 1]
  /\ IF tries[p] < MaxTries THEN Goto(p, "mkdir") /\ UNCHANGED verdict
     ELSE Refuse(p, "contended")

TryAgain(p) ==
  /\ tries' = [tries EXCEPT ![p] = @ + 1]
  /\ IF tries[p] + 1 < MaxTries THEN Goto(p, "mkdir") /\ UNCHANGED verdict
     ELSE Refuse(p, "contended")

-----------------------------------------------------------------------------
Start(p) ==
  /\ pc[p] = "new"
  /\ Goto(p, "mkdir")
  /\ company' = [q \in Procs |-> IF q = p THEN \E o \in Procs : Alive(o)
                                 ELSE company[q] \/ Alive(q)]
  /\ UNCHANGED <<dir, guard, tries, verdict, stale, misjudged>>

MakeDir(p) ==
  /\ pc[p] = "mkdir"
  /\ \/ dir = NoDir /\ dir' = Unclaimed /\ Goto(p, "write")
     \/ dir # NoDir /\ UNCHANGED dir /\ Goto(p, "readOwner")
  /\ UNCHANGED <<guard, tries, verdict, stale, company, misjudged>>

(* The owner record is written under another name, then renamed.            *)
WriteOwner(p) ==
  /\ pc[p] = "write"
  /\ \/ /\ dir # NoDir
        /\ dir' = [owner |-> dir.owner, drafts |-> dir.drafts \union {p}, fresh |-> TRUE]
        /\ Goto(p, "publish")
     \/ UNCHANGED dir /\ Goto(p, "cleanup")
  /\ UNCHANGED <<guard, tries, verdict, stale, company, misjudged>>

PublishOwner(p) ==
  /\ pc[p] = "publish"
  /\ \/ /\ dir # NoDir
        /\ p \in dir.drafts
        /\ dir' = [owner |-> p, drafts |-> dir.drafts \ {p}, fresh |-> TRUE]
        /\ Goto(p, "holding")
     \/ UNCHANGED dir /\ Goto(p, "cleanup")
  /\ UNCHANGED <<guard, tries, verdict, stale, company, misjudged>>

(* Writing or renaming threw: the directory at the path goes.               *)
CleanUp(p) ==
  /\ pc[p] = "cleanup"
  /\ dir' = NoDir
  /\ Refuse(p, "error")
  /\ UNCHANGED <<guard, tries, stale, company, misjudged>>

ReadOwner(p) ==
  /\ pc[p] = "readOwner"
  /\ \/ /\ Owner # NoProc /\ Alive(Owner)
        /\ Refuse(p, "held")
     \/ /\ Owner # NoProc /\ ~ Alive(Owner)
        /\ Goto(p, "guard") /\ UNCHANGED verdict
     \/ /\ Owner = NoProc
        /\ Goto(p, "age") /\ UNCHANGED verdict
  /\ UNCHANGED <<dir, guard, tries, stale, company, misjudged>>

(* A directory that cannot be examined counts as infinitely old.            *)
CheckAge(p) ==
  /\ pc[p] = "age"
  /\ \/ /\ Young
        /\ Refuse(p, "initializing")
     \/ /\ ~ Young
        /\ Goto(p, "guard") /\ UNCHANGED verdict
  /\ UNCHANGED <<dir, guard, tries, stale, company, misjudged>>

-----------------------------------------------------------------------------
(* Mutant of TakeGuard.                                                     *)
TakeGuardOver(p) ==
  /\ pc[p] = "guard"
  /\ guard' = p /\ Goto(p, "recheck") /\ UNCHANGED <<tries, verdict>>
  /\ UNCHANGED <<dir, stale, company, misjudged>>

(* reclaimStaleLock: one process at a time, and all is checked again.       *)
TakeGuard(p) ==
  /\ pc[p] = "guard"
  /\ \/ guard = NoProc /\ guard' = p /\ Goto(p, "recheck") /\ UNCHANGED <<tries, verdict>>
     \/ guard # NoProc /\ UNCHANGED guard /\ TryAgain(p)
  /\ UNCHANGED <<dir, stale, company, misjudged>>

JudgeStale(p, why) ==
  /\ stale' = [stale EXCEPT ![p] = why]
  /\ Goto(p, "rename")
  /\ UNCHANGED verdict

KeepLock(p, why) ==
  /\ Goto(p, "unguard")
  /\ verdict' = [verdict EXCEPT ![p] = why]
  /\ UNCHANGED stale

RecheckOwner(p) ==
  /\ pc[p] = "recheck"
  /\ \/ Owner # NoProc /\ Alive(Owner) /\ KeepLock(p, "held")
     \/ Owner # NoProc /\ ~ Alive(Owner) /\ JudgeStale(p, "dead")
     \/ Owner = NoProc /\ Goto(p, "recheckAge") /\ UNCHANGED <<stale, verdict>>
  /\ UNCHANGED <<dir, guard, tries, company, misjudged>>

RecheckAge(p) ==
  /\ pc[p] = "recheckAge"
  /\ \/ Young /\ KeepLock(p, "initializing")
     \/ dir # NoDir /\ ~ Young /\ JudgeStale(p, "aged")
     \/ dir = NoDir /\ JudgeStale(p, "missing")
  /\ UNCHANGED <<dir, guard, tries, company, misjudged>>

(* The directory is renamed to a name of its own, where it is deleted.      *)
MoveAway(p) ==
  /\ pc[p] = "rename"
  /\ dir' = NoDir
  /\ misjudged' = (misjudged \/ (dir # NoDir /\ stale[p] = "missing"))
  /\ Goto(p, "unguard")
  /\ UNCHANGED <<guard, tries, verdict, stale, company>>

(* Mutant of DropGuard.                                                     *)
DropGuardOnlyOnSuccess(p) ==
  /\ pc[p] = "unguard"
  /\ guard' = IF verdict[p] = "none" THEN NoProc ELSE guard
  /\ stale' = [stale EXCEPT ![p] = "none"]
  /\ IF verdict[p] = "none" THEN TryAgain(p)
     ELSE Goto(p, "gone") /\ UNCHANGED <<tries, verdict>>
  /\ UNCHANGED <<dir, company, misjudged>>

DropGuard(p) ==
  /\ pc[p] = "unguard"
  /\ guard' = NoProc
  /\ stale' = [stale EXCEPT ![p] = "none"]
  /\ IF verdict[p] = "none" THEN TryAgain(p)
     ELSE Goto(p, "gone") /\ UNCHANGED <<tries, verdict>>
  /\ UNCHANGED <<dir, company, misjudged>>

-----------------------------------------------------------------------------
(* The process shuts down.  rmSync deletes the record, then the directory.  *)
Release(p) ==
  /\ pc[p] = "holding"
  /\ Goto(p, IF Owner = p THEN "unlink" ELSE "gone")
  /\ UNCHANGED <<dir, guard, tries, verdict, stale, company, misjudged>>

DeleteRecord(p) ==
  /\ pc[p] = "unlink"
  /\ dir' = IF dir = NoDir THEN NoDir ELSE Unclaimed
  /\ Goto(p, "rmdir")
  /\ UNCHANGED <<guard, tries, verdict, stale, company, misjudged>>

DeleteDir(p) ==
  /\ pc[p] = "rmdir"
  /\ dir' = NoDir
  /\ Goto(p, "gone")
  /\ UNCHANGED <<guard, tries, verdict, stale, company, misjudged>>

Crash(p) ==
  /\ Alive(p)
  /\ Goto(p, "dead")
  /\ UNCHANGED <<dir, guard, tries, verdict, stale, company, misjudged>>

(* The grace period passes without a change to the directory.               *)
Age ==
  /\ Young
  /\ PromptSteps => \A p \in Procs : pc[p] \notin Making \union Removing \union Examining
  /\ dir' = [dir EXCEPT !.fresh = FALSE]
  /\ UNCHANGED <<guard, pc, tries, verdict, stale, company, misjudged>>

Acquire(p) ==
  \/ MakeDir(p)
  \/ WriteOwner(p)
  \/ PublishOwner(p)
  \/ CleanUp(p)
  \/ ReadOwner(p)
  \/ CheckAge(p)

Reclaim(p) ==
  \/ TakeGuard(p)
  \/ RecheckOwner(p)
  \/ RecheckAge(p)
  \/ MoveAway(p)
  \/ DropGuard(p)

ShutDown(p) ==
  \/ Release(p)
  \/ DeleteRecord(p)
  \/ DeleteDir(p)

Next ==
  \/ \E p \in Procs : Start(p) \/ Acquire(p) \/ Reclaim(p) \/ ShutDown(p) \/ Crash(p)
  \/ Age

Spec == Init /\ [][Next]_vars

-----------------------------------------------------------------------------
TypeOK ==
  /\ dir \in Dirs \union {NoDir}
  /\ guard \in Procs \union {NoProc}
  /\ pc \in [Procs -> Running \union {"new", "gone", "dead"}]
  /\ tries \in [Procs -> 0 .. MaxTries]
  /\ verdict \in [Procs -> Verdicts]
  /\ stale \in [Procs -> {"none", "dead", "aged", "missing"}]
  /\ company \in [Procs -> BOOLEAN]
  /\ misjudged \in BOOLEAN

(* connector-lock.mjs: "mkdir is the exclusion primitive": at most one      *)
(* process holds the lock.                                                  *)
MutualExclusion ==
  \A p, q \in Procs : pc[p] = "holding" /\ pc[q] = "holding" => p = q

(* The lock of a process that holds it stays at its path and names it, so   *)
(* that every other process is refused as "held" and the release finds it;  *)
(* provided no lock was moved away by a process that had found none.        *)
HolderIsOnRecord ==
  ~ misjudged => \A p \in Procs : pc[p] \in {"holding", "unlink"} => Owner = p

(* connector-lock.mjs: an abandoned lock is recoverable.  A process that    *)
(* tries while no other is running gets the lock, unless what is left there *)
(* is younger than the grace period (or its own writing fails).             *)
AloneIsRefusedOnlyByFreshLock ==
  \A p \in Procs :
    pc[p] = "gone" /\ ~ company[p] => verdict[p] \in {"none", "initializing", "error"}

(* ... which holds as long as no process dies with the guard.               *)
GuardAbandoned == guard # NoProc /\ pc[guard] = "dead"
AloneAcquiresUnlessGuardAbandoned == ~ GuardAbandoned => AloneIsRefusedOnlyByFreshLock
=============================================================================
