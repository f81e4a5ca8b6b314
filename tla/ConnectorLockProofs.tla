------------------------- MODULE ConnectorLockProofs -------------------------
(***************************************************************************)
(* For any number of processes: while every process is prompt, and as long *)
(* as no lock was moved away by a process that had found none, the holder  *)
(* of the connector lock is the owner on record, and so the only holder.   *)
(***************************************************************************)
EXTENDS ConnectorLock, TLAPS

(* The processes that made the directory at the path and did not remove it. *)
Active(p) == pc[p] \in Making \union Removing \union {"holding", "unlink"}

OneActive == \A p, q \in Procs : Active(p) /\ Active(q) => p = q

(* A lock that is being made or removed is young and has no owner record,   *)
(* and one that is held names its holder.                                   *)
ActiveOwnsDir ==
  \A p \in Procs :
    /\ Active(p) => dir # NoDir
    /\ pc[p] \in Making \union Removing => dir.owner = NoProc /\ dir.fresh
    /\ pc[p] \in {"holding", "unlink"} => dir.owner = p

OwnerHasRun == Owner # NoProc => pc[Owner] # "new"

(* A process inside the guard is its only owner.                            *)
GuardIsMine == \A p \in Procs : pc[p] \in Guarding => guard = p

(* What a process has seen of a stale lock stays true until it moves it.    *)
JudgementHolds ==
  \A p \in Procs :
    /\ pc[p] = "recheckAge" => dir = NoDir \/ dir.owner = NoProc \/ dir.fresh
    /\ pc[p] = "rename" => stale[p] \in {"dead", "aged", "missing"}
    /\ pc[p] = "rename" /\ stale[p] = "dead" =>
         dir # NoDir /\ dir.owner # NoProc /\ pc[dir.owner] \in {"dead", "gone"}
    /\ pc[p] = "rename" /\ stale[p] = "aged" =>
         dir # NoDir /\ dir.owner = NoProc /\ ~ dir.fresh

(* A process that tries has an attempt left.                                *)
TriesLeft == \A p \in Procs : pc[p] \in Trying \union {"new"} => tries[p] < MaxTries

LockInv ==
  /\ TypeOK /\ TriesLeft
  /\ GuardIsMine
  /\ ~ misjudged => OneActive /\ ActiveOwnsDir /\ OwnerHasRun /\ JudgementHolds

USE DEF Making, Removing, Guarding, Examining, Trying, Running

(* The constants' assumptions, and what a directory is.                     *)
LEMMA DirFacts ==
  /\ NoDir \notin Dirs
  /\ NoProc \notin Procs
  /\ Unclaimed \in Dirs
  /\ \A d \in Dirs : d.owner \in Procs \union {NoProc} /\ d.fresh \in BOOLEAN
                     /\ d.drafts \in SUBSET Procs
  BY NoDirAssumption, LockAssumption DEF Dirs, Unclaimed

(* A directory that ages keeps its owner.                                   *)
LEMMA Aged ==
  ASSUME NEW d \in Dirs
  PROVE  LET e == [d EXCEPT !.fresh = FALSE]
         IN e \in Dirs /\ e # NoDir /\ e.owner = d.owner /\ ~ e.fresh
<1>1. [d EXCEPT !.fresh = FALSE] \in Dirs
  BY DEF Dirs
<1> QED
  BY <1>1, NoDirAssumption DEF Dirs

(* A directory in which an owner record is drafted.                         *)
LEMMA Drafted ==
  ASSUME NEW d \in Dirs, NEW p \in Procs
  PROVE  LET e == [owner |-> d.owner, drafts |-> d.drafts \union {p}, fresh |-> TRUE]
         IN e \in Dirs /\ e # NoDir /\ e.owner = d.owner /\ e.fresh
<1>1. d.drafts \union {p} \in SUBSET Procs /\ d.owner \in Procs \union {NoProc}
  BY DEF Dirs
<1>2. [owner |-> d.owner, drafts |-> d.drafts \union {p}, fresh |-> TRUE] \in Dirs
  BY <1>1 DEF Dirs
<1> QED
  BY <1>2, NoDirAssumption DEF Dirs

(* A directory whose owner record is published.                             *)
LEMMA Published ==
  ASSUME NEW d \in Dirs, NEW p \in Procs
  PROVE  LET e == [owner |-> p, drafts |-> d.drafts \ {p}, fresh |-> TRUE]
         IN e \in Dirs /\ e # NoDir
<1>1. d.drafts \ {p} \in SUBSET Procs
  BY DEF Dirs
<1>2. [owner |-> p, drafts |-> d.drafts \ {p}, fresh |-> TRUE] \in Dirs
  BY <1>1 DEF Dirs
<1> QED
  BY <1>2, NoDirAssumption

(* The initial states are typed.                                            *)
LEMMA TypeInit == Init => TypeOK /\ TriesLeft
<1> SUFFICES ASSUME Init PROVE TypeOK /\ TriesLeft
  OBVIOUS
<1>1. 0 \in 0 .. MaxTries /\ 0 < MaxTries
  BY LockAssumption
<1>2. tries \in [Procs -> 0 .. MaxTries] /\ TriesLeft
  BY <1>1 DEF Init, TriesLeft
<1>3. verdict \in [Procs -> Verdicts] /\ pc \in [Procs -> Running \union {"new", "gone", "dead"}]
  BY DEF Init, Verdicts
<1> QED
  BY <1>2, <1>3 DEF Init, TypeOK

(* A failed attempt leaves the number of attempts within its limit, because *)
(* only a process that has attempts left makes one.                         *)
LEMMA TryAgainTyped ==
  ASSUME TypeOK, TriesLeft, NEW p \in Procs, pc[p] \in Trying, TryAgain(p)
  PROVE  /\ tries' \in [Procs -> 0 .. MaxTries]
         /\ verdict' \in [Procs -> Verdicts]
         /\ pc' \in [Procs -> Running \union {"new", "gone", "dead"}]
         /\ TriesLeft'
<1>1. tries[p] < MaxTries /\ tries[p] \in 0 .. MaxTries
  BY DEF TypeOK, TriesLeft
<1>2. tries[p] + 1 \in 0 .. MaxTries
  BY <1>1, LockAssumption
<1>3. tries' \in [Procs -> 0 .. MaxTries]
  BY <1>2 DEF TypeOK, TryAgain
<1>4. verdict' \in [Procs -> Verdicts]
  BY DEF TypeOK, TryAgain, Refuse, Verdicts
<1>5. pc' \in [Procs -> Running \union {"new", "gone", "dead"}]
  BY DEF TypeOK, TryAgain, Refuse, Goto
<1>6. TriesLeft'
  BY <1>1 DEF TypeOK, TriesLeft, TryAgain, Refuse, Goto
<1> QED
  BY <1>3, <1>4, <1>5, <1>6

(* Types, and the attempts that are left, are inductive.                    *)
LEMMA TypeNext == TypeOK /\ TriesLeft /\ [Next]_vars => TypeOK' /\ TriesLeft'
<1> SUFFICES ASSUME TypeOK, TriesLeft, [Next]_vars PROVE TypeOK' /\ TriesLeft'
  OBVIOUS
<1> USE DirFacts DEF TypeOK, TriesLeft
<1>1. CASE UNCHANGED vars
  BY <1>1 DEF vars
<1>2. CASE Age
  BY <1>2 DEF Age, Young, Dirs
<1>3. ASSUME NEW p \in Procs, Start(p) PROVE TypeOK' /\ TriesLeft'
  BY <1>3 DEF Start, Goto, Alive
<1>4. ASSUME NEW p \in Procs, Acquire(p) PROVE TypeOK' /\ TriesLeft'
  <2>1. CASE MakeDir(p)
    BY <2>1 DEF MakeDir, Goto
  <2>2. CASE WriteOwner(p)
    <3>1. dir' \in Dirs \union {NoDir}
      BY <2>2, Drafted DEF WriteOwner
    <3> QED
      BY <2>2, <3>1 DEF WriteOwner, Goto
  <2>3. CASE PublishOwner(p)
    <3>1. dir' \in Dirs \union {NoDir}
      BY <2>3, Published DEF PublishOwner
    <3> QED
      BY <2>3, <3>1 DEF PublishOwner, Goto
  <2>4. CASE CleanUp(p)
    BY <2>4 DEF CleanUp, Refuse, Goto, Verdicts
  <2>5. CASE ReadOwner(p)
    BY <2>5 DEF ReadOwner, Refuse, Goto, Verdicts
  <2>6. CASE CheckAge(p)
    BY <2>6 DEF CheckAge, Refuse, Goto, Verdicts
  <2> QED
    BY <1>4, <2>1, <2>2, <2>3, <2>4, <2>5, <2>6 DEF Acquire
<1>5. ASSUME NEW p \in Procs, Reclaim(p) PROVE TypeOK' /\ TriesLeft'
  <2>1. CASE TakeGuard(p)
    <3>1. CASE guard = NoProc
      BY <2>1, <3>1 DEF TakeGuard, Goto
    <3>2. CASE guard # NoProc
      <4>1. TryAgain(p) /\ UNCHANGED <<dir, guard, stale, company, misjudged>>
        BY <2>1, <3>2 DEF TakeGuard
      <4>2. pc[p] \in Trying
        BY <2>1 DEF TakeGuard
      <4> QED
        BY <4>1, <4>2, TryAgainTyped
    <3> QED
      BY <3>1, <3>2
  <2>2. CASE RecheckOwner(p)
    BY <2>2 DEF RecheckOwner, KeepLock, JudgeStale, Goto, Verdicts
  <2>3. CASE RecheckAge(p)
    BY <2>3 DEF RecheckAge, KeepLock, JudgeStale, Goto, Verdicts
  <2>4. CASE MoveAway(p)
    BY <2>4 DEF MoveAway, Goto
  <2>5. CASE DropGuard(p)
    <3>1. CASE verdict[p] = "none"
      <4>1. TryAgain(p)
        BY <2>5, <3>1 DEF DropGuard
      <4>2. pc[p] \in Trying
        BY <2>5 DEF DropGuard
      <4>3. /\ tries' \in [Procs -> 0 .. MaxTries]
            /\ verdict' \in [Procs -> Verdicts]
            /\ pc' \in [Procs -> Running \union {"new", "gone", "dead"}]
            /\ TriesLeft'
        BY <4>1, <4>2, TryAgainTyped
      <4> QED
        BY <2>5, <4>3 DEF DropGuard
    <3>2. CASE verdict[p] # "none"
      BY <2>5, <3>2 DEF DropGuard, Goto
    <3> QED
      BY <3>1, <3>2
  <2> QED
    BY <1>5, <2>1, <2>2, <2>3, <2>4, <2>5 DEF Reclaim
<1>6. ASSUME NEW p \in Procs, ShutDown(p) PROVE TypeOK' /\ TriesLeft'
  <2>1. CASE Release(p)
    BY <2>1 DEF Release, Goto
  <2>2. CASE DeleteRecord(p)
    BY <2>2 DEF DeleteRecord, Goto
  <2>3. CASE DeleteDir(p)
    BY <2>3 DEF DeleteDir, Goto
  <2> QED
    BY <1>6, <2>1, <2>2, <2>3 DEF ShutDown
<1>7. ASSUME NEW p \in Procs, Crash(p) PROVE TypeOK' /\ TriesLeft'
  BY <1>7 DEF Crash, Goto
<1> QED
  BY <1>1, <1>2, <1>3, <1>4, <1>5, <1>6, <1>7 DEF Next

(* The type invariant of the lock, for any set of processes.                *)
THEOREM LockTypeCorrect == Spec => []TypeOK
<1> QED
  BY TypeInit, TypeNext, PTL DEF Spec

-----------------------------------------------------------------------------
(* The initial states satisfy the invariant.                                *)
LEMMA LockInit == Init => LockInv
  BY TypeInit, LockAssumption
     DEF Init, LockInv, GuardIsMine, OneActive, ActiveOwnsDir, OwnerHasRun,
         JudgementHolds, Active, Owner

(* What is left to show of a step once types and guard are settled.         *)
Safe == OneActive /\ ActiveOwnsDir /\ OwnerHasRun /\ JudgementHolds

(* The invariant is inductive when every process is prompt: the guard is what*)
(* lets only one process at a time act on what it saw of a stale lock.      *)
LEMMA LockNext ==
  ASSUME PromptSteps, LockInv, [Next]_vars PROVE LockInv'
<1> USE DirFacts DEF TypeOK
<1>1. TypeOK' /\ TriesLeft'
  BY TypeNext DEF LockInv
<1>2. GuardIsMine'
  <2> USE DEF LockInv, GuardIsMine
  <2>1. CASE UNCHANGED vars
    BY <2>1 DEF vars
  <2>2. CASE Age
    BY <2>2 DEF Age
  <2>3. ASSUME NEW p \in Procs, Start(p) \/ ShutDown(p) \/ Crash(p) PROVE GuardIsMine'
    BY <2>3 DEF Start, ShutDown, Release, DeleteRecord, DeleteDir, Crash, Goto
  <2>4. ASSUME NEW p \in Procs, Acquire(p) PROVE GuardIsMine'
    BY <2>4 DEF Acquire, MakeDir, WriteOwner, PublishOwner, CleanUp, ReadOwner, CheckAge,
                Refuse, Goto
  <2>5. ASSUME NEW p \in Procs, TakeGuard(p) PROVE GuardIsMine'
    BY <2>5 DEF TakeGuard, TryAgain, Refuse, Goto
  <2>6. ASSUME NEW p \in Procs, RecheckOwner(p) \/ RecheckAge(p) \/ MoveAway(p)
        PROVE  GuardIsMine'
    BY <2>6 DEF RecheckOwner, RecheckAge, MoveAway, KeepLock, JudgeStale, Goto
  <2>7. ASSUME NEW p \in Procs, DropGuard(p) PROVE GuardIsMine'
    BY <2>7 DEF DropGuard, TryAgain, Refuse, Goto
  <2> QED
    BY <2>1, <2>2, <2>3, <2>4, <2>5, <2>6, <2>7 DEF Next, Reclaim
<1>3. SUFFICES ASSUME ~ misjudged' PROVE Safe'
  BY <1>1, <1>2 DEF LockInv, Safe
<1>4. ~ misjudged
  <2>1. ASSUME NEW p \in Procs, Start(p) \/ Acquire(p) \/ Reclaim(p) \/ ShutDown(p) \/ Crash(p)
        PROVE  misjudged => misjudged'
    BY <2>1 DEF Start, Acquire, MakeDir, WriteOwner, PublishOwner, CleanUp, ReadOwner,
                CheckAge, Reclaim, TakeGuard, RecheckOwner, RecheckAge, MoveAway, DropGuard,
                ShutDown, Release, DeleteRecord, DeleteDir, Crash
  <2> QED
    BY <1>3, <2>1 DEF Next, Age, vars
<1>5. OneActive /\ ActiveOwnsDir /\ OwnerHasRun /\ JudgementHolds /\ GuardIsMine /\ TypeOK
  BY <1>4 DEF LockInv
<1> USE DEF OneActive, ActiveOwnsDir, OwnerHasRun, JudgementHolds, Active, Owner, Safe
<1>6. CASE UNCHANGED vars
  BY <1>5, <1>6 DEF vars
<1>7. CASE Age
  <2>1. /\ dir # NoDir /\ dir' # NoDir
        /\ dir'.owner = dir.owner /\ ~ dir'.fresh
    BY <1>5, <1>7, Aged DEF Age, Young
  <2>2. \A p \in Procs : pc[p] \notin Making \union Removing \union Examining
    BY <1>7 DEF Age
  <2>3. pc' = pc /\ stale' = stale
    BY <1>7 DEF Age
  <2>4. OneActive'
    BY <1>5, <2>3
  <2>5. ActiveOwnsDir' /\ OwnerHasRun'
    BY <1>5, <2>1, <2>2, <2>3
  <2>6. JudgementHolds'
    BY <1>5, <2>1, <2>2, <2>3
  <2> QED
    BY <2>4, <2>5, <2>6
<1>8. ASSUME NEW p \in Procs, Start(p) PROVE Safe'
  BY <1>5, <1>8 DEF Start, Goto
<1>9. ASSUME NEW p \in Procs, MakeDir(p) PROVE Safe'
  <2>1. CASE dir = NoDir
    <3>1. /\ dir' # NoDir /\ dir'.owner = NoProc /\ dir'.fresh
          /\ pc' = [pc EXCEPT ![p] = "write"] /\ stale' = stale
      BY <1>9, <2>1 DEF MakeDir, Goto, Unclaimed
    <3>2. \A q \in Procs : ~ Active(q) /\ ~ (pc[q] = "rename" /\ stale[q] \in {"dead", "aged"})
      BY <1>5, <2>1
    <3>3. OneActive' /\ ActiveOwnsDir'
      BY <1>5, <3>1, <3>2
    <3>4. OwnerHasRun' /\ JudgementHolds'
      BY <1>5, <3>1, <3>2
    <3> QED
      BY <3>3, <3>4
  <2>2. CASE dir # NoDir
    BY <1>5, <1>9, <2>2 DEF MakeDir, Goto
  <2> QED
    BY <2>1, <2>2
<1>10. ASSUME NEW p \in Procs, WriteOwner(p) PROVE Safe'
  <2>1. /\ dir # NoDir /\ dir.owner = NoProc /\ dir.fresh /\ stale' = stale
        /\ pc' \in {[pc EXCEPT ![p] = "publish"], [pc EXCEPT ![p] = "cleanup"]}
    BY <1>5, <1>10 DEF WriteOwner, Goto
  <2>2. dir' # NoDir /\ dir'.owner = NoProc /\ dir'.fresh
    BY <1>5, <1>10, <2>1, Drafted DEF WriteOwner
  <2>3. \A q \in Procs : (Active(q) <=> q = p) /\ (Active(q)' <=> q = p)
    BY <1>5, <1>10, <2>1 DEF WriteOwner
  <2>4. OneActive' /\ ActiveOwnsDir'
    BY <1>5, <2>1, <2>2, <2>3
  <2>5. OwnerHasRun' /\ JudgementHolds'
    BY <1>5, <2>1, <2>2
  <2> QED
    BY <2>4, <2>5
<1>11. ASSUME NEW p \in Procs, PublishOwner(p) PROVE Safe'
  <2>1. \A q \in Procs : Active(q) <=> q = p
    BY <1>5, <1>11 DEF PublishOwner
  <2>2. /\ dir # NoDir /\ dir.owner = NoProc /\ dir.fresh /\ stale' = stale
        /\ \A q \in Procs : ~ (pc[q] = "rename" /\ stale[q] \in {"dead", "aged"})
    BY <1>5, <1>11 DEF PublishOwner
  <2>3. CASE dir' = dir /\ pc' = [pc EXCEPT ![p] = "cleanup"]
    BY <1>5, <2>1, <2>2, <2>3
  <2>4. CASE /\ dir' = [owner |-> p, drafts |-> dir.drafts \ {p}, fresh |-> TRUE]
             /\ pc' = [pc EXCEPT ![p] = "holding"]
    <3>1. dir' # NoDir /\ dir'.owner = p /\ dir'.fresh
      BY <1>5, <2>2, <2>4, Published
    <3>2. OneActive' /\ ActiveOwnsDir'
      BY <1>5, <2>1, <2>4, <3>1
    <3>3. OwnerHasRun' /\ JudgementHolds'
      BY <1>5, <2>2, <2>4, <3>1
    <3> QED
      BY <3>2, <3>3
  <2> QED
    BY <1>11, <2>3, <2>4 DEF PublishOwner, Goto
<1>12. ASSUME NEW p \in Procs, CleanUp(p) PROVE Safe'
  BY <1>5, <1>12 DEF CleanUp, Refuse, Goto
<1>13. ASSUME NEW p \in Procs, ReadOwner(p) \/ CheckAge(p) PROVE Safe'
  BY <1>5, <1>13 DEF ReadOwner, CheckAge, Young, Refuse, Goto
<1>14. ASSUME NEW p \in Procs, TakeGuard(p) PROVE Safe'
  BY <1>5, <1>14 DEF TakeGuard, TryAgain, Refuse, Goto
<1>15. ASSUME NEW p \in Procs, RecheckOwner(p) PROVE Safe'
  BY <1>5, <1>15 DEF RecheckOwner, KeepLock, JudgeStale, Goto, Alive
<1>16. ASSUME NEW p \in Procs, RecheckAge(p) PROVE Safe'
  BY <1>5, <1>16 DEF RecheckAge, KeepLock, JudgeStale, Goto, Young
<1>17. ASSUME NEW p \in Procs, MoveAway(p) PROVE Safe'
  <2>1. dir' = NoDir /\ stale' = stale /\ pc' = [pc EXCEPT ![p] = "unguard"]
    BY <1>17 DEF MoveAway, Goto
  <2>2. stale[p] = "missing" => dir = NoDir
    BY <1>3, <1>17 DEF MoveAway
  <2>3. \A q \in Procs : ~ Active(q)
    <3>1. CASE stale[p] = "missing"
      BY <1>5, <2>2, <3>1
    <3>2. CASE stale[p] \in {"dead", "aged"}
      BY <1>5, <1>17, <3>2 DEF MoveAway
    <3> QED
      BY <1>5, <1>17, <3>1, <3>2 DEF MoveAway
  <2>4. \A q \in Procs : q # p => pc[q] \notin Guarding
    BY <1>5, <1>17 DEF MoveAway, GuardIsMine
  <2>5. OneActive' /\ ActiveOwnsDir'
    BY <1>5, <2>1, <2>3
  <2>6. OwnerHasRun' /\ JudgementHolds'
    BY <1>5, <2>1, <2>4
  <2> QED
    BY <2>5, <2>6
<1>18. ASSUME NEW p \in Procs, DropGuard(p) PROVE Safe'
  BY <1>5, <1>18 DEF DropGuard, TryAgain, Refuse, Goto
<1>19. ASSUME NEW p \in Procs, Release(p) PROVE Safe'
  BY <1>5, <1>19 DEF Release, Goto
<1>20. ASSUME NEW p \in Procs, DeleteRecord(p) PROVE Safe'
  <2>1. \A q \in Procs : Active(q) <=> q = p
    BY <1>5, <1>20 DEF DeleteRecord
  <2>2. /\ dir # NoDir /\ stale' = stale /\ pc' = [pc EXCEPT ![p] = "rmdir"]
        /\ dir' = Unclaimed
    BY <1>5, <1>20 DEF DeleteRecord, Goto
  <2>3. dir' # NoDir /\ dir'.owner = NoProc /\ dir'.fresh
    BY <2>2 DEF Unclaimed
  <2>4. \A q \in Procs : ~ (pc[q] = "rename" /\ stale[q] \in {"dead", "aged"})
    BY <1>5, <1>20 DEF DeleteRecord
  <2>5. OneActive' /\ ActiveOwnsDir'
    BY <1>5, <2>1, <2>2, <2>3
  <2>6. OwnerHasRun' /\ JudgementHolds'
    BY <1>5, <2>2, <2>3, <2>4
  <2> QED
    BY <2>5, <2>6
<1>21. ASSUME NEW p \in Procs, DeleteDir(p) PROVE Safe'
  BY <1>5, <1>21 DEF DeleteDir, Goto
<1>22. ASSUME NEW p \in Procs, Crash(p) PROVE Safe'
  BY <1>5, <1>22 DEF Crash, Goto, Alive
<1> QED
  BY <1>6, <1>7, <1>8, <1>9, <1>10, <1>11, <1>12, <1>13, <1>14, <1>15, <1>16, <1>17,
     <1>18, <1>19, <1>20, <1>21, <1>22
     DEF Next, Acquire, Reclaim, ShutDown

(* While every process is prompt and no lock was moved away by a process    *)
(* that had found none, a lock that is held stays at its path and names its *)
(* holder, whoever crashes, reclaims or releases.                           *)
THEOREM LockHolderIsOnRecord ==
  ASSUME PromptSteps PROVE Spec => []HolderIsOnRecord
<1>1. LockInv => HolderIsOnRecord
  BY DirFacts DEF LockInv, ActiveOwnsDir, Active, HolderIsOnRecord, Owner
<1>2. LockInv /\ [Next]_vars => LockInv'
  BY LockNext
<1> QED
  BY LockInit, <1>1, <1>2, PTL DEF Spec

(* ... so that no two processes ever hold it at the same time.              *)
THEOREM LockExcludes ==
  ASSUME PromptSteps PROVE Spec => [](~ misjudged => MutualExclusion)
<1>1. HolderIsOnRecord => (~ misjudged => MutualExclusion)
  BY DEF HolderIsOnRecord, MutualExclusion
<1> QED
  BY LockHolderIsOnRecord, <1>1, PTL
-----------------------------------------------------------------------------
(* A process that tries while no other is running.                          *)

(* The guard is of a process that is inside it, or died there.              *)
GuardIsHeld == guard # NoProc => pc[guard] \in Guarding \union {"dead"}

(* A process that still tries is not on record.                             *)
TrierIsNotOwner == \A p \in Procs : pc[p] \in Trying \union {"new"} => Owner # p

CompanyIsKnown ==
  \A p \in Procs : Alive(p) /\ ~ company[p] => \A q \in Procs : Alive(q) => q = p

NewIsUntried == \A p \in Procs : pc[p] = "new" => tries[p] = 0 /\ verdict[p] = "none"

Reasons == {"none", "initializing", "error"}

(* It is in its first attempt; or in its second, and there is no lock, since*)
(* it has moved away what was there.                                        *)
Lone(p) ==
  /\ pc[p] = "gone" => verdict[p] \in Reasons
  /\ Alive(p) /\ pc[p] # "unguard" => verdict[p] = "none"
  /\ pc[p] = "unguard" => verdict[p] = "initializing" \/ (verdict[p] = "none" /\ dir = NoDir)
  /\ pc[p] \in {"readOwner", "age", "guard"} \union Guarding => tries[p] = 0
  /\ pc[p] = "mkdir" => tries[p] = 0 \/ (tries[p] = 1 /\ dir = NoDir)

AloneInv ==
  /\ TypeOK /\ TriesLeft /\ GuardIsMine /\ GuardIsHeld
  /\ TrierIsNotOwner /\ CompanyIsKnown /\ NewIsUntried
  /\ ~ GuardAbandoned => \A p \in Procs : ~ company[p] => Lone(p)

LEMMA AloneInit == Init => AloneInv
<1> SUFFICES ASSUME Init PROVE AloneInv
  OBVIOUS
<1>1. TypeOK /\ TriesLeft
  BY TypeInit
<1>2. /\ pc = [p \in Procs |-> "new"] /\ tries = [p \in Procs |-> 0]
      /\ verdict = [p \in Procs |-> "none"] /\ dir = NoDir /\ guard = NoProc
  BY DEF Init
<1>3. GuardIsMine /\ GuardIsHeld /\ NewIsUntried
  BY <1>2 DEF GuardIsMine, GuardIsHeld, NewIsUntried
<1>4. TrierIsNotOwner
  BY <1>2, DirFacts DEF TrierIsNotOwner, Owner
<1>5. CompanyIsKnown /\ \A p \in Procs : Lone(p)
  BY <1>2 DEF CompanyIsKnown, Lone, Alive
<1> QED
  BY <1>1, <1>3, <1>4, <1>5 DEF AloneInv

(* What a step of a process changes of the others: only company.            *)
Steps(p) == Start(p) \/ Acquire(p) \/ Reclaim(p) \/ ShutDown(p) \/ Crash(p)

LEMMA OnlyItsOwn ==
  ASSUME TypeOK, NEW p \in Procs, Steps(p), NEW q \in Procs, q # p
  PROVE  pc'[q] = pc[q] /\ tries'[q] = tries[q] /\ verdict'[q] = verdict[q]
<1>1. CASE Start(p) \/ Crash(p) \/ ShutDown(p)
  BY <1>1 DEF TypeOK, Start, Crash, ShutDown, Release, DeleteRecord, DeleteDir, Goto
<1>2. CASE Acquire(p)
  BY <1>2 DEF TypeOK, Acquire, MakeDir, WriteOwner, PublishOwner, CleanUp, ReadOwner,
              CheckAge, Refuse, Goto
<1>3. CASE Reclaim(p)
  BY <1>3 DEF TypeOK, Reclaim, TakeGuard, RecheckOwner, RecheckAge, MoveAway, DropGuard,
              KeepLock, JudgeStale, TryAgain, Refuse, Goto
<1> QED
  BY <1>1, <1>2, <1>3 DEF Steps

(* Who has died, died for good, and who runs has been started.              *)
LEMMA LivesOnce ==
  ASSUME TypeOK, NEW p \in Procs, Steps(p)
  PROVE  /\ pc[p] \notin {"dead", "gone"} /\ pc'[p] # "new"
         /\ pc[p] = "new" => Start(p) /\ pc'[p] = "mkdir"
         /\ pc[p] # "new" => Alive(p) /\ company' = company
<1>1. CASE Start(p)
  BY <1>1 DEF TypeOK, Start, Goto
<1>2. CASE Crash(p) \/ ShutDown(p)
  BY <1>2 DEF TypeOK, Crash, Alive, ShutDown, Release, DeleteRecord, DeleteDir, Goto
<1>3. CASE Acquire(p)
  BY <1>3 DEF TypeOK, Acquire, MakeDir, WriteOwner, PublishOwner, CleanUp, ReadOwner,
              CheckAge, Refuse, Goto, Alive
<1>4. CASE Reclaim(p)
  BY <1>4 DEF TypeOK, Reclaim, TakeGuard, RecheckOwner, RecheckAge, MoveAway, DropGuard,
              KeepLock, JudgeStale, TryAgain, Refuse, Goto, Alive
<1> QED
  BY <1>1, <1>2, <1>3, <1>4 DEF Steps

(* The guard passes from one process to the next only through nobody.       *)
LEMMA GuardNext ==
  ASSUME TypeOK, GuardIsMine, GuardIsHeld, NEW p \in Procs, Steps(p)
  PROVE  GuardIsMine' /\ GuardIsHeld' /\ (GuardAbandoned => GuardAbandoned')
<1> USE DirFacts DEF TypeOK, GuardIsMine, GuardIsHeld, GuardAbandoned, Goto
<1>1. CASE Start(p) \/ Crash(p) \/ ShutDown(p)
  <2>1. guard' = guard
    BY <1>1 DEF Start, Crash, ShutDown, Release, DeleteRecord, DeleteDir
  <2>2. CASE Start(p)
    BY <2>1, <2>2 DEF Start
  <2>3. CASE Crash(p)
    BY <2>1, <2>3 DEF Crash, Alive
  <2>4. CASE ShutDown(p)
    BY <2>1, <2>4 DEF ShutDown, Release, DeleteRecord, DeleteDir
  <2> QED
    BY <1>1, <2>2, <2>3, <2>4
<1>2. CASE Acquire(p)
  BY <1>2 DEF Acquire, MakeDir, WriteOwner, PublishOwner, CleanUp, ReadOwner, CheckAge, Refuse
<1>3. CASE TakeGuard(p)
  BY <1>3 DEF TakeGuard, TryAgain, Refuse
<1>4. CASE RecheckOwner(p) \/ RecheckAge(p) \/ MoveAway(p)
  BY <1>4 DEF RecheckOwner, RecheckAge, MoveAway, KeepLock, JudgeStale
<1>5. CASE DropGuard(p)
  BY <1>5 DEF DropGuard, TryAgain, Refuse
<1> QED
  BY <1>1, <1>2, <1>3, <1>4, <1>5 DEF Steps, Reclaim

(* Only publishing puts a process on record, and it ends its trying.        *)
LEMMA OwnerNext ==
  ASSUME TypeOK, TrierIsNotOwner, NEW p \in Procs, Steps(p)
  PROVE  TrierIsNotOwner'
<1> USE DirFacts DEF TypeOK
<1>1. Owner' \in {Owner, NoProc} \/ (PublishOwner(p) /\ Owner' = p /\ pc'[p] = "holding")
  <2>1. CASE WriteOwner(p)
    BY <2>1, Drafted DEF WriteOwner, Owner
  <2>2. CASE PublishOwner(p)
    BY <2>2, Published DEF PublishOwner, Owner, Goto
  <2>3. CASE MakeDir(p) \/ CleanUp(p) \/ ReadOwner(p) \/ CheckAge(p)
    <3>1. dir' \in {dir, NoDir, Unclaimed}
      BY <2>3 DEF MakeDir, CleanUp, ReadOwner, CheckAge
    <3> QED
      BY <3>1 DEF Owner, Unclaimed
  <2>4. CASE Reclaim(p)
    BY <2>4 DEF Reclaim, TakeGuard, RecheckOwner, RecheckAge, MoveAway, DropGuard, Owner
  <2>5. CASE Start(p) \/ Crash(p) \/ ShutDown(p)
    <3>1. dir' \in {dir, NoDir, Unclaimed}
      BY <2>5 DEF Start, Crash, ShutDown, Release, DeleteRecord, DeleteDir
    <3> QED
      BY <3>1 DEF Owner, Unclaimed
  <2> QED
    BY <2>1, <2>2, <2>3, <2>4, <2>5 DEF Steps, Acquire
<1>2. \A q \in Procs : pc'[q] \in Trying \union {"new"} => pc[q] \in Trying \union {"new"}
  <2> SUFFICES ASSUME NEW q \in Procs, pc'[q] \in Trying \union {"new"}
               PROVE  pc[q] \in Trying \union {"new"}
    OBVIOUS
  <2>1. CASE q # p
    BY <2>1, OnlyItsOwn
  <2>2. CASE q = p /\ (Start(p) \/ Crash(p) \/ ShutDown(p))
    <3>1. Start(p) \/ pc'[p] \in {"dead", "gone", "unlink", "rmdir"}
      BY <2>2 DEF Crash, ShutDown, Release, DeleteRecord, DeleteDir, Goto
    <3> QED
      BY <2>2, <3>1 DEF Start
  <2>3. CASE q = p /\ Acquire(p)
    BY <2>3 DEF Acquire, MakeDir, WriteOwner, PublishOwner, CleanUp, ReadOwner, CheckAge
  <2>4. CASE q = p /\ Reclaim(p)
    BY <2>4 DEF Reclaim, TakeGuard, RecheckOwner, RecheckAge, MoveAway, DropGuard
  <2> QED
    BY <2>1, <2>2, <2>3, <2>4 DEF Steps
<1>3. \A q \in Procs : pc'[q] \in Trying \union {"new"} => Owner' # q
  <2> SUFFICES ASSUME NEW q \in Procs, pc'[q] \in Trying \union {"new"}, Owner' = q
               PROVE  FALSE
    OBVIOUS
  <2>1. q # NoProc
    BY DirFacts
  <2>2. Owner # q
    BY <1>2 DEF TrierIsNotOwner
  <2> QED
    BY <1>1, <2>1, <2>2
<1> QED
  BY <1>3 DEF TrierIsNotOwner

LEMMA CompanyNext ==
  ASSUME TypeOK, CompanyIsKnown, NewIsUntried, NEW p \in Procs, Steps(p)
  PROVE  CompanyIsKnown' /\ NewIsUntried' /\ \A q \in Procs : company[q] /\ pc[q] # "new" => company'[q]
<1>1. \A q \in Procs : q # p => pc'[q] = pc[q] /\ tries'[q] = tries[q] /\ verdict'[q] = verdict[q]
  BY OnlyItsOwn
<1>2. NewIsUntried'
  BY <1>1, LivesOnce DEF NewIsUntried
<1>3. CASE pc[p] = "new"
  <2>1. /\ company' = [q \in Procs |-> IF q = p THEN \E o \in Procs : Alive(o)
                                       ELSE company[q] \/ Alive(q)]
        /\ pc'[p] = "mkdir"
    BY <1>3, LivesOnce DEF Start
  <2>2. \A q \in Procs : q # p => (Alive(q)' <=> Alive(q))
    BY <1>1 DEF Alive
  <2> QED
    BY <1>2, <1>3, <2>1, <2>2 DEF CompanyIsKnown
<1>4. CASE pc[p] # "new"
  <2>1. Alive(p) /\ company' = company
    BY <1>4, LivesOnce
  <2>2. \A q \in Procs : Alive(q)' => Alive(q)
    BY <1>1, <2>1 DEF Alive
  <2> QED
    BY <1>2, <2>1, <2>2 DEF CompanyIsKnown
<1> QED
  BY <1>3, <1>4

(* The steps of a process that is alone.                                    *)
LEMMA LoneStep ==
  ASSUME AloneInv, MaxTries > 1, NEW p \in Procs, Steps(p), ~ company'[p],
         ~ GuardAbandoned, Lone(p)
  PROVE  Lone(p)'
<1> USE DirFacts DEF TypeOK, Lone
<1>1. TypeOK /\ NewIsUntried /\ GuardIsHeld /\ GuardIsMine /\ TrierIsNotOwner /\ CompanyIsKnown
  BY DEF AloneInv
<1>2. pc[p] # "new" => \A q \in Procs : Alive(q) => q = p
  BY <1>1, LivesOnce DEF CompanyIsKnown
<1>3. CASE Start(p)
  BY <1>1, <1>3 DEF Start, Goto, NewIsUntried, Alive
<1>4. CASE MakeDir(p)
  BY <1>1, <1>4 DEF MakeDir, Goto, Alive
<1>5. CASE WriteOwner(p) \/ PublishOwner(p)
  BY <1>1, <1>5 DEF WriteOwner, PublishOwner, Goto, Alive
<1>6. CASE CleanUp(p)
  BY <1>1, <1>6 DEF CleanUp, Refuse, Goto, Alive, Reasons
<1>7. CASE ReadOwner(p)
  <2>1. ~ (Owner # NoProc /\ Alive(Owner))
    <3>1. Owner \in Procs \union {NoProc} /\ Owner # p
      BY <1>1, <1>7 DEF ReadOwner, TrierIsNotOwner, Owner
    <3> QED
      BY <1>2, <1>7, <3>1 DEF ReadOwner
  <2> QED
    BY <1>1, <1>7, <2>1 DEF ReadOwner, Goto, Alive
<1>8. CASE CheckAge(p)
  BY <1>1, <1>8 DEF CheckAge, Refuse, Goto, Alive, Reasons
<1>9. CASE TakeGuard(p)
  <2>1. guard = NoProc
    BY <1>1, <1>2, <1>9 DEF TakeGuard, GuardIsHeld, GuardAbandoned, Alive
  <2> QED
    BY <1>1, <1>9, <2>1 DEF TakeGuard, Goto, Alive
<1>10. CASE RecheckOwner(p)
  <2>1. ~ (Owner # NoProc /\ Alive(Owner))
    <3>1. Owner \in Procs \union {NoProc} /\ Owner # p
      BY <1>1, <1>10 DEF RecheckOwner, TrierIsNotOwner, Owner
    <3> QED
      BY <1>2, <1>10, <3>1 DEF RecheckOwner
  <2> QED
    BY <1>1, <1>10, <2>1 DEF RecheckOwner, JudgeStale, Goto, Alive
<1>11. CASE RecheckAge(p)
  BY <1>1, <1>11 DEF RecheckAge, KeepLock, JudgeStale, Goto, Alive
<1>12. CASE MoveAway(p)
  BY <1>1, <1>12 DEF MoveAway, Goto, Alive
<1>13. CASE DropGuard(p)
  <2>1. tries[p] = 0 /\ dir' = dir
    BY <1>13 DEF DropGuard
  <2>2. CASE verdict[p] = "none"
    <3>1. tries' = [tries EXCEPT ![p] = 1] /\ pc' = [pc EXCEPT ![p] = "mkdir"] /\ verdict' = verdict
      BY <1>1, <1>13, <2>1, <2>2, LockAssumption DEF DropGuard, TryAgain, Goto
    <3> QED
      BY <1>1, <1>13, <2>1, <2>2, <3>1 DEF DropGuard, Alive
  <2>3. CASE verdict[p] # "none"
    BY <1>1, <1>13, <2>3 DEF DropGuard, Goto, Alive, Reasons
  <2> QED
    BY <2>2, <2>3
<1>14. CASE ShutDown(p)
  BY <1>1, <1>14 DEF ShutDown, Release, DeleteRecord, DeleteDir, Goto, Alive, Reasons
<1>15. CASE Crash(p)
  BY <1>1, <1>15 DEF Crash, Goto, Alive
<1> QED
  BY <1>3, <1>4, <1>5, <1>6, <1>7, <1>8, <1>9, <1>10, <1>11, <1>12, <1>13, <1>14, <1>15
     DEF Steps, Acquire, Reclaim

LEMMA AloneNext ==
  ASSUME MaxTries > 1, AloneInv, [Next]_vars PROVE AloneInv'
<1>1. TypeOK' /\ TriesLeft'
  BY TypeNext DEF AloneInv
<1>2. CASE UNCHANGED vars
  BY <1>2 DEF vars, AloneInv, TypeOK, TriesLeft, GuardIsMine, GuardIsHeld, TrierIsNotOwner,
              Owner, CompanyIsKnown, NewIsUntried, Alive, GuardAbandoned, Lone
<1>3. CASE Age
  <2>1. /\ dir # NoDir /\ dir' # NoDir /\ dir'.owner = dir.owner
        /\ UNCHANGED <<guard, pc, tries, verdict, company>>
    BY <1>3, Aged DEF Age, Young, AloneInv, TypeOK
  <2> QED
    BY <1>1, <2>1 DEF AloneInv, GuardIsMine, GuardIsHeld, TrierIsNotOwner, Owner,
                      CompanyIsKnown, NewIsUntried, Alive, GuardAbandoned, Lone
<1>4. ASSUME NEW p \in Procs, Steps(p) PROVE AloneInv'
  <2>1. GuardIsMine' /\ GuardIsHeld' /\ (GuardAbandoned => GuardAbandoned')
    BY <1>4, GuardNext DEF AloneInv
  <2>2. TrierIsNotOwner'
    BY <1>4, OwnerNext DEF AloneInv
  <2>3. /\ CompanyIsKnown' /\ NewIsUntried'
        /\ \A q \in Procs : company[q] /\ pc[q] # "new" => company'[q]
    BY <1>4, CompanyNext DEF AloneInv
  <2>4. ASSUME ~ GuardAbandoned', NEW q \in Procs, ~ company'[q] PROVE Lone(q)'
    <3>1. ~ GuardAbandoned
      BY <2>1, <2>4
    <3>2. pc[q] # "new" => Lone(q)
      BY <2>3, <2>4, <3>1 DEF AloneInv
    <3>3. pc[q] = "new" => Lone(q)
      BY DEF Lone, Alive
    <3>4. CASE q = p
      BY <1>4, <2>4, <3>1, <3>2, <3>3, <3>4, LoneStep
    <3>5. CASE q # p
      <4>1. pc'[q] = pc[q] /\ tries'[q] = tries[q] /\ verdict'[q] = verdict[q]
        BY <1>4, <3>5, OnlyItsOwn DEF AloneInv
      <4>2. CASE ~ Alive(q)
        BY <3>2, <3>3, <4>1, <4>2 DEF Lone, Alive
      <4>3. CASE Alive(q)
        <5>1. pc[p] # "new"
          BY <1>4, <2>4, <3>5, <4>3, LivesOnce DEF AloneInv, Start
        <5>2. Alive(p) /\ ~ company[q]
          BY <1>4, <2>4, <5>1, LivesOnce DEF AloneInv
        <5> QED
          BY <3>5, <4>3, <5>2 DEF AloneInv, CompanyIsKnown
      <4> QED
        BY <4>2, <4>3
    <3> QED
      BY <3>4, <3>5
  <2> QED
    BY <1>1, <2>1, <2>2, <2>3, <2>4 DEF AloneInv
<1> QED
  BY <1>2, <1>3, <1>4 DEF Next, Steps

(* As long as no process died with the guard, a process that tries while no *)
(* other is running gets the lock, unless what is left there is younger than*)
(* the grace period or its own writing fails: one attempt moves the old lock*)
(* away and the next one succeeds, so two attempts are needed.              *)
THEOREM LockIsRecovered ==
  ASSUME MaxTries > 1 PROVE Spec => []AloneAcquiresUnlessGuardAbandoned
<1>1. AloneInv => AloneAcquiresUnlessGuardAbandoned
  BY DEF AloneInv, Lone, Reasons, AloneAcquiresUnlessGuardAbandoned, AloneIsRefusedOnlyByFreshLock
<1>2. AloneInv /\ [Next]_vars => AloneInv'
  BY AloneNext
<1> QED
  BY AloneInit, <1>1, <1>2, PTL DEF Spec
=============================================================================
