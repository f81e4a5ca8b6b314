-------------------------- MODULE ProgressReports --------------------------
(***************************************************************************)
(* The progress reports of the controller (lib/progress-reports.mjs).      *)
(*                                                                         *)
(* Every controller keeps a journal of the turns it saw in an hour and     *)
(* writes it to the storage on every tick, under a key of its own.  When   *)
(* the hour has closed one controller claims its report, reads the         *)
(* journals of all, has them summarised and stores the result; the report  *)
(* of the day is made of those of its hours.  A report that fails is tried *)
(* three times.                                                            *)
(*                                                                         *)
(* Time is abstracted: an hour closes, a claim runs out and a retry falls  *)
(* due in steps of their own.                                              *)
(***************************************************************************)
EXTENDS Naturals

CONSTANTS
  Controllers,        \* processes that share the storage
  Hours, Day,         \* the reports: one of each hour, and one of the day
  Turns, HourOf,      \* what transcripts bring, and when it was said
  ConditionalWrites,  \* whether the storage compares versions
  NoJournal, Nothing

ReportsAssumption ==
  /\ HourOf \in [Turns -> Hours] /\ Hours \subseteq Nat /\ Day \notin Hours
  /\ Nothing \notin Hours \union {Day}
  /\ ConditionalWrites \in BOOLEAN
  /\ ConditionalWrites \/ \A c, d \in Controllers : c = d

VARIABLES
  closed,    \* the hours that are over, grace included
  ctl,       \* the controllers
  journal,   \* the stored journals: of each controller and hour
  former,    \* the stored journals of processes that have died
  writes,    \* writes of journals the storage has not carried out
  report,    \* the stored reports
  claim,     \* the stored claims
  outlived,  \* history: reports whose claim ran out while a controller was at work
             \* on them
  unheard,   \* history: reports whose write was carried out but not answered
  crossed    \* history: journals of a controller that stop wrote while a tick
             \* was writing them

store == <<journal, former, report, claim>>
history == <<outlived, unheard, crossed>>
vars == <<closed, ctl, journal, former, writes, report, claim, outlived, unheard, crossed>>

Ids == Hours \union {Day}
MaxAttempts == 3
Flushers == {"tick", "stop"}

NoReport == [status |-> "none", attempts |-> 0, turns |-> {}, partial |-> FALSE,
             waits |-> FALSE]
NoClaim == [version |-> 0, live |-> FALSE]
NoJob == [at |-> "idle", id |-> Nothing, attempt |-> 0, lock |-> 0, left |-> {},
          turns |-> {}, partial |-> FALSE, done |-> {}]
NoFlush == [on |-> FALSE, left |-> {}, writing |-> Nothing]
NoPages == [h \in Hours |-> [known |-> FALSE, turns |-> {}, dirty |-> FALSE]]
Fresh == [stopped |-> FALSE, pages |-> NoPages, job |-> NoJob,
          flush |-> [f \in Flushers |-> NoFlush], processed |-> {}, waits |-> {}]

Init ==
  /\ closed = {}
  /\ ctl = [c \in Controllers |-> Fresh]
  /\ journal = [c \in Controllers |-> [h \in Hours |-> NoJournal]]
  /\ former = [h \in Hours |-> {}]
  /\ writes = {}
  /\ report = [i \in Ids |-> NoReport]
  /\ claim = [i \in Ids |-> NoClaim]
  /\ outlived = {} /\ unheard = {} /\ crossed = {}

\* An hour and everything before it is over.
HourCloses ==
  \E h \in Hours :
    /\ \A g \in Hours : g < h => g \in closed
    /\ h \notin closed
    /\ closed' = closed \union {h}
    /\ UNCHANGED <<ctl, store, writes, history>>

-----------------------------------------------------------------------------
(* Journals.                                                               *)

\* record: a chunk was committed with a turn that no journal of this process has.
Record(c, t) ==
  LET h == HourOf[t] IN
  /\ ~ctl[c].stopped
  /\ h \notin ctl[c].processed
  /\ t \notin ctl[c].pages[h].turns
  /\ ctl' = [ctl EXCEPT ![c].pages[h] =
               [known |-> TRUE, turns |-> @.turns \union {t}, dirty |-> TRUE]]
  /\ UNCHANGED <<closed, store, writes, history>>

\* flush comes to the next journal; the dirty mark is cleared before the write.
FlushNext(c, f, h) ==
  LET p == ctl[c].pages[h] IN
  /\ ctl[c].flush[f].on /\ ctl[c].flush[f].writing = Nothing
  /\ h \in ctl[c].flush[f].left /\ p.known
  /\ IF p.dirty
     THEN /\ ctl' = [ctl EXCEPT ![c].pages[h].dirty = FALSE,
                                ![c].flush[f].writing = h,
                                ![c].flush[f].left = @ \ {h}]
          /\ crossed' = IF \E g \in Flushers \ {f} : ctl[c].flush[g].writing = h
                        THEN crossed \union {<<c, h>>} ELSE crossed
          /\ writes' = writes \union {[by |-> c, from |-> f, hour |-> h, turns |-> p.turns]}
     ELSE /\ ctl' = [ctl EXCEPT ![c].flush[f].left = @ \ {h}]
          /\ UNCHANGED <<writes, crossed>>
  /\ UNCHANGED <<closed, store, outlived, unheard>>

\* Mutant: the dirty mark is cleared when the write is answered.
FlushWrittenClearing(w) ==
  /\ w \in writes
  /\ journal' = [journal EXCEPT ![w.by][w.hour] = w.turns]
  /\ writes' = writes \ {w}
  /\ ctl' = [ctl EXCEPT ![w.by].flush[w.from].writing = Nothing,
                        ![w.by].pages[w.hour].dirty = FALSE]
  /\ UNCHANGED <<closed, former, report, claim, history>>

\* The write is carried out and answered.
FlushWritten(w) ==
  /\ w \in writes
  /\ journal' = [journal EXCEPT ![w.by][w.hour] = w.turns]
  /\ writes' = writes \ {w}
  /\ ctl' = [ctl EXCEPT ![w.by].flush[w.from].writing = Nothing]
  /\ UNCHANGED <<closed, former, report, claim, history>>

\* The write fails, carried out or not: the journal is dirty again and the rest
\* of the flush, or of the tick, is given up.
FlushFails(w) ==
  /\ w \in writes
  /\ \/ journal' = [journal EXCEPT ![w.by][w.hour] = w.turns]
     \/ UNCHANGED journal
  /\ writes' = writes \ {w}
  /\ ctl' = [ctl EXCEPT ![w.by].pages[w.hour].dirty = TRUE,
                        ![w.by].flush[w.from] = NoFlush,
                        ![w.by].job = IF w.from = "tick" THEN NoJob ELSE @]
  /\ UNCHANGED <<closed, former, report, claim, history>>

\* Every journal was visited.
FlushEnds(c, f) ==
  LET fl == ctl[c].flush[f] IN
  /\ fl.on /\ fl.writing = Nothing
  /\ \A h \in fl.left : ~ctl[c].pages[h].known
  /\ ctl' = [ctl EXCEPT ![c].flush[f] = NoFlush,
                        ![c].job.at = IF f = "tick" THEN "choose" ELSE @]
  /\ UNCHANGED <<closed, store, writes, history>>

-----------------------------------------------------------------------------
(* The tick.                                                               *)

Flushing == [on |-> TRUE, left |-> Hours, writing |-> Nothing]

\* tick: one at a time; the journal of the current hour exists from then on.
Tick(c) ==
  LET current == {h \in Hours \ closed : \A g \in Hours \ closed : h <= g} IN
  /\ ~ctl[c].stopped /\ ctl[c].job.at = "idle"
  /\ ctl' = [ctl EXCEPT ![c].job = [NoJob EXCEPT !.at = "flush"],
                        ![c].flush["tick"] = Flushing,
                        ![c].pages = [h \in Hours |->
                           IF h \in current /\ ~@[h].known
                           THEN [known |-> TRUE, turns |-> {}, dirty |-> TRUE] ELSE @[h]]]
  /\ UNCHANGED <<closed, store, writes, history>>

\* The reports a tick goes through: the hours that are over, then the day.
Due(c) == LET left == closed \ ctl[c].job.done IN
          IF left # {} THEN {h \in left : \A g \in left : h <= g}
          ELSE IF closed = Hours THEN {Day} \ ctl[c].job.done ELSE {}

\* The job with its report finished, whatever became of it.
Passed(job) == [NoJob EXCEPT !.at = "choose", !.done = job.done \union {job.id}]

\* generate, up to its first read.
Choose(c) ==
  \E i \in Due(c) :
    /\ ctl[c].job.at = "choose" /\ ~ctl[c].stopped
    /\ ctl' = [ctl EXCEPT ![c].job =
                 IF i \in ctl[c].processed \union ctl[c].waits
                 THEN Passed([@ EXCEPT !.id = i])
                 ELSE [@ EXCEPT !.at = "look", !.id = i]]
    /\ UNCHANGED <<closed, store, writes, history>>

TickEnds(c) ==
  /\ ctl[c].job.at = "choose" /\ (Due(c) = {} \/ ctl[c].stopped)
  /\ ctl' = [ctl EXCEPT ![c].job = NoJob]
  /\ UNCHANGED <<closed, store, writes, history>>

\* The report that is stored: finished, given up, waiting for its retry, or due.
Look(c) ==
  LET i == ctl[c].job.id  r == report[i] IN
  /\ ctl[c].job.at = "look"
  /\ \/ /\ r.status = "ready" \/ r.attempts >= MaxAttempts
        /\ ctl' = [ctl EXCEPT ![c].processed = @ \union {i}, ![c].job = Passed(@)]
     \/ /\ r.status # "ready" /\ r.attempts < MaxAttempts /\ r.waits
        /\ ctl' = [ctl EXCEPT ![c].waits = @ \union {i}, ![c].job = Passed(@)]
     \/ /\ r.status # "ready" /\ r.attempts < MaxAttempts /\ ~r.waits
        /\ ctl' = [ctl EXCEPT ![c].job.at = "claim", ![c].job.attempt = r.attempts + 1]
  /\ UNCHANGED <<closed, store, writes, history>>

\* The claim that is stored: a live one is another controller's.
ReadClaim(c) ==
  LET i == ctl[c].job.id IN
  /\ ctl[c].job.at = "claim"
  /\ ctl' = [ctl EXCEPT
       ![c].waits = IF claim[i].live THEN @ \union {i} ELSE @,
       ![c].job = IF claim[i].live THEN Passed(@)
                  ELSE [@ EXCEPT !.at = "take", !.lock = claim[i].version]]
  /\ UNCHANGED <<closed, store, writes, history>>

\* Mutant: the claim is written whatever is stored.
TakeClaimBlindly(c) ==
  LET i == ctl[c].job.id IN
  /\ ctl[c].job.at = "take"
  /\ claim' = [claim EXCEPT ![i] = [version |-> @.version + 1, live |-> TRUE]]
  /\ ctl' = [ctl EXCEPT ![c].job.at = "read",
                        ![c].job.left = IF i = Day THEN Hours ELSE Controllers,
                        ![c].job.turns = IF i = Day THEN {} ELSE former[i]]
  /\ UNCHANGED <<closed, journal, former, report, writes, history>>

\* The claim is written if it is still the one that was read.
TakeClaim(c) ==
  LET i == ctl[c].job.id IN
  /\ ctl[c].job.at = "take"
  /\ IF ConditionalWrites /\ claim[i].version # ctl[c].job.lock
     THEN /\ ctl' = [ctl EXCEPT ![c].waits = @ \union {i}, ![c].job = Passed(@)]
          /\ UNCHANGED claim
     ELSE /\ claim' = [claim EXCEPT ![i] = [version |-> @.version + 1, live |-> TRUE]]
          /\ ctl' = [ctl EXCEPT ![c].job.at = "read",
                                ![c].job.left = IF i = Day THEN Hours ELSE Controllers,
                                ![c].job.turns = IF i = Day THEN {} ELSE former[i]]
  /\ UNCHANGED <<closed, journal, former, report, writes, history>>

\* hourlyInput: the journals of the hour, one after the other.
ReadJournal(c, d) ==
  LET i == ctl[c].job.id IN
  /\ ctl[c].job.at = "read" /\ i # Day /\ d \in ctl[c].job.left
  /\ ctl' = [ctl EXCEPT ![c].job.left = @ \ {d},
       ![c].job.turns = IF journal[d][i] = NoJournal THEN @ ELSE @ \union journal[d][i]]
  /\ UNCHANGED <<closed, store, writes, history>>

\* Mutant: an hour without a finished report is passed over.
ReadHourQuietly(c, h) ==
  /\ ctl[c].job.at = "read" /\ ctl[c].job.id = Day /\ h \in ctl[c].job.left
  /\ ctl' = [ctl EXCEPT ![c].job.left = @ \ {h},
       ![c].job.turns = IF report[h].status = "ready" THEN @ \union report[h].turns ELSE @]
  /\ UNCHANGED <<closed, store, writes, history>>

\* dailyInput: the reports of the hours; one that is not ready makes it partial.
ReadHour(c, h) ==
  /\ ctl[c].job.at = "read" /\ ctl[c].job.id = Day /\ h \in ctl[c].job.left
  /\ ctl' = [ctl EXCEPT ![c].job.left = @ \ {h},
       ![c].job.partial = @ \/ report[h].status # "ready" \/ report[h].partial,
       ![c].job.turns = IF report[h].status = "ready" THEN @ \union report[h].turns ELSE @]
  /\ UNCHANGED <<closed, store, writes, history>>

\* The model answers, or the request, or the input, fails.  stop aborts it.
Summarised(c) ==
  /\ ctl[c].job.at = "read" /\ ctl[c].job.left = {} /\ (ctl[c].stopped => ctl[c].job.turns = {})
  /\ ctl' = [ctl EXCEPT ![c].job.at = "write"]
  /\ UNCHANGED <<closed, store, writes, history>>

SummaryFails(c) ==
  /\ ctl[c].job.at = "read"
  /\ ctl' = [ctl EXCEPT ![c].job.at = "fail"]
  /\ UNCHANGED <<closed, store, writes, history>>

Ready(job) == [status |-> "ready", attempts |-> job.attempt, turns |-> job.turns,
               partial |-> job.partial, waits |-> FALSE]
Failed(job) == [NoReport EXCEPT !.status = "failed", !.attempts = job.attempt, !.waits = TRUE]

\* The finished report is stored: the hour needs its journal no longer.
WriteReady(c) ==
  LET job == ctl[c].job IN
  /\ job.at = "write"
  /\ report' = [report EXCEPT ![job.id] = Ready(job)]
  /\ ctl' = [ctl EXCEPT ![c].processed = @ \union {job.id}, ![c].job = Passed(@),
       ![c].pages = [h \in Hours |-> IF h = job.id THEN NoPages[h] ELSE @[h]]]
  /\ UNCHANGED <<closed, journal, former, claim, writes, history>>

\* The write throws, and the storage may have carried it out all the same.
WriteReadyFails(c) ==
  LET job == ctl[c].job IN
  /\ job.at = "write"
  /\ \/ /\ report' = [report EXCEPT ![job.id] = Ready(job)]
        /\ unheard' = unheard \union {job.id}
     \/ UNCHANGED <<report, unheard>>
  /\ ctl' = [ctl EXCEPT ![c].job.at = "fail"]
  /\ UNCHANGED <<closed, journal, former, claim, writes, outlived, crossed>>

\* The failure is stored, whatever is there by now.
WriteFailed(c) ==
  LET job == ctl[c].job IN
  /\ job.at = "fail"
  /\ report' = [report EXCEPT ![job.id] = Failed(job)]
  /\ ctl' = [ctl EXCEPT ![c].waits = @ \union {job.id}, ![c].job = Passed(@)]
  /\ UNCHANGED <<closed, journal, former, claim, writes, history>>

\* A read, the claim or the record of the failure throws: the tick is over.
TickFails(c) ==
  /\ ctl[c].job.at \in {"look", "claim", "take", "fail"}
  /\ ctl' = [ctl EXCEPT ![c].job = NoJob]
  /\ UNCHANGED <<closed, store, writes, history>>

-----------------------------------------------------------------------------
(* Time, the end of a process, and crashes.                                *)

\* Ten minutes: a long summary outlives its claim, and so does a controller that
\* looked at the report before the holder of the claim finished it.
ClaimExpires(i) ==
  /\ claim[i].live
  /\ claim' = [claim EXCEPT ![i].live = FALSE]
  /\ outlived' = IF \E c \in Controllers : ctl[c].job.id = i
                 THEN outlived \union {i} ELSE outlived
  /\ UNCHANGED <<closed, ctl, journal, former, report, writes, unheard, crossed>>

\* Fifteen minutes, on the clock of the process and in the report.
RetryDue(i) ==
  \/ /\ report[i].waits
     /\ report' = [report EXCEPT ![i].waits = FALSE]
     /\ UNCHANGED <<closed, ctl, journal, former, claim, writes, history>>
  \/ \E c \in Controllers :
       /\ i \in ctl[c].waits
       /\ ctl' = [ctl EXCEPT ![c].waits = @ \ {i}]
       /\ UNCHANGED <<closed, store, writes, history>>

\* stop: no more ticks and turns, the summary is aborted, the journals flushed,
\* whatever the tick is about.
Stop(c) ==
  /\ ~ctl[c].stopped
  /\ ctl' = [ctl EXCEPT ![c].stopped = TRUE,
                        ![c].flush["stop"] = Flushing]
  /\ UNCHANGED <<closed, store, writes, history>>

\* The process ends, or dies, and another one starts under a key of its own.
Restart(c) ==
  /\ former' = [h \in Hours |-> former[h] \union
                  (IF journal[c][h] = NoJournal THEN {} ELSE journal[c][h])]
  /\ journal' = [journal EXCEPT ![c] = [h \in Hours |-> NoJournal]]
  /\ writes' = {w \in writes : w.by # c}
  /\ ctl' = [ctl EXCEPT ![c] = Fresh]
  /\ crossed' = {x \in crossed : x[1] # c}
  /\ UNCHANGED <<closed, report, claim, outlived, unheard>>

Work(c) ==
  \/ \E t \in Turns : Record(c, t)
  \/ \E f \in Flushers : FlushEnds(c, f) \/ \E h \in Hours : FlushNext(c, f, h)
  \/ Tick(c) \/ Choose(c) \/ TickEnds(c) \/ Look(c) \/ ReadClaim(c) \/ TakeClaim(c)
  \/ \E d \in Controllers : ReadJournal(c, d)
  \/ \E h \in Hours : ReadHour(c, h)
  \/ Summarised(c) \/ WriteReady(c) \/ WriteFailed(c)
  \/ Stop(c)

Faults(c) == SummaryFails(c) \/ WriteReadyFails(c) \/ TickFails(c) \/ Restart(c)

Timers == HourCloses \/ \E i \in Ids : ClaimExpires(i) \/ RetryDue(i)

Next ==
  \/ \E c \in Controllers : Work(c) \/ Faults(c)
  \/ \E w \in writes : FlushWritten(w) \/ FlushFails(w)
  \/ Timers

Spec == Init /\ [][Next]_vars
-----------------------------------------------------------------------------
(* Properties.                                                             *)

TypeOK ==
  /\ closed \subseteq Hours
  /\ ctl \in [Controllers -> [stopped : BOOLEAN,
       pages : [Hours -> [known : BOOLEAN, turns : SUBSET Turns, dirty : BOOLEAN]],
       job : [at : {"idle", "flush", "choose", "look", "claim", "take", "read",
                    "write", "fail"},
              id : Ids \union {Nothing}, attempt : 0..MaxAttempts, lock : Nat,
              left : SUBSET (Hours \union Controllers), turns : SUBSET Turns,
              partial : BOOLEAN, done : SUBSET Ids],
       flush : [Flushers -> [on : BOOLEAN, left : SUBSET Hours,
                             writing : Hours \union {Nothing}]],
       processed : SUBSET Ids, waits : SUBSET Ids]]
  /\ journal \in [Controllers -> [Hours -> (SUBSET Turns) \union {NoJournal}]]
  /\ former \in [Hours -> SUBSET Turns]
  /\ writes \subseteq [by : Controllers, from : Flushers, hour : Hours, turns : SUBSET Turns]
  /\ report \in [Ids -> [status : {"none", "ready", "failed"}, attempts : 0..MaxAttempts,
                         turns : SUBSET Turns, partial : BOOLEAN, waits : BOOLEAN]]
  /\ claim \in [Ids -> [version : Nat, live : BOOLEAN]]
  /\ outlived \subseteq Ids /\ unheard \subseteq Ids
  /\ crossed \subseteq Controllers \X Hours

\* A journal that is not dirty, and of which no write is under way, is stored
\* turn for turn: the dirty mark is cleared before the write that reads the
\* journal, so that turns recorded during the write are written again.  The
\* exception: stop flushes without waiting for the flush of a tick, and of two
\* writes of one journal the older may be carried out last.
CleanJournalIsStored ==
  \A c \in Controllers, h \in Hours :
    LET p == ctl[c].pages[h] IN
    (p.known /\ ~p.dirty /\ (\A w \in writes : <<w.by, w.hour>> # <<c, h>>))
      => (journal[c][h] = p.turns \/ <<c, h>> \in crossed)

\* What a reader was shown stays: a report that is ready is never replaced, by a
\* failure in particular.  The exceptions: the failure is written without a
\* condition, so a controller whose claim ran out may write it over the report
\* of its successor; and a write that was carried out but whose answer was lost
\* is followed by the record of its failure.
ReadyReportStays ==
  [][\A i \in Ids : report[i].status = "ready" =>
       report'[i] = report[i] \/ i \in outlived \union unheard]_vars

\* A report of the day that does not call itself partial holds all that the
\* reports of its hours hold, the ones finished after it included.  (The hours
\* whose report may be replaced are left out.)
WholeDayHoldsItsHours ==
  (report[Day].status = "ready" /\ ~report[Day].partial) =>
    \A h \in Hours \ (outlived \union unheard) :
      report[h].status = "ready" /\ report[h].turns \subseteq report[Day].turns
=============================================================================
