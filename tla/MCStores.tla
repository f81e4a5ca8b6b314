------------------------------ MODULE MCStores ------------------------------
(* What is kept.  By the controller, for its users: the progress reports,   *)
(* the drafts, the pins and the notifications.  On a machine of the fleet:  *)
(* the installed connector, the logins of the clients and what has been     *)
(* read off the transcripts.  Most share nothing but a process or a disk,   *)
(* so a behaviour is one of the part it begins with, and the other parts    *)
(* stay as they are.  The drafts and the pins share the store of their      *)
(* bytes: what one of them does to an object is done to the other.          *)
(*                                                                          *)
(* The pins are those of PinStore, of which this module is an extension;    *)
(* the others are instances.                                                *)
(*                                                                          *)
(* Some are checked in several parts.  Drafts: clients that publish, one    *)
(* reader who follows and comments, and a client that publishes what one    *)
(* user pins and unpins.  Logins: connectors, and terminal clients.         *)
EXTENDS PinStore, Sequences, TLC

CONSTANTS
  Controllers, Hours, HourOf, Day, Turns, ConditionalWrites, NoJournal,
  Clients, Client, MaxVersions, MaxLoads,
  Agents, Topics, TopicOf, MaxScans, MaxTexts,
  Updaters, MaxPid,
  Keys, Connectors, Terminals, KeyOf, MaxLogins, MaxIds, MaxStarts,
  Sessions, NoSession, TurnIds, MaxRecords, MaxRestarts,
  MaxRead,      \* bound: versions published while one reads
  MaxFaults,  \* bound: failures of a behaviour
  MaxTicks,    \* bound: ticks of the reports
  MaxRequests, \* bound: requests for pins
  MaxUpdates   \* bound: updates of the connector, with one fault

VARIABLES
  part, faults, rounds,
  closed, ctl, journal, former, writes, report, claim, outlived, unheard, crossed,
  versions, file, receipt, request, remarks, view, loads, slipped, unpinned,
  agents, quiet, scans, states, queue, sent, reordered,
  manager, disk, conf, job, procs, lock, pids, upd, overlap, accident,
  logins, clients, server, people,
  transcript, decoder, caller, saved, told

MCHourOf == [t \in Turns |-> CHOOSE h \in Hours : \A g \in Hours : g <= h]
MCDomain == [u \in Users |-> Nothing]
MCTopicOf == [a \in Agents |-> CHOOSE t \in Topics : TRUE]
MCKeyOf == [a1 |-> "k1", a2 |-> "k1", a3 |-> "k2", t1 |-> "k1", t2 |-> "k2"]

Reports == INSTANCE ProgressReports
Drafting == INSTANCE Drafts WITH Pages <- Bodies, comments <- remarks
Notifier == INSTANCE RoundNotifier
Updates == INSTANCE ConnectorUpdate
Logins == INSTANCE DeviceLogin WITH
  Controllers <- Keys, files <- logins, world <- people
Events == INSTANCE TranscriptEvents WITH Turns <- TurnIds, journal <- transcript

ASSUME ReportsBounds == Reports!ReportsAssumption
ASSUME DraftsBounds == Drafting!DraftsAssumption
ASSUME PinsBounds == PinsAssumption
ASSUME NotifierBounds == Notifier!NotifierAssumption
ASSUME UpdateBounds == Updates!UpdateAssumption
ASSUME LoginBounds == Logins!DeviceLoginAssumption
ASSUME EventsBounds == Events!TranscriptEventsAssumption

reports == <<closed, ctl, journal, former, writes, report, claim, outlived, unheard, crossed>>
drafts == <<versions, blobs, file, receipt, request, remarks, view, loads, slipped, unpinned>>
pins == vars
notifier == <<agents, quiet, scans, states, queue, sent, reordered>>
updates == <<manager, disk, conf, job, procs, lock, pids, upd, overlap, accident>>
devices == <<logins, clients, server, people>>
decoding == <<transcript, decoder, caller, saved, told>>
records == <<reports, drafts, pins, notifier>>
installed == <<updates, devices, decoding>>
all == <<part, faults, rounds, records, installed>>

(* A part that a behaviour is not of begins in one way.                     *)
MCInit ==
  /\ part \in {"reports", "publishing", "reading", "sharing", "pins", "notifier",
              "updates", "connecting", "logging in", "events"}
  /\ faults = 0 /\ rounds = 0
  /\ Reports!Init /\ Drafting!Init /\ Init /\ Notifier!Init
  /\ Updates!Init /\ Logins!Init /\ Events!Init
  /\ part # "updates" => manager = "nobody" /\ conf = "repo"
  /\ part # "events" => transcript.agent = "pi"
  /\ part # "publishing" =>
       \A c \in Clients : part \notin {"reading", "sharing"} \/ c # Client =>
                          file[c] = CHOOSE p \in Bodies : TRUE

Rare == faults < MaxFaults /\ faults' = faults + 1 /\ UNCHANGED rounds
Round(most) == rounds < most /\ rounds' = rounds + 1 /\ UNCHANGED faults
Free == UNCHANGED <<faults, rounds>>

(* Work of a report that is neither a tick nor the end of the process.      *)
Stays(c) == ctl'[c].stopped = ctl[c].stopped
Begins(c) == ctl[c].job.at = "idle" /\ ctl'[c].job.at = "flush"

ReportSteps ==
  \/ Free /\ \/ \E c \in Controllers : Reports!Work(c) /\ Stays(c) /\ ~Begins(c)
             \/ \E w \in writes : Reports!FlushWritten(w)
             \/ Reports!HourCloses
  \/ Round(MaxTicks) /\ \E c \in Controllers : Reports!Tick(c)
  \/ Rare /\ \/ \E c \in Controllers : Reports!Faults(c) \/ Reports!Stop(c)
             \/ \E w \in writes : Reports!FlushFails(w)
             \/ \E i \in Reports!Ids : Reports!ClaimExpires(i) \/ Reports!RetryDue(i)

(* Nobody reads while clients publish, and one client publishes a little    *)
(* while somebody reads.                                                    *)
PublishSteps == Drafting!Steps /\ remarks' = remarks /\ view' = view /\ loads' = loads
ReadSteps ==
  /\ Drafting!Steps
  /\ Len(versions') <= MaxRead
  /\ \A c \in Clients \ {Client} : file'[c] = file[c] /\ request'[c] = request[c]

PinSteps ==
  \E j \in Jobs : \/ Round(MaxRequests) /\ Request(j)
                  \/ Free /\ Steps(j)
                  \/ Rare /\ faults = 0 /\ Faults(j)

(* One client publishes, and one request at a time pins or unpins.          *)
ShareSteps ==
  \/ Free /\ PublishSteps /\ [Beside]_pins
     /\ Len(versions') <= MaxRead
     /\ \A c \in Clients \ {Client} : file'[c] = file[c] /\ request'[c] = request[c]
  \/ PinSteps /\ [Drafting!Beside]_drafts
     /\ \A j \in Jobs : jobs'[j].at # "idle" =>
          /\ jobs'[j].op \in {"pin", "unpin"} /\ jobs'[j].share = Nothing
          /\ \A i \in Jobs \ {j} : jobs'[i].at = "idle"

UpdateSteps ==
  \/ Round(MaxUpdates) /\ \E u \in Updaters : Updates!Begin(u)
  \/ Free /\ (Updates!Lives \/ \E u \in Updaters : Updates!Steps(u))
  \/ Rare /\ faults = 0 /\ Updates!Faults

(* Each connector may log in, but only one does; the terminal clients need   *)
(* no identity.                                                             *)
ConnectSteps ==
  /\ Logins!Next /\ people'.logins <= 1
  /\ \A t \in Terminals : clients'[t] = clients[t]
LogInSteps == Logins!Next /\ \A c \in Connectors : clients'[c] = clients[c]

RecordSteps ==
  \/ part = "reports" /\ ReportSteps /\ UNCHANGED <<drafts, pins, notifier>>
  \/ part = "publishing" /\ PublishSteps /\ [Beside]_pins /\ Free /\ UNCHANGED <<reports, notifier>>
  \/ part = "reading" /\ ReadSteps /\ [Beside]_pins /\ Free /\ UNCHANGED <<reports, notifier>>
  \/ part = "sharing" /\ ShareSteps /\ UNCHANGED <<reports, notifier>>
  \/ part = "pins" /\ PinSteps /\ [Drafting!Beside]_drafts /\ UNCHANGED <<reports, notifier>>
  \/ part = "notifier" /\ Notifier!Next /\ Free /\ UNCHANGED <<reports, drafts, pins>>

InstallSteps ==
  \/ part = "updates" /\ UpdateSteps /\ UNCHANGED <<devices, decoding>>
  \/ part = "connecting" /\ ConnectSteps /\ Free /\ UNCHANGED <<updates, decoding>>
  \/ part = "logging in" /\ LogInSteps /\ Free /\ UNCHANGED <<updates, decoding>>
  \/ part = "events" /\ Events!Next /\ Free /\ UNCHANGED <<updates, devices>>

MCNext ==
  /\ UNCHANGED part
  /\ \/ RecordSteps /\ UNCHANGED installed
     \/ InstallSteps /\ UNCHANGED records

MCSpec == MCInit /\ [][MCNext]_all

(* Sound for invariants and for the action property: no name of a           *)
(* controller or a request is told from another.                            *)
MCSymmetry == Permutations(Controllers) \union Permutations(Jobs)

-----------------------------------------------------------------------------
(* Every part has the types its module declares.                            *)
TypesOK ==
  CASE part = "reports" -> Reports!TypeOK
    [] part \in {"publishing", "reading"} -> Drafting!TypeOK
    [] part = "sharing" -> TypeOK /\ Drafting!TypeOK
    [] part = "pins" -> TypeOK
    [] part = "notifier" -> Notifier!TypeOK
    [] part = "updates" -> Updates!TypeOK
    [] part \in {"connecting", "logging in"} -> Logins!TypeOK
    [] part = "events" -> Events!TypeOK

(* What the storage says of an hour and a day is what was said in them, and *)
(* a finished report stays.                                                 *)
ReportsAreKept ==
  /\ [](Reports!CleanJournalIsStored /\ Reports!WholeDayHoldsItsHours)
  /\ Reports!ReadyReportStays

(* Versions follow each other and are stored; a comment on selected text is *)
(* kept with the version it is on.                                          *)
DraftsAreSound ==
  part \in {"publishing", "reading", "sharing"} =>
    Drafting!PublishingIsSafe /\ Drafting!SelectionsMatchVersions

(* PinsAreSound is that of PinStore: what is pinned can be opened, by those *)
(* it is shared with.                                                       *)

(* An answer is announced once, in the end, and not at night.  The events   *)
(* of a transcript are told once: every turn that ended, and as completed   *)
(* none that went on.                                                       *)
NotificationsAreSound ==
  /\ part = "notifier" => /\ Notifier!EachAnswerOnce
                          /\ Notifier!WaitingIsScheduled
                          /\ Notifier!QuietAnswersStayQuiet
  /\ part = "events" => Events!EventsAreSound

(* An update leaves a connector that runs the new code, or a service that   *)
(* will start one; a login and an identity on file survive the starts,      *)
(* logins and refusals of the other clients.                                *)
InstallationIsSound ==
  /\ part = "updates" => Updates!UpdatesEndWell
  /\ part \in {"connecting", "logging in"} => Logins!LoginIsSound
=============================================================================
