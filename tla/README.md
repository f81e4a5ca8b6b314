# tmux-mobile in TLA+

This directory specifies the parts of tmux-mobile whose correctness depends on
the order of events: what the controller keeps (transcript archive, reports,
drafts, pins, notifications), how it talks to the machines (control channel,
replication, shared terminals, installation and login), how words reach a pane,
and what a person is shown. TLC checks every module on small instances; the
archive, the replicator, the connector lock, the control channel, the shared
terminal, and everything the controller keeps or installs also have
machine-checked proofs for all instances.

    tlc -workers 2 -config <Run>.cfg <MC module>.tla
    tlapm <module>Proofs.tla

`PROJECT.json` lists the components, the runs, a mutant of the code for every
property, the source lines each definition stands for, the hazards and the
theorems.

## The system

    browser, terminal clients --HTTPS--> controller --Socket.IO--> connector --> tmux / rmux
        |                                   |  ^                       |
        |                                   |  +---HTTPS upload--------+   (transcript chunks)
        |                                   v                          |
        |                  object store, tables, files                 |
        +---- WebSocket ---> terminal sharing service <---WebSocket ---+

The same `server.mjs` runs as the controller (`--controller`) or as a
connector (`--register`). A rollout replaces the controller while connectors
stay, so two controllers overlap for a while.

| Part | State | Operations | What makes it correct |
|---|---|---|---|
| Transcript archive, `lib/transcript-archive.mjs` | per epoch: manifest, range metadata, raw chunks in the store; per process: a promise chain per manifest, resumable duplicate walks | `commitChunk`, `readEpoch` | a chunk that was acknowledged can be read forever; commits of overlapping controllers never undo each other; answers are true |
| Object storage, `lib/artifact-storage.mjs` | objects with versions | get, put, put-if-version, write-once put, list | preconditions hold; an object is whole or absent |
| Replicator, `lib/transcript-replicator.mjs` | per session: epoch, cursor, line, chain hash, pending chunk, quarantine | one `syncSession`: load, stat, check boundary, read, save, upload, save | bytes are uploaded once, in order, identically on every retry; no bytes are skipped; one generation of a file per epoch |
| Publisher, `lib/transcript-publisher.mjs` | contexts of sessions, the state file, limits of a pass | observe, tick, request, discover, enable, stop | every session has its turn; one writer of the state file |
| Connector lock, `lib/connector-lock.mjs` | a lock directory with an owner record, a guard directory | acquire, reclaim, release | one holder; an abandoned lock is recovered |
| Hub, `lib/hub.mjs` | registry route -> connection, pending requests, request counter, inventories | connection, HELLO, INVENTORY, RES, disconnect, rpc, shutdown | one registered connection per route; every caller is answered, refused or timed out, and with its own answer |
| Connector, `lib/agent.mjs` | socket, publisher, operations under way, identity on file | connect, message, connect_error, disconnect, stop, login | registers again after every loss; stops when replaced; uploads only while it is registered |
| HTTP controller, `server.mjs` | device logins, inventories, dictations under way, caches | about 100 routes | input reaches the pane once and as asked; inventories say what was seen |
| Terminal sharing, `services/terminal-share`, `lib/terminal-share.mjs` | Durable Object record, host and viewers, control lease, alarms; the page of a viewer | connect, request, grant, release, stop, alarm, hibernate and wake | a revoked link stays revoked; at most one viewer types; deadlines fire |
| Progress reports, `lib/progress-reports.mjs` | journals per hour, claims, reports | record, flush, tick, generate, stop | a turn is not lost, a ready report is final |
| Notifier, `lib/agent-ntfy.mjs` | per agent states, per topic queues | observe, flush, settings | one notification per answer, none stranded, quiet hours |
| Drafts, `lib/drafts.mjs`, `lib/draft-store.mjs` | heads and immutable versions | publish, read, comment | versions are consecutive; a comment is on the version it was selected in |
| Pins and comments, `lib/pins.mjs`, `lib/comments.mjs` | index, contents, comments | pin, share, delete | what is pinned can be opened; what was revoked stays so |
| User lists, `lib/user-*.mjs`, `public/snippets.js` | record per user, copy in the browser, dirty mark | load, edit, save, migrate | the last edit is kept |
| Discovery, `lib/backend.mjs` | caches of transcripts and ranks | inventory, snapshot | an agent is shown its own conversation |
| Events, `lib/transcript-events.mjs` | a held end of a turn, ids of events told | push, settle, state kept by the caller | every turn that ended is told once, none that went on |
| Browser, `public/` | selection, refreshes, box, recorder, feed of cards | poll, select, send, dictate, read aloud | what is shown and where words go is what was selected |
| Terminal clients, `tools/` | selection, last view | read, select, send | words go to what is shown |
| Installation, `scripts/` | bundle, service, running connectors | download, switch, kill, check, recover | an update leaves a connector, or a service that starts one |

Where the difficulty is: a commit is three object writes without a
transaction, against stores whose answers get lost; controllers overlap; the
transcript file belongs to another program that rotates and rewrites it; a
crash may come between any two writes on either side; the lock is built from
system calls on paths that change under it; both ends of a connection learn at
different times that it is gone; the Durable Object sleeps between messages;
and a page, a dialog or a client suspends in dozens of awaits during which its
user selects something else. `PROJECT.json` ("hazards") lists each of these at
its line with the properties that cover it.

## Modules

| Module | Stands for | Checked by |
|---|---|---|
| `EpochLog` | what the archive promises to connectors: append-only epochs, truthful answers, no storage | `archive_remote` (refinement), `replicator` |
| `ChunkArchive` | the archive on a store, every storage call a step; implements `EpochLog` | `archive_remote`, `live`, proofs |
| `TranscriptReplicator` | the replicator and its state store, composed with `EpochLog` | `replicator`, `replicator_live`, proofs |
| `TranscriptPublisher` | whose turn it is to be replicated | `live` |
| `ConnectorLock` | the lock, every file system call a step | `lock`, `lock_vanished`, proofs |
| `HubAgent` | hub, connectors and the connections between them | `hub`, proofs |
| `TerminalShare` | the relay (a Durable Object), the host of a shared terminal, viewers and their sockets | `share`, `live`, proofs |
| `ShareViewer` | the page of a viewer | `views` |
| `ProgressReports` | journals, claims and reports of several controllers | `stores`, proofs |
| `Drafts` | publishing and reading a draft | `stores`, proofs |
| `PinStore` | pins, their contents and comments | `stores`, proofs |
| `RoundNotifier` | announcing the answers of agents | `stores`, proofs |
| `ConnectorUpdate` | both updaters of an installed connector, and its service | `stores`, proofs |
| `DeviceLogin` | identity and login of connectors and terminal clients | `stores`, proofs |
| `PaneInput` | messages, dictation and answers on their way into a pane | `words` |
| `Composer` | the composer of a pane, with its recorder | `words` |
| `Interact` | the dialog of a card, with its recorder, drafts and uploads | `words` |
| `TerminalApp`, `TerminalTui` | the two terminal clients | `words` |
| `TargetView` | selection and refresh of machine, window and pane | `views` |
| `CardFeed` | the cards of the command center and what the controller keeps of each machine | `views` |
| `UserLists` | snippets and stars | `views` |
| `RealtimeReader` | reading aloud | `views` |
| `ViewRouter` | the views of the application and their reads | `views` |
| `StartAgent` | the sheet that starts an agent | `views` |
| `AgentScan` | the inventory of agents, and whose transcript is whose | `views` |
| `TranscriptSnapshot` | the incremental reading of a transcript | `views` |
| `TranscriptEvents` | the events decoded from a transcript | `stores`, proofs |
| `MC...` | instances for TLC: values, bounds and symmetries | |
| `ChunkArchiveProofs`, `ChunkAnswersProofs` | theorems of the archive: what it keeps; what it answers, and what a local disk leaves of it | |
| `TranscriptReplicatorProofs`, `ConnectorLockProofs`, `HubAgentProofs`, `TerminalShareProofs` | theorems of these modules | |
| `InstallProofs`, `StoresProofs` | theorems of the parts of `MCStores`: logins, updates and events; pins, drafts, notifications and reports | |

`MCLive`, `MCStores`, `MCWords` and `MCViews` hold several parts: a behaviour is
one of the part it begins with (`part`), the others stay as they are, and each
property is a conjunction of what is asked of each part. The parts are those of
one question: what must happen in the end, what is kept, what words do, what is
seen. They share no state, with one exception: drafts and pins keep their bytes
in one store under the same keys (`contentKey` of the hash), so `Drafts` and
`PinStore` have the variable `blobs` in common. Each module allows for the other
in its next-state relation (`Beside`: a pin puts or removes an object, a draft
puts one), and in the part `sharing` of `MCStores` both of them take their steps.

`MCStores` extends `PinStore`, and `MCLive` extends `MCChunkArchive`, whose
properties they check under their own names; in `stores` drafts and logins are
two parts each, with other bounds. In the newer modules a comment `Mutant:` marks an operator that is a plausible
bug in the operator below it. `PROJECT.json` names one for every property; the
others stand beside the parts that the conjunctions of `MCStores`, `MCWords`
and `MCViews` are made of, and each of them breaks the conjunct of its own part.

### ChunkArchive

A request `req[r]` is one call of `commitChunk`; its `pc` is the storage call
it waits for, and its `view` the manifest it last read. `ReadManifest` is the
read together with the checks that follow it without an await (`Admit`,
`Exact`); `WalkRange` is one read of the duplicate check, `VerifyRaw` its end;
`StoreRaw`, `StoreRange`, `StoreManifest` are the three writes. `queue` is the
promise chain of `serializeManifestWrite`, and `Settle` passes the turn on.
Every storage call may fail before it took effect, or after; `late` holds
manifest writes that were given up and may still land. `Crash` empties the
memory of a controller. A store has conditional writes (S3, GCS) or not (a
local directory, one controller); without atomic puts a crash or error leaves
a part of an object (`torn`), and the write-once check takes it for the whole.
Epochs and bytes are names; a chunk is a half-open range with a body and the
body of its predecessor. Offsets count lines: chunks end at newlines, so byte
and line cursors move together.

`log`, `acked` and `reported` are histories. The refinement maps a request to
a call of `EpochLog` and the late writes to its `limbo`.

### TranscriptReplicator and TranscriptPublisher

The state store keeps `mem` and `disk`; `save` changes the first and then
tries the second. `pc` is the await at which `syncSession` stands. The file is
an inode, a generation and lines, and other actions append to it or replace it
(with the same inode or another) between any two steps. The archive is
`EpochLog`: it may commit an upload whose caller has gone (`GiveUp`: the 30 s
timeout, a lost answer), and it may be emptied (`ArchiveWiped`), which leads
to the recovery or the quarantine of the session.

The publisher takes one source after the other through a pass that ends when
its limits are used up; `order` is the order of its contexts, which the
inventory changes, and `age` the ticks since a source was last synced. `Room` is
how many inactive sources are taken before the first of them is due again.

### ConnectorLock

`pc[p]` is the next file system call of process p. A path is resolved when the
call runs. `Age` is the passing of the grace period. The constant
`PromptSteps` excludes that a live process is suspended that long within
making or removing a lock; the code has no defence against it and claims none.

### HubAgent

A connection is two ordered queues and a flag per end; Socket.IO is modelled
from how `hub.mjs` and `agent.mjs` use it: messages sent while disconnected go
out first on the next connection, inventories are volatile, a server-side
disconnect is told to the client and stops it, everything else makes it dial
again. `ws.disconnect(true)` runs the hub's disconnect handler before it
returns, so `Register` drops the older connection, rejects what waits on it
and registers the newer one in one step. The connect handler waits before it
greets (`hellos` counts the handlers under way), so a HELLO may go out on a
later connection, twice on one, or into the buffer. Operations (`ops`) outlive
the connection of their request. The archive capability is always offered.

### TerminalShare and ShareViewer

`rec` is the stored record of a share; a handler of the Durable Object is one
action, since its input gate lets no other event in between. Sockets are
`free`, `open`, or `shut` with their close event outstanding, for each end.
`Wake` is the return from hibernation: what was only in memory is gone, the
sockets that still are there are found again by their tags. Each deadline is
`off`, `armed` or past, and time may pass between two of its readings, so that
`alarm` is what the runtime was last told. The connector (`con`) attaches the
terminal while somebody watches, and types the keys it was sent if their
sender is, as far as it knows, in control. The page of a viewer numbers its
attempts to connect; each await compares its number with the current one.

### Reports, drafts, pins, notifications

In `ProgressReports` a controller has a page of turns per hour with a dirty
mark, `writes` are writes under way, and a job walks through claim,
summary, and report; the text of a report is the set of turns it holds. In
`Drafts` a client has a file and a receipt; the head moves under a condition,
requests and answers may be lost, and `unpinned` records the objects that a pin
took with it. In `PinStore` a job is a request of the
controller with each read and write of index and contents its own step. In
`RoundNotifier` an answer is a name; a topic has a queue, a timer and at most
one request.

### ConnectorUpdate and DeviceLogin

The updater, the service manager, the files on disk, the connectors that run
and their lock. A process shows whether it runs from the checkout or from a
bundle; the list an updater makes of what is to be stopped (`ListPids`) has what
its own pattern matches, or nothing when `ps` fails. An updater may die, or one step of it fail, anywhere
(`accident`). Logins and identities are entries of one file that each client
reads, changes and writes as a whole.

### PaneInput, Composer, Interact, TerminalApp, TerminalTui

Words are names; a box, a draft and a line of a pane hold sets of them. In
`PaneInput` the pane has a pager, a line and a question with a cursor; `flights`
says where each message is between transcription, paste and Enter, and another
person may touch the pane between any two steps. The other four are what a
person does in front of it: sends that overlap, recordings that are asked for,
stopped, transcribed and retried, windows and selections that change under them.
The box and the recorder of `Composer` belong to no window; `aim` records for
which one the user has submitted what was said.

### TargetView, CardFeed, UserLists, RealtimeReader, ViewRouter, StartAgent

A page is a record of what it shows and of its reads under way; a read carries
the target or the generation it was made for, and may come late, fail, be
cancelled, or be joined by a later caller. `CardFeed` includes the controller's
copy of each inventory (`conn`) and the grace of a machine that has left.
`UserLists` is instantiated with the guard of stars (`touched` is asked before
the first load is applied) and without it, as for snippets.

### AgentScan, TranscriptSnapshot and TranscriptEvents

`world` is the machine: the agents that run, what they have open and written,
and what the multiplexers show of them. A scan looks at these one after the
other while agents start, end and change their conversation. A transcript is a
sequence of bytes that belong to records; an agent appends to it, cuts it off
and writes it anew, or replaces it, between any two of the calls that open, stat
and read it. Bytes written anew differ from those that were there before: the
code compares contents, and cannot tell either if they are the same.

`TranscriptEvents` is the decoder as a function of its state and a record
(`Decode`), and around it what its caller may do: push the next record, push the
last one again, settle with evidence that was taken before later records came,
save the state with its position, and begin again with what was saved. A record
is its type, session and turn, and is named by its position.

## Runs

| Run | Instance | Shows |
|---|---|---|
| `archive_remote` | 2 controllers, conditional writes, 2 upload slots, 4 uploads out of 4 chunks (first, successor, same range with other bytes, overlapping), 2 failures, crashes or hang-ups | everything committed is readable at every moment, acknowledged chunks forever, no manifest goes backward, no report twice, no integrity error; the archive implements `EpochLog` |
| `replicator` | 2 inodes, 2 generations, 3 lines (one oversized), 2 upload slots, 2 faults | retries identical, one generation per epoch, nothing skipped, archive level with the state, no spurious conflict, state moves forward |
| `replicator_live` | 1 inode, chunks of one line, fair | every line is acknowledged or the session is quarantined |
| `lock` | 4 processes, each may crash at every call | a holder is on record; a process alone gets the lock unless a guard was abandoned |
| `lock_vanished` | 3 processes | violation: two holders |
| `hub` | 2 connectors of one route, 2 connections, 2 handlers, 2 requests, 1 fault, fair | exact registry, nobody waits on a dead connection, answers go to their request within one controller process, uploads only while greeted, no connector stops itself, the route is served |
| `share` | 2 host sockets, 2 viewers with 2 sockets, 1 message of backlog, 1 fault | what has ended stays ended; control is held by one viewer who is there, and only this one's keys are typed; every deadline has an alarm; the terminal is attached exactly while it is watched |
| `live` | a share with 1 viewer; a publisher of 3 sources with room for 2; an archive on a local disk with 4 uploads and 2 disturbances; each fair | a share whose connector stops is over in the end; every source is synced for which there is room; every upload settles; damage on disk is never read as content |
| `stores` | reports: 2 controllers, an hour and its day, 2 failures; drafts: 2 authors, or 1 reader, or 1 author beside 1 user who pins; pins: 2 requests at a time, 2 users; notifier: 1 agent, 2 scans; updates: 2 in a row, 1 fault; logins: 3 connectors, or 2 clients; events: 3 records of 2 sessions, 1 restart | reports are kept, no draft is overwritten unread, what is pinned opens and what is revoked stays so, an answer is announced once, every turn that ended is told once and none that went on, an update leaves a connector, logins and identities last |
| `words` | dialog: 2 agents, 2 recorders; composer: 2 windows, 2 recordings; client: 2 machines, 2 windows; list: 3 cards; pane: a typed and a dictated message, or a question with 2 options and its successor | words reach the pane they were meant for, once, and are not lost on the way, with the exceptions below |
| `views` | 2 machines and 2 windows; 3 edits and 2 requests of a list; 4 navigations; 2 reads aloud; 6 connections of a viewer; 2 directories read; a scan of 2 agents; a file of 4 bytes, cut off or replaced once | what is shown is what was selected, asked for or edited last; cards are not dropped for nothing; an agent has its own transcript |
| `lists_retried` | snippets, as in `views` | violation: a failed save that nothing retries |

Bounds. Two controllers, two uploads and two disturbances are what the
archive's hazards need: a reader with an old view, a writer that overtakes it,
a lost answer, and a retry of the chunk by the same connector; the chunks
offered include every way to collide with a committed one. One epoch is enough
there, since epochs share no object. Three lines with a chunk of two give a
chunk, a partial chunk and a boundary; two generations are the old and the new
file, and the second one ends in a line that is too long. Four processes at
the lock are a dead owner, two reclaimers and a newcomer. At the hub two
connections are the half-open one and its successor, or those of two
connectors; two handlers let one connection carry two HELLOs. `MaxAttempts` and
`MaxDuplicateReads` are 2 and 1 in place of 5 and 64, so that they run out. Two
sockets for the host and two for the viewers are an old connection and the one
that replaces it, and two viewers are one that controls and one that asks. In
the stores two requests at a time are the least that can overlap, and three
pins a file with two versions and another one with its contents. Three sources
are one more than the publisher has room for: two are taken in an interval of two
ticks, as 48 are in one minute of six passes with the defaults of the code. In `words` and
`views` two of each thing (machines, agents, windows, reads) are the one that
was meant and the one that could be mistaken for it; two overlapping requests
of a list and three edits let the older be served, or answered, last. Four
navigations are two to each of two views. One update runs at a time: two that
overlap may take back each other's work, nothing in the scripts prevents it,
and `SomethingServes` says so (`overlap`).

No run checks deadlock: in each of them uploads, processes, events or faults
are bounded, and a run that has used them up may rest.

Fairness. `live`: a storage call that a request waits for answers or throws,
hence weak fairness of each request's next step; a put that hangs forever is
in the note of a hazard. For the share, messages and close events arrive, the
alarm fires, time passes, and the connector goes on reading; for the publisher
its timer ticks and the replicator returns. `replicator_live`: the sync loop is
driven by a timer, the archive answers or the 30 s timeout ends the upload.
`hub`: Socket.IO dials again with backoff, both ends read what arrives, and
heartbeats make each end notice a dead connection; operations need not ever
answer. Failures, crashes, restarts, timeouts, hibernation and appends are
never fair.

### Where the code does less

Two violations are told with the quoted lines in "findings": a missing lock
directory counts as infinitely old, so that two processes can hold the lock;
and one dirty mark speaks for all saves of a list, so that a failed one may
never be retried.

Other cases in which the code loses what it means to keep are excepted by
name in the property they would break, so that nothing else can break it. The
exception is always a history variable or a state that records exactly that
case:

- archive on a local disk: an interrupted write of a write-once object is kept
  forever, and a later chunk is acknowledged on top of it (there
  `DamageIsNoticed` is checked, and `AckedStaysReadable` does not hold);
- replicator: a state that could not be saved is used as if it had been
  (`lost`); stat, check and read look at the path separately (`raced`); after
  a state was lost the archive may refuse the next chunk (`NoSpuriousConflict`);
- lock: an abandoned guard is never recovered;
- hub: request numbers start again with each controller while operations of
  the connector go on (`boot`); a HELLO that is read after its connector has
  hung up stops that connector's own newer connection (`overtaken`);
- share: a status that cannot be sent opens an ended share again (`revoked`);
  a connection that closes while the relay sleeps is not told apart (`missed`);
- reports: the failure of a controller whose claim ran out replaces the report
  of its successor (`outlived`), and a write whose answer was lost is followed
  by the record of its failure (`unheard`); two flushes of one journal may be
  carried out in the other order (`crossed`);
- publisher: a pass always begins at the front, and after an interval the first
  of the inactive sources are due again; with the defaults, those behind the
  48th are never reached (`Crowded`);
- pins: a content that is pinned and deleted at the same time (`raced`);
- updates: a bundle that fails its checks has already taken the place of the
  old one; a connector that runs from a bundle is not in the list of the updater
  of the checkout, and none is in the list of either when `ps` fails, so that it
  is not stopped, keeps the lock, and the new one exits (`missed`); logins: a
  file written from an old copy (`raced`);
- drafts: a page that is pinned as well goes with its pin, since deletePin looks
  for other pins only (`unpinned`); a selection taken while the frame still shows the old version
  (`slipped`); notifier: two observers whose scans return in the other order
  (`reordered`);
- words: a message that failed replaces what was written since (`written`); what
  was dictated with Enter goes, with the rest of the box, to the window shown
  when its transcription returns (`loose`);
  what is typed while a message is sent is deleted with its draft (`hasty`);
  two microphones asked for at once (`doubled`); a retry after the paste
  (`doubled` of `PaneInput`); keys of an answer that meet other input or a
  pager (`crossed`, `paged`);
- views: a refresh that returns to the target of the page's address
  (`strayed`); overlapping saves, torn files and edits during the first load
  of a list (`hurt`); a view whose first load failed; the start of an agent
  after its machine has left the list, in a sheet that still has the machine
  of another card, or beside one that was closed (`crossed`, `left`); a
  transcript that is cut off and written anew between the look at its edge and
  the read behind it, or between its stat and a rebuild that then finds less: the
  snapshot mixes or skips turns, and later reads append to it (`torn`).

Ten properties that a comment, a doc or a test states are in the modules without a run,
because the code does not have them and the exception above says where:
`PinStore!BytesBehindEveryPin`, `HubAgent!AnswersGoToTheirRequest`,
`PaneInput!AnswersLandOnTheProgram`, `TargetView!BannerIsRetried`,
`CardFeed!FeedIsPolled` (with its `Fairness`), `AgentScan!FailuresAreReported`,
`TranscriptPublisher!EveryClosedSessionIsBackfilled`,
`ConnectorUpdate!ReplacementWaitsForTheLock`, `Drafts!EveryVersionIsStored` and
`TranscriptSnapshot!TruncateRebuilds`. As properties of their runs TLC refutes each
of them.

## Proofs

`ChunkArchiveProofs` proves, for any epochs, chunks, controllers, upload slots
and limits:

- `ArchiveTypeCorrect`: the type invariant, for every kind of store;
- `ArchiveCommittedIsReadable`, `ArchiveAckedStaysReadable`,
  `ArchiveManifestNeverRollsBack`: under `ConditionalWrites`.

`CommittedIsReadable` is not inductive: a range that is rewritten, or a
manifest write under way, could break it. `ArchiveInv` adds, as named parts,
what each stage of a request has established (`CallsInv`), the same for writes
given up (`LateInv`), what a resumable walk has seen (`WalksInv`), that
acknowledged chunks are in the log (`AckedInv`), and that the store is the log
(`StoreInv`: ordered, the manifest is its last chunk, every chunk stored, the
ranges linked). The argument: every view of a request is a manifest of the
past, and manifest offsets strictly grow along the log; so a range that is
written again for a committed chunk is written with the same predecessor; and
a conditional write succeeds only if the view is the present manifest, hence
appends.

`ChunkAnswersProofs` proves, under `ConditionalWrites`, what callers are told:

- `ArchiveAnswersAreSound`: no commit finds the archive damaged, and no chunk is
  reported twice;
- `ArchiveImplementsEpochLog`: every behaviour of `ChunkArchive` is one of
  `EpochLog`, under the refinement mapping of the module.

`AnswersInv` adds to `ArchiveInv` that each chunk of the log names the hash of
the bytes before it (`LogChained`), how a commit stands to the manifest it read
(`StandsInv`, `LateChained`: a walk looks for a chunk below the offset, a write
follows the last chunk), that a resumed walk never skips the start of its chunk
(`WalksAligned`), and that only a committed chunk is reported, by the one commit
that made it so (`ReportInv`). The refinement goes step by step (`AbstractNext`):
the write of the manifest is `EpochLog`'s commit, settling is its answer, what a
crash or a caller that hangs up leaves under way is its limbo, and all other
storage calls are stutters; a conflict or an acknowledgement is true of the log
because a view of the past is a prefix of it (`Truths`, `PastIsBelow`).

It also proves `ArchiveDamageIsNoticed` for every kind of store: a read of an
epoch fails or returns the committed chunks; and, without conditional writes,
`DiskManifestNeverRollsBack`. On a local disk a range may be torn, and no
precondition protects a manifest. What does is the one controller and its queue:
`DiskInv` says that the manifest a running commit has read is the present one
until it ends (`ViewsInv`), that no write is late, and that a range which is
not torn names the chunk that ended where it starts (`RangesNoted`). A read walks
from the manifest back; that it can meet only the chunks of the log
(`OnlyTheLogIsRead`) is shown of the least position at which the two differ.

`ConnectorLockProofs` proves for any number of processes `LockTypeCorrect`,
and under `PromptSteps` `LockHolderIsOnRecord` and `LockExcludes`: as long as
no lock was moved away by a process that had found none, at most one process
holds it. The invariant says for every call what is still true of the path it
is about to touch. `LockExcludes` together with the run `lock_vanished` says
that the misjudged missing directory is the only way to two holders.
`LockIsRecovered` needs no promptness: a process that tries while no other runs
is refused only for a young lock or a failed write, if nobody died with the
guard. Its invariant follows the two attempts of a lone process: the first one
moves away what is there, so that in the second one there is nothing. It assumes
`MaxTries > 1`; the code has 3.

`TranscriptReplicatorProofs` proves for any lines, generations and inodes, any
number of uploads and any bounds, through crashes, failed saves, answers that
come late and an archive that is emptied:

- `ReplicaTypeCorrect`, `ReplicaUploadsAreSound`, `ReplicaSkipsNothing`;
- `ReplicaStateMovesForward`: no save takes the durable state back.

They follow from `ReplicaInv` (`ReplicaIsSound`). None of the three invariants is
inductive alone: that a retry is identical depends on what was read, saved and
sent before it. The invariant identifies a chunk by its epoch and start: what was
sent in the epoch of a state is behind the cursor of the state or is the chunk
pending there, for the state in memory and the one on disk (`SavesAreHeld`).
Whatever was sent is in the archive, or is what the archive accepts next
(`NothingCollides`), so late, repeated and abandoned uploads cannot disturb each
other. A chunk, and the one it follows, is of one generation of the file
(`GenerationsApart`), what was spooled is pending or acknowledged in memory and on
disk (`SpoolIsCovered`), and memory is never behind the disk (`Ahead`). The
exceptions `lost`, `raced` and `wiped` are in the invariant exactly as they are in
the properties.

`HubAgentProofs` proves for any connectors, routes, connections, requests and
bounds `HubTypeCorrect`, `HubRegistryIsExact`, `HubRequestsAreAnswered` and
`HubConnectionsAreSound`, from `HubInv` (`HubIsSound`). What is missing
in the properties is the messages: an answer goes to its request only if every
RES on its way, in a buffer, or still being worked on names the request that
waits under its id, or is of an earlier controller (`Messages`, with `Truthful`).
`Linked` and `Running` tie the two ends of a connection together, and
`Registered` adds to the registry that a connection is registered for its own
route.

`TerminalShareProofs` proves for any viewers, any finite set of their sockets and
any host sockets `ShareTypeCorrect`, `ShareEndsForGood`, `ShareControlIsSound`,
`ShareDeadlinesAreWatched` and `ShareAttachedWhileWatched`, from `ShareInv`
(`ShareIsSound`). A handler of the Durable Object is one action made of several
operators on the relay as a record, and so is its proof: each operator
(closing, advancing, granting, ending, sending to all) has a lemma that says
which parts of the invariant it keeps, and an action cites them. The parts:
sockets, record and views agree (`Sound`), alarms (`Watched`), an ended share has
no host (`Detached`), the connected hold control (`Held`), and what the
connector has been told or is about to read gives it the present controller and
whether anybody watches (`ControlIsKnown`, `WatchIsKnown`, by a predicate on the
last such message in its queue).

`InstallProofs` and `StoresProofs` prove every property of the run `stores`, each
part by an inductive invariant of its own, and `StoresTypeCorrect` the types of
all of them.

- Logins (`LoginsAreSound`), for any connectors, clients and logins: what a client
  has read or made up agrees with the file, or the file was written since, which
  the history records (`StagesFit`, `IdentityFits`).
- Updates (`UpdatesAreSound`), for any updaters at one time, revisions and either
  service manager: what each stage leaves of bundle, configuration, service and
  processes, of which it has listed or missed each one; the part that matters is what an updater still owes when it has
  stopped the connector. With the logins it gives `InstallationStaysSound`.
- Events (`EventsStaySound`), for any transcript and any restarts: the state of
  the decoder, and the one that was saved, against the events that were told
  (`DecoderFits`, `ToldFits`).
- Pins (`PinsStaySound`), for any users, files, contents and requests. A request
  reads, decides and writes at different moments, so what matters is what it still
  knows when it writes. `PinsInv` says that two changes under way on the same
  contents or the same file are on record as overlapping (`OverlapsAreKnown`), that
  a pin never changes its file or contents (`OneRecord`), and that what a change
  goes by still holds when it writes unless it overlapped another (`ChangesInv`):
  the number of a version is still free, the bytes are still there, no other pin
  names the bytes that are about to be removed, the pin is not revoked and its
  scope is the one its owner was last told.
- Drafts (`DraftsAreKept`, `DraftsStaySound`), for any clients, pages and versions,
  and whatever pins put into the store or remove from it: requests on their way and
  receipts against the list of versions, objects that are stored or went with a pin
  (`Held`), and the version a page holds, shows and takes a selection from.
- Notifications (`AnswersAreAnnouncedOnce`, `NotificationsStaySound`), for any
  topics and finitely many agents: whatever waits in a queue is news to its topic
  (`NewsIsNew`), and what waits is scheduled (`QueueFits`).
- Reports (`ReportsAreSound`, `ReportsStayKept`), for any controllers, hours and
  turns: a journal that is not dirty is on disk, or what is being written is it (`JournalFits`); who works on a report has its claim alone, and the
  report is not ready then (`ClaimFits`, `LockFits`); and a day holds what its
  hours hold (`DayFits`): for all reports whose claim did not run out under the
  work, and of which no answer was lost (`Mended`).

Each invariant was checked by TLC on an instance of the bounds of its run, or
next to them, before it was proved. The assumptions are those of the modules' ASSUMEs, which TLC evaluates
in every run: distinct null values, positive limits, a store without
preconditions has one controller, finitely many viewer sockets (they are
counted), a first generation and finitely many of them, and a null state that is
no state. Of the stores: agents to be announced are finitely many (they are
counted), the null of the reports is no report, and without conditional writes
one controller writes reports. `PinsAssumption` is stated as a hypothesis of the
theorems on pins; `MCStores` evaluates it, and the ASSUMEs of the other parts,
for its instance. `TranscriptReplicator` bounds epochs in the guards of the two steps
that begin one (`nextEpoch \in Epochs`), as it bounds everything that counts.

Only model-checked: liveness (`EveryCallSettles`, `FileIsReplicated`,
`RouteIsServed`, `StopRevokes`, `EverySourceIsSynced`), which the prover has no
rules for, and the properties of `views` and `words`, whose modules have no
proofs. Induction over data is out of the prover's reach except by a least
counterexample (`Least`, from the well-foundedness of `<` on the naturals), which
is why `OnlyTheLogIsRead` can be proved and what a general recursive definition
computes cannot.

## Plan

Done: all modules above; every invariant and action property of the runs
`archive_remote`, `replicator`, `lock`, `hub`, `share`, `stores`, and what `live`
says of damage, is proved. Next, in this order: `ViewRouter!RouterIsSound` and
`RealtimeReader!ReadIsSound`, which are short and can share a module of proofs.
Among the models: the aggregate feed of the notifier and the store of user lists
on a table.

## Not modelled

Formatting, parsing of external formats (transcripts, tmux, git, ps),
authentication decisions and tokens, OAuth in the browser, logging, compression
and hashing (two bodies have one hash if they are equal), byte budgets and
rates, `readEpoch` from a cursor, garbage in temporary files. Of the parts that
are modelled: transcript chunks on the control socket, which current connectors
do not send; sessions of Pi; the aggregate feed path and the attention sweep of
the notifier; the metadata caches of windows, which hold guesses that the next
read replaces; the anchoring of a comment in a text that has changed; the status
of a comment; voice settings; rendering, search, filters, files and settings of
the browser; the drawing of the terminal clients. Parts without a module, with
the reason, are in `PROJECT.json` ("components").
