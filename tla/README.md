# TLA+ models of hermes-webui

Hermes WebUI is a threaded Python server around a command-line agent. A browser
posts a message, a worker thread runs the agent and broadcasts its progress as
server-sent events, and the session is kept in a JSON record on disk. This
directory models the parts of it where threads meet: what the code guards with
locks, and what it does between them. All definitions are translated from
`src/`; `PROJECT.json` maps each one to its lines.

## Inventory of the system

| Component | State | Operations | What is hard | Module |
|---|---|---|---|---|
| Turn and stream lifecycle (`api/streaming.py`, `api/routes.py`, `api/config.py`) | session runtime fields, `STREAMS`, `PRE_ADMISSION_CLAIMS`, `CANCEL_FLAGS`, `ACTIVE_RUNS`, `SESSION_WRITEBACK_OWNERS` | chat/start, worker admission, writeback, Stop, repair, teardown | five writers of one record, workers that outlive their turn, launch windows, Stop at every point, crash | `StreamLifecycle` |
| Memory lifecycle (`api/session_lifecycle.py`) | generations, owner segments, in-flight marks, one condition variable, background commit threads | mark, register, commit, discard, shutdown drain | extraction runs unlocked; owner changes; waiters wake to a changed world; a drain with a budget beside a provider that may hang | `MemoryLedger`, `SessionLifecycle`, `MemoryDrain` and their proofs |
| Agent cache (`api/config.py`, `api/streaming.py`) | `SESSION_AGENT_CACHE` and its order | borrow, build, publish, evict | three locks taken one after another; closing what somebody holds | `MemoryBoundaries` |
| Session-list events and cache (`api/session_events.py`, `api/route_session_list_cache.py`) | a queue of one per tab, list cache, invalidation versions, rebuild claims | publish, clear, fetch, rebuild | coalescing without a lock, rebuild against clear, version reset | `Sidebar` |
| Run journal and replay (`api/run_journal.py`, `StreamChannel`, `_handle_sse_stream`) | per-run event log, channel buffer, subscriber queues, last ids, the page's cursor | append, broadcast, subscribe, replay, relay, reconnect | three producers, readers outside the journal lock, buffer overflow, cursor gaps, terminal claims | `StreamReplay` (and `StreamLifecycle`) |
| Session record and its backup (`api/models.py`, `api/session_ops.py`, `api/session_recovery.py`) | record, `.json.bak`, cached copy, tombstones, watermarks | save, truncate, undo, clear, compress, delete, startup recovery, live repair | a crash between two file operations; telling a deliberate shrink from a loss | `SessionBackup` |
| Turn journal (`api/turn_journal.py`) | submitted/started/completed/interrupted per turn | append, derive | none of its own: nothing is restored from it | not modelled |
| Process wakeups (`api/background_process.py`, with parts of `routes.py` and `streaming.py`) | completion queue, routing marks, deferred list, retry timer | deliver, defer, drain, launch, re-arm, re-defer, sweep | a completion racing a teardown, launches that are refused or abort, two consumers of one queue, reads that look like claims | `ProcessWakeups` |
| Restart drain and continuation (`api/run_drain.py`, `api/post_restart_continuation.py`) | marker file, continuation records | drain, restart, resume | exactly-once continuation | only the marker's effect on admission, in `StreamLifecycle` |
| Goals (`api/goals.py`) | continuation marker and prompt | continue, consume, restore | rollback of a rejected start | in the plan |
| Approvals, clarifications (`api/route_approvals.py`, `api/clarify.py`) | pending request per session | ask, answer, time out | answer racing timeout | in the plan |
| Gateway backend (`api/gateway_chat.py`) | a second worker on the same registries | as the local worker | remote run outlives the stream | later |
| Models, providers, profiles, auth, workspace, git, terminal, updates, extensions, kanban, shares, voice, front end | see `PROJECT.json` | | mostly I/O, parsing and rendering | not modelled |

How they interact: chat/start writes the record and the registries and starts a
worker; the worker borrows an agent from the cache, registers it with the memory
lifecycle, broadcasts events, writes the record back and marks the turn
completed; Stop detaches the stream and settles the record; readers of a session
repair it when its stream is gone; cache evictions and "new chat" commit memory;
every change of a session is published to the sidebars. A page that lost its
connection replays the run journal; a background process that ends starts a turn
of its own; a start of the server repairs records from their backups; its end
drains the memory still owed.

## Modules

* **`MemoryLedger`** is the promise of the memory lifecycle: per session a
  sequence of owed turns and a batch being extracted; a batch is a prefix, ends
  whole or not at all, and a turn that ran without an agent is adopted by the
  next one.
* **`SessionLifecycle`** is `api/session_lifecycle.py` at the granularity of
  `_lock`: `MarkTurnCompleted`, `RegisterAgent`, `BeginCommit`/`WaitForCommit`/
  `ResumeCommit`/`AbandonCommit` (the loop around the condition variable),
  `CommitSucceeded`/`CommitFailed` (the section after the provider returned),
  `DiscardSession`. `call[t]` is the stack frame of a commit. It refines the
  ledger: `Owed` reads the segments turn by turn, `Batch` the captured prefix.
* **`SessionLifecycleProofs`** holds its theorems, the refinement included.
* **`MemoryBoundaries`** extends it with the program around: one task per
  thread (a turn, an eviction, a "new chat"), the cache with its LRU order (`lru`,
  a strict order of the cached sessions), and
  the fate of each agent. `_close_evicted_agent_at_session_boundary` is four
  separate steps because each call takes the lifecycle lock anew. A turn admits
  no successor while it has its row in `ACTIVE_RUNS`, but a stopped worker that
  hangs for 180 s loses the row (`ReapRun`), and one past its save no longer
  counts, so a session may have two turns: `run` says what became of the older
  one's row and of its writeback ownership, and `Overrun` names the turns that go on so.
  **`MemoryBoundariesProofs`** holds its theorems.
* **`StreamLifecycle`** is one session and its turns. A turn stands for its
  stream id. `worker[t]` is the program counter of the launch, then of
  `_run_agent_streaming`, cut at the critical sections of the session lock and
  of `STREAMS_LOCK`; `stop[c]` that of `cancel_stream`; `suspect` the stale
  value `_clear_stale_stream_state` holds between its two halves. `age` is
  what the 60 s and 180 s limits can tell apart. `outcome[t]` is what the
  transcript says of a turn, `event[t]` what its client was told; `overran` keeps
  the turns whose overdue row an admission took away.
  **`StreamLifecycleProofs`** holds its theorems.
* **`Sidebar`** follows a change of a session list through
  `publish_session_list_changed` (snapshot, put, and, when the queue is full,
  get, merge, put as separate steps), the listener that clears the cache, and
  `GET /api/sessions` with its claim, stamp, build, checked store and its
  fallbacks. **`SidebarProofs`** holds its theorems.

* **`StreamReplay`** is one stream between its producers (worker, Steer, Stop)
  and the pages that watch it. `fly[p]` is where producer `p` is inside
  `append_and_publish_sse_event`: append, enter the channel, fill the queues,
  note the id, all under the lock of the journal, while the handler of a
  connection (`conn[c]`) reads without that lock: attach, subscribe with a
  snapshot, replay the journal up to a bound, drain the queue with a filter. A
  page keeps `cursor`, the last id it rendered, and comes back with it. `done`
  tells the page that the turn is over and closes nothing (`Settles`); the relay
  and the page close at the event after it, `stream_end`, or at `cancel` or an
  error (`Ends`). A page that comes after the stream is gone is sent the journal
  and the response ends (`AttachLate`, `EndReplay`).
  **`StreamReplayProofs`** holds its theorems.
* **`SessionBackup`** is one record. A row is a number, a save is the three file
  operations it performs (backup, replace, tail), and the process may die
  between any two. `live`, `bak` and `mem` are the file, its backup and the
  cached object; `Restores` is the verdict of startup recovery, one operator per
  reason to leave a file alone (`ClearSentinel`, `ClearSuperseded`,
  `CompressShrink` with `BackupPredates`, `ShrinkSuperseded`). `SaveShort` is the
  fault the backup exists for: a save with fewer rows than the file. `lost` holds
  the rows that such a save only dropped, under the stamp the file had: the
  stamp of a truncation whose save failed stays in memory, a later lossy save
  carries it to the file, and recovery then takes the loss for the truncation.
  `running` says that a worker holds the cached object, `stray` is that object
  once the cache let go of it: neither a delete nor a reload of a longer file stops
  the worker, whose checks read its own object only, so its checkpoint
  (`CheckpointStray`) and its writeback (`CommitStray`) write the file again and
  lift the tombstone.
  **`SessionBackupProofs`** holds its theorems.
* **`ProcessWakeups`** is one session and its background processes: the drain
  thread (`loop`), the hooks of ended turns and the retry timer (`drainer`), the
  wakeup threads (`runner`), and the two consumers of the completion queue. An
  entry of `deferred` has the id it is filed under, the results its prompt tells
  of, the tag "claimed by our own dispatch", and its place: the list is the set
  of its entries. **`ProcessWakeupsProofs`** holds its theorems.
* **`MemoryDrain`** extends `SessionLifecycle` with the registry of "new chat"
  commit threads and `drain_all_on_shutdown`. Its worker calls the operations of
  the lifecycle; `expired` is the budget. **`MemoryDrainProofs`** holds its
  theorems.

`MC*` modules only add symmetry sets and, for two of them, a state constraint
that bounds the exploration (`FewTurns`, `FewWithStray`).

## Runs

| Run | Instance | Checks |
|---|---|---|
| `session_lifecycle` | 1 session, 2 agents, 3 threads, 4 turns | `SegmentsTile`, `SingleFlight`, `OnlyTheOwnerExtracts`, refinement of `MemoryLedger` |
| `boundaries` | 2 sessions, 2 agents, 3 threads, cache of 1, 3 completed turns, 1 turn without its row at a time | `EvictionSparesRuns`, `OwedToOpenAgents`, `ExtractsOnOpenAgents` |
| `streams` | 2 turns, 2 Stops, 1 crash | `NoLiveOrphan`, `PromptKept`, `RegistriesReleased`, `DoneMeansSaved`, `SuccessorWaits`, `NoWriteOverSuccessor` |
| `stream_freed` | 2 turns, 1 Stop, 1 crash, fairness | `SessionIsFreed` |
| `stream_repair` | 2 turns, 1 Stop, no crash | finding: `NeverClearsALiveStream` is violated |
| `sidebar` | 1 publisher, 2 tabs, 2 profiles, 1 change each, cache of 2, 2 rebuild attempts | `ClearsAreFinal`, `AnswersAreCurrent` |
| `replay` | 1 page, 3 connections, 1 token, the rows that end a turn, a buffer of 1 | `NoHole`, `EndSurvives`, `RenderedOnce` |
| `backup` | 5 rows (3 at first, one of them a repeated partial), 2 stamps, 1 fault, 2 crashes, 1 live repair | `ShrinkStands`, `DeleteStands`, `LossRecovered`, `CleanBootIsNoOp` |
| `backup_compressed` | 6 rows, 1 stamp, 1 fault, 1 crash | finding: `PostCompressLossRecovered` is violated |
| `wakeups` | 2 processes, 2 wakeup threads, 2 hooks or timers, 1 turn of a person, a completion queued up to twice, 1 aborted and 1 failed launch | `LostOnlyIfMisfiled`, `WokenOnce`, `ReadStaysQuiet` |
| `wakeup_stranded` | 1 process, no failures | finding: `NoneStranded` is violated |
| `memory_drain` | 2 sessions, 1 agent, 1 background thread, 2 turns, fairness | `DrainSettles`, `NothingAbandoned`, `DrainEnds` |

**Why the bounds are enough.** Sessions share no lifecycle state, so one is the
general case there; a capture, a waiter and a third caller need three threads,
and four turns let a batch of two complete while two more arrive. The boundary
instance needs two sessions only because they compete for the cache; a turn that
lost its row, its successor and an eviction are three threads, and a second turn
without a row would need a fourth. Every
rule of the stream lifecycle relates a turn to its successor, so two turns are
the least that shows it, and two Stops let both aim at one turn or at each;
a crash resets all memory, so one shows the difference. For the sidebar two
profiles make scopes differ, and the cache of two entries for three keys makes
the trim happen; a change of each profile is published by one thread, and the
theorems below hold for any number of publishers. `MaxTurns`, `MaxCrashes`, `MaxGeneration` and `MaxChanges` are
bounds of the exploration; `CacheMax` and `MaxAttempts` are parameters of the
code (25, or 64, and 3) made small so that their limits are reached.

Three connections let a page break off twice, so a cursor taken from a replayed
stream is used again; a buffer of one overflows with the second frame nobody
watches. A record needs three rows to be cut in the middle and grow again, two
stamps to be cut twice with different generations, and two crashes so that the
second start sees what the first one did. `FewWithStray` lets the clears,
truncations, faults, crashes and repairs of a run in which the cache let go of a
running turn be two altogether (`MaxStray`): enough for a delete or reload, another
writer and a start around the two saves of such a turn; runs without one have the
full bounds. Two processes make a batch; a second
copy of a completion reaches the other consumer. Two sessions let a drain pass
make progress on one while the other is in flight elsewhere; the worker of a
session whose turns have several owners needs two passes with one agent and
`NoAgent` as owners. `MaxStray`, `MaxRows`, `MaxRow`, `MaxMark`, `MaxFault`, `MaxCrash`,
`MaxRepair`, `MaxHuman`, `MaxCopies`, `MaxAbort` and `MaxFail` are bounds of the
exploration, and so is the number of connections, wakeup threads and hooks alive at a time; `OfflineMax` is the
code's buffer limit made small.

**Deadlock** checking is off in every run: each of them ends in states where the
bounded supply of turns, agents or changes is used up and all threads are done.
That nobody waits for ever inside is stated by properties instead: `SingleFlight`
says that a session is marked in flight exactly while a thread extracts it,
`SidebarTypeOK` that a list is claimed exactly while a builder owns it,
`NoneStranded` looks for a wakeup left behind, and `SessionIsFreed` and
`DrainEnds` are liveness properties.

**Fairness**. `FairSpec` of `StreamLifecycle`: Threads outside the agent keep running: the launch,
the rest of the critical section after a save, and the steps of Stop. The
settling of Stop and the repair of a stale pending turn wait for the session
lock, which others take again and again, so they are strongly fair. The page
polls its session, hence the repair, and the clock ticks. The agent is not
fair: it may hang for ever, and `SessionIsFreed` holds all the same.
`FairDrainSpec`: the thread of the drain goes on and the clock reaches the
deadline. No provider, background thread or turn is fair, and the drain may
never begin: `DrainEnds` says what happens once it has.

## Findings

Each is a run that violates one property quoted from the code.

1. `NeverClearsALiveStream` (`stream_repair`): `_clear_stale_stream_state`
   re-checks the stream id but not the stream, so a look during the launch clears
   a live turn.
2. `PostCompressLossRecovered` (`backup_compressed`): the mode of a manual
   compression stays in the record for good. Once a truncation or a clear has cut
   the compaction marker, a later accidental loss looks like the compression
   and its backup is not restored.
3. `NoneStranded` (`wakeup_stranded`): the drain thread decides to defer before it
   records; the turn it saw can end in between, and its hook finds nothing. The
   same window lies between a refused wakeup turn and its re-deferral.

## Known disagreements beyond the runs

The following properties are false of the code too; all but the two that are
given as a property without its exemption are defined in the modules. No run is
spent on them; a configuration with the bounds given, checking
that property alone, shows a trace within half a minute.

| Property | Code | Bounds | What happens |
|---|---|---|---|
| `ClaimsLaunch` (`StreamLifecycle`) | `streaming.py:14563` against `config.py:13764` "so the claim can never outlive its stream" | `Streams.cfg`, 1 Stop, no crash | a worker refused by the restart drain keeps its stream and launch claim; harmless as long as the restart follows |
| `CancelMeansCancelled` (`StreamLifecycle`) | `streaming.py:18346` against `streaming.py:20405` | as above | a Stop after the save, past the 180 s limit, shows "cancel" for a saved answer |
| `LRUSparesRuns` (`MemoryBoundaries`) | `streaming.py:16707` against `streaming.py:16695` "so LRU eviction never closes an agent mid-run" | `Boundaries.cfg`, 2 threads | the runs are noted before the cache lock is taken; a turn admitted in between loses its agent |
| `EvictionSparesRuns` without the exemption of `Overrun` (`MemoryBoundaries`) | `config.py:14375` by way of `routes.py:29434`, against `config.py:14366` "Never close it out from under an in-flight turn" | `Boundaries.cfg` | a stopped worker hangs for 180 s, its row is reaped and a successor admitted; once that has ended an eviction finds no row and closes the agent the old worker still holds. The successor's failed refresh closes it too, and the old worker's own late refresh closes the agent of its successor |
| `DeleteStands` without `revived` (`SessionBackup`) | `streaming.py:17139` with `models.py:2424`, where `routes.py:20774` keeps only the empty shell of a waiting writer from being saved | `Backup.cfg` | a delete neither stops the turn that runs nor clears its stream id; the worker's check reads its own object and passes, its save writes the record again and lifts the tombstone, and may overwrite what somebody saved in between |
| `TabsAreTold` (`Sidebar`) | `session_events.py:123` against `session_events.py:65` | `Sidebar.cfg`, 2 publishers, 1 tab, `MaxChanges = 2` | any request thread publishes; when the coalescing of two of them overlaps, the second put finds the queue full again and drops an event of a third change that waited there |
| `TerminalSurvives` (`StreamReplay`) | `routes.py:24400` against `routes.py:24141` "the terminal frame must always survive" | `Replay.cfg` | a Stop's "cancel" has no id of its own, is given the stream's last id and falls under the filter: the frame is skipped and the connection goes on waiting |
| `NothingLost` (`ProcessWakeups`) | `background_process.py:2574` with `background_process.py:2174` against `background_process.py:2165` "never represent two DIFFERENT wakeups: collapsing on the id is exact" | `Wakeups.cfg`, 1 drainer, `MaxHuman = 2`, `MaxFail = 0` | a batch keeps the id of its first entry when that entry is filtered out of it; if the launch aborts, the prompt of the others is filed under that id, and when the dispatch of the id itself is rejected its entry collapses into the foreign one: its result is gone |
| `ToldOncePerTurn` (`ProcessWakeups`) | `routes.py:28639` against `routes.py:28627` "dedup collapses them into one entry" | `Wakeups.cfg` | an aborted batch is re-armed under its first id with the joined prompt, its other results are re-deferred one by one: the retry tells them twice |

Six properties carry an exemption for such a case. `EvictionSparesRuns` and
`DeleteStands` do for the rows above: the first exempts closes by or under a turn
of `Overrun` (the exemption extends to `OwedToOpenAgents` and
`ExtractsOnOpenAgents`, since what such a turn completes is owed to a closed
agent), the second a file that a turn wrote which ran through the delete. `LostOnlyIfMisfiled` is
`NothingLost` but for the ids under which a foreign prompt was filed. `WokenOnce` exempts results
whose launch was aborted (the row above, and a timer that fires before the
exception is handled) and those whose routing mark the reaper swept between the
admission of their turn and the moment they are marked consumed.
`ShrinkStands` exempts an operation that overlaps a live repair, which takes no
session lock (`session_recovery.py:502`: the repair can undo a shrink that falls
between its look and its replace), and the saves of such a turn over another
writer's (`raced`). `RenderedOnce` exempts a page whose first subscription found a
channel without an id and a stream that was stopped: `note_last_event_id` of a
Stop may move the last id back (`config.py:13566`).

## Proofs

Every component has a module of theorems. They hold for any sets
of threads, sessions, agents, tabs, connections or processes and for every value
of the bounds; the only assumptions are the `ASSUME`s of the modules, which say that
reserved values are not members of the sets they are reserved against, that
bounds are numbers, that a cache holds at least one entry, and that the
processes of a session are finitely many. Each inductive invariant was first
checked by TLC as an invariant of the component's run.

| Module | Theorems about | Invariant |
|---|---|---|
| `SessionLifecycleProofs` | `TypeOK`, `SegmentsTile`, `SingleFlight`, `OnlyTheOwnerExtracts`, `ImplementsLedger` | `IInv`, `LInv` |
| `MemoryBoundariesProofs` | `BoundaryTypeOK`, `EvictionSparesRuns`, `OwedToOpenAgents`, `ExtractsOnOpenAgents` | `BInv` |
| `MemoryDrainProofs` | `DrainTypeOK`, `DrainSettles`, `NothingAbandoned` | `Settling` and others |
| `StreamLifecycleProofs` | `TypeOK`, `NoLiveOrphan`, `PromptKept`, `RegistriesReleased`, `DoneMeansSaved`, `SuccessorWaits`, `NoWriteOverSuccessor` | `IInv` |
| `SidebarProofs` | `SidebarTypeOK`, `ClearsAreFinal`, `AnswersAreCurrent` | `SInv`, `CInv` |
| `StreamReplayProofs` | `TypeOK`, `EndSurvives`, `RenderedOnce`, `NoHole` | `Inv` |
| `SessionBackupProofs` | `BackupTypeOK`, `ShrinkStands`, `DeleteStands`, `LossRecovered`, `CleanBootIsNoOp` | `IInv` |
| `ProcessWakeupsProofs` | `WakeupTypeOK`, `LostOnlyIfMisfiled`, `WokenOnce`, `ReadStaysQuiet` | `IInv` |

**Memory lifecycle.** No property is inductive alone: a commit
that succeeds removes a prefix of the segments, which needs the tiling; that the
rest tiles again needs the captured generation to be the end of the first
segment still, which needs that nobody else committed meanwhile, which
is single flight. `IInv` is therefore the conjunction of the three.
Two lemmas about sequences (what remains after a committed prefix tiles the
rest; appending or extending the last segment tiles one turn more) carry the
data part, and there is one lemma per action. `LedgerImplemented` maps each
action to one of the ledger: the tiling makes `Owed` a set of pairs whose turns
are all older than the next one, and the captured prefix of the segments is
what `Batch` reads, so a capture is a `Start`, its success a `Succeed`; all other
steps leave both alone.

**Agent cache.** Each step of a caller is a step of `SessionLifecycle` or leaves
its variables alone (`CallersFollowLifecycle`), so the theorems of the lifecycle
carry over (`LedgerKeptByCallers`). `BInv` adds who may hold an agent. An agent
has one home, the session it is cached, lent, owed or being closed for, and of two
turns of a session one is past its save or has lost its row (`OneTurn`): so a
popped agent can only be borrowed by the turn its eviction saw, or by one that
is overrun (`Spares`). A popped agent is out of the cache, open, and in the hands of one
thread; and from the check that nothing is owed to the close nothing becomes
owed to it (`Cleared`), because only a turn that holds it could do that, unless
it was noted as lent or an overrun worker closes it.

**Drain.** The server with its drain implements
`SessionLifecycle` (`DrainImplementsLifecycle`), given that whoever is about to
commit has a session (`Addressed`). `SingleFlight` and the tiling give
`NothingIsAbandoned`: a session in its provider still owes its first segment, so
a drain that finds nothing owed leaves nobody there. `DrainSettlesWhatWasOwed`
rests on `Settling`: as long as a pass made no progress and has budget left,
every session that still owes what was due is refused already or has still to
be tried; without the pending part the claim would not survive the first step of
a pass. Progress leads to another look, which starts anew from the generations.
Counters only grow except when a session is discarded, which forgets what was due
(`StepsGrow`). `DrainTypeCorrect` adds that only the drain moves the worker it
waits for (`Waited`) and that nobody registers once it has begun (`Registered`).

**Turns.** `IInv` says of every turn what the record and each registry row stand
for: a launch holds the lock and the record, a launched worker its claim, an
admitted one its row (`LaunchOK`, `RowsOK`); the record and the ownership of the
writeback belong to the latest turn (`LatestOK`), turns being admitted in order
(`InOrder`); and whoever closes a turn finds it active and without an outcome
(`OutcomeOK`), so that "done" excludes every marker others could have written.
`PromptKept` is part of it, since a launch that fails may take back only what it
still holds; `NoWriteOverSuccessor` is `LatestOK` read at each writer. A Stop is followed from the moment it detached
the stream (`StopOK`).

**Sidebar.** `ClearsAreFinal` is not inductive: a rebuild that is about to store
must hold a current list. `SInv` therefore says of every rebuild
that its stamp is not ahead of the present one (`NotAhead`, in the lexicographic
order of the global and the local version: a global clear resets the profile
versions, so those alone may fall) and that, if the stamp still fits, its
list is at least what is settled (`Built`); and of every request that what it
holds is not older than what was settled when it began (`Asked`). The clear is
the step where this is decided: it raises exactly the stamps of the keys it
clears. `ClaimsHaveOwners` adds `CInv`: a key is claimed exactly while one
builder is between its claim and its release, and the cache is within its
limit after every store. The queues of the tabs are needed for none of them.

**Replay.** A connection is fed from three places: the journal, read without
its lock, the buffer it takes over when it subscribes, and the queue that is
filled from then on. `Inv` describes each of them by the journal alone. The rows
in buffer and queue are consecutive and end with the last one pushed (`RunOf`);
what is left of a replay are consecutive rows after the page's cursor
(`TodoOK`); and the replay reaches to where the queue begins, and its bound to
where the filter stops (`QueueOK`). So the row a page renders next is the one after its last
(`RowsInOrder`) and new to it (`NoRowTwice`), and a frame that the filter skips was
delivered by the replay. So every page that waits has all rows up to the
filter behind it and the others in its queue. One that waits on an empty queue
has therefore rendered the whole journal (`WaitingHasAll`): it was told if "done" is
out, and "end", which would have closed its connection, is not
(`EndReachesEveryWaitingTab`). A page that
comes after the stream is gone reads the whole journal and nothing else.
Two cases break that order and had to be carried along. A Stop notes the last
id it read earlier, and may move the channel back by one row. It does so only
after it raised the cancel flag and before anything was saved: once the token the
worker was about to append is out, no row follows (`Frozen`). A page that
subscribes to a channel without an id gets its queue unfiltered (`blind`).
Either may show a row again, neither can leave one out, which is why
`RenderedOnce` exempts both (`Exempt`) and `NoHole` does not. TLC checked `Inv`
exhaustively for one page with the bounds of the run, and on random walks of two
pages with five connections, before it was proved. The proof uses that a cursor
is never the reserved value `None`, hence `None \notin Nat`.

**Backup.** The stamps grow from the backup to the file to the object in memory
(`InOrder`), so a backup that still holds removed rows is older than the file, and
recovery leaves it alone (`RemovedOK`); where every shrink was stamped, so
is any backup with more rows than the file (`NothingToRestore`). A live repair that
looked keeps what it saw comparable with what it will replace (`RepairOK`). The object of a turn the cache
let go of carries a stamp as new as the files, and holds no removed row, until
another save overtakes it, which is where `raced` begins (`StrayOK`). Where
the last save only dropped rows, file and backup carry the same stamps, and the
backup wins (`LostOK`). Overlap with a live repair, or of such a turn with another writer, breaks the order, hence
the guards `raced` and `unstamped`, which are those of the properties.

**Wakeups.** `Kept`: every ended process is in the queue or *homed*, that is,
somebody answers for its id: the drain thread, an entry under that id, or a
thread that carries one. The two reasons to drop it from the queue both mean
that it is homed already: a routing mark, and a consumed mark, which is the
agent's read or has a tagged entry of the dispatch that set it (`Sure`). An
entry tells of its own id unless it was misfiled, which is why the
exemption appears. `Once`: a result that was neither re-armed nor swept is in one
place, and is marked or consumed from when it is taken. `Hush`: all that
is left of a result read while it waited is an untagged entry, which a drain drops.

What the proofs corrected. Three properties held on the small instances and were
false beyond them. `SuccessorWaits` did not say what happens
to the third turn, whose admission may find that the overdue row of the first is
gone already, reaped by the second: it now says so, with `overran`. `LossRecovered`
claimed the rows of every lossy save: with three faults, a lossy save carries
the stamp of a truncation that failed before it, and is taken for it; it now speaks of
saves that only drop rows. `NothingLost` moved to the known
disagreements, and `LostOnlyIfMisfiled` is what remains of it.

Only model-checked: liveness under fairness
(`SessionIsFreed`, `DrainEnds`), which is out of the prover's reach; and
the three findings, which are counterexamples.

## Not modelled, and why

The Gateway backend, ephemeral turns, Steer, server settle, context
compression and regeneration are further branches of the worker and of
chat/start; they are left out of `StreamLifecycle` until its core is proved
about. The failure of a save that has a fallback, and of a write to disk in
general, is left out: a save is atomic, and a crash keeps it or not. The source
stamp of the list cache is left out because it is constant exactly while a turn
streams, when structural changes rely on publishing alone.

Of `StreamReplay`: appends that fail, queues of a slow page that overflow
(`config.py:13601`), compaction and archiving of journals, the title thread's
late id after teardown. A page that connects for the first time asks for no
replay and may miss earlier rows; the session record shows them.
Of `SessionBackup`: the merge with state.db, corrupt records, exact-replay
deduplication, the index, failing unlinks, messaging sessions, the provenance
restore of a refused chat/start. A loss can be recovered only until the next
shrinking save replaces the backup, or the record grows past it. A load heals
adjacent repeated partials and writes a backup without a stamp; the model
includes it. Of `ProcessWakeups`: asynchronous delegations, which are claimed from a
durable store; processes without an id, of another session, or restored from a
checkpoint; completions too old to deliver; deleted sessions and other
terminal refusals; a person's turn whose launch fails. A 5xx that re-defers
schedules no timer: the result waits for the next turn. Event payloads,
rendering, catalogs, authentication and file-system wrappers have no shared
protocol state that these techniques would reach.

## Plan

What comes next, in order of weight:

1. Goal continuation markers (`goals.py`, the receipt of a rejected start).
2. Server settle and Steer in `StreamLifecycle` (`streaming.py:14919`).
3. Approvals and clarifications: a queue per session, answers against timeouts.
4. The Gateway worker as a variant of `StreamLifecycle`.
