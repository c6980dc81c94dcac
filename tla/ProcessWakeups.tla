--------------------------- MODULE ProcessWakeups ---------------------------
(***************************************************************************)
(* How the end of a background process wakes its session: the thread that  *)
(* drains the completion queue, the list of deferred wakeups, the hook a   *)
(* turn runs when it is over, the threads that start a wakeup turn and the *)
(* retry timer of a launch that failed (api/background_process.py,         *)
(* api/routes.py), and the turn that takes completions off the same queue  *)
(* when it begins (api/streaming.py).                                      *)
(*                                                                         *)
(* One session.  A process stands for its id and its wakeup prompt; a      *)
(* prompt made of several is the set of their processes.  A list of        *)
(* deferred wakeups is the set of its entries with their places.  Left     *)
(* out: delegations, which are claimed from a store; processes without an  *)
(* id or of another session; completions too old to deliver; deleted       *)
(* sessions; turns of a person whose launch fails.                         *)
(***************************************************************************)
EXTENDS Integers, Sequences, FiniteSets

CONSTANTS
    Proc,      \* background processes, all started before
    Runner,    \* threads that start wakeup turns: bounds those alive at a time
    Drainer,   \* teardown hooks and timer bodies: bounds those alive at a time
    None,
    MaxHuman,  \* bound: turns started by a person
    MaxCopies, \* bound: times a completion is put on the queue
    MaxAbort,  \* bound: wakeup turns whose worker does not start
    MaxFail    \* bound: starts that fail before admission, or are paused

ASSUME WakeupAssumption ==
    None \notin Proc /\ IsFiniteSet(Proc) /\ MaxCopies \in Nat \ {0}

VARIABLES
    running,   \* processes that have not finished
    queue,     \* process_registry.completion_queue
    consumed,  \* process_registry._completion_consumed
    seen,      \* BG_TASK_COMPLETE_EVENTS_SEEN of the session
    pending,   \* is the session in PENDING_BG_TASK_COMPLETIONS
    deferred,  \* DEFERRED_PROCESS_WAKEUPS of the session
    turn,      \* the session's stream and worker
    loop,      \* the drain thread
    drainer,   \* the calls of drain_deferred_wakeups_for_session
    timer,     \* the session's entry in _DEFERRED_WAKEUP_RETRY_TIMERS
    runner,    \* the wakeup threads
    humans, aborts, fails,     \* bounds
    given,     \* history: how often a result entered the conversation (up to 2)
    read,      \* history: results the agent read with wait or log
    waived,    \* history: results dropped because wakeups are paused
    rearmed,   \* history: results of a wakeup turn whose launch was aborted
    swept,     \* history: results not consumed whose mark in seen the reaper swept
    settled,   \* history: results read while they only waited in the list
    misfiled   \* history: ids under which a prompt without their result was filed

registry == <<running, queue, consumed>>
marks    == <<seen, pending>>
bounds   == <<humans, aborts, fails>>
ghosts   == <<given, read, waived, rearmed, swept, settled, misfiled>>
vars     == <<registry, marks, deferred, turn, loop, drainer, timer, runner,
              bounds, ghosts>>

\* The id under which a wakeup is filed, the results its prompt tells of, its
\* consumed_claimed_by_dispatch, and its place in the list.
Entry == [proc : Proc, text : SUBSET Proc, tag : BOOLEAN, no : Nat]
Quiet == [at |-> "off", batch |-> {}, key |-> None, tag |-> FALSE, again |-> FALSE]
Away  == [at |-> "off", again |-> FALSE]
Empty == [at |-> "idle", proc |-> None]

\* The deferred wakeup of one process.
Plain(p) == [proc |-> p, text |-> {p}, tag |-> FALSE, no |-> 1]

\* _session_has_active_turn
Active == turn # "none"

InQueue(p)   == \E i \in DOMAIN queue : queue[i] = p
Procs(batch) == {e.proc : e \in batch}
Texts(batch) == UNION {e.text : e \in batch}
First(batch, e) == \A f \in batch : e.no <= f.no

\* May the thread that took p off the queue deliver it?
UnownedIfUnread(p) == p \notin consumed
Unowned(p) == p \notin consumed /\ p \notin seen

\* _unconsumed_wakeups, _deferred_entry_already_consumed: the key that a
\* dispatch claimed for itself is not a read.
UnconsumedAll(batch) == batch
UnconsumedUntagged(batch) == {e \in batch : e.proc \notin consumed}
Unconsumed(batch) == {e \in batch : e.tag \/ e.proc \notin consumed}

\* The entries of new, in their order, behind those of list.
Appended(list, new) ==
    {[e EXCEPT !.no = Cardinality(list) + Cardinality({f \in new : f.no <= e.no})] : e \in new}

\* record_deferred_wakeup for each entry of new: one entry for each process,
\* which keeps its text and gets the strongest tag.
RecordTwice(list, new) == list \cup Appended(list, new)
Record(list, new) ==
    LET Tagged(e) == e.tag \/ \E f \in new : f.proc = e.proc /\ f.tag
    IN  {[e EXCEPT !.tag = Tagged(e)] : e \in list}
          \cup Appended(list, {e \in new : e.proc \notin Procs(list)})

Queued(procs) == pending' = TRUE /\ seen' = seen \cup procs

\* _retire_wakeup_ownership, once done are the processes consumed.
Retire(procs, done) ==
    IF seen \ procs \subseteq done
    THEN seen' = {} /\ pending' = FALSE
    ELSE seen' = seen \ procs /\ pending' = pending

\* How a batch adds to what the conversation got.
Given(batch) ==
    LET times(p) == Cardinality({e \in batch : p \in e.text})
    IN  [p \in Proc |-> IF given[p] + times(p) > 2 THEN 2 ELSE given[p] + times(p)]

Spawn(r, batch, key, tag, again) ==
    runner' = [runner EXCEPT ![r] = [at |-> "spawned", batch |-> batch, key |-> key,
                                     tag |-> tag, again |-> again]]

Init ==
    /\ running = Proc /\ queue = <<>> /\ consumed = {}
    /\ seen = {} /\ pending = FALSE /\ deferred = {}
    /\ turn = "none" /\ loop = Empty /\ timer = FALSE
    /\ drainer = [d \in Drainer |-> Away]
    /\ runner = [r \in Runner |-> Quiet]
    /\ humans = 0 /\ aborts = 0 /\ fails = 0
    /\ given = [p \in Proc |-> 0]
    /\ read = {} /\ waived = {} /\ rearmed = {} /\ swept = {} /\ settled = {} /\ misfiled = {}

(***************************************************************************)
(* Processes and the turns of a person.                                    *)
(***************************************************************************)
\* A kill may race the reader thread: the completion is queued more than once.
Finish(p) ==
    /\ p \in running
    /\ running' = running \ {p}
    /\ \E n \in 1..MaxCopies : queue' = queue \o [i \in 1..n |-> p]
    /\ UNCHANGED <<consumed, marks, deferred, turn, loop, drainer, timer, runner,
                   bounds, ghosts>>

\* An accepted /api/chat/start: it takes the pending marker.
HumanStart ==
    /\ ~Active /\ humans < MaxHuman
    /\ humans' = humans + 1
    /\ turn' = "fresh" /\ pending' = FALSE
    /\ UNCHANGED <<registry, seen, deferred, loop, drainer, timer, runner,
                   aborts, fails, ghosts>>

\* _drain_webui_process_notifications, one completion of the queue.
NextTurnTake ==
    /\ turn = "fresh" /\ queue # <<>>
    /\ queue' = Tail(queue)
    /\ LET p == Head(queue)
       IN  IF Unowned(p)
           THEN /\ seen' = seen \cup {p}
                /\ consumed' = consumed \cup {p}
                /\ given' = Given({Plain(p)})
           ELSE UNCHANGED <<seen, consumed, given>>
    /\ UNCHANGED <<running, pending, deferred, turn, loop, drainer, timer, runner,
                   bounds, read, waived, rearmed, swept, settled, misfiled>>

NextTurnBegin ==
    /\ turn = "fresh" /\ queue = <<>>
    /\ turn' = "busy"
    /\ UNCHANGED <<registry, marks, deferred, loop, drainer, timer, runner, bounds, ghosts>>

\* Does p wait in the list of deferred wakeups and nowhere else?
OnlyWaits(p) ==
    /\ p \in Procs(deferred) /\ loop.proc # p
    /\ \A e \in deferred : p \in {e.proc} \cup e.text => e.proc = p /\ ~e.tag
    /\ \A r \in Runner : p \notin Procs(runner[r].batch) \cup Texts(runner[r].batch)
                                      \cup {runner[r].key}

\* process(action="wait") and "log" consume the result they show.
AgentRead(p) ==
    /\ turn = "busy" /\ p \notin running /\ p \notin read
    /\ consumed' = consumed \cup {p}
    /\ read' = read \cup {p}
    /\ settled' = IF OnlyWaits(p) THEN settled \cup {p} ELSE settled
    /\ UNCHANGED <<running, queue, marks, deferred, turn, loop, drainer, timer, runner,
                   bounds, given, waived, rearmed, swept, misfiled>>

\* The worker's finally: the run is unregistered, the hook comes next.
TurnEnd(d) ==
    /\ turn = "busy" /\ drainer[d] = Away
    /\ turn' = "none"
    /\ drainer' = [drainer EXCEPT ![d].at = "due"]
    /\ UNCHANGED <<registry, marks, deferred, loop, timer, runner, bounds, ghosts>>

(***************************************************************************)
(* The drain thread: _process_one.                                         *)
(***************************************************************************)
LoopTake ==
    /\ loop = Empty /\ queue # <<>>
    /\ queue' = Tail(queue)
    /\ LET p == Head(queue)
       IN  IF Unowned(p)
           THEN Queued({p}) /\ loop' = [at |-> "look", proc |-> p]
           ELSE UNCHANGED <<marks, loop>>
    /\ UNCHANGED <<running, consumed, deferred, turn, drainer, timer, runner, bounds, ghosts>>

\* Busy: the decision to defer is taken before the entry is recorded.
LoopBusy ==
    /\ loop.at = "look" /\ Active
    /\ loop' = [loop EXCEPT !.at = "defer"]
    /\ UNCHANGED <<registry, marks, deferred, turn, drainer, timer, runner, bounds, ghosts>>

LoopDefer ==
    /\ loop.at = "defer"
    /\ deferred' = Record(deferred, {Plain(loop.proc)})
    /\ Queued({loop.proc})
    /\ loop' = Empty
    /\ UNCHANGED <<registry, turn, drainer, timer, runner, bounds, ghosts>>

\* Idle: the shared key is claimed for the transport, a thread starts the turn.
LoopIdle(r) ==
    /\ loop.at = "look" /\ ~Active /\ runner[r] = Quiet
    /\ consumed' = consumed \cup {loop.proc}
    /\ Spawn(r, {[Plain(loop.proc) EXCEPT !.tag = TRUE]}, loop.proc, TRUE, FALSE)
    /\ loop' = Empty
    /\ UNCHANGED <<running, queue, marks, deferred, turn, drainer, timer, bounds, ghosts>>

(***************************************************************************)
(* drain_deferred_wakeups_for_session, from a turn's teardown or the timer.*)
(***************************************************************************)
DrainLook(d) ==
    /\ drainer[d].at = "due"
    /\ drainer' = [drainer EXCEPT ![d] = IF Active THEN Away ELSE [@ EXCEPT !.at = "claim"]]
    /\ UNCHANGED <<registry, marks, deferred, turn, loop, timer, runner, bounds, ghosts>>

\* claim_deferred_wakeups, then one thread for the whole batch.
DrainClaim(d, r) ==
    LET batch == Unconsumed(deferred)
    IN  /\ drainer[d].at = "claim" /\ runner[r] = Quiet
        /\ deferred' = {}
        /\ IF Procs(batch) = Procs(deferred)
           THEN UNCHANGED marks
           ELSE Retire(Procs(deferred) \ Procs(batch), consumed)
        /\ IF batch = {}
           THEN UNCHANGED runner
           ELSE \E e \in batch : First(batch, e) /\ Spawn(r, batch, e.proc, e.tag, drainer[d].again)
        /\ drainer' = [drainer EXCEPT ![d] = Away]
        /\ UNCHANGED <<registry, turn, loop, timer, bounds, ghosts>>

\* _run_deferred_wakeup_retry
TimerFires(d) ==
    /\ timer /\ drainer[d] = Away
    /\ timer' = FALSE
    /\ drainer' = [drainer EXCEPT ![d] = [at |-> "due", again |-> TRUE]]
    /\ UNCHANGED <<registry, marks, deferred, turn, loop, runner, bounds, ghosts>>

(***************************************************************************)
(* The thread of a wakeup: _runner of _start_server_side_wakeup_turn.      *)
(***************************************************************************)
RunnerFilter(r) ==
    LET batch == Unconsumed(runner[r].batch)
    IN  /\ runner[r].at = "spawned"
        /\ IF batch = {}
           THEN /\ Retire(Procs(runner[r].batch), consumed)
                /\ runner' = [runner EXCEPT ![r] = Quiet]
           ELSE /\ runner' = [runner EXCEPT ![r].batch = batch, ![r].at = "calling"]
                /\ UNCHANGED marks
        /\ UNCHANGED <<registry, deferred, turn, loop, drainer, timer, bounds, ghosts>>

\* 409: the session has an active stream.
RunnerRefused(r) ==
    /\ runner[r].at = "calling" /\ Active
    /\ runner' = [runner EXCEPT ![r].at = "failed"]
    /\ UNCHANGED <<registry, marks, deferred, turn, loop, drainer, timer, bounds, ghosts>>

\* 5xx, or anything raised before the stream is registered.
RunnerFails(r) ==
    /\ runner[r].at = "calling" /\ fails < MaxFail
    /\ fails' = fails + 1
    /\ runner' = [runner EXCEPT ![r].at = "failed"]
    /\ UNCHANGED <<registry, marks, deferred, turn, loop, drainer, timer,
                   humans, aborts, ghosts>>

\* 409 process_wakeup_paused: the results are given up, and the routing marks
\* (_retire_wakeup_ownership) after the pending marker of the session.
RunnerPaused(r) ==
    /\ runner[r].at = "calling" /\ fails < MaxFail
    /\ fails' = fails + 1
    /\ consumed' = consumed \cup Procs(runner[r].batch)
    /\ seen' = IF seen \subseteq consumed' THEN {} ELSE seen \ Procs(runner[r].batch)
    /\ pending' = FALSE
    /\ waived' = waived \cup Texts(runner[r].batch)
    /\ runner' = [runner EXCEPT ![r] = Quiet]
    /\ UNCHANGED <<running, queue, deferred, turn, loop, drainer, timer, humans, aborts,
                   given, read, rearmed, swept, settled, misfiled>>

\* Admission registers the stream and takes the pending marker.
RunnerAdmitted(r) ==
    /\ runner[r].at = "calling" /\ ~Active
    /\ turn' = "launching" /\ pending' = FALSE
    /\ runner' = [runner EXCEPT ![r].at = "launching"]
    /\ UNCHANGED <<registry, seen, deferred, loop, drainer, timer, bounds, ghosts>>

RunnerLaunched(r) ==
    /\ runner[r].at = "launching"
    /\ turn' = "fresh"
    /\ given' = Given(runner[r].batch)
    /\ runner' = [runner EXCEPT ![r].at = "started"]
    /\ UNCHANGED <<registry, marks, deferred, loop, drainer, timer, bounds,
                   read, waived, rearmed, swept, settled, misfiled>>

\* The worker does not start: the launch is undone, and
\* _rearm_process_wakeup_after_launch_failure records the joined prompt under
\* the id of the batch and schedules one retry.
RunnerAborted(r) ==
    LET joined == [proc |-> runner[r].key, text |-> Texts(runner[r].batch),
                   tag |-> runner[r].tag, no |-> 1]
    IN  /\ runner[r].at = "launching" /\ aborts < MaxAbort
        /\ aborts' = aborts + 1
        /\ turn' = "none"
        /\ deferred' = Record(deferred, {joined})
        /\ Queued({joined.proc})
        /\ timer' = (timer \/ ~runner[r].again)
        /\ rearmed' = rearmed \cup joined.text
        /\ misfiled' = misfiled \cup ({joined.proc} \ joined.text)
        /\ runner' = [runner EXCEPT ![r].at = "failed"]
        /\ UNCHANGED <<registry, loop, drainer, humans, fails,
                       given, read, waived, swept, settled>>

\* The answer 409 or 5xx, or the exception: every entry goes back to the list.
RunnerRedefer(r) ==
    LET back == {[e EXCEPT !.tag = @ \/ runner[r].tag] : e \in runner[r].batch}
    IN  /\ runner[r].at = "failed"
        /\ deferred' = Record(deferred, back)
        /\ Queued(Procs(back))
        /\ runner' = [runner EXCEPT ![r] = Quiet]
        /\ UNCHANGED <<registry, turn, loop, drainer, timer, bounds, ghosts>>

RunnerDone(r) ==
    /\ runner[r].at = "started"
    /\ consumed' = consumed \cup Procs(runner[r].batch)
    /\ Retire(Procs(runner[r].batch), consumed')
    /\ runner' = [runner EXCEPT ![r] = Quiet]
    /\ UNCHANGED <<running, queue, deferred, turn, loop, drainer, timer, bounds, ghosts>>

\* The reaper: the marks of a session without a pending completion are dropped.
Sweep ==
    /\ ~pending /\ seen # {}
    /\ swept' = swept \cup (seen \ consumed)
    /\ seen' = {}
    /\ UNCHANGED <<registry, pending, deferred, turn, loop, drainer, timer, runner,
                   bounds, given, read, waived, rearmed, settled, misfiled>>

Next ==
    \/ \E p \in Proc : Finish(p) \/ AgentRead(p)
    \/ HumanStart \/ NextTurnTake \/ NextTurnBegin \/ Sweep
    \/ LoopTake \/ LoopBusy \/ LoopDefer
    \/ \E d \in Drainer : TurnEnd(d) \/ DrainLook(d) \/ TimerFires(d)
    \/ \E d \in Drainer, r \in Runner : DrainClaim(d, r)
    \/ \E r \in Runner :
        \/ LoopIdle(r) \/ RunnerFilter(r) \/ RunnerRefused(r) \/ RunnerFails(r)
        \/ RunnerPaused(r) \/ RunnerAdmitted(r) \/ RunnerLaunched(r)
        \/ RunnerAborted(r) \/ RunnerRedefer(r) \/ RunnerDone(r)

Spec == Init /\ [][Next]_vars

-----------------------------------------------------------------------------
\* The state has its shape, the list of deferred wakeups one entry for each
\* process, and a worker only launches while one thread launches it.
WakeupTypeOK ==
    /\ running \subseteq Proc /\ consumed \subseteq Proc /\ seen \subseteq Proc
    /\ queue \in Seq(Proc) /\ pending \in BOOLEAN /\ timer \in BOOLEAN
    /\ deferred \subseteq Entry
    /\ \A e, f \in deferred : e.proc = f.proc => e = f
    /\ turn \in {"none", "launching", "fresh", "busy"}
    /\ loop \in [at : {"idle", "look", "defer"}, proc : Proc \cup {None}]
    /\ drainer \in [Drainer -> [at : {"off", "due", "claim"}, again : BOOLEAN]]
    /\ runner \in [Runner -> [at : {"off", "spawned", "calling", "launching", "started", "failed"},
                              batch : SUBSET Entry, key : Proc \cup {None},
                              tag : BOOLEAN, again : BOOLEAN]]
    /\ turn = "launching" <=> \E r \in Runner : runner[r].at = "launching"
    /\ \A r, s \in Runner : runner[r].at = "launching" /\ runner[s].at = "launching" => r = s

\* Where a result can be before it is told, and how it is settled.
OnItsWay(p) ==
    \/ InQueue(p) \/ loop.proc = p \/ p \in Texts(deferred)
    \/ \E r \in Runner : p \in Texts(runner[r].batch)
Settled(p) == given[p] > 0 \/ p \in read \/ p \in waived

\* "A rejected start must stay retryable": no result is lost, through refusals,
\* failed launches and retries that overlap.
NothingLost == \A p \in Proc \ running : Settled(p) \/ OnItsWay(p)

\* A result is lost in one case only: an aborted launch filed the prompt of
\* others under its id (_process_one, _runner, record_deferred_wakeup).
LostOnlyIfMisfiled == \A p \in Proc \ running : Settled(p) \/ OnItsWay(p) \/ p \in misfiled

\* A result enters the conversation once, unless the launch of its wakeup turn
\* was aborted or the reaper swept its routing mark before it was consumed
\* (claim_deferred_wakeups, BG_TASK_COMPLETE_EVENTS_SEEN).
WokenOnce == \A p \in Proc : given[p] <= 1 \/ p \in rearmed \/ p \in swept

\* A result that the agent read while it only waited for the turn to end does
\* not wake the agent any more (_deferred_entry_already_consumed).
ReadStaysQuiet == [][\A p \in settled : given'[p] = given[p]]_vars

\* "Busy now: fire here when the turn ends and the session goes idle": once
\* nothing is under way, no wakeup is left in the list.
NoneStranded ==
    deferred # {} =>
        \/ Active \/ timer \/ loop # Empty \/ queue # <<>>
        \/ \E d \in Drainer : drainer[d] # Away
        \/ \E r \in Runner : runner[r] # Quiet

\* record_deferred_wakeup is idempotent for a process: no wakeup turn is told
\* of one result by two of its entries.
ToldOncePerTurn ==
    \A r \in Runner : \A e, f \in runner[r].batch : e # f => e.text \cap f.text = {}
=============================================================================
