-------------------------- MODULE StreamLifecycle --------------------------
(***************************************************************************)
(* The life of the turns of one session: POST /api/chat/start              *)
(* (api/routes.py), the worker thread it launches (api/streaming.py        *)
(* _run_agent_streaming), Stop (cancel_stream), and the readers that repair *)
(* a session whose stream is gone.  They share the per-stream registries   *)
(* of api/config.py (guarded by STREAMS_LOCK), the session record (guarded *)
(* by the per-session lock) and the clock.                                 *)
(*                                                                         *)
(* A step is a critical section, or what a thread does between two of them.*)
(* Sessions meet only in locks, so one session is the general case.  Every *)
(* turn has its own stream, and a turn stands for its stream id (uuid4 in  *)
(* the code): turns are numbered in the order of their admission.          *)
(*                                                                         *)
(* A write to the session record and the save that ends its critical       *)
(* section are one step: a crash keeps both or neither.  Left out: the     *)
(* Gateway backend, /btw (ephemeral) turns, Steer, server settle, context  *)
(* compression, and the failure of a save that has a fallback.             *)
(***************************************************************************)
EXTENDS Integers, FiniteSets

CONSTANTS
  MaxTurns,    \* bound of the exploration: turns one session may start
  Stopper,     \* HTTP threads that may be inside cancel_stream
  MaxCrashes   \* bound of the exploration: process crashes

ASSUME StreamAssumption == MaxTurns \in Nat /\ MaxCrashes \in Nat

Turn == 1..MaxTurns
NoTurn == 0
Young == 0      \* a registry row ages from Young,
Unwinding == 1  \* past the 60 s a cancelled worker is given to unwind,
Overdue == 2    \* past the 180 s after which it blocks nobody

VARIABLES
  \* the session record
  active,     \* active_stream_id
  pending,    \* the turn pending_user_message belongs to
  fresh,      \* pending_started_at is less than 30 s ago
  prompts,    \* turns whose user message is in the transcript
  outcome,    \* what the transcript says of each turn
  lock,       \* the turn for which the session lock is held, or NoTurn
  \* the registries
  streams,    \* STREAMS
  claims,     \* PRE_ADMISSION_CLAIMS
  flags,      \* CANCEL_FLAGS
  run,        \* the phase of the ACTIVE_RUNS row of each turn, or "none"
  age,        \* how old that row is
  owner,      \* SESSION_WRITEBACK_OWNERS[session]
  \* the threads
  worker,     \* where the launch, then the worker, of each turn is
  raised,     \* turns whose cancel_event is set
  stop,       \* where each Stop is
  suspect,    \* the stream a repairing reader found dead, or NoTurn
  event,      \* the terminal event the client of each stream got
  draining,   \* the restart-drain marker file of this process exists
  crashes,
  cutOff,     \* history: turns a repairing reader cleared while they lived
  overran     \* history: turns whose overdue row a later admission took away

record == <<active, pending, fresh, prompts, outcome>>
registries == <<streams, claims, flags, run, age, owner>>
others == <<draining, crashes, cutOff, overran>>
vars == <<record, lock, registries, worker, raised, stop, suspect, event, others>>

Phase == {"none", "starting", "running", "cancelling"}

Idle == [step |-> "idle", turn |-> NoTurn, flag |-> FALSE]

Init ==
  /\ active = NoTurn /\ pending = NoTurn /\ fresh = FALSE
  /\ prompts = {} /\ outcome = [t \in Turn |-> {}]
  /\ lock = NoTurn
  /\ streams = {} /\ claims = {} /\ flags = {}
  /\ run = [t \in Turn |-> "none"] /\ age = [t \in Turn |-> Young]
  /\ owner = NoTurn
  /\ worker = [t \in Turn |-> "new"]
  /\ raised = {} /\ stop = [c \in Stopper |-> Idle] /\ suspect = NoTurn
  /\ event = [t \in Turn |-> "none"]
  /\ draining = FALSE /\ crashes = 0 /\ cutOff = {} /\ overran = {}

-----------------------------------------------------------------------------
(* The session record.  Every writer that ends a turn clears the runtime   *)
(* fields and moves the pending prompt into the transcript in one save.    *)

\* Mutant: the pending prompt is materialized but not cleared.
CloseTurnPending(t, how) ==
  /\ active' = NoTurn
  /\ UNCHANGED <<pending, fresh>>
  /\ prompts' = prompts \union ({pending} \ {NoTurn})
  /\ outcome' = [outcome EXCEPT ![t] = @ \union how]

CloseTurn(t, how) ==
  /\ active' = NoTurn
  /\ pending' = NoTurn
  /\ fresh' = FALSE
  /\ prompts' = prompts \union ({pending} \ {NoTurn})
  /\ outcome' = [outcome EXCEPT ![t] = @ \union how]

\* _stream_writeback_is_current
IsCurrent(t) == active = t

\* The guard of _finalize_cancelled_turn.
MayFinalize(t) == owner = t /\ active \in {NoTurn, t}

FinalizeCancelled(t) ==
  IF MayFinalize(t)
  THEN CloseTurn(t, IF outcome[t] \intersect {"cancelled", "interrupted"} = {}
                    THEN {"cancelled"} ELSE {})
  ELSE UNCHANGED record

\* Only the first terminal event of a stream is published (publish_terminal).
Emit(t, e) == event' = [event EXCEPT ![t] = IF @ = "none" THEN e ELSE @]

\* _release_stream_owned_rows
Release(t) ==
  /\ streams' = streams \ {t}
  /\ claims' = claims \ {t}
  /\ flags' = flags \ {t}
  /\ owner' = IF owner = t THEN NoTurn ELSE owner

\* _is_orphaned_stream_locked: a stream that chat/start may reap.
Orphaned(t) ==
  /\ t \in streams
  /\ t \notin claims
  /\ ~(pending # NoTurn /\ fresh)
  /\ run[t] = "none"

-----------------------------------------------------------------------------
(* POST /api/chat/start, under the session lock until the thread starts.   *)

\* Mutant: a turn whose stream id is already cleared blocks nobody.
BlockingNone(t) == FALSE

\* Does the row of t keep _active_run_stream_for_session from admitting?
Blocking(t) == run[t] # "none" /\ age[t] < Overdue

\* Mutant: an overdue row goes although its worker still tears down.
ReapableRows(t) == run[t] # "none" /\ age[t] = Overdue

Reapable(t) == run[t] # "none" /\ age[t] = Overdue /\ t \notin streams

StartTurn(t) ==
  /\ worker[t] = "new"
  /\ \A u \in Turn : u < t => worker[u] # "new"
  /\ lock = NoTurn
  /\ active = NoTurn
  /\ \A u \in Turn : ~Blocking(u)
  /\ lock' = t
  /\ active' = t
  /\ owner' = t
  /\ run' = [u \in Turn |-> IF Reapable(u) THEN "none" ELSE run[u]]
  /\ age' = [u \in Turn |-> IF Reapable(u) THEN Young ELSE age[u]]
  /\ overran' = overran \union {u \in Turn : Reapable(u) /\ age[u] = Overdue}
  /\ worker' = [worker EXCEPT ![t] = "claiming"]
  /\ UNCHANGED <<pending, fresh, prompts, outcome, streams, claims, flags,
                 raised, stop, suspect, event, draining, crashes, cutOff>>

\* The rest of _prepare_chat_start_session_for_stream, with its save.
PersistTurn(t) ==
  /\ worker[t] = "claiming"
  /\ pending' = t
  /\ fresh' = TRUE
  /\ worker' = [worker EXCEPT ![t] = "persisted"]
  /\ UNCHANGED <<active, prompts, outcome, lock, registries, raised, stop, suspect, event, others>>

\* Mutant: the launch claim is not published.
LaunchClaimsNone(t) == claims

LaunchClaims(t) == claims \union {t}

RegisterStream(t) ==
  /\ worker[t] = "persisted"
  /\ streams' = streams \union {t}
  /\ claims' = LaunchClaims(t)
  /\ worker' = [worker EXCEPT ![t] = "registered"]
  /\ UNCHANGED <<record, lock, flags, run, age, owner, raised, stop, suspect, event, others>>

StartWorker(t) ==
  /\ worker[t] = "registered"
  /\ worker' = [worker EXCEPT ![t] = "launched"]
  /\ lock' = NoTurn
  /\ UNCHANGED <<record, registries, raised, stop, suspect, event, others>>

(* The save failed, run admission is closed, or the thread did not start:  *)
(* _cleanup_chat_start_launch_failure.                                     *)
LaunchFails(t) ==
  /\ worker[t] \in {"persisted", "registered"}
  /\ owner' = IF owner = t THEN NoTurn ELSE owner
  /\ streams' = streams \ {t}
  /\ claims' = claims \ {t}
  /\ active' = IF active = t THEN NoTurn ELSE active
  /\ pending' = IF active = t THEN NoTurn ELSE pending
  /\ fresh' = IF active = t THEN FALSE ELSE fresh
  /\ worker' = [worker EXCEPT ![t] = "failed"]
  /\ lock' = NoTurn
  /\ UNCHANGED <<prompts, outcome, flags, run, age, raised, stop, suspect, event, others>>

-----------------------------------------------------------------------------
(* The worker.  Its first critical section admits it, unless Stop came     *)
(* first or the process is about to be restarted.                          *)
AdmitWorker(t) ==
  /\ worker[t] = "launched"
  /\ t \in streams
  /\ ~draining
  /\ run' = [run EXCEPT ![t] = "starting"]
  /\ age' = [age EXCEPT ![t] = Young]
  /\ flags' = flags \union {t}
  /\ claims' = claims \ {t}
  /\ worker' = [worker EXCEPT ![t] = "admitted"]
  /\ UNCHANGED <<record, lock, streams, owner, raised, stop, suspect, event, others>>

RefuseWorker(t) ==
  /\ worker[t] = "launched"
  /\ t \notin streams
  /\ Release(t)
  /\ worker' = [worker EXCEPT ![t] = "gone"]
  /\ UNCHANGED <<record, lock, run, age, raised, stop, suspect, event, others>>

\* register_active_run raised RunAdmissionDrainingError.
DrainWorker(t) ==
  /\ worker[t] = "launched"
  /\ t \in streams
  /\ draining
  /\ Emit(t, "apperror")
  /\ owner' = IF owner = t THEN NoTurn ELSE owner
  /\ worker' = [worker EXCEPT ![t] = "drained"]
  /\ UNCHANGED <<record, lock, streams, claims, flags, run, age, raised, stop, suspect, others>>

\* update_active_run(phase="running"), which may overwrite "cancelling".
MarkRunning(t) ==
  /\ worker[t] = "admitted"
  /\ run' = [run EXCEPT ![t] = IF @ = "none" THEN @ ELSE "running"]
  /\ worker' = [worker EXCEPT ![t] = "preparing"]
  /\ UNCHANGED <<record, lock, streams, claims, flags, age, owner, raised, stop, suspect, event, others>>

\* _register_agent_if_current, then the agent runs.
RegisterAgent(t) ==
  /\ worker[t] = "preparing"
  /\ t \in streams
  /\ t \notin raised
  /\ worker' = [worker EXCEPT ![t] = "agent"]
  /\ UNCHANGED <<record, lock, registries, raised, stop, suspect, event, others>>

AgentReturns(t) ==
  /\ worker[t] = "agent"
  /\ \E how \in {"result", "error"} : worker' = [worker EXCEPT ![t] = how]
  /\ UNCHANGED <<record, lock, registries, raised, stop, suspect, event, others>>

\* Does the worker of t see, where it is, that it was cancelled?
SeesCancel(t) ==
  \/ worker[t] = "preparing" /\ (t \in raised \/ t \notin streams)
  \/ worker[t] \in {"result", "error", "synced"} /\ t \in raised

\* Every cancel check ends so: finalize under the session lock, tell, unwind.
UnwindCancelled(t) ==
  /\ SeesCancel(t)
  /\ lock = NoTurn
  /\ FinalizeCancelled(t)
  /\ Emit(t, "cancel")
  /\ worker' = [worker EXCEPT ![t] = "teardown"]
  /\ UNCHANGED <<lock, registries, raised, stop, suspect, others>>

\* _stream_writeback_can_supersede_recovery_marker
CanSupersede(t) ==
  /\ active = NoTurn
  /\ pending = NoTurn
  /\ "interrupted" \in outcome[t]
  /\ \A u \in Turn : u > t => u \notin prompts

\* Mutant: the stale-writeback guard is missing.
MayWriteAlways(t) == TRUE

MayWrite(t) == IsCurrent(t) \/ CanSupersede(t)

SkipStaleWriteback(t) ==
  /\ \/ worker[t] = "result" /\ ~MayWrite(t)
     \/ worker[t] = "error" /\ ~IsCurrent(t)
  /\ lock = NoTurn
  /\ worker' = [worker EXCEPT ![t] = "teardown"]
  /\ UNCHANGED <<record, lock, registries, raised, stop, suspect, event, others>>

SaveResult(t) ==
  /\ worker[t] = "result"
  /\ lock = NoTurn
  /\ MayWrite(t)
  /\ t \notin raised
  /\ active' = NoTurn
  /\ pending' = NoTurn
  /\ fresh' = FALSE
  /\ prompts' = prompts \union {t}
  /\ outcome' = [outcome EXCEPT ![t] = (@ \ {"interrupted"}) \union {"result"}]
  /\ lock' = t
  /\ worker' = [worker EXCEPT ![t] = "saved"]
  /\ UNCHANGED <<registries, raised, stop, suspect, event, others>>

\* The same critical section, after the save.
AfterSave(t) ==
  /\ worker[t] = "saved"
  /\ lock' = NoTurn
  /\ IF t \in raised
     THEN /\ FinalizeCancelled(t)
          /\ Emit(t, "cancel")
          /\ worker' = [worker EXCEPT ![t] = "teardown"]
     ELSE /\ UNCHANGED <<record, event>>
          /\ worker' = [worker EXCEPT ![t] = "synced"]
  /\ UNCHANGED <<registries, raised, stop, suspect, others>>

\* _success_writeback_committed = True; nothing suppresses "done" any more.
CommitSuccess(t) ==
  /\ worker[t] = "synced"
  /\ t \notin raised
  /\ lock = NoTurn
  /\ worker' = [worker EXCEPT ![t] = "committed"]
  /\ UNCHANGED <<record, lock, registries, raised, stop, suspect, event, others>>

SaveError(t) ==
  /\ worker[t] = "error"
  /\ lock = NoTurn
  /\ IsCurrent(t)
  /\ CloseTurn(t, {"error"})
  /\ worker' = [worker EXCEPT ![t] = "failing"]
  /\ UNCHANGED <<lock, registries, raised, stop, suspect, event, others>>

EmitOutcome(t) ==
  /\ \/ worker[t] = "committed" /\ Emit(t, "done")
     \/ worker[t] = "failing" /\ Emit(t, "apperror")
  /\ worker' = [worker EXCEPT ![t] = "teardown"]
  /\ UNCHANGED <<record, lock, registries, raised, stop, suspect, others>>

\* Mutant: the run row outlives the worker.
UnregisteredRunKept(t) == run

UnregisteredRun(t) == [run EXCEPT ![t] = "none"]

\* The outer finally.
Teardown(t) ==
  /\ worker[t] = "teardown"
  /\ Release(t)
  /\ run' = UnregisteredRun(t)
  /\ age' = [age EXCEPT ![t] = Young]
  /\ worker' = [worker EXCEPT ![t] = "gone"]
  /\ UNCHANGED <<record, lock, raised, stop, suspect, event, others>>

-----------------------------------------------------------------------------
(* Stop: cancel_stream.  Cancellation is published and ownership detached  *)
(* in one critical section; the session is settled in a later one.         *)
PublishStop(c, t) ==
  /\ stop[c] = Idle
  /\ t \in streams \/ run[t] # "none"
  /\ run' = [run EXCEPT ![t] = IF @ = "none" THEN @ ELSE "cancelling"]
  /\ age' = [age EXCEPT ![t] = Young]
  /\ claims' = claims \ {t}
  /\ streams' = streams \ {t}
  /\ flags' = flags \ {t}
  /\ stop' = [stop EXCEPT ![c] = [step |-> "published", turn |-> t, flag |-> t \in flags]]
  /\ UNCHANGED <<record, lock, owner, worker, raised, suspect, event, others>>

RaiseFlag(c) ==
  /\ stop[c].step = "published"
  /\ raised' = IF stop[c].flag THEN raised \union {stop[c].turn} ELSE raised
  /\ stop' = [stop EXCEPT ![c].step = "raised"]
  /\ UNCHANGED <<record, lock, registries, worker, suspect, event, others>>

\* Mutant: an admitted worker is left to settle its own cancellation.
MaySettleUnadmitted(c) == IsCurrent(stop[c].turn) /\ ~stop[c].flag

\* Mutant: a late Stop settles a turn that has been saved already.
MaySettleLate(c) == TRUE

MaySettle(c) == IsCurrent(stop[c].turn)

\* Mutant: Stop clears the runtime fields but leaves the prompt behind.
StoppedPromptsLost(t) == prompts

StoppedPrompts(t) == prompts \union ({pending} \ {NoTurn})

SettleStop(c) ==
  LET t == stop[c].turn
  IN /\ stop[c].step = "raised"
     /\ lock = NoTurn
     /\ IF MaySettle(c)
        THEN /\ active' = NoTurn
             /\ pending' = NoTurn
             /\ fresh' = FALSE
             /\ prompts' = StoppedPrompts(t)
             /\ outcome' = [outcome EXCEPT ![t] = @ \union {"cancelled"}]
             /\ stop' = [stop EXCEPT ![c].step = "settled"]
        ELSE /\ UNCHANGED record
             /\ stop' = [stop EXCEPT ![c] = Idle]
     /\ UNCHANGED <<lock, registries, worker, raised, suspect, event, others>>

EmitStop(c) ==
  /\ stop[c].step = "settled"
  /\ Emit(stop[c].turn, "cancel")
  /\ stop' = [stop EXCEPT ![c] = Idle]
  /\ UNCHANGED <<record, lock, registries, worker, raised, suspect, others>>

-----------------------------------------------------------------------------
(* Readers repair a session whose stream is gone.                          *)

Alive(t) == t \in streams \/ run[t] # "none"

\* The unlocked checks of _clear_stale_stream_state.
SuspectStream ==
  /\ suspect = NoTurn
  /\ active # NoTurn
  /\ active \notin streams
  /\ run[active] = "none" \/ (run[active] = "cancelling" /\ age[active] >= Unwinding)
  /\ ~(pending # NoTurn /\ fresh)
  /\ suspect' = active
  /\ UNCHANGED <<record, lock, registries, worker, raised, stop, event, others>>

\* A page read gives up when the session lock is taken; chat/start waits.
GiveUpSuspect ==
  /\ suspect # NoTurn
  /\ lock # NoTurn \/ active # suspect
  /\ suspect' = NoTurn
  /\ UNCHANGED <<record, lock, registries, worker, raised, stop, event, others>>

(* The locked part: only the stream id is checked again.  The recovery     *)
(* marker is written unless the stream turns out to be alive.              *)
ClearStaleStream ==
  /\ suspect # NoTurn
  /\ lock = NoTurn
  /\ active = suspect
  /\ CloseTurn(suspect, IF pending # NoTurn /\ ~Alive(suspect) THEN {"interrupted"} ELSE {})
  /\ cutOff' = IF Alive(suspect) /\ run[suspect] # "cancelling"
               THEN cutOff \union {suspect} ELSE cutOff
  /\ suspect' = NoTurn
  /\ UNCHANGED <<lock, registries, worker, raised, stop, event, draining, crashes, overran>>

\* _repair_stale_pending, which checks under the lock that the stream is dead.
RepairStalePending ==
  /\ lock = NoTurn
  /\ active # NoTurn
  /\ pending # NoTurn
  /\ ~fresh
  /\ ~Alive(active)
  /\ CloseTurn(active, {"interrupted"})
  /\ UNCHANGED <<lock, registries, worker, raised, stop, suspect, event, others>>

-----------------------------------------------------------------------------
(* The clock, the restart tooling, and the process itself.                 *)
PendingAges ==
  /\ fresh
  /\ fresh' = FALSE
  /\ UNCHANGED <<active, pending, prompts, outcome, lock, registries, worker, raised, stop,
                 suspect, event, others>>

RowAges(t) ==
  /\ run[t] # "none"
  /\ age[t] < Overdue
  /\ age' = [age EXCEPT ![t] = @ + 1]
  /\ UNCHANGED <<record, lock, streams, claims, flags, run, owner, worker, raised, stop,
                 suspect, event, others>>

DrainMarkerAppears ==
  /\ ~draining
  /\ draining' = TRUE
  /\ UNCHANGED <<record, lock, registries, worker, raised, stop, suspect, event, crashes, cutOff, overran>>

\* Memory is lost.  A turn that was claimed and not yet saved never was.
Crash ==
  /\ crashes < MaxCrashes
  /\ crashes' = crashes + 1
  /\ active' = IF active # NoTurn /\ worker[active] = "claiming" THEN NoTurn ELSE active
  /\ lock' = NoTurn
  /\ streams' = {} /\ claims' = {} /\ flags' = {}
  /\ run' = [t \in Turn |-> "none"] /\ age' = [t \in Turn |-> Young]
  /\ owner' = NoTurn
  /\ worker' = [t \in Turn |->
       CASE worker[t] \in {"new", "failed"} -> worker[t]
         [] worker[t] = "claiming" -> "failed"
         [] OTHER -> "gone"]
  /\ raised' = {} /\ stop' = [c \in Stopper |-> Idle] /\ suspect' = NoTurn
  /\ draining' = FALSE
  /\ UNCHANGED <<pending, fresh, prompts, outcome, event, cutOff, overran>>

WorkerStep(t) ==
  \/ AdmitWorker(t) \/ RefuseWorker(t) \/ DrainWorker(t)
  \/ MarkRunning(t) \/ RegisterAgent(t) \/ UnwindCancelled(t)
  \/ SkipStaleWriteback(t) \/ SaveResult(t) \/ AfterSave(t) \/ CommitSuccess(t)
  \/ SaveError(t) \/ EmitOutcome(t) \/ Teardown(t)

LaunchStep(t) == PersistTurn(t) \/ RegisterStream(t) \/ StartWorker(t) \/ LaunchFails(t)

StopStep(c) == RaiseFlag(c) \/ SettleStop(c) \/ EmitStop(c)

Repair == SuspectStream \/ GiveUpSuspect \/ ClearStaleStream \/ RepairStalePending

Next ==
  \/ \E t \in Turn :
       \/ StartTurn(t) \/ LaunchStep(t) \/ WorkerStep(t) \/ AgentReturns(t) \/ RowAges(t)
       \/ \E c \in Stopper : PublishStop(c, t)
  \/ \E c \in Stopper : StopStep(c)
  \/ Repair \/ PendingAges \/ DrainMarkerAppears \/ Crash

Spec == Init /\ [][Next]_vars

(* Threads that are not inside the agent keep running, the clock ticks and *)
(* the page is polled.  The agent may hang, and nobody has to press Stop.  *)
Fairness ==
  /\ \A t \in Turn : WF_vars(LaunchStep(t)) /\ WF_vars(AfterSave(t))
  /\ \A c \in Stopper : WF_vars(RaiseFlag(c)) /\ SF_vars(SettleStop(c)) /\ WF_vars(EmitStop(c))
  /\ WF_vars(PendingAges)
  /\ SF_vars(RepairStalePending)

FairSpec == Spec /\ Fairness

-----------------------------------------------------------------------------
(* Types, and the two relations every reader of the record relies on: the  *)
(* pending prompt belongs to the active stream, and a missing row is Young.*)
TypeOK ==
  /\ active \in Turn \union {NoTurn}
  /\ pending \in {NoTurn, active}
  /\ fresh \in BOOLEAN
  /\ prompts \subseteq Turn
  /\ outcome \in [Turn -> SUBSET {"result", "error", "cancelled", "interrupted"}]
  /\ lock \in Turn \union {NoTurn}
  /\ streams \subseteq Turn /\ claims \subseteq streams /\ flags \subseteq Turn
  /\ run \in [Turn -> Phase]
  /\ age \in [Turn -> Young..Overdue]
  /\ \A t \in Turn : run[t] = "none" => age[t] = Young
  /\ owner \in Turn \union {NoTurn}
  /\ worker \in [Turn ->
       {"new", "claiming", "persisted", "registered", "launched", "failed", "admitted",
        "preparing", "agent", "result", "error", "saved", "synced", "committed",
        "failing", "teardown", "drained", "gone"}]
  /\ raised \subseteq Turn
  /\ stop \in [Stopper -> [step : {"idle", "published", "raised", "settled"},
                           turn : Turn \union {NoTurn}, flag : BOOLEAN]]
  /\ suspect \in Turn \union {NoTurn}
  /\ event \in [Turn -> {"none", "done", "cancel", "apperror"}]
  /\ draining \in BOOLEAN
  /\ crashes \in 0..MaxCrashes
  /\ cutOff \subseteq Turn /\ overran \subseteq Turn

Working == {"admitted", "preparing", "agent", "result", "error", "saved", "synced",
            "committed", "failing", "teardown"}

(* chat/start may reap a stream that is registered without a claim and     *)
(* without a worker row.  No launch and no worker that is still at work    *)
(* ever looks like that: the claim and the row cover it without a gap      *)
(* (publish_pre_admission_claim, the admission section of the worker and   *)
(* the reaping of overdue rows).                                           *)
NoLiveOrphan ==
  \A t \in Turn :
    worker[t] \in Working \union {"registered", "launched"} => ~Orphaned(t)

(* Whatever happens to a turn (error, Stop, crash, repair, or a successor),*)
(* the message the user sent stays in the record: pending, or in the       *)
(* transcript.  Only a launch that was refused takes it back.              *)
PromptKept ==
  \A t \in Turn :
    worker[t] \in {"new", "claiming", "failed"} \/ pending = t \/ t \in prompts

(* Once its threads are through with a stream no registry mentions it, so  *)
(* neither registries nor the restart drain count it (the outer finally,   *)
(* release_stream_owned_registries, _cleanup_chat_start_launch_failure).   *)
(* A worker refused by the restart drain is not covered: see ClaimsLaunch. *)
RegistriesReleased ==
  \A t \in Turn :
    worker[t] \in {"new", "failed", "gone"} =>
      /\ t \notin streams \union claims \union flags
      /\ run[t] = "none"
      /\ owner # t

(* "The claim can never outlive its stream and block a later chat/start"   *)
(* (api/config.py, _release_stream_owned_rows): a launch claim stands for  *)
(* a launch that is still under way.                                       *)
ClaimsLaunch ==
  \A t \in claims : worker[t] \in {"registered", "launched"}

(* A client that was told "done" finds the answer, and no cancel marker,   *)
(* in the transcript, however late a Stop arrives (cancel_stream emits     *)
(* only after it has settled the session).                                 *)
DoneMeansSaved ==
  \A t \in Turn : event[t] = "done" => outcome[t] = {"result"}

(* "Otherwise a late Stop click can race with a successful worker save and *)
(* show cancel in the client while persistence says done"                  *)
(* (api/streaming.py, _cancel_stream_impl): a client is told "cancel" for  *)
(* a turn whose answer was saved only if the transcript says so too.       *)
CancelMeansCancelled ==
  \A t \in Turn :
    event[t] = "cancel" /\ "result" \in outcome[t] => "cancelled" \in outcome[t]

(* A successor is admitted only when each earlier worker is gone, can no   *)
(* longer be admitted, or was given its 180 s (_active_run_stream_for_     *)
(* session, #3808 and #6623), before this admission or an earlier one that *)
(* took its row away, unless a repair cut that earlier turn off.           *)
SuccessorWaits ==
  [][\A t, u \in Turn :
       t < u /\ worker[u] = "new" /\ worker[u]' = "claiming" =>
         \/ worker[t] \in {"failed", "drained", "gone"}
         \/ worker[t] = "launched" /\ t \notin streams
         \/ worker[t] \in Working /\ (age[t] = Overdue \/ t \in overran)
         \/ t \in cutOff]_vars

ActsFor(t) ==
  \/ worker[t] # worker[t]' /\ crashes = crashes'
  \/ \E c \in Stopper : stop[c].turn = t /\ stop[c] # stop[c]' /\ crashes = crashes'

(* Neither a stale worker nor a late Stop touches the record of a session  *)
(* that has moved on to another turn (_stream_writeback_is_current and the *)
(* writeback owner of _finalize_cancelled_turn, #6623).                    *)
NoWriteOverSuccessor ==
  [][\A t \in Turn :
       ActsFor(t) /\ record # record' =>
         \A u \in Turn : t < u => worker[u] \in {"new", "failed"}]_vars

(* "We must NOT clobber its session.active_stream_id" (api/routes.py,      *)
(* _clear_stale_stream_state): a reader that repairs a dead stream never   *)
(* clears one that a chat/start has launched meanwhile.                    *)
NeverClearsALiveStream == cutOff = {}

(* A session whose stream is no longer registered, because Stop detached   *)
(* it or the process was restarted, does not stay bound to it, even if the *)
(* worker hangs in its agent for ever.                                     *)
SessionIsFreed ==
  \A t \in Turn :
    (active = t /\ t \notin streams /\ worker[t] \notin {"claiming", "persisted"})
      ~> (active # t)
=============================================================================
