---------------------------- MODULE MemoryDrain -----------------------------
(***************************************************************************)
(* The end of api/session_lifecycle.py: the registry of background commit  *)
(* threads ("new chat", api/routes.py) and drain_all_on_shutdown, which    *)
(* commits what is still owed before the process exits, within a budget of *)
(* wall-clock time.  The threads of the server go on meanwhile: turns      *)
(* complete and boundaries commit through SessionLifecycle.                *)
(***************************************************************************)
EXTENDS SessionLifecycle, FiniteSets

CONSTANTS
  Background,   \* the threads that may be background commit threads
  Worker,       \* the daemon worker of the drain
  MaxTurns      \* bound of the exploration: turns counted in all sessions

ASSUME DrainAssumption ==
  /\ Background \subseteq Thread /\ Worker \in Thread \ Background
  /\ MaxTurns \in Nat

VARIABLES
  registered,   \* _background_commit_threads
  bg,           \* each background thread and the session it commits
  draining,     \* _draining
  drain,        \* the thread in drain_all_on_shutdown
  expired,      \* is the budget used up
  due,          \* history: turns completed when the drain began, and still owed
  refused       \* history: sessions the drain last failed to commit

drainState == <<registered, bg, draining, drain, expired, due, refused>>
drainVars == <<vars, drainState>>

NotDraining == [at |-> "off", todo |-> {}, sid |-> NoSession, progress |-> FALSE]
Unstarted == [at |-> "off", sid |-> NoSession]

DrainInit ==
  /\ Init
  /\ registered = {}
  /\ bg = [t \in Background |-> Unstarted]
  /\ draining = FALSE
  /\ drain = NotDraining
  /\ expired = FALSE
  /\ due = [s \in Session |-> 0]
  /\ refused = {}

-----------------------------------------------------------------------------
(* The rest of the server.                                                 *)
Turns == Cardinality(UNION {{s} \X (1..generation[s]) : s \in Session})

Server ==
  \/ \E s \in Session :
       \/ \E a \in Agent : RegisterAgent(s, a)
       \/ UnregisterAgent(s) \/ RecordOwnerProfileHome(s)
       \/ \E a \in Owner : Turns < MaxTurns /\ MarkTurnCompleted(s, a)

(* Another boundary commits and may wait; its thread is any but the        *)
(* drain's worker and those that are background threads just now.          *)
ServerCommits(t) ==
  /\ t # Worker /\ (t \in Background => bg[t] = Unstarted)
  /\ \E s \in Session, a \in Owner : BeginCommit(t, s, a) \/ WaitForCommit(t, s, a)
  /\ UNCHANGED drainState

ServerStep == Server /\ UNCHANGED drainState

ServerDiscards(s) ==
  /\ DiscardSession(s)
  /\ due' = [due EXCEPT ![s] = 0]
  /\ UNCHANGED <<registered, bg, draining, drain, expired, refused>>

\* A commit under way; the one of the drain has its own steps.
Continue(t) == ResumeCommit(t) \/ AbandonCommit(t) \/ CommitFailed(t) \/ CommitSucceeded(t)

\* The worker that the drain waits for, not one it has left behind.
Awaited == drain.at = "commit"

ContinueStep(t) ==
  /\ t = Worker => ~Awaited
  /\ Continue(t)
  /\ UNCHANGED drainState

-----------------------------------------------------------------------------
(* "New chat": a registered thread commits the session once, unawaited.    *)
\* Mutant: a thread may register whatever the server is doing.
MayRegisterAlways == TRUE

MayRegister == ~draining

Spawn(t, s) ==
  /\ MayRegister
  /\ bg[t] = Unstarted /\ call[t] = NoCall
  /\ registered' = registered \union {t}
  /\ bg' = [bg EXCEPT ![t] = [at |-> "registered", sid |-> s]]
  /\ UNCHANGED <<vars, draining, drain, expired, due, refused>>

\* Thread.is_alive
Alive(t) == bg[t].at \in {"alive", "called"}

StartBackground(t) ==
  /\ bg[t].at = "registered"
  /\ bg' = [bg EXCEPT ![t].at = "alive"]
  /\ UNCHANGED <<vars, registered, draining, drain, expired, due, refused>>

CallBackground(t) ==
  /\ bg[t].at = "alive"
  /\ \E a \in Owner :
       \/ BeginCommit(t, bg[t].sid, a)
       \/ NothingToCommit(bg[t].sid, a, FALSE) /\ UNCHANGED vars
  /\ bg' = [bg EXCEPT ![t].at = "called"]
  /\ UNCHANGED <<registered, draining, drain, expired, due, refused>>

LeaveBackground(t) ==
  /\ bg[t].at = "called" /\ call[t] = NoCall
  /\ registered' = registered \ {t}
  /\ bg' = [bg EXCEPT ![t] = Unstarted]
  /\ UNCHANGED <<vars, draining, drain, expired, due, refused>>

-----------------------------------------------------------------------------
(* drain_all_on_shutdown.                                                  *)
Move(step) == drain' = [drain EXCEPT !.at = step]

\* No worker may register from here on; those registered are to be joined.
BeginDrain ==
  /\ drain = NotDraining
  /\ draining' = TRUE
  /\ drain' = [drain EXCEPT !.at = "join", !.todo = registered]
  /\ registered' = {}
  /\ due' = [s \in Session |-> IF HasUncommittedWork(s) THEN generation[s] ELSE 0]
  /\ UNCHANGED <<vars, bg, expired, refused>>

\* The thread is dead, or has not started, or it took longer than five seconds.
JoinNext(t) ==
  /\ drain.at = "join" /\ t \in drain.todo
  /\ drain' = [drain EXCEPT !.todo = @ \ {t}]
  /\ UNCHANGED <<vars, registered, bg, draining, expired, due, refused>>

EndJoins ==
  /\ drain.at = "join"
  /\ drain.todo = {} \/ (expired /\ \E t \in drain.todo : Alive(t))
  /\ drain' = [drain EXCEPT !.at = "look", !.todo = {}]
  /\ UNCHANGED <<vars, registered, bg, draining, expired, due, refused>>

\* Mutant: a session that is being committed counts as committed.
UncommittedIdle == {s \in Session : HasUncommittedWork(s) /\ ~inFlight[s]}

Uncommitted == {s \in Session : HasUncommittedWork(s)}

\* Nothing is owed, or the budget is gone, or there is another pass.
Look ==
  /\ drain.at = "look"
  /\ drain' = IF Uncommitted = {} THEN [drain EXCEPT !.at = "clean"]
              ELSE IF expired THEN [drain EXCEPT !.at = "late"]
              ELSE [drain EXCEPT !.at = "pass", !.todo = Uncommitted, !.progress = FALSE]
  /\ UNCHANGED <<vars, registered, bg, draining, expired, due, refused>>

\* _commit_within_budget: a worker calls commit_session_memory(wait=True).
CommitNext(s) ==
  /\ drain.at = "pass" /\ s \in drain.todo /\ ~expired
  /\ drain' = [drain EXCEPT !.at = "start", !.sid = s, !.todo = @ \ {s}]
  /\ UNCHANGED <<vars, registered, bg, draining, expired, due, refused>>

\* The worker answers False: nothing is owed, or nobody can extract it.
GiveUp(s) ==
  /\ Move("pass")
  /\ refused' = IF HasUncommittedWork(s) THEN refused \union {s} ELSE refused

WorkerCalls ==
  /\ drain.at = "start"
  /\ \/ /\ BeginCommit(Worker, drain.sid, NoAgent) \/ WaitForCommit(Worker, drain.sid, NoAgent)
        /\ Move("commit")
        /\ UNCHANGED refused
     \/ /\ NothingToCommit(drain.sid, NoAgent, TRUE)
        /\ GiveUp(drain.sid)
        /\ UNCHANGED vars
  /\ UNCHANGED <<registered, bg, draining, expired, due>>

WorkerResumes ==
  /\ Awaited
  /\ \/ ResumeCommit(Worker) /\ UNCHANGED <<drain, refused>>
     \/ AbandonCommit(Worker) /\ GiveUp(drain.sid)
  /\ UNCHANGED <<registered, bg, draining, expired, due>>

WorkerSucceeds ==
  /\ Awaited /\ CommitSucceeded(Worker)
  /\ drain' = [drain EXCEPT !.at = "pass", !.progress = TRUE]
  /\ refused' = refused \ {drain.sid}
  /\ UNCHANGED <<registered, bg, draining, expired, due>>

WorkerFails ==
  /\ Awaited /\ CommitFailed(Worker)
  /\ Move("pass")
  /\ refused' = refused \union {drain.sid}
  /\ UNCHANGED <<registered, bg, draining, expired, due>>

\* Mutant: join without a timeout.
BudgetUnlimited == FALSE

BudgetIsGone == expired

\* join(budget) returns with the worker in its call; it is left running.
LeaveWorker ==
  /\ drain.at = "commit" /\ BudgetIsGone
  /\ Move("pass")
  /\ UNCHANGED <<vars, registered, bg, draining, expired, due, refused>>

\* Mutant: one pass is enough.
AgainNever == FALSE

Again == drain.progress

EndPass ==
  /\ drain.at = "pass" /\ (drain.todo = {} \/ expired)
  /\ drain' = [drain EXCEPT !.todo = {}, !.sid = NoSession,
                 !.at = IF drain.todo # {} THEN "late" ELSE IF Again THEN "look" ELSE "stuck"]
  /\ UNCHANGED <<vars, registered, bg, draining, expired, due, refused>>

\* The clock reaches the deadline.
Expire ==
  /\ drain.at \notin {"off", "clean", "late", "stuck"} /\ ~expired
  /\ expired' = TRUE
  /\ UNCHANGED <<vars, registered, bg, draining, drain, due, refused>>

\* The steps the drain takes by itself; those of a provider are not among them.
DrainStep ==
  \/ BeginDrain \/ EndJoins \/ Look \/ WorkerCalls \/ LeaveWorker \/ EndPass
  \/ \E t \in Background : JoinNext(t)
  \/ \E s \in Session : CommitNext(s)

DrainNext ==
  \/ ServerStep
  \/ \E s \in Session : ServerDiscards(s)
  \/ \E t \in Thread : ServerCommits(t) \/ ContinueStep(t)
  \/ \E t \in Background :
       \/ \E s \in Session : Spawn(t, s)
       \/ StartBackground(t) \/ CallBackground(t) \/ LeaveBackground(t)
  \/ DrainStep
  \/ WorkerResumes \/ WorkerSucceeds \/ WorkerFails
  \/ Expire

DrainSpec == DrainInit /\ [][DrainNext]_drainVars

(* Fairness: the drain's own thread runs and the clock advances.  Nothing  *)
(* is assumed of a memory provider, of a background thread or of a turn.   *)
FairDrainSpec ==
  DrainSpec /\ WF_drainVars(DrainStep /\ drain # NotDraining) /\ WF_drainVars(Expire)

-----------------------------------------------------------------------------
(* Types; no thread registers once the drain has listed the threads it     *)
(* joins, and the drain waits for a worker that is in its call.            *)
DrainTypeOK ==
  /\ registered \subseteq Background
  /\ \A t \in registered : bg[t] # Unstarted
  /\ bg \in [Background -> [at : {"off", "registered", "alive", "called"},
                             sid : Session \union {NoSession}]]
  /\ draining \in BOOLEAN /\ expired \in BOOLEAN
  /\ draining <=> drain # NotDraining
  /\ draining => registered = {}
  /\ drain.at \in {"off", "join", "look", "pass", "start", "commit", "clean", "late", "stuck"}
  /\ drain.todo \subseteq (IF drain.at = "join" THEN Background ELSE Session)
  /\ drain.at = "commit" => call[Worker].sid = drain.sid
  /\ due \in [Session -> Nat] /\ refused \subseteq Session

(* A drain that ends within its budget has committed every turn that was   *)
(* owed when it began, but for sessions that their provider, or the lack   *)
(* of an agent, refused when they were tried last: also those whose commit *)
(* was under way in another thread, or whose turns several agents own.     *)
DrainSettles ==
  drain.at = "clean" \/ (drain.at = "stuck" /\ ~expired) =>
    \A s \in Session : due[s] > committed[s] => s \in refused

(* A drain that reports nothing left abandons no commit half way           *)
(* ("preventing silent data loss when daemon threads are abandoned         *)
(* mid-commit").                                                           *)
NothingAbandoned ==
  [][drain.at # "clean" /\ drain'.at = "clean" =>
       \A t \in Thread : call[t].step # "provider"]_drainVars

(* A provider that never answers cannot hang the shutdown.                 *)
DrainEnds == draining ~> drain.at \in {"clean", "late", "stuck"}
=============================================================================
