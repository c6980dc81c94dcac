-------------------------- MODULE MemoryBoundaries --------------------------
(***************************************************************************)
(* The program around session_lifecycle: the agents cached per session     *)
(* (api/config.py SESSION_AGENT_CACHE), the turns that borrow, build and   *)
(* publish them (api/streaming.py), and the session boundaries that commit *)
(* a session's memory and close its agent: eviction from the full cache,   *)
(* explicit eviction (delete, clear, truncate, model switch), a cached     *)
(* agent that cannot be refreshed, and "new chat" (api/routes.py).         *)
(*                                                                         *)
(* Each lock (_lock, SESSION_AGENT_CACHE_LOCK, ACTIVE_RUNS_LOCK) is held   *)
(* for one step.  A turn that Stop took out of STREAMS, or that is past    *)
(* its save, stops a successor only for so long: then the session has two  *)
(* turns, and the older one may have lost its row in ACTIVE_RUNS.          *)
(* Left out: ephemeral turns, the credential self-heal rebuilds, agents    *)
(* re-keyed by context compression.  The shutdown drain is MemoryDrain.    *)
(***************************************************************************)
EXTENDS SessionLifecycle, FiniteSets

CONSTANT CacheMax   \* SESSION_AGENT_CACHE_MAX

ASSUME CacheAssumption == CacheMax \in Nat \ {0}

VARIABLES
  cached,   \* the agent SESSION_AGENT_CACHE holds for each session
  lru,      \* its order: <<r, s>> when r was used less recently than s
  task,     \* what each thread is doing
  fate      \* of each agent: not built, open, or how it was closed

boundaryVars == <<vars, cached, lru, task, fate>>

Victim == [sid : Session, agent : Agent, lent : BOOLEAN]

NoTask ==
  [doing |-> "nothing", sid |-> NoSession, agent |-> NoAgent, run |-> "listed",
   live |-> {}, victims |-> << >>, stage |-> "commit"]

TurnSteps ==
  {"admitted", "found", "stale", "rebuild", "built", "published", "trimming",
   "ready", "running", "teardown"}

Task ==
  [doing : TurnSteps \union {"nothing", "popped", "evicting", "leaving", "extracting"},
   sid : Session \union {NoSession}, agent : Owner,
   run : {"listed", "reaped", "replaced"}, live : SUBSET Session,
   victims : Seq(Victim),
   stage : {"pop", "commit", "committing", "unregister", "discard", "close"}]

Turns == {t \in Thread : task[t].doing \in TurnSteps}

\* The turns whose row in ACTIVE_RUNS was popped while they went on.
Unlisted == {t \in Turns : task[t].run # "listed"}

\* The sessions with a row in ACTIVE_RUNS.
Live == {task[t].sid : t \in Turns \ Unlisted}

\* The turns that hold agent a.
Holders(a) == {t \in Turns : task[t].agent = a}

Lent(a) == Holders(a) # {}

\* The other turns of its session.
Beside(t) == {u \in Turns \ {t} : task[u].sid = task[t].sid}

\* The turns that go on although a successor may be, or was, admitted.
Overrun ==
  Unlisted \union {t \in Turns : task[t].doing = "teardown" /\ Beside(t) # {}}

BoundaryInit ==
  /\ Init
  /\ cached = [s \in Session |-> NoAgent]
  /\ lru = {}
  /\ task = [t \in Thread |-> NoTask]
  /\ fate = [a \in Agent |-> "unbuilt"]

Do(t, step) == task' = [task EXCEPT ![t].doing = step]

Finish(t) == task' = [task EXCEPT ![t] = NoTask]

\* The keys of the cache.
Keys == {s \in Session : cached[s] # NoAgent}

\* The order once the keys gone are popped, and once s is used.
Without(gone) == {p \in lru : p[1] \notin gone /\ p[2] \notin gone}

MovedToEnd(s) == Without({s}) \union {<<r, s>> : r \in Keys \ {s}}

\* Mutant: the key keeps its place in the order.
UncacheKeyKept(s) ==
  /\ cached' = [cached EXCEPT ![s] = NoAgent]
  /\ UNCHANGED lru

Uncache(s) ==
  /\ cached' = [cached EXCEPT ![s] = NoAgent]
  /\ lru' = Without({s})

-----------------------------------------------------------------------------
(* chat/start is refused while active_stream_id is set or a row of the     *)
(* session is in ACTIVE_RUNS.  Stop and a worker's save clear the former;  *)
(* _active_run_stream_for_session passes over a row older than 180 s, and  *)
(* pops it if Stop or the worker's end took its stream out of STREAMS.     *)
(* Stop may find a turn anywhere, so any turn may lose its row.            *)
ReapRun(t) ==
  /\ t \in Turns \ Unlisted
  /\ task' = [task EXCEPT ![t].run = "reaped"]
  /\ UNCHANGED <<vars, cached, lru, fate>>

\* The new turn takes SESSION_WRITEBACK_OWNERS over from an older one.
AdmitTurn(t, s) ==
  LET old == {u \in Turns : task[u].sid = s}
  IN /\ task[t] = NoTask
     /\ \A u \in old : u \in Unlisted \/ task[u].doing = "teardown"
     /\ task' = [u \in Thread |->
          IF u = t THEN [NoTask EXCEPT !.doing = "admitted", !.sid = s]
          ELSE IF u \in old \intersect Unlisted THEN [task[u] EXCEPT !.run = "replaced"]
          ELSE task[u]]
     /\ UNCHANGED <<vars, cached, lru, fate>>

FindAgent(t) ==
  LET s == task[t].sid
  IN /\ task[t].doing = "admitted"
     /\ cached[s] # NoAgent
     /\ lru' = MovedToEnd(s)
     /\ task' = [task EXCEPT ![t].doing = "found", ![t].agent = cached[s]]
     /\ UNCHANGED <<vars, cached, fate>>

\* There is none, or its signature no longer fits.
BuildAgent(t) ==
  /\ task[t].doing \in {"admitted", "rebuild"}
  /\ \E a \in Agent :
       /\ fate[a] = "unbuilt"
       /\ fate' = [fate EXCEPT ![a] = "open"]
       /\ task' = [task EXCEPT ![t].doing = "built", ![t].agent = a]
  /\ UNCHANGED <<vars, cached, lru>>

\* _refresh_cached_agent_runtime failed: whatever is cached is closed.
RefreshFails(t) ==
  LET s == task[t].sid
  IN /\ task[t].doing = "found"
     /\ Uncache(s)
     /\ task' = [task EXCEPT ![t] =
          IF cached[s] = NoAgent
          THEN [@ EXCEPT !.doing = "rebuild", !.agent = NoAgent]
          ELSE [@ EXCEPT !.doing = "stale", !.agent = NoAgent,
                  !.victims = <<[sid |-> s, agent |-> cached[s], lent |-> FALSE]>>]]
     /\ UNCHANGED <<vars, fate>>

\* _register_agent_if_current; only a new agent enters the cache.
PublishAgent(t) ==
  LET s == task[t].sid
  IN /\ task[t].doing \in {"found", "built"}
     /\ t \notin Unlisted
     /\ RegisterAgent(s, task[t].agent)
     /\ IF task[t].doing = "built"
        THEN /\ cached' = [cached EXCEPT ![s] = task[t].agent]
             /\ lru' = MovedToEnd(s)
             /\ Do(t, "published")
        ELSE /\ UNCHANGED <<cached, lru>>
             /\ Do(t, "ready")
     /\ UNCHANGED fate

\* Stop came first.
CancelledUnpublished(t) ==
  /\ task[t].doing \in {"found", "built"}
  /\ task' = [task EXCEPT ![t].doing = "teardown", ![t].agent = NoAgent]
  /\ UNCHANGED <<vars, cached, lru, fate>>

-----------------------------------------------------------------------------
(* Whoever added an agent trims the cache.  The sessions with a run are    *)
(* noted first, under another lock than the cache's.                       *)
NoteRuns(t) ==
  /\ task[t].doing = "published"
  /\ task' = [task EXCEPT ![t].doing = "trimming", ![t].live = Live,
                          ![t].stage = "pop"]
  /\ UNCHANGED <<vars, cached, lru, fate>>

Evictable(live) == Keys \ live

\* How many keys the loop pops: those over the cap, if as many have no run.
Excess(live) ==
  LET over == Cardinality(Keys) - CacheMax
      idle == Cardinality(Evictable(live))
  IN IF over <= 0 THEN 0 ELSE IF over < idle THEN over ELSE idle

\* The keys the loop pops, one after the other: the oldest evictable one left.
Evicted(live) ==
  {out \in [1..Excess(live) -> Evictable(live)] :
     \A i \in 1..Excess(live) :
       LET left == Evictable(live) \ {out[j] : j \in 1..(i - 1)}
       IN out[i] \in left /\ \A s \in left \ {out[i]} : <<out[i], s>> \in lru}

PopVictims(t) ==
  /\ task[t].doing = "trimming"
  /\ task[t].stage = "pop"
  /\ \E out \in Evicted(task[t].live) :
       LET gone == {out[i] : i \in DOMAIN out}
       IN /\ cached' = [s \in Session |-> IF s \in gone THEN NoAgent ELSE cached[s]]
          /\ lru' = Without(gone)
          /\ task' = [task EXCEPT ![t] =
               [@ EXCEPT !.doing = IF gone = {} THEN "ready" ELSE "trimming",
                         !.live = {}, !.stage = "commit",
                         !.victims = [i \in DOMAIN out |->
                            [sid |-> out[i], agent |-> cached[out[i]],
                             lent |-> Lent(cached[out[i]])]]]]
  /\ UNCHANGED <<vars, fate>>

-----------------------------------------------------------------------------
(* _evict_session_agent: the handle goes first, then the runs are checked. *)
EvictAgent(t, s) ==
  /\ task[t] = NoTask
  /\ cached[s] # NoAgent
  /\ Uncache(s)
  /\ task' = [task EXCEPT ![t] =
       [NoTask EXCEPT !.doing = "popped", !.sid = s,
          !.victims = <<[sid |-> s, agent |-> cached[s], lent |-> FALSE]>>]]
  /\ UNCHANGED <<vars, fate>>

\* Mutant: the runs are not checked.
RunActiveIgnored(s) == FALSE

RunActive(s) == s \in Live

CheckRuns(t) ==
  /\ task[t].doing = "popped"
  /\ IF RunActive(task[t].sid) THEN Finish(t) ELSE Do(t, "evicting")
  /\ UNCHANGED <<vars, cached, lru, fate>>

-----------------------------------------------------------------------------
(* _close_evicted_agent_at_session_boundary, and the same sequence inlined *)
(* in _evict_session_agent.  Each call takes the lifecycle lock anew.      *)
Closing(t, stage) ==
  /\ task[t].doing \in {"trimming", "stale", "evicting"}
  /\ task[t].victims # << >>
  /\ task[t].stage = stage

CommitVictim(t) ==
  LET v == Head(task[t].victims)
  IN /\ Closing(t, "commit")
     /\ \/ BeginCommit(t, v.sid, v.agent)
        \/ WaitForCommit(t, v.sid, v.agent)
        \/ NothingToCommit(v.sid, v.agent, TRUE) /\ UNCHANGED vars
     /\ task' = [task EXCEPT ![t].stage = "committing"]
     /\ UNCHANGED <<cached, lru, fate>>

\* On to the next victim, or back to what the thread was doing.
Done(t) ==
  LET rest == Tail(task[t].victims)
      old == task[t].doing
  IN task' = [task EXCEPT ![t] =
       IF rest = << >> /\ old = "evicting" THEN NoTask
       ELSE [@ EXCEPT !.victims = rest, !.stage = "commit",
               !.doing = CASE rest # << >> -> old
                           [] rest = << >> /\ old = "stale" -> "rebuild"
                           [] OTHER -> "ready"]]

\* Mutant: the agent is closed whatever became of the commit.
StillOwesIgnored(s) == FALSE

StillOwes(s) == HasUncommittedWork(s)

CheckClean(t) ==
  /\ Closing(t, "committing")
  /\ call[t] = NoCall
  /\ IF StillOwes(Head(task[t].victims).sid) THEN Done(t)
     ELSE task' = [task EXCEPT ![t].stage = "unregister"]
  /\ UNCHANGED <<vars, cached, lru, fate>>

UnregisterVictim(t) ==
  /\ Closing(t, "unregister")
  /\ UnregisterAgent(Head(task[t].victims).sid)
  /\ task' = [task EXCEPT ![t].stage = "discard"]
  /\ UNCHANGED <<cached, lru, fate>>

DiscardVictim(t) ==
  LET s == Head(task[t].victims).sid
  IN /\ Closing(t, "discard")
     /\ \/ DiscardSession(s)
        \/ ~Discardable(s) /\ UNCHANGED vars
     /\ task' = [task EXCEPT ![t].stage = "close"]
     /\ UNCHANGED <<cached, lru, fate>>

\* The provider is shut down and the agent's session database closed.
CloseVictim(t) ==
  LET v == Head(task[t].victims)
  IN /\ Closing(t, "close")
     /\ fate' = [fate EXCEPT ![v.agent] =
          IF v.lent \/ t \in Overrun THEN "overrun"
          ELSE IF ~Lent(v.agent) THEN "closed"
          ELSE IF Holders(v.agent) \subseteq Overrun THEN "overrun"
          ELSE "torn"]
     /\ Done(t)
     /\ UNCHANGED <<vars, cached, lru>>

-----------------------------------------------------------------------------
(* The turn itself.                                                        *)
InvokeAgent(t) ==
  /\ task[t].doing = "ready"
  /\ t \notin Unlisted
  /\ Do(t, "running")
  /\ UNCHANGED <<vars, cached, lru, fate>>

\* _agent_can_invoke refuses: a stopped turn gives its agent up, and takes it
\* out of the cache unless a successor owns the session.
CancelledUninvoked(t) ==
  LET s == task[t].sid
  IN /\ task[t].doing = "ready"
     /\ IF cached[s] = task[t].agent /\ task[t].run # "replaced"
        THEN Uncache(s) /\ UnregisterAgent(s)
        ELSE UNCHANGED <<vars, cached, lru>>
     /\ task' = [task EXCEPT ![t].doing = "teardown", ![t].agent = NoAgent]
     /\ UNCHANGED fate

\* The answer was saved (the owner's profile home is recorded first).  The
\* worker's last look at cancel_event and the mark share the session's lock
\* with chat/start: Stop may come between them, a successor may not.
CompleteTurn(t) ==
  /\ task[t].doing = "running"
  /\ t \notin Unlisted
  /\ MarkTurnCompleted(task[t].sid, task[t].agent)
  /\ Do(t, "teardown")
  /\ UNCHANGED <<cached, lru, fate>>

FailTurn(t) ==
  /\ task[t].doing = "running"
  /\ Do(t, "teardown")
  /\ UNCHANGED <<vars, cached, lru, fate>>

EndTurn(t) ==
  /\ task[t].doing = "teardown"
  /\ Finish(t)
  /\ UNCHANGED <<vars, cached, lru, fate>>

(* "New chat": a background thread commits the session that is left, with  *)
(* the agent it finds cached, and does not wait for another commit.        *)
LeaveSession(t, s) ==
  /\ task[t] = NoTask
  /\ task' = [task EXCEPT ![t] =
       [NoTask EXCEPT !.doing = "leaving", !.sid = s, !.agent = cached[s]]]
  /\ UNCHANGED <<vars, cached, lru, fate>>

CommitLeft(t) ==
  LET s == task[t].sid
      a == task[t].agent
  IN /\ task[t].doing = "leaving"
     /\ \/ BeginCommit(t, s, a) /\ Do(t, "extracting")
        \/ NothingToCommit(s, a, FALSE) /\ UNCHANGED vars /\ Finish(t)
     /\ UNCHANGED <<cached, lru, fate>>

\* A commit under way goes on.
ContinueCommit(t) ==
  /\ CommitSucceeded(t) \/ CommitFailed(t) \/ ResumeCommit(t) \/ AbandonCommit(t)
  /\ task' = IF task[t].doing = "extracting" THEN [task EXCEPT ![t] = NoTask] ELSE task
  /\ UNCHANGED <<cached, lru, fate>>

TurnStep(t) ==
  \/ FindAgent(t) \/ BuildAgent(t) \/ RefreshFails(t) \/ PublishAgent(t)
  \/ CancelledUnpublished(t) \/ NoteRuns(t) \/ PopVictims(t) \/ InvokeAgent(t)
  \/ CancelledUninvoked(t) \/ CompleteTurn(t) \/ FailTurn(t) \/ EndTurn(t)
  \/ ReapRun(t)

CloseStep(t) ==
  \/ CheckRuns(t) \/ CommitVictim(t) \/ CheckClean(t) \/ UnregisterVictim(t)
  \/ DiscardVictim(t) \/ CloseVictim(t) \/ CommitLeft(t) \/ ContinueCommit(t)

BoundaryNext ==
  \E t \in Thread :
    \/ TurnStep(t) \/ CloseStep(t)
    \/ \E s \in Session : AdmitTurn(t, s) \/ EvictAgent(t, s) \/ LeaveSession(t, s)

BoundarySpec == BoundaryInit /\ [][BoundaryNext]_boundaryVars

-----------------------------------------------------------------------------
\* A strict order of the keys, each before or after every other.
Ordered(keys, order) ==
  /\ order \subseteq keys \X keys
  /\ \A r, s \in keys : r # s => <<r, s>> \in order \/ <<s, r>> \in order
  /\ \A p, q \in order :
       <<p[2], p[1]>> \notin order /\ (p[2] = q[1] => <<p[1], q[2]>> \in order)

(* Types, and the cache: it is ordered by use, every two of its keys and   *)
(* no others, and what it holds has not been closed, unless it was closed  *)
(* under its borrower.                                                     *)
BoundaryTypeOK ==
  /\ TypeOK
  /\ cached \in [Session -> Owner]
  /\ task \in [Thread -> Task]
  /\ fate \in [Agent -> {"unbuilt", "open", "closed", "torn", "overrun"}]
  /\ Ordered(Keys, lru)
  /\ \A s \in Keys : fate[cached[s]] \in {"open", "overrun"}

(* Deleting, clearing or truncating a session, or switching its model,     *)
(* never closes the agent of a running turn (_evict_session_agent drops    *)
(* the handle before it looks for runs, so no later run can find it).  Not *)
(* of every turn: a turn that outlived its row loses its agent to this     *)
(* look, which finds no row, and to its successor's failed refresh; and    *)
(* its own late refresh closes the agent of its successor (Overrun).       *)
EvictionSparesRuns == \A a \in Agent : fate[a] # "torn"

(* "so LRU eviction never closes an agent mid-run" (api/streaming.py).     *)
LRUSparesRuns == \A a \in Agent : fate[a] # "overrun"

(* Memory is owed to agents that can still extract it: an agent is closed  *)
(* only after every turn it owns was committed.  Agents that were closed   *)
(* under a running turn (LRUSparesRuns), or by or under an overrun one,    *)
(* are the exception: what still runs on them may yet complete.            *)
OwedToOpenAgents ==
  \A s \in Session : \A i \in 1..Len(segments[s]) :
    fate[segments[s][i].agent] \in {"open", "overrun"}

(* No extraction runs on an agent whose provider was shut down before it,  *)
(* or is shut down while it runs.                                          *)
ExtractsOnOpenAgents ==
  \A t \in Thread :
    call[t].step = "provider" => fate[call[t].agent] \in {"open", "overrun"}
=============================================================================
