----------------------- MODULE MemoryBoundariesProofs -----------------------
(***************************************************************************)
(* Proofs about MemoryBoundaries, for any number of threads, sessions and  *)
(* agents and any cap of the cache.  The callers keep the invariant of the *)
(* lifecycle because each of their steps is one of its steps, or none.     *)
(* What has to be added is who may hold an agent.  Every agent has one     *)
(* home, the session for which it is cached, lent, owed or about to be     *)
(* closed (OneHome), and of two turns of a session one is past its save or *)
(* has lost its row (OneTurn): so no turn that still counts can hold an    *)
(* agent that was popped from the cache of its session (Spares).  A popped *)
(* agent is out of the cache, open and in one list of victims (Popped,     *)
(* ClosedOnce); and once the session was found clean nothing is owed to it *)
(* (Cleared), up to its close, unless the cache noted that it was lent or  *)
(* an overrun worker closes it.                                            *)
(***************************************************************************)
EXTENDS MemoryBoundaries, SessionLifecycleProofs, FiniteSetTheorems

\* The agents that own turns the session owes.
Owners(s) == {segments[s][i].agent : i \in 1..Len(segments[s])}

InTurn(t) == task[t].doing \in TurnSteps

Victims(t) == {task[t].victims[i] : i \in 1..Len(task[t].victims)}

(* Whatever holds an agent holds it for one session.                       *)
Serves(home) ==
  /\ \A s \in Keys : home[cached[s]] = s
  /\ \A s \in Session : \A a \in Owners(s) : home[a] = s
  /\ \A t \in Thread : InTurn(t) /\ task[t].agent # NoAgent => home[task[t].agent] = task[t].sid
  /\ \A t \in Thread : \A v \in Victims(t) : home[v.agent] = v.sid

OneHome == \E home \in [Agent -> Session \union {NoSession}] : Serves(home)

\* A turn in the way of a successor, and the only such turn of its session.
Blocks(t) == InTurn(t) /\ task[t].run = "listed" /\ task[t].doing # "teardown"

OneTurn ==
  \A t, u \in Thread : Blocks(t) /\ Blocks(u) /\ task[t].sid = task[u].sid => t = u

\* The turns that hold agent a when thread t closes it: overrun ones, if any.
Spares(t, a) ==
  \A u \in Thread : InTurn(u) /\ task[u].agent = a =>
    \/ task[u].run # "listed"
    \/ task[u].doing = "teardown" /\ task[t].doing = "stale"

\* What a thread holds at each step of a turn or of a boundary.
StepOK(t) ==
  LET k == task[t]
  IN /\ k.doing # "nothing" => k.sid \in Session
     /\ k.doing \in {"found", "built", "published", "trimming", "ready", "running"} => k.agent # NoAgent
     /\ k.doing \in {"admitted", "stale", "rebuild"} => k.agent = NoAgent
     /\ k.doing \in {"nothing", "popped", "evicting", "leaving", "extracting"} => k.run = "listed"
     /\ k.victims # << >> => k.doing \in {"popped", "evicting", "stale", "trimming"}
     /\ k.doing \in {"popped", "evicting", "stale"} =>
          Len(k.victims) = 1 /\ k.victims[1].sid = k.sid
     /\ k.victims = << >> /\ k.doing # "trimming" => k.stage = "commit"
     /\ k.doing = "popped" => k.stage = "commit"
     /\ k.doing = "trimming" => (k.victims = << >> <=> k.stage = "pop")

\* An agent that is about to be published is nowhere else.
BuiltOK(t) ==
  task[t].doing = "built" =>
    /\ fate[task[t].agent] = "open"
    /\ \A s \in Session : cached[s] # task[t].agent /\ task[t].agent \notin Owners(s)
    /\ \A u \in Thread : \A v \in Victims(u) : v.agent # task[t].agent
    /\ \A u \in Thread : InTurn(u) /\ task[u].agent = task[t].agent => u = t

\* An agent that will be closed can no longer be found, and no turn that still
\* counts holds it, unless the cache lent it out when it popped it.
Popped(t) ==
  \A v \in Victims(t) :
    /\ fate[v.agent] = "open"
    /\ v.agent \notin {cached[s] : s \in Session}
    /\ v.lent \/ task[t].doing = "popped" \/ task[t].run # "listed" \/ Spares(t, v.agent)

\* It is closed once.
ClosedOnce ==
  \A t, u \in Thread : \A i \in 1..Len(task[t].victims), j \in 1..Len(task[u].victims) :
    task[t].victims[i].agent = task[u].victims[j].agent => t = u /\ i = j

\* From the check that nothing is owed to the close, no turn is owed to it.
Cleared(t) ==
  task[t].stage \in {"unregister", "discard", "close"} =>
    \/ task[t].victims[1].lent \/ task[t].run # "listed"
    \/ \A s \in Session : task[t].victims[1].agent \notin Owners(s)

\* Whoever may extract or run on an agent finds it open.
OpenOK ==
  /\ \A s \in Keys : fate[cached[s]] = "open"
  /\ \A s \in Session : \A a \in Owners(s) : a # NoAgent /\ fate[a] \in {"open", "overrun"}
  /\ \A t \in Thread :
       InTurn(t) /\ task[t].agent # NoAgent => fate[task[t].agent] \in {"open", "overrun"}
  /\ \A a \in Agent : fate[a] # "torn"

BInv ==
  /\ IInv /\ BoundaryTypeOK
  /\ OneTurn /\ OneHome /\ OpenOK /\ ClosedOnce /\ IsFiniteSet(Keys)
  /\ \A t \in Thread : StepOK(t) /\ BuiltOK(t) /\ Popped(t) /\ Cleared(t)

-----------------------------------------------------------------------------
(* What the calls of the lifecycle do to the owners.                       *)

\* Every step of a caller is a step of the lifecycle, or none.
LEMMA BoundaryStepsAllowed ==
  ASSUME BInv, [BoundaryNext]_boundaryVars
  PROVE  [Next]_vars
  <1>1. \A t \in Thread : task[t].sid \in Session \union {NoSession} /\ task[t].agent \in Owner
    BY DEF BInv, BoundaryTypeOK, Task
  <1>2. ASSUME NEW t \in Thread, task[t].victims # << >>
        PROVE  Head(task[t].victims).sid \in Session /\ Head(task[t].victims).agent \in Owner
    <2>1. task[t].victims \in Seq(Victim)
      BY DEF BInv, BoundaryTypeOK, Task
    <2>2. Head(task[t].victims) \in Victim
      BY <1>2, <2>1, HeadTailProperties
    <2> QED
      BY <2>2 DEF Victim, Owner
  <1>3. \A t \in Thread : task[t].doing # "nothing" => task[t].sid \in Session
    BY DEF BInv, StepOK
  <1>4. \A t \in Thread : task[t].doing \in {"found", "built"} => task[t].agent \in Agent
    BY <1>1 DEF BInv, StepOK, Owner
  <1>5. ASSUME NEW t \in Thread, CloseStep(t) PROVE [Next]_vars
    <2>1. CASE CommitVictim(t)
      BY <1>2, <2>1 DEF CommitVictim, Closing, Next
    <2>2. CASE UnregisterVictim(t)
      BY <1>2, <2>2 DEF UnregisterVictim, Closing, Next
    <2>3. CASE DiscardVictim(t)
      BY <1>2, <2>3 DEF DiscardVictim, Closing, Next
    <2>4. CASE CommitLeft(t)
      BY <1>1, <1>3, <2>4 DEF CommitLeft, Next
    <2>5. CASE ContinueCommit(t)
      BY <2>5 DEF ContinueCommit, Next
    <2> QED
      BY <1>5, <2>1, <2>2, <2>3, <2>4, <2>5 DEF CloseStep, CheckRuns, CheckClean, CloseVictim, Finish, Do
  <1>6. ASSUME NEW t \in Thread, TurnStep(t) PROVE [Next]_vars
    <2>1. CASE PublishAgent(t)
      BY <1>3, <1>4, <2>1 DEF PublishAgent, Next
    <2>2. CASE CancelledUninvoked(t)
      BY <1>3, <2>2 DEF CancelledUninvoked, Next
    <2>3. CASE CompleteTurn(t)
      BY <1>1, <1>3, <2>3 DEF CompleteTurn, Next
    <2> QED
      BY Zenon, <1>6, <2>1, <2>2, <2>3 DEF TurnStep, FindAgent, BuildAgent, RefreshFails,
         CancelledUnpublished, NoteRuns, PopVictims, InvokeAgent, FailTurn, EndTurn, ReapRun
  <1> QED
    BY Zenon, <1>5, <1>6 DEF BoundaryNext, AdmitTurn, EvictAgent, LeaveSession, boundaryVars

LEMMA OwnersOfSame ==
  ASSUME segments' = segments, NEW s \in Session
  PROVE  Owners(s)' = Owners(s)
  BY DEF Owners

\* A capture hands a segment to the agent that owns it: none is without owner.
LEMMA CaptureKeepsOwners ==
  ASSUME IInv, NEW t \in Thread, NEW s \in Session, NEW a \in Owner, Capture(t, s, a),
         \A r \in Session : NoAgent \notin Owners(r)
  PROVE  \A r \in Session : Owners(r)' = Owners(r)
  <1> DEFINE segs == segments[s]
  <1>1. PICK k \in Capturable(s, a) :
          segments' = [segments EXCEPT ![s][k].agent = EffectiveAgent(s, segs[k], a)]
    BY DEF Capture
  <1>2. k \in 1..Len(segs)
    BY <1>1 DEF Capturable, FirstUncommitted
  <1>3. segs \in Seq(Segment) /\ segs[k] \in Segment
    BY <1>2, ElementOfSeq DEF IInv, TypeOK
  <1>4. EffectiveAgent(s, segs[k], a) = segs[k].agent
    BY <1>2 DEF EffectiveAgent, Owners
  <1>5. [segs[k] EXCEPT !.agent = segs[k].agent] = segs[k]
    BY <1>3 DEF Segment
  <1>6. segments' = segments
    BY <1>1, <1>3, <1>4, <1>5 DEF IInv, TypeOK
  <1> QED
    BY <1>6, OwnersOfSame

LEMMA SuccessKeepsOwners ==
  ASSUME IInv, NEW t \in Thread, CommitSucceeded(t)
  PROVE  \A r \in Session : Owners(r)' \subseteq Owners(r)
  <1>0. PICK s \in Session : s = call[t].sid
    BY CommitSucceededPreserves
  <1> DEFINE segs == segments[s]
             rest == SubSeq(segs, 2, Len(segs))
  <1>1. segments' = [segments EXCEPT ![s] = rest] /\ InProvider(t, s)
    BY <1>0, CommitSucceededPreserves DEF CommitSucceeded, InProvider
  <1>2. segs # << >> /\ segs \in Seq(Segment)
    BY <1>1 DEF IInv, SingleFlight, TypeOK
  <1>3. Len(segs) \in Nat \ {0} /\ \A i \in 1..Len(segs) : segs[i] \in Segment
    BY <1>2, EmptySeq, ElementOfSeq
  <1>4. ASSUME NEW i \in 1..Len(rest)
        PROVE  i + 1 \in 1..Len(segs) /\ rest[i] = segs[i + 1]
    <2>1. \A j \in 2..Len(segs) : segs[j] \in Segment
      BY <1>3
    <2>2. /\ Len(rest) = IF 2 <= Len(segs) THEN Len(segs) - 2 + 1 ELSE 0
          /\ \A j \in 1..(Len(segs) - 2 + 1) : rest[j] = segs[2 + j - 1]
      BY <1>3, <2>1, SubSeqProperties
    <2> HIDE DEF rest, segs
    <2>3. i \in 1..(Len(segs) - 2 + 1) /\ i \in Nat
      BY <1>3, <2>2
    <2>4. 2 + i - 1 = i + 1
      BY <2>3
    <2> QED
      BY <1>3, <2>2, <2>3, <2>4
  <1>5. segments'[s] = rest /\ \A r \in Session \ {s} : segments'[r] = segments[r]
    BY <1>1 DEF IInv, TypeOK
  <1> HIDE DEF rest
  <1> QED
    BY SMTT(60), <1>4, <1>5 DEF Owners

LEMMA MarkAddsOwner ==
  ASSUME IInv, IInv', NEW s \in Session, NEW a \in Agent, MarkTurnCompleted(s, a)
  PROVE  /\ Owners(s)' \subseteq Owners(s) \union {a}
         /\ \A r \in Session \ {s} : Owners(r)' = Owners(r)
  <1> DEFINE turn == generation[s] + 1
             segs == segments[s]
             n == Len(segs)
             new == [start |-> turn, end |-> turn, agent |-> a]
             last == [segs[n] EXCEPT !.end = turn]
  <1>1. /\ segs \in Seq(Segment) /\ n \in Nat /\ generation[s] \in Nat /\ a # NoAgent
        /\ \A i \in 1..n : segs[i] \in Segment
    BY LifecycleAssumption, LenProperties, ElementOfSeq DEF IInv, TypeOK
  <1>2. segments' = [segments EXCEPT ![s] =
           IF SameRun(s, a) THEN [segs EXCEPT ![n] = last] ELSE Append(segs, new)]
    BY <1>1 DEF MarkTurnCompleted
  <1>3. \A r \in Session \ {s} : Owners(r)' = Owners(r)
    BY <1>2 DEF Owners, IInv, TypeOK
  <1>4. CASE SameRun(s, a)
    <2>1. n \in 1..n /\ segs[n] \in Segment /\ segs[n].agent = a
      BY <1>1, <1>4, EmptySeq DEF SameRun
    <2>2. last \in Segment /\ last.agent = a
      BY SMTT(60), <1>1, <2>1 DEF Segment
    <2>3. segments'[s] = [segs EXCEPT ![n] = last]
      BY <1>2, <1>4 DEF IInv, TypeOK
    <2>4. /\ Len(segments'[s]) = n
          /\ \A i \in 1..n : segments'[s][i] = IF i = n THEN last ELSE segs[i]
      <3> HIDE DEF last
      <3> QED
        BY <1>1, <2>1, <2>2, <2>3, ExceptSeq
    <2> HIDE DEF last
    <2> QED
      BY <1>3, <2>2, <2>4 DEF Owners
  <1>5. CASE ~SameRun(s, a)
    <2>1. new \in Segment /\ new.agent = a
      BY <1>1 DEF Segment, Owner
    <2>2. segments'[s] = Append(segs, new)
      BY <1>2, <1>5 DEF IInv, TypeOK
    <2>3. /\ Len(segments'[s]) = n + 1
          /\ \A i \in 1..n : segments'[s][i] = segs[i]
          /\ segments'[s][n + 1] = new
      <3> HIDE DEF new
      <3> QED
        BY <1>1, <2>1, <2>2, AppendProperties
    <2>4. \A i \in 1..(n + 1) : i = n + 1 \/ i \in 1..n
      BY <1>1
    <2> HIDE DEF new
    <2> QED
      BY <1>3, <2>1, <2>3, <2>4 DEF Owners
  <1> QED
    BY <1>4, <1>5

\* The clean session of a victim owes nothing to anybody.
LEMMA CleanHasNoOwners ==
  ASSUME IInv, NEW s \in Session, ~HasUncommittedWork(s)
  PROVE  Owners(s) = {}
  <1>1. /\ segments[s] \in Seq(Segment) /\ committed[s] \in Nat /\ generation[s] \in Nat
        /\ Tiles(segments[s], committed[s], generation[s])
    BY DEF IInv, TypeOK, SegmentsTile
  <1>2. segments[s] = << >>
    <2> SUFFICES ASSUME segments[s] # << >> PROVE FALSE
      OBVIOUS
    <2>1. committed[s] < segments[s][1].end /\ segments[s][1].end <= generation[s]
          /\ segments[s][1] \in Segment
      BY <1>1, FirstIsUncommitted
    <2> QED
      BY <1>1, <2>1 DEF Segment, HasUncommittedWork
  <1>3. Len(segments[s]) = 0
    BY <1>2, EmptySeq
  <1> QED
    BY <1>3 DEF Owners

-----------------------------------------------------------------------------
(* Steps of the tasks.                                                     *)
LEMMA VictimTypes ==
  ASSUME BoundaryTypeOK, NEW t \in Thread
  PROVE  /\ task[t] \in Task
         /\ task[t].victims \in Seq(Victim) /\ Len(task[t].victims) \in Nat
         /\ \A i \in 1..Len(task[t].victims) :
              task[t].victims[i] \in Victim /\ task[t].victims[i] \in Victims(t)
         /\ \A v \in Victims(t) :
              v \in Victim /\ v.sid \in Session /\ v.agent \in Agent /\ v.lent \in BOOLEAN
         /\ task[t].victims # << >> =>
              1 \in 1..Len(task[t].victims) /\ task[t].victims[1] = Head(task[t].victims)
         /\ task[t].victims = << >> => Len(task[t].victims) = 0
  <1>1. task[t] \in Task /\ task[t].victims \in Seq(Victim)
    BY DEF BoundaryTypeOK, Task
  <1>2. Len(task[t].victims) \in Nat /\ \A i \in 1..Len(task[t].victims) : task[t].victims[i] \in Victim
    BY <1>1, LenProperties, ElementOfSeq
  <1>3. /\ task[t].victims # << >> =>
             1 \in 1..Len(task[t].victims) /\ task[t].victims[1] = Head(task[t].victims)
        /\ task[t].victims = << >> => Len(task[t].victims) = 0
    BY <1>1, <1>2, EmptySeq, HeadTailProperties
  <1> QED
    BY <1>1, <1>2, <1>3 DEF Victims, Victim

-----------------------------------------------------------------------------
(* Whoever holds agent a after the step held it before, and counts no more *)
(* than it did.                                                            *)
HoldersStay(a) ==
  \A w \in Thread : InTurn(w)' /\ task'[w].agent = a =>
    /\ InTurn(w) /\ task[w].agent = a
    /\ task[w].run # "listed" => task'[w].run # "listed"
    /\ task[w].doing = "teardown" => task'[w].doing = "teardown"

LEMMA SparesKept ==
  ASSUME NEW u \in Thread, NEW a \in Agent, Spares(u, a), HoldersStay(a),
         task[u].doing = "stale" => task'[u].doing = "stale"
  PROVE  Spares(u, a)'
  BY DEF Spares, HoldersStay

(* The task of one thread moves on: it drops its agent or keeps it, drops  *)
(* its victims or keeps them, and nothing else changes but the lifecycle.  *)
Moves(t, k) ==
  /\ k.victims \in {task[t].victims, << >>}
  /\ k.doing \in TurnSteps =>
       /\ InTurn(t) /\ k.sid = task[t].sid /\ k.agent \in {task[t].agent, NoAgent}
       /\ k.run = "listed" => task[t].run = "listed"
       /\ task[t].doing = "teardown" => k.doing = "teardown"
  /\ k.doing = "built" => task[t].doing = "built" /\ k.agent = task[t].agent
  /\ k.victims # << >> =>
       /\ k.run = "listed" => task[t].run = "listed"
       /\ \/ k.doing = task[t].doing
          \/ task[t].doing = "popped" /\ \A v \in Victims(t) : Spares(t, v.agent)
  /\ k.stage \in {"unregister", "discard", "close"} =>
       /\ k.victims = task[t].victims /\ k.victims # << >>
       /\ \/ task[t].stage \in {"unregister", "discard", "close"}
          \/ \A s \in Session : k.victims[1].agent \notin Owners(s)

LEMMA TaskMoves ==
  ASSUME BInv, IInv', UNCHANGED <<cached, lru, fate>>,
         \A s \in Session : Owners(s)' \subseteq Owners(s),
         NEW t \in Thread, NEW k \in Task, task' = [task EXCEPT ![t] = k],
         Moves(t, k), StepOK(t)'
  PROVE  BInv'
  <1> USE DEF Moves
  <1>1. /\ task \in [Thread -> Task] /\ cached \in [Session -> Owner]
        /\ task' \in [Thread -> Task] /\ cached' = cached /\ fate' = fate
        /\ task'[t] = k /\ \A u \in Thread \ {t} : task'[u] = task[u]
    BY DEF BInv, BoundaryTypeOK
  <1>2. BoundaryTypeOK'
    BY <1>1 DEF BInv, BoundaryTypeOK, IInv, Keys
  <1>3. \A u \in Thread : InTurn(u)' =>
          InTurn(u) /\ task'[u].sid = task[u].sid /\ task'[u].agent \in {task[u].agent, NoAgent}
    BY <1>1 DEF InTurn
  <1>4. Len(<< >>) = 0
    BY EmptySeq
  <1>5. \A u \in Thread : Victims(u)' \subseteq Victims(u)
    BY <1>1, <1>4 DEF Victims
  <1>6. OneTurn'
    <2>1. \A u \in Thread : Blocks(u)' => Blocks(u) /\ task'[u].sid = task[u].sid
      BY <1>1, <1>3 DEF Blocks, InTurn
    <2> QED
      BY <2>1 DEF BInv, OneTurn
  <1>7. OneHome'
    BY <1>1, <1>3, <1>5 DEF BInv, OneHome, Serves, Keys
  <1>8. OpenOK'
    BY <1>1, <1>3 DEF BInv, OpenOK, Keys
  <1>9. ASSUME NEW u \in Thread PROVE StepOK(u)'
    BY <1>1 DEF BInv, StepOK
  <1>10. ASSUME NEW u \in Thread PROVE BuiltOK(u)'
    <2>1. task'[u].doing = "built" => task[u].doing = "built" /\ task'[u].agent = task[u].agent
      BY <1>1
    <2> QED
      <3>1. CASE task'[u].doing # "built"
        BY <3>1 DEF BuiltOK
      <3>2. CASE task'[u].doing = "built"
        <4>1. task[u].doing = "built" /\ task'[u].agent = task[u].agent /\ task[u].agent # NoAgent
          BY <2>1, <3>2 DEF BInv, StepOK
        <4>2. \A w \in Thread : InTurn(w)' /\ task'[w].agent = task[u].agent => w = u
          BY <1>3, <4>1 DEF BInv, BuiltOK
        <4> QED
          BY <1>1, <1>5, <4>1, <4>2 DEF BInv, BuiltOK
      <3> QED
        BY <3>1, <3>2
  <1>11. ASSUME NEW a \in Agent PROVE HoldersStay(a)
    <2> SUFFICES ASSUME NEW w \in Thread, InTurn(w)', task'[w].agent = a
                 PROVE  /\ InTurn(w) /\ task[w].agent = a
                        /\ task[w].run # "listed" => task'[w].run # "listed"
                        /\ task[w].doing = "teardown" => task'[w].doing = "teardown"
      BY DEF HoldersStay
    <2>1. InTurn(w) /\ task[w].agent = a
      BY <1>3, LifecycleAssumption
    <2>2. CASE w = t
      BY <1>1, <2>1, <2>2 DEF InTurn
    <2> QED
      BY <1>1, <2>1, <2>2
  <1>12. ASSUME NEW u \in Thread PROVE Popped(u)'
    <2>1. ASSUME NEW v \in Victims(u)'
          PROVE  /\ fate'[v.agent] = "open"
                 /\ v.agent \notin {cached'[s] : s \in Session}
                 /\ \/ v.lent \/ task'[u].doing = "popped" \/ task'[u].run # "listed"
                    \/ Spares(u, v.agent)'
      <3>1. v \in Victims(u) /\ v.agent \in Agent
        BY <1>5, VictimTypes DEF BInv
      <3>2. fate[v.agent] = "open" /\ v.agent \notin {cached[s] : s \in Session}
        BY <3>1 DEF BInv, Popped
      <3>3. u = t => k.victims # << >>
        BY <1>1, <1>4 DEF Victims
      <3>4. \/ v.lent \/ task'[u].doing = "popped" \/ task'[u].run # "listed"
            \/ Spares(u, v.agent) /\ (task[u].doing = "stale" => task'[u].doing = "stale")
        BY <1>1, <3>1, <3>3 DEF BInv, Popped
      <3> QED
        BY <1>1, <1>11, <3>1, <3>2, <3>4, SparesKept
    <2> QED
      BY <2>1 DEF Popped
  <1>13. ClosedOnce'
    BY <1>1, <1>4 DEF BInv, ClosedOnce
  <1>14. ASSUME NEW u \in Thread PROVE Cleared(u)'
    <2> SUFFICES ASSUME task'[u].stage \in {"unregister", "discard", "close"},
                        ~task'[u].victims[1].lent, task'[u].run = "listed", NEW s \in Session
                 PROVE  task'[u].victims[1].agent \notin Owners(s)'
      BY DEF Cleared
    <2>1. task'[u].victims = task[u].victims /\ task[u].run = "listed"
      BY <1>1
    <2>2. \/ task[u].stage \in {"unregister", "discard", "close"}
          \/ task[u].victims[1].agent \notin Owners(s)
      BY <1>1
    <2>3. task[u].victims[1].agent \notin Owners(s)
      BY <2>1, <2>2 DEF BInv, Cleared
    <2> QED
      BY <2>1, <2>3
  <1>15. IsFiniteSet(Keys)'
    BY <1>1 DEF BInv, Keys
  <1> QED
    BY <1>2, <1>6, <1>7, <1>8, <1>9, <1>10, <1>12, <1>13, <1>14, <1>15 DEF BInv

LEMMA TurnSession ==
  ASSUME BInv, NEW t \in Thread
  PROVE  /\ task[t] \in Task /\ cached \in [Session -> Owner]
         /\ task[t].doing # "nothing" => task[t].sid \in Session
         /\ NoTask \in Task /\ Live \subseteq Session
         /\ task \in [Thread -> Task]
  <1>1. task[t] \in Task /\ cached \in [Session -> Owner] /\ task \in [Thread -> Task]
    BY DEF BInv, BoundaryTypeOK
  <1>2. NoTask \in Task
    BY EmptySeq DEF NoTask, Task, Owner
  <1>3. \A u \in Thread : task[u].doing # "nothing" => task[u].sid \in Session
    BY DEF BInv, StepOK
  <1> QED
    BY <1>1, <1>2, <1>3 DEF Live, Turns, Unlisted, TurnSteps

\* A thread that has nothing left to do.
LEMMA NoTaskMoves == \A t : Moves(t, NoTask)
  BY DEF Moves, NoTask, TurnSteps

LEMMA CancelledUnpublishedPreserves ==
  ASSUME BInv, IInv', NEW t \in Thread, CancelledUnpublished(t)
  PROVE  BInv'
  <1> DEFINE k == [task[t] EXCEPT !.doing = "teardown", !.agent = NoAgent]
  <1>1. task[t] \in Task /\ task \in [Thread -> Task] /\ StepOK(t) /\ InTurn(t)
    BY TurnSession DEF BInv, CancelledUnpublished, InTurn, TurnSteps
  <1>2. task' = [task EXCEPT ![t] = k] /\ UNCHANGED <<vars, cached, lru, fate>>
    BY DEF CancelledUnpublished
  <1>3. k \in Task
    BY <1>1 DEF Task, TurnSteps, Owner
  <1>4. StepOK(t)'
    BY <1>1, <1>2 DEF StepOK, CancelledUnpublished, Task
  <1>5. \A s \in Session : Owners(s)' = Owners(s)
    BY <1>2, OwnersOfSame DEF vars
  <1>6. Moves(t, k)
    BY <1>1 DEF Moves, Task, CancelledUnpublished, StepOK
  <1> HIDE DEF k
  <1> QED
    BY <1>2, <1>3, <1>4, <1>5, <1>6, TaskMoves

LEMMA ReapRunPreserves ==
  ASSUME BInv, IInv', NEW t \in Thread, ReapRun(t)
  PROVE  BInv'
  <1> DEFINE k == [task[t] EXCEPT !.run = "reaped"]
  <1>1. task[t] \in Task /\ task \in [Thread -> Task] /\ StepOK(t) /\ InTurn(t)
    BY TurnSession DEF BInv, ReapRun, InTurn, Turns
  <1>2. task' = [task EXCEPT ![t] = k] /\ UNCHANGED <<vars, cached, lru, fate>>
    BY DEF ReapRun
  <1>3. k \in Task
    BY <1>1 DEF Task
  <1>4. StepOK(t)'
    BY <1>1, <1>2 DEF StepOK, InTurn, TurnSteps, Task
  <1>5. \A s \in Session : Owners(s)' = Owners(s)
    BY <1>2, OwnersOfSame DEF vars
  <1>6. Moves(t, k)
    BY <1>1 DEF Moves, Task, StepOK, InTurn, TurnSteps
  <1> HIDE DEF k
  <1> QED
    BY <1>2, <1>3, <1>4, <1>5, <1>6, TaskMoves

LEMMA NoteRunsPreserves ==
  ASSUME BInv, IInv', NEW t \in Thread, NoteRuns(t)
  PROVE  BInv'
  <1> DEFINE k == [task[t] EXCEPT !.doing = "trimming", !.live = Live, !.stage = "pop"]
  <1>1. task[t] \in Task /\ task \in [Thread -> Task] /\ StepOK(t) /\ InTurn(t)
    BY TurnSession DEF BInv, NoteRuns, InTurn, TurnSteps
  <1>2. task' = [task EXCEPT ![t] = k] /\ UNCHANGED <<vars, cached, lru, fate>>
    BY DEF NoteRuns
  <1>3. k \in Task
    BY <1>1, TurnSession DEF Task, TurnSteps
  <1>4. StepOK(t)'
    BY <1>1, <1>2 DEF StepOK, NoteRuns, Task
  <1>5. \A s \in Session : Owners(s)' = Owners(s)
    BY <1>2, OwnersOfSame DEF vars
  <1>6. Moves(t, k)
    BY <1>1 DEF Moves, Task, NoteRuns, StepOK
  <1> HIDE DEF k
  <1> QED
    BY <1>2, <1>3, <1>4, <1>5, <1>6, TaskMoves

LEMMA InvokeAgentPreserves ==
  ASSUME BInv, IInv', NEW t \in Thread, InvokeAgent(t)
  PROVE  BInv'
  <1> DEFINE k == [task[t] EXCEPT !.doing = "running"]
  <1>1. task[t] \in Task /\ task \in [Thread -> Task] /\ StepOK(t)
    BY TurnSession DEF BInv
  <1>2. task' = [task EXCEPT ![t] = k] /\ UNCHANGED <<vars, cached, lru, fate>>
    BY DEF InvokeAgent, Do, Finish, Closing
  <1>3. k \in Task
    BY <1>1, TurnSession DEF Task, TurnSteps, Owner
  <1>4. StepOK(t)'
    BY <1>1, <1>2, TurnSession DEF StepOK, InvokeAgent, Closing, Task
  <1>5. \A s \in Session : Owners(s)' = Owners(s)
    BY <1>2, OwnersOfSame DEF vars
  <1>6. Moves(t, k)
    BY <1>1 DEF Moves, Task, InvokeAgent, Closing, StepOK, InTurn, TurnSteps
  <1> HIDE DEF k
  <1> QED
    BY <1>2, <1>3, <1>4, <1>5, <1>6, TaskMoves

LEMMA FailTurnPreserves ==
  ASSUME BInv, IInv', NEW t \in Thread, FailTurn(t)
  PROVE  BInv'
  <1> DEFINE k == [task[t] EXCEPT !.doing = "teardown"]
  <1>1. task[t] \in Task /\ task \in [Thread -> Task] /\ StepOK(t)
    BY TurnSession DEF BInv
  <1>2. task' = [task EXCEPT ![t] = k] /\ UNCHANGED <<vars, cached, lru, fate>>
    BY DEF FailTurn, Do, Finish, Closing
  <1>3. k \in Task
    BY <1>1, TurnSession DEF Task, TurnSteps, Owner
  <1>4. StepOK(t)'
    BY <1>1, <1>2, TurnSession DEF StepOK, FailTurn, Closing, Task
  <1>5. \A s \in Session : Owners(s)' = Owners(s)
    BY <1>2, OwnersOfSame DEF vars
  <1>6. Moves(t, k)
    BY <1>1 DEF Moves, Task, FailTurn, Closing, StepOK, InTurn, TurnSteps
  <1> HIDE DEF k
  <1> QED
    BY <1>2, <1>3, <1>4, <1>5, <1>6, TaskMoves

LEMMA EndTurnPreserves ==
  ASSUME BInv, IInv', NEW t \in Thread, EndTurn(t)
  PROVE  BInv'
  <1> DEFINE k == NoTask
  <1>1. task[t] \in Task /\ task \in [Thread -> Task] /\ StepOK(t)
    BY TurnSession DEF BInv
  <1>2. task' = [task EXCEPT ![t] = k] /\ UNCHANGED <<vars, cached, lru, fate>>
    BY DEF EndTurn, Do, Finish, Closing
  <1>3. k \in Task
    BY <1>1, TurnSession DEF Task, TurnSteps, Owner
  <1>4. StepOK(t)'
    BY <1>1, <1>2, TurnSession DEF StepOK, EndTurn, NoTask
  <1>5. \A s \in Session : Owners(s)' = Owners(s)
    BY <1>2, OwnersOfSame DEF vars
  <1>6. Moves(t, k)
    BY <1>1 DEF Moves, EndTurn, NoTask, StepOK, InTurn, TurnSteps
  <1> HIDE DEF k
  <1> QED
    BY <1>2, <1>3, <1>4, <1>5, <1>6, TaskMoves

LEMMA LeaveSessionPreserves ==
  ASSUME BInv, IInv', NEW t \in Thread, NEW s \in Session, LeaveSession(t, s)
  PROVE  BInv'
  <1> DEFINE k == [NoTask EXCEPT !.doing = "leaving", !.sid = s, !.agent = cached[s]]
  <1>1. task[t] \in Task /\ task \in [Thread -> Task] /\ StepOK(t)
    BY TurnSession DEF BInv
  <1>2. task' = [task EXCEPT ![t] = k] /\ UNCHANGED <<vars, cached, lru, fate>>
    BY DEF LeaveSession, Do, Finish, Closing
  <1>3. k \in Task
    BY ZenonT(60), <1>1, TurnSession DEF Task, TurnSteps, Owner
  <1>4. StepOK(t)'
    BY <1>1, <1>2, TurnSession DEF StepOK, LeaveSession, NoTask
  <1>5. \A r \in Session : Owners(r)' = Owners(r)
    BY <1>2, OwnersOfSame DEF vars
  <1>6. Moves(t, k)
    BY DEF Moves, NoTask, TurnSteps
  <1> HIDE DEF k
  <1> QED
    BY <1>2, <1>3, <1>4, <1>5, <1>6, TaskMoves

LEMMA UnregisterVictimPreserves ==
  ASSUME BInv, IInv', NEW t \in Thread, UnregisterVictim(t)
  PROVE  BInv'
  <1> DEFINE k == [task[t] EXCEPT !.stage = "discard"]
  <1>1. task[t] \in Task /\ task \in [Thread -> Task] /\ StepOK(t)
    BY TurnSession DEF BInv
  <1>2. task' = [task EXCEPT ![t] = k] /\ UNCHANGED <<segments, cached, lru, fate>>
    BY DEF UnregisterVictim, UnregisterAgent, Do, Finish, Closing
  <1>3. k \in Task
    BY <1>1, TurnSession DEF Task, TurnSteps, Owner
  <1>4. StepOK(t)'
    BY <1>1, <1>2, TurnSession DEF StepOK, UnregisterVictim, Closing, Task
  <1>5. \A s \in Session : Owners(s)' = Owners(s)
    BY <1>2, OwnersOfSame
  <1>6. Moves(t, k)
    BY <1>1 DEF Moves, Task, UnregisterVictim, Closing, StepOK, InTurn, TurnSteps
  <1> HIDE DEF k
  <1> QED
    BY <1>2, <1>3, <1>4, <1>5, <1>6, TaskMoves

LEMMA DiscardVictimPreserves ==
  ASSUME BInv, IInv', NEW t \in Thread, DiscardVictim(t)
  PROVE  BInv'
  <1> DEFINE k == [task[t] EXCEPT !.stage = "close"]
  <1>1. task[t] \in Task /\ task \in [Thread -> Task] /\ StepOK(t)
    BY TurnSession DEF BInv
  <1>2. task' = [task EXCEPT ![t] = k] /\ UNCHANGED <<segments, cached, lru, fate>>
    BY DiscardKeepsSegments, VictimTypes DEF BInv, DiscardVictim, Closing, vars
  <1>3. k \in Task
    BY <1>1, TurnSession DEF Task, TurnSteps, Owner
  <1>4. StepOK(t)'
    BY <1>1, <1>2, TurnSession DEF StepOK, DiscardVictim, Closing, Task
  <1>5. \A s \in Session : Owners(s)' = Owners(s)
    BY <1>2, OwnersOfSame
  <1>6. Moves(t, k)
    BY <1>1 DEF Moves, Task, DiscardVictim, Closing, StepOK, InTurn, TurnSteps
  <1> HIDE DEF k
  <1> QED
    BY <1>2, <1>3, <1>4, <1>5, <1>6, TaskMoves

\* No row of the session: only a turn that lost its own holds the agent that
\* was popped there.
LEMMA CheckRunsPreserves ==
  ASSUME BInv, IInv', NEW t \in Thread, CheckRuns(t)
  PROVE  BInv'
  <1>1. /\ task[t] \in Task /\ task \in [Thread -> Task] /\ StepOK(t)
        /\ task[t].doing = "popped" /\ UNCHANGED <<vars, cached, lru, fate>>
    BY TurnSession DEF BInv, CheckRuns
  <1>2. \A s \in Session : Owners(s)' = Owners(s)
    BY <1>1, OwnersOfSame DEF vars
  <1>3. CASE RunActive(task[t].sid)
    <2>1. task' = [task EXCEPT ![t] = NoTask]
      BY <1>3 DEF CheckRuns, Finish
    <2>2. StepOK(t)'
      BY <1>1, <2>1, TurnSession DEF StepOK, NoTask
    <2> QED
      BY <1>1, <1>2, <2>1, <2>2, TurnSession, NoTaskMoves, TaskMoves
  <1>4. CASE ~RunActive(task[t].sid)
    <2> DEFINE k == [task[t] EXCEPT !.doing = "evicting"]
    <2>1. task' = [task EXCEPT ![t] = k]
      BY <1>4 DEF CheckRuns, Do
    <2>2. k \in Task
      BY <1>1 DEF Task
    <2>3. StepOK(t)'
      BY <1>1, <2>1 DEF StepOK, Task
    <2>4. \A v \in Victims(t) : Spares(t, v.agent)
      <3> SUFFICES ASSUME NEW v \in Victims(t), NEW u \in Thread, InTurn(u), task[u].agent = v.agent
                   PROVE  task[u].run # "listed"
        BY DEF Spares
      <3>1. v.agent \in Agent /\ v = task[t].victims[1] /\ v.sid = task[t].sid
        <4>1. Len(task[t].victims) = 1 /\ task[t].victims[1].sid = task[t].sid
          BY <1>1 DEF StepOK
        <4> QED
          BY <4>1, VictimTypes DEF BInv, Victims
      <3>2. task[u].sid = task[t].sid
        BY <3>1, LifecycleAssumption DEF BInv, OneHome, Serves
      <3> QED
        BY <1>4, <3>2 DEF RunActive, Live, InTurn, Turns, Unlisted
    <2>5. Moves(t, k)
      BY <1>1, <2>4 DEF Moves, Task, StepOK, TurnSteps
    <2> HIDE DEF k
    <2> QED
      BY <1>1, <1>2, <2>1, <2>2, <2>3, <2>5, TaskMoves
  <1> QED
    BY <1>3, <1>4

LEMMA CommitVictimPreserves ==
  ASSUME BInv, IInv', NEW t \in Thread, CommitVictim(t)
  PROVE  BInv'
  <1> DEFINE k == [task[t] EXCEPT !.stage = "committing"]
  <1>1. task[t] \in Task /\ task \in [Thread -> Task] /\ StepOK(t)
    BY TurnSession DEF BInv
  <1>2. task' = [task EXCEPT ![t] = k] /\ UNCHANGED <<cached, lru, fate>>
    BY DEF CommitVictim
  <1>3. k \in Task
    BY <1>1 DEF Task
  <1>4. StepOK(t)'
    BY <1>1, <1>2 DEF StepOK, CommitVictim, Closing, Task
  <1>5. \A s \in Session : Owners(s)' = Owners(s)
    <2> DEFINE v == Head(task[t].victims)
    <2>1. v.sid \in Session /\ v.agent \in Owner
      BY VictimTypes DEF BInv, CommitVictim, Closing, Owner
    <2>2. CASE BeginCommit(t, v.sid, v.agent)
      BY <2>1, <2>2, CaptureKeepsOwners DEF BInv, OpenOK, BeginCommit
    <2>3. CASE UNCHANGED segments
      BY <2>3, OwnersOfSame
    <2> QED
      BY <2>2, <2>3 DEF CommitVictim, WaitForCommit, vars
  <1>6. Moves(t, k)
    BY <1>1 DEF Moves, Task, CommitVictim, Closing, StepOK, InTurn, TurnSteps
  <1> HIDE DEF k
  <1> QED
    BY <1>2, <1>3, <1>4, <1>5, <1>6, TaskMoves

LEMMA ContinueCommitPreserves ==
  ASSUME BInv, IInv', NEW t \in Thread, ContinueCommit(t)
  PROVE  BInv'
  <1> DEFINE k == IF task[t].doing = "extracting" THEN NoTask ELSE task[t]
  <1>1. task[t] \in Task /\ task \in [Thread -> Task] /\ StepOK(t)
    BY TurnSession DEF BInv
  <1>2. task' = [task EXCEPT ![t] = k] /\ UNCHANGED <<cached, lru, fate>>
    BY <1>1 DEF ContinueCommit
  <1>3. k \in Task
    BY <1>1, TurnSession
  <1>4. StepOK(t)'
    BY <1>1, <1>2, TurnSession DEF StepOK, NoTask
  <1>5. \A s \in Session : Owners(s)' \subseteq Owners(s)
    <2>1. CASE CommitSucceeded(t)
      BY <2>1, SuccessKeepsOwners DEF BInv
    <2>2. CASE ResumeCommit(t)
      <3>1. call[t].sid \in Session /\ call[t].agent \in Owner
        BY <2>2 DEF ResumeCommit, BInv, IInv, TypeOK, Call, NoCall
      <3> QED
        BY <2>2, <3>1, CaptureKeepsOwners DEF BInv, OpenOK, ResumeCommit
    <2>3. CASE UNCHANGED segments
      BY <2>3, OwnersOfSame
    <2> QED
      BY <2>1, <2>2, <2>3 DEF ContinueCommit, CommitFailed, AbandonCommit
  <1>6. Moves(t, k)
    BY <1>1, NoTaskMoves DEF Moves, StepOK, InTurn
  <1> HIDE DEF k
  <1> QED
    BY <1>2, <1>3, <1>4, <1>5, <1>6, TaskMoves

LEMMA CommitLeftPreserves ==
  ASSUME BInv, IInv', NEW t \in Thread, CommitLeft(t)
  PROVE  BInv'
  <1>1. /\ task[t] \in Task /\ task \in [Thread -> Task] /\ StepOK(t)
        /\ task[t].doing = "leaving" /\ UNCHANGED <<cached, lru, fate>>
        /\ task[t].sid \in Session /\ task[t].agent \in Owner
    BY TurnSession DEF BInv, CommitLeft, Task
  <1>2. CASE UNCHANGED vars /\ Finish(t)
    <2>1. \A s \in Session : Owners(s)' = Owners(s)
      BY <1>2, OwnersOfSame DEF vars
    <2>2. task' = [task EXCEPT ![t] = NoTask]
      BY <1>2 DEF Finish
    <2>3. StepOK(t)'
      BY <1>1, <2>2, TurnSession DEF StepOK, NoTask
    <2> QED
      BY <1>1, <2>1, <2>2, <2>3, TurnSession, NoTaskMoves, TaskMoves
  <1>3. CASE BeginCommit(t, task[t].sid, task[t].agent) /\ Do(t, "extracting")
    <2> DEFINE k == [task[t] EXCEPT !.doing = "extracting"]
    <2>1. \A s \in Session : Owners(s)' = Owners(s)
      BY <1>1, <1>3, CaptureKeepsOwners DEF BInv, OpenOK, BeginCommit
    <2>2. task' = [task EXCEPT ![t] = k]
      BY <1>3 DEF Do
    <2>3. k \in Task
      BY <1>1 DEF Task
    <2>4. StepOK(t)'
      BY <1>1, <2>2 DEF StepOK, Task
    <2>5. Moves(t, k)
      BY <1>1 DEF Moves, Task, StepOK, TurnSteps
    <2> HIDE DEF k
    <2> QED
      BY <1>1, <2>1, <2>2, <2>3, <2>4, <2>5, TaskMoves
  <1> QED
    BY <1>2, <1>3 DEF CommitLeft

LEMMA TailOfVictims ==
  ASSUME NEW vs \in Seq(Victim), vs # << >>
  PROVE  /\ Tail(vs) \in Seq(Victim) /\ Len(vs) \in Nat \ {0}
         /\ Len(Tail(vs)) = Len(vs) - 1
         /\ \A i \in 1..Len(Tail(vs)) : i + 1 \in 1..Len(vs) /\ i # 0 /\ Tail(vs)[i] = vs[i + 1]
         /\ Head(vs) = vs[1]
         /\ Len(vs) = 1 => Tail(vs) = << >>
  <1>1. /\ Len(vs) \in Nat \ {0}
        /\ Tail(vs) \in Seq(Victim) /\ Len(Tail(vs)) = Len(vs) - 1
        /\ \A i \in 1..Len(Tail(vs)) : Tail(vs)[i] = vs[i + 1]
    BY LenProperties, EmptySeq, HeadTailProperties
  <1>2. Len(vs) = 1 => Tail(vs) = << >>
    <2>1. Len(vs) = 1 => Len(Tail(vs)) = 0
      BY <1>1
    <2> QED
      BY <1>1, <2>1, EmptySeq
  <1> QED
    BY <1>1, <1>2

LEMMA OwnersAreAgents ==
  ASSUME IInv, NEW s \in Session, NEW a \in Owners(s), a # NoAgent
  PROVE  a \in Agent
  <1>1. PICK i \in 1..Len(segments[s]) : a = segments[s][i].agent
    BY DEF Owners
  <1>2. segments[s] \in Seq(Segment)
    BY DEF IInv, TypeOK
  <1>3. segments[s][i] \in Segment
    BY <1>2, ElementOfSeq
  <1> QED
    BY <1>1, <1>3 DEF Segment, Owner

(* A thread is through with its first victim, which it closed or left.     *)
LEMMA DoneMoves ==
  ASSUME BInv, IInv', UNCHANGED <<cached, lru>>,
         \A s \in Session : Owners(s)' = Owners(s),
         NEW t \in Thread, Done(t),
         task[t].doing \in {"trimming", "stale", "evicting"}, task[t].victims # << >>,
         NEW x \in {"open", "overrun", "closed"},
         fate' = [fate EXCEPT ![Head(task[t].victims).agent] = x],
         x = "closed" =>
           /\ ~Lent(Head(task[t].victims).agent)
           /\ \A s \in Session : Head(task[t].victims).agent \notin Owners(s)
  PROVE  BInv'
  <1> DEFINE v == Head(task[t].victims)
             rest == Tail(task[t].victims)
             old == task[t].doing
             k == IF rest = << >> /\ old = "evicting" THEN NoTask
                  ELSE [task[t] EXCEPT !.victims = rest, !.stage = "commit",
                          !.doing = CASE rest # << >> -> old
                                      [] rest = << >> /\ old = "stale" -> "rebuild"
                                      [] OTHER -> "ready"]
  <1>1. /\ task[t] \in Task /\ task \in [Thread -> Task] /\ StepOK(t) /\ NoTask \in Task
        /\ task[t].sid \in Session
        /\ v \in Victims(t) /\ v.agent \in Agent /\ v = task[t].victims[1]
        /\ fate \in [Agent -> {"unbuilt", "open", "closed", "torn", "overrun"}]
    BY TurnSession, VictimTypes DEF BInv, BoundaryTypeOK
  <1>2. /\ rest \in Seq(Victim) /\ Len(task[t].victims) \in Nat \ {0}
        /\ Len(rest) = Len(task[t].victims) - 1
        /\ \A i \in 1..Len(rest) : i + 1 \in 1..Len(task[t].victims) /\ i # 0
                                    /\ rest[i] = task[t].victims[i + 1]
        /\ Len(task[t].victims) = 1 => rest = << >>
    BY TailOfVictims, VictimTypes DEF BInv
  <1>3. task' = [task EXCEPT ![t] = k]
    BY SMTT(60) DEF Done
  <1>4. /\ k \in Task
        /\ k.victims = rest
        /\ k.stage = "commit"
        /\ old = "evicting" => k.doing = "nothing" /\ k.run = "listed"
        /\ old = "stale" => k.doing = "rebuild" /\ rest = << >> /\ k.agent = NoAgent /\ k.sid = task[t].sid
        /\ old = "trimming" => k.agent = task[t].agent /\ k.sid = task[t].sid
                               /\ k.doing = IF rest = << >> THEN "ready" ELSE "trimming"
        /\ rest # << >> => k.doing = old
        /\ k.run = "listed" => task[t].run = "listed"
        /\ k.doing # "teardown"
    <2>1. old \in {"evicting", "stale"} => rest = << >>
      BY <1>1, <1>2 DEF StepOK
    <2>2. CASE old = "evicting"
      BY <1>1, <2>1, <2>2 DEF NoTask, StepOK
    <2>3. CASE old # "evicting" /\ rest # << >>
      BY ZenonT(60), <1>1, <1>2, <2>1, <2>3 DEF Task, StepOK
    <2>4. CASE old # "evicting" /\ rest = << >>
      BY ZenonT(60), <1>1, <1>2, <2>4 DEF Task, StepOK, TurnSteps
    <2> QED
      BY Zenon, <2>2, <2>3, <2>4
  <1> HIDE DEF k, rest
  <1>5. /\ task' \in [Thread -> Task] /\ task'[t] = k
        /\ \A u \in Thread \ {t} : task'[u] = task[u]
    BY <1>1, <1>3, <1>4
  <1>6. StepOK(t)'
    <2>1. CASE old = "evicting"
      BY SMTT(60), <1>1, <1>2, <1>4, <1>5, <2>1 DEF StepOK
    <2>2. CASE old = "stale"
      BY SMTT(60), <1>1, <1>2, <1>4, <1>5, <2>2 DEF StepOK
    <2>3. CASE old = "trimming"
      BY SMTT(60), <1>1, <1>2, <1>4, <1>5, <2>3 DEF StepOK
    <2> QED
      BY <1>1, <2>1, <2>2, <2>3
  <1>7. ASSUME NEW u \in Thread
        PROVE  /\ InTurn(u)' => InTurn(u) /\ task'[u].sid = task[u].sid /\ task'[u].agent = task[u].agent
               /\ task'[u].doing # "built" \/ (task[u].doing = "built" /\ task'[u].agent = task[u].agent)
    BY <1>1, <1>4, <1>5 DEF InTurn, TurnSteps, StepOK
  <1>8. ASSUME NEW u \in Thread, NEW w \in Victims(u)'
        PROVE  w \in Victims(u) /\ w.agent # v.agent
    <2>1. CASE u = t
      <3>1. PICK i \in 1..Len(rest) : w = rest[i]
        BY <1>4, <1>5, <2>1 DEF Victims
      <3>2. PICK j \in 1..Len(task[t].victims) : w = task[t].victims[j] /\ j # 1
        BY <1>2, <3>1
      <3>3. 1 \in 1..Len(task[t].victims)
        BY <1>2
      <3>4. w.agent # v.agent
        BY <1>1, <3>2, <3>3 DEF BInv, ClosedOnce
      <3> QED
        BY <2>1, <3>2, <3>4 DEF Victims
    <2>2. CASE u # t
      <3>1. PICK i \in 1..Len(task[u].victims) : w = task[u].victims[i]
        BY <1>5, <2>2 DEF Victims
      <3>2. 1 \in 1..Len(task[t].victims)
        BY <1>2
      <3> QED
        BY SMTT(60), <1>1, <2>2, <3>1, <3>2 DEF Victims, BInv, ClosedOnce
    <2> QED
      BY <2>1, <2>2
  <1>9. /\ \A s \in Keys : cached[s] # v.agent
        /\ fate' \in [Agent -> {"unbuilt", "open", "closed", "torn", "overrun"}]
        /\ \A a \in Agent \ {v.agent} : fate'[a] = fate[a]
        /\ fate'[v.agent] = x
    BY <1>1 DEF BInv, Popped, Keys
  <1>10. Keys' = Keys /\ \A s \in Keys : cached[s] \in Agent
    BY DEF Keys, BInv, BoundaryTypeOK, Owner
  <1>11. BoundaryTypeOK'
    BY <1>5, <1>9, <1>10 DEF BInv, BoundaryTypeOK, IInv, OpenOK
  <1>12. OneTurn'
    <2>1. \A u \in Thread : Blocks(u)' => Blocks(u) /\ task'[u].sid = task[u].sid
      BY <1>4, <1>5, <1>7 DEF Blocks
    <2> QED
      BY <2>1 DEF BInv, OneTurn
  <1>13. OneHome'
    BY <1>7, <1>8, <1>10 DEF BInv, OneHome, Serves
  <1>14. ClosedOnce'
    <2> SUFFICES ASSUME NEW u \in Thread, NEW w \in Thread,
                        NEW i \in 1..Len(task'[u].victims), NEW j \in 1..Len(task'[w].victims),
                        task'[u].victims[i].agent = task'[w].victims[j].agent
                 PROVE  u = w /\ i = j
      BY DEF ClosedOnce
    <2>1. i \in Int /\ j \in Int
      OBVIOUS
    <2>0. ASSUME NEW y \in Thread, NEW e \in 1..Len(task'[y].victims)
          PROVE  \E d \in 1..Len(task[y].victims) :
                   task'[y].victims[e] = task[y].victims[d] /\ d = IF y = t THEN e + 1 ELSE e
      <3>1. CASE y = t
        <4>1. task'[y].victims = rest
          BY <1>4, <1>5, <3>1
        <4> QED
          BY <1>2, <3>1, <4>1
      <3>2. CASE y # t
        BY <1>5, <3>2
      <3> QED
        BY <3>1, <3>2
    <2>2. PICK m \in 1..Len(task[u].victims) :
            task'[u].victims[i] = task[u].victims[m] /\ m = IF u = t THEN i + 1 ELSE i
      BY <2>0
    <2>3. PICK n \in 1..Len(task[w].victims) :
            task'[w].victims[j] = task[w].victims[n] /\ n = IF w = t THEN j + 1 ELSE j
      BY <2>0
    <2>4. u = w /\ m = n
      BY SMTT(60), <2>2, <2>3 DEF BInv, ClosedOnce
    <2> QED
      BY <2>1, <2>2, <2>3, <2>4
  <1>15. OpenOK'
    <2>1. \A s \in Keys' : fate'[cached'[s]] = "open"
      BY <1>9, <1>10 DEF BInv, OpenOK
    <2>2. ASSUME NEW s \in Session, NEW a \in Owners(s)'
          PROVE  a # NoAgent /\ fate'[a] \in {"open", "overrun"}
      <3>1. a \in Owners(s) /\ a # NoAgent /\ fate[a] \in {"open", "overrun"}
        BY DEF BInv, OpenOK
      <3>2. a \in Agent
        BY <3>1, OwnersAreAgents DEF BInv
      <3> QED
        BY <1>9, <3>1, <3>2
    <2>3. ASSUME NEW u \in Thread, InTurn(u)', task'[u].agent # NoAgent
          PROVE  fate'[task'[u].agent] \in {"open", "overrun"}
      <3>1. InTurn(u) /\ task'[u].agent = task[u].agent
        BY <1>7, <2>3
      <3>2. task[u].agent \in Agent /\ fate[task[u].agent] \in {"open", "overrun"}
        BY <2>3, <3>1, VictimTypes DEF BInv, OpenOK, Task, Owner
      <3>3. task[u].agent = v.agent => Lent(v.agent)
        BY <3>1 DEF Lent, Holders, Turns, InTurn
      <3> QED
        BY <1>9, <3>1, <3>2, <3>3
    <2>4. \A a \in Agent : fate'[a] # "torn"
      BY <1>9 DEF BInv, OpenOK
    <2> QED
      BY <2>1, <2>2, <2>3, <2>4 DEF OpenOK
  <1>16. ASSUME NEW u \in Thread PROVE StepOK(u)'
    BY <1>5, <1>6 DEF BInv, StepOK
  <1>17. ASSUME NEW u \in Thread PROVE BuiltOK(u)'
    <2>1. ASSUME task'[u].doing = "built"
          PROVE  /\ task[u].doing = "built" /\ task'[u].agent = task[u].agent
                 /\ task[u].agent \in Agent \ {v.agent}
      BY <1>1, <1>7, <2>1, VictimTypes DEF BInv, BuiltOK, StepOK, Task, Owner
    <2> QED
      BY <1>7, <1>8, <1>9, <2>1 DEF BInv, BuiltOK
  <1>18. \A a \in Agent : HoldersStay(a)
    BY <1>4, <1>5, <1>7 DEF HoldersStay
  <1>19. ASSUME NEW u \in Thread PROVE Popped(u)'
    <2>1. ASSUME NEW w \in Victims(u)'
          PROVE  /\ fate'[w.agent] = "open"
                 /\ w.agent \notin {cached'[s] : s \in Session}
                 /\ \/ w.lent \/ task'[u].doing = "popped" \/ task'[u].run # "listed"
                    \/ Spares(u, w.agent)'
      <3>1. w \in Victims(u) /\ w.agent # v.agent /\ w.agent \in Agent
        BY <1>8, VictimTypes DEF BInv
      <3>2. u = t => rest # << >>
        BY <1>4, <1>5, EmptySeq DEF Victims
      <3>3. task'[u].doing = task[u].doing /\ (task[u].run # "listed" => task'[u].run # "listed")
        BY <1>4, <1>5, <3>2
      <3>4. \/ w.lent \/ task[u].doing = "popped" \/ task[u].run # "listed"
            \/ Spares(u, w.agent)'
        BY <1>18, <3>1, <3>3, SparesKept DEF BInv, Popped
      <3> QED
        BY <1>9, <3>1, <3>3, <3>4 DEF BInv, Popped
    <2> QED
      BY <2>1 DEF Popped
  <1>20. ASSUME NEW u \in Thread PROVE Cleared(u)'
    BY <1>4, <1>5 DEF BInv, Cleared
  <1>21. IsFiniteSet(Keys)'
    BY <1>10 DEF BInv
  <1> QED
    BY <1>11, <1>12, <1>13, <1>14, <1>15, <1>16, <1>17, <1>19, <1>20, <1>21 DEF BInv

LEMMA CheckCleanPreserves ==
  ASSUME BInv, IInv', NEW t \in Thread, CheckClean(t)
  PROVE  BInv'
  <1> DEFINE v == Head(task[t].victims)
             k == [task[t] EXCEPT !.stage = "unregister"]
  <1>1. /\ task[t] \in Task /\ task \in [Thread -> Task] /\ StepOK(t)
        /\ UNCHANGED <<vars, cached, lru, fate>>
        /\ task[t].doing \in {"trimming", "stale", "evicting"} /\ task[t].victims # << >>
        /\ v = task[t].victims[1] /\ v \in Victims(t)
        /\ v.sid \in Session /\ v.agent \in Agent /\ fate \in [Agent -> {"unbuilt", "open", "closed", "torn", "overrun"}]
    BY TurnSession, VictimTypes DEF BInv, BoundaryTypeOK, CheckClean, Closing
  <1>2. \A s \in Session : Owners(s)' = Owners(s)
    BY <1>1, OwnersOfSame DEF vars
  <1>3. CASE StillOwes(v.sid)
    <2>1. Done(t)
      BY <1>3 DEF CheckClean
    <2>2. fate[v.agent] = "open"
      BY <1>1 DEF BInv, Popped
    <2>3. fate' = [fate EXCEPT ![v.agent] = "open"]
      BY <1>1, <2>2
    <2> QED
      BY <1>1, <1>2, <2>1, <2>3, DoneMoves
  <1>4. CASE ~StillOwes(v.sid)
    <2>1. task' = [task EXCEPT ![t] = k]
      BY <1>4 DEF CheckClean
    <2>2. k \in Task
      BY <1>1 DEF Task
    <2>3. StepOK(t)'
      BY <1>1, <2>1 DEF StepOK, CheckClean, Closing, Task
    <2>4. \A s \in Session : v.agent \notin Owners(s)
      <3>1. Owners(v.sid) = {}
        BY <1>1, <1>4, CleanHasNoOwners DEF StillOwes, BInv
      <3> QED
        BY <1>1, <3>1 DEF BInv, OneHome, Serves
    <2>5. Moves(t, k)
      BY <1>1, <2>4 DEF Moves, Task, StepOK, InTurn, TurnSteps
    <2> HIDE DEF k
    <2> QED
      BY <1>1, <1>2, <2>1, <2>2, <2>3, <2>5, TaskMoves
  <1> QED
    BY <1>3, <1>4

(* The close finds the agent without borrower, or with overrun ones, and   *)
(* nothing is owed to it, unless the cache had lent it out or the thread   *)
(* that closes it is overrun itself.                                       *)
LEMMA CloseVictimPreserves ==
  ASSUME BInv, IInv', NEW t \in Thread, CloseVictim(t)
  PROVE  BInv'
  <1> DEFINE v == Head(task[t].victims)
  <1>1. /\ UNCHANGED <<vars, cached, lru>> /\ Done(t)
        /\ task[t].doing \in {"trimming", "stale", "evicting"} /\ task[t].victims # << >>
        /\ task[t].stage = "close"
        /\ v = task[t].victims[1] /\ v \in Victims(t)
    BY VictimTypes DEF BInv, CloseVictim, Closing
  <1>2. \A s \in Session : Owners(s)' = Owners(s)
    BY <1>1, OwnersOfSame DEF vars
  <1>3. fate' = [fate EXCEPT ![v.agent] =
           IF v.lent \/ t \in Overrun THEN "overrun"
           ELSE IF ~Lent(v.agent) THEN "closed"
           ELSE IF Holders(v.agent) \subseteq Overrun THEN "overrun"
           ELSE "torn"]
    BY DEF CloseVictim
  <1> HIDE DEF v
  <1>4. CASE v.lent \/ t \in Overrun
    <2>1. fate' = [fate EXCEPT ![v.agent] = "overrun"]
      BY <1>3, <1>4
    <2> QED
      BY <1>1, <1>2, <2>1, DoneMoves DEF v
  <1>5. CASE ~v.lent /\ t \notin Overrun
    <2>1. task[t].run = "listed"
      BY <1>1, <1>5 DEF BInv, StepOK, Overrun, Unlisted, Turns, TurnSteps
    <2>2. Spares(t, v.agent)
      BY <1>1, <1>5, <2>1 DEF BInv, Popped
    <2>3. \A s \in Session : v.agent \notin Owners(s)
      BY <1>1, <1>5, <2>1 DEF BInv, Cleared
    <2>4. Holders(v.agent) \subseteq Overrun
      <3> SUFFICES ASSUME NEW u \in Thread, InTurn(u), task[u].agent = v.agent
                   PROVE  u \in Overrun
        BY DEF Holders, Turns, InTurn
      <3>1. CASE task[u].run # "listed"
        BY <3>1 DEF Overrun, Unlisted, Turns, InTurn
      <3>2. CASE task[u].doing = "teardown" /\ task[t].doing = "stale"
        <4>1. v.agent \in Agent /\ v.sid = task[t].sid
          BY <1>1, <3>2, VictimTypes DEF BInv, StepOK
        <4>2. task[u].sid = v.sid
          BY <1>1, <4>1, LifecycleAssumption DEF BInv, OneHome, Serves
        <4>3. t \in Beside(u)
          BY <3>2, <4>1, <4>2 DEF Beside, Turns, TurnSteps
        <4> QED
          BY <3>2, <4>3 DEF Overrun, Turns, InTurn
      <3> QED
        BY <2>2, <3>1, <3>2 DEF Spares
    <2>5. CASE Lent(v.agent)
      <3>1. fate' = [fate EXCEPT ![v.agent] = "overrun"]
        BY <1>3, <1>5, <2>4, <2>5
      <3> QED
        BY <1>1, <1>2, <3>1, DoneMoves DEF v
    <2>6. CASE ~Lent(v.agent)
      <3>1. fate' = [fate EXCEPT ![v.agent] = "closed"]
        BY <1>3, <1>5, <2>6
      <3> QED
        BY <1>1, <1>2, <2>3, <2>6, <3>1, DoneMoves DEF v
    <2> QED
      BY <2>5, <2>6
  <1> QED
    BY <1>4, <1>5

LEMMA AdmitTurnPreserves ==
  ASSUME BInv, IInv', NEW t \in Thread, NEW s \in Session, AdmitTurn(t, s)
  PROVE  BInv'
  <1> DEFINE k == [NoTask EXCEPT !.doing = "admitted", !.sid = s]
             old == {u \in Turns : task[u].sid = s}
             passed(u) == IF u \in old \intersect Unlisted
                          THEN [task[u] EXCEPT !.run = "replaced"] ELSE task[u]
  <1>1. /\ task \in [Thread -> Task] /\ NoTask \in Task /\ task[t] = NoTask
        /\ UNCHANGED <<vars, cached, lru, fate>>
        /\ \A u \in old : u \in Unlisted \/ task[u].doing = "teardown"
        /\ task' = [u \in Thread |-> IF u = t THEN k ELSE passed(u)]
    BY TurnSession DEF AdmitTurn
  <1>2. \A r \in Session : Owners(r)' = Owners(r)
    BY <1>1, OwnersOfSame DEF vars
  <1>3. /\ k \in Task /\ k.doing = "admitted" /\ k.sid = s /\ k.agent = NoAgent
        /\ k.victims = << >> /\ k.stage = "commit" /\ k.run = "listed"
    BY <1>1 DEF NoTask, Task, TurnSteps
  <1> HIDE DEF k
  \* The others keep their tasks, and their row or its absence.
  <1>4. /\ task' \in [Thread -> Task] /\ task'[t] = k
        /\ \A u \in Thread \ {t} :
             /\ task'[u].doing = task[u].doing /\ task'[u].sid = task[u].sid
             /\ task'[u].agent = task[u].agent /\ task'[u].victims = task[u].victims
             /\ task'[u].stage = task[u].stage
             /\ task'[u].run = "listed" <=> task[u].run = "listed"
    <2>1. ASSUME NEW u \in Thread
          PROVE  /\ passed(u) \in Task
                 /\ passed(u).doing = task[u].doing /\ passed(u).sid = task[u].sid
                 /\ passed(u).agent = task[u].agent /\ passed(u).victims = task[u].victims
                 /\ passed(u).stage = task[u].stage
                 /\ passed(u).run = "listed" <=> task[u].run = "listed"
      <3>1. task[u] \in Task
        BY <1>1
      <3>2. CASE u \in old \intersect Unlisted
        BY <3>1, <3>2 DEF Task, Unlisted
      <3>3. CASE u \notin old \intersect Unlisted
        BY <3>1, <3>3
      <3> QED
        BY <3>2, <3>3
    <2> HIDE DEF passed
    <2> QED
      BY <1>1, <1>3, <2>1
  <1>0. \A u \in Thread : Blocks(u)' => u = t \/ (Blocks(u) /\ task'[u].sid = task[u].sid /\ task[u].sid # s)
    BY <1>1, <1>4 DEF Blocks, InTurn, Turns, Unlisted
  <1> HIDE DEF passed
  <1>5. Keys' = Keys /\ cached' = cached /\ fate' = fate
    BY <1>1 DEF Keys
  <1>6. BoundaryTypeOK'
    BY <1>1, <1>4, <1>5 DEF BInv, BoundaryTypeOK, IInv
  <1>7. OneTurn'
    BY <1>0, <1>3, <1>4 DEF BInv, OneTurn
  <1>8. \A u \in Thread : Victims(u)' = Victims(u)
    BY <1>1, <1>3, <1>4 DEF Victims, NoTask
  <1>9. OneHome'
    BY <1>2, <1>3, <1>4, <1>5, <1>8 DEF BInv, OneHome, Serves, InTurn
  <1>10. OpenOK'
    BY <1>2, <1>3, <1>4, <1>5 DEF BInv, OpenOK, InTurn
  <1>11. ClosedOnce'
    BY <1>1, <1>3, <1>4 DEF BInv, ClosedOnce, NoTask
  <1>12. \A a \in Agent : HoldersStay(a)
    BY <1>3, <1>4, LifecycleAssumption DEF HoldersStay, InTurn
  <1>13. ASSUME NEW u \in Thread PROVE StepOK(u)' /\ BuiltOK(u)' /\ Cleared(u)'
    <2>1. StepOK(u)'
      BY <1>3, <1>4 DEF BInv, StepOK
    <2>2. BuiltOK(u)'
      BY <1>2, <1>3, <1>4, <1>5, <1>8 DEF BInv, BuiltOK, StepOK, InTurn
    <2>3. Cleared(u)'
      BY <1>2, <1>3, <1>4 DEF BInv, Cleared
    <2> QED
      BY <2>1, <2>2, <2>3
  <1>14. ASSUME NEW u \in Thread PROVE Popped(u)'
    <2>1. ASSUME NEW w \in Victims(u)'
          PROVE  /\ fate'[w.agent] = "open"
                 /\ w.agent \notin {cached'[r] : r \in Session}
                 /\ \/ w.lent \/ task'[u].doing = "popped" \/ task'[u].run # "listed"
                    \/ Spares(u, w.agent)'
      <3>1. w \in Victims(u) /\ w.agent \in Agent
        BY <1>8, VictimTypes DEF BInv
      <3>2. u # t
        BY <1>1, <3>1, VictimTypes DEF Victims, NoTask, BInv
      <3>3. \/ w.lent \/ task[u].doing = "popped" \/ task[u].run # "listed"
            \/ Spares(u, w.agent)'
        BY <1>4, <1>12, <3>1, <3>2, SparesKept DEF BInv, Popped
      <3> QED
        BY <1>4, <1>5, <3>1, <3>2, <3>3 DEF BInv, Popped
    <2> QED
      BY <2>1 DEF Popped
  <1>15. IsFiniteSet(Keys)'
    BY <1>5 DEF BInv
  <1> QED
    BY <1>6, <1>7, <1>9, <1>10, <1>11, <1>13, <1>14, <1>15 DEF BInv

-----------------------------------------------------------------------------
(* Steps of the cache.                                                     *)

\* Popping keys leaves the others in order; using one makes it the newest.
LEMMA WithoutOrdered ==
  ASSUME Ordered(Keys, lru), NEW gone
  PROVE  Ordered(Keys \ gone, Without(gone))
  <1>1. \A p \in lru : p[1] \in Keys /\ p[2] \in Keys /\ p = <<p[1], p[2]>>
    BY DEF Ordered
  <1> QED
    BY <1>1 DEF Ordered, Without

LEMMA MovedOrdered ==
  ASSUME Ordered(Keys, lru), NEW s
  PROVE  Ordered(Keys \union {s}, MovedToEnd(s))
  <1>1. \A p \in lru : p[1] \in Keys /\ p[2] \in Keys /\ p = <<p[1], p[2]>>
    BY DEF Ordered
  <1> QED
    BY <1>1 DEF Ordered, Without, MovedToEnd

LEMMA FindAgentPreserves ==
  ASSUME BInv, IInv', NEW t \in Thread, FindAgent(t)
  PROVE  BInv'
  <1> DEFINE s == task[t].sid
             a == cached[s]
             k == [task[t] EXCEPT !.doing = "found", !.agent = a]
  <1>1. /\ task[t] \in Task /\ task \in [Thread -> Task] /\ StepOK(t)
        /\ task[t].doing = "admitted" /\ s \in Session /\ a \in Agent
        /\ UNCHANGED <<vars, cached, fate>>
        /\ s \in Keys
    BY TurnSession DEF BInv, FindAgent, Owner, Keys
  <1>2. \A r \in Session : Owners(r)' = Owners(r)
    BY <1>1, OwnersOfSame DEF vars
  <1>3. /\ k \in Task /\ k.doing = "found" /\ k.sid = s /\ k.agent = a
        /\ k.victims = task[t].victims /\ k.victims = << >> /\ k.stage = "commit"
        /\ k.run = task[t].run
    BY <1>1 DEF Task, TurnSteps, StepOK, Owner
  <1>4. task' = [task EXCEPT ![t] = k]
    BY <1>1 DEF FindAgent, Task
  <1> HIDE DEF k
  <1>5. /\ task' \in [Thread -> Task] /\ task'[t] = k
        /\ \A u \in Thread \ {t} : task'[u] = task[u]
    BY <1>1, <1>3, <1>4
  <1>6. Keys' = Keys /\ cached' = cached /\ fate' = fate
    BY <1>1 DEF Keys
  <1>7. BoundaryTypeOK'
    <2>1. Ordered(Keys, lru')
      <3>1. Ordered(Keys \union {s}, MovedToEnd(s))
        BY MovedOrdered DEF BInv, BoundaryTypeOK
      <3>2. Keys \union {s} = Keys /\ lru' = MovedToEnd(s)
        BY <1>1 DEF FindAgent
      <3> QED
        BY <3>1, <3>2
    <2> QED
      BY <1>5, <1>6, <2>1 DEF BInv, BoundaryTypeOK, IInv
  <1>8. OneTurn'
    <2>1. \A u \in Thread : Blocks(u)' => Blocks(u) /\ task'[u].sid = task[u].sid
      BY <1>1, <1>3, <1>5 DEF Blocks, InTurn, TurnSteps
    <2> QED
      BY <2>1 DEF BInv, OneTurn
  <1>9. \A u \in Thread : Victims(u)' = Victims(u)
    <2>1. \A u \in Thread : task'[u].victims = task[u].victims
      BY <1>3, <1>5
    <2> QED
      BY <2>1 DEF Victims
  <1>10. OneHome'
    BY <1>1, <1>2, <1>3, <1>5, <1>6, <1>9 DEF BInv, OneHome, Serves, InTurn
  <1>11. OpenOK'
    BY <1>1, <1>2, <1>3, <1>5, <1>6 DEF BInv, OpenOK, InTurn
  <1>12. ClosedOnce'
    BY SMTT(60), <1>3, <1>5 DEF BInv, ClosedOnce
  <1>13. \A b \in Agent \ {a} : HoldersStay(b)
    BY <1>3, <1>5 DEF HoldersStay, InTurn
  <1>14. ASSUME NEW u \in Thread PROVE StepOK(u)' /\ BuiltOK(u)' /\ Cleared(u)'
    <2>1. StepOK(u)'
      BY <1>1, <1>3, <1>5, LifecycleAssumption DEF BInv, StepOK
    <2>2. BuiltOK(u)'
      BY <1>1, <1>2, <1>3, <1>5, <1>6, <1>9 DEF BInv, BuiltOK, InTurn
    <2>3. Cleared(u)'
      BY <1>2, <1>3, <1>5 DEF BInv, Cleared
    <2> QED
      BY <2>1, <2>2, <2>3
  <1>15. ASSUME NEW u \in Thread PROVE Popped(u)'
    <2>1. ASSUME NEW w \in Victims(u)'
          PROVE  /\ fate'[w.agent] = "open"
                 /\ w.agent \notin {cached'[r] : r \in Session}
                 /\ \/ w.lent \/ task'[u].doing = "popped" \/ task'[u].run # "listed"
                    \/ Spares(u, w.agent)'
      <3>1. w \in Victims(u) /\ w.agent \in Agent
        BY <1>9, VictimTypes DEF BInv
      <3>2. w.agent # a
        BY <1>1, <3>1 DEF BInv, Popped
      <3>3. /\ task[u].doing = "popped" => task'[u].doing = "popped"
            /\ task[u].doing = "stale" => task'[u].doing = "stale"
            /\ task'[u].run = task[u].run
        BY <1>1, <1>3, <1>5
      <3>4. \/ w.lent \/ task[u].doing = "popped" \/ task[u].run # "listed"
            \/ Spares(u, w.agent)'
        BY <1>13, <3>1, <3>2, <3>3, SparesKept DEF BInv, Popped
      <3> QED
        BY <1>6, <3>1, <3>3, <3>4 DEF BInv, Popped
    <2> QED
      BY <2>1 DEF Popped
  <1>16. IsFiniteSet(Keys)'
    BY <1>6 DEF BInv
  <1> QED
    BY <1>7, <1>8, <1>10, <1>11, <1>12, <1>14, <1>15, <1>16 DEF BInv

LEMMA BuildAgentPreserves ==
  ASSUME BInv, IInv', NEW t \in Thread, BuildAgent(t)
  PROVE  BInv'
  <1> DEFINE s == task[t].sid
  <1>0. PICK a \in Agent :
          /\ fate[a] = "unbuilt"
          /\ fate' = [fate EXCEPT ![a] = "open"]
          /\ task' = [task EXCEPT ![t].doing = "built", ![t].agent = a]
    BY DEF BuildAgent
  <1> DEFINE k == [task[t] EXCEPT !.doing = "built", !.agent = a]
  <1>1. /\ task[t] \in Task /\ task \in [Thread -> Task] /\ StepOK(t)
        /\ task[t].doing \in {"admitted", "rebuild"} /\ s \in Session
        /\ UNCHANGED <<vars, cached, lru>>
        /\ fate \in [Agent -> {"unbuilt", "open", "closed", "torn", "overrun"}]
        /\ \A b \in Agent : fate'[b] = IF b = a THEN "open" ELSE fate[b]
    BY <1>0, TurnSession DEF BInv, BoundaryTypeOK, BuildAgent
  <1>2. \A r \in Session : Owners(r)' = Owners(r)
    BY <1>1, OwnersOfSame DEF vars
  <1>3. /\ k \in Task /\ k.doing = "built" /\ k.sid = s /\ k.agent = a
        /\ k.victims = task[t].victims /\ k.victims = << >> /\ k.stage = "commit"
        /\ k.run = task[t].run
    BY <1>1 DEF Task, TurnSteps, StepOK, Owner
  <1>4. task' = [task EXCEPT ![t] = k]
    BY <1>0, <1>1 DEF Task
  <1> HIDE DEF k
  <1>5. /\ task' \in [Thread -> Task] /\ task'[t] = k
        /\ \A u \in Thread \ {t} : task'[u] = task[u]
    BY <1>1, <1>3, <1>4
  <1>6. Keys' = Keys /\ cached' = cached
    BY <1>1 DEF Keys
  \* Nobody refers to an agent that was not built.
  <1>7. /\ \A r \in Session : cached[r] # a /\ a \notin Owners(r)
        /\ \A u \in Thread : InTurn(u) => task[u].agent # a
        /\ \A u \in Thread : \A v \in Victims(u) : v.agent # a /\ v.agent \in Agent
    <2>1. a # NoAgent
      BY LifecycleAssumption
    <2>2. \A u \in Thread : \A v \in Victims(u) : v.agent # a /\ v.agent \in Agent
      BY <1>0, VictimTypes DEF BInv, Popped
    <2> QED
      BY <1>0, <2>1, <2>2 DEF BInv, OpenOK, Keys
  <1>8. \A u \in Thread : Victims(u)' = Victims(u)
    BY ZenonT(60), <1>3, <1>5 DEF Victims
  <1>9. \A r \in Session : cached[r] \in Owner /\ \A b \in Owners(r) : b \in Agent
    BY OwnersAreAgents DEF BInv, OpenOK, BoundaryTypeOK
  <1>10. \A u \in Thread : task[u].agent \in Owner
    BY DEF BInv, BoundaryTypeOK, Task
  <1>11. BoundaryTypeOK'
    BY <1>0, <1>1, <1>5, <1>6, <1>7 DEF BInv, BoundaryTypeOK, IInv, Keys, Owner
  <1>12. OneTurn'
    <2>1. \A u \in Thread : Blocks(u)' => Blocks(u) /\ task'[u].sid = task[u].sid
      BY <1>1, <1>3, <1>5 DEF Blocks, InTurn, TurnSteps
    <2> QED
      BY <2>1 DEF BInv, OneTurn
  <1>13. OneHome'
    <2>1. PICK home \in [Agent -> Session \union {NoSession}] : Serves(home)
      BY DEF BInv, OneHome
    <2>2. PICK moved \in [Agent -> Session \union {NoSession}] :
            moved[a] = s /\ \A b \in Agent \ {a} : moved[b] = home[b]
      <3>1. [home EXCEPT ![a] = s] \in [Agent -> Session \union {NoSession}]
        BY <1>1
      <3> QED
        BY <1>1, <3>1
    <2>3. \A r \in Keys' : moved[cached'[r]] = r
      BY <1>6, <1>7, <1>9, <2>1, <2>2 DEF Serves, Keys, Owner
    <2>4. \A r \in Session : \A b \in Owners(r)' : moved[b] = r
      BY <1>2, <1>7, <1>9, <2>1, <2>2 DEF Serves
    <2>5. \A u \in Thread : InTurn(u)' /\ task'[u].agent # NoAgent => moved[task'[u].agent] = task'[u].sid
      BY <1>3, <1>5, <1>7, <1>10, <2>1, <2>2 DEF Serves, InTurn, Owner
    <2>6. \A u \in Thread : \A v \in Victims(u)' : moved[v.agent] = v.sid
      BY <1>7, <1>8, <2>1, <2>2 DEF Serves
    <2>7. Serves(moved)'
      BY <2>3, <2>4, <2>5, <2>6 DEF Serves
    <2> QED
      BY <2>2, <2>7 DEF OneHome
  <1>14. OpenOK'
    BY <1>1, <1>2, <1>3, <1>5, <1>6, <1>7, <1>9, <1>10 DEF BInv, OpenOK, InTurn, Owner, Keys
  <1>15. ClosedOnce'
    BY SMTT(60), <1>3, <1>5 DEF BInv, ClosedOnce
  <1>16. \A b \in Agent \ {a} : HoldersStay(b)
    BY <1>3, <1>5 DEF HoldersStay, InTurn
  <1>17. ASSUME NEW u \in Thread PROVE StepOK(u)' /\ BuiltOK(u)' /\ Cleared(u)'
    <2>1. StepOK(u)'
      BY <1>1, <1>3, <1>5, LifecycleAssumption DEF BInv, StepOK
    <2>2. BuiltOK(u)'
      <3>1. CASE u = t
        BY <1>0, <1>1, <1>2, <1>3, <1>5, <1>6, <1>7, <1>8, <3>1 DEF BuiltOK, InTurn
      <3>2. CASE u # t
        <4> SUFFICES ASSUME task[u].doing = "built" PROVE BuiltOK(u)'
          BY <1>5, <3>2 DEF BuiltOK
        <4>1. task[u].agent \in Agent \ {a} /\ InTurn(u)
          BY <1>7, <1>10 DEF BInv, StepOK, Owner, InTurn, TurnSteps
        <4>2. \A w \in Thread : InTurn(w)' /\ task'[w].agent = task[u].agent => w = u
          BY <1>3, <1>5, <4>1 DEF BInv, BuiltOK, InTurn
        <4> QED
          BY <1>1, <1>2, <1>5, <1>6, <1>8, <3>2, <4>1, <4>2 DEF BInv, BuiltOK
      <3> QED
        BY <3>1, <3>2
    <2>3. Cleared(u)'
      BY <1>2, <1>3, <1>5 DEF BInv, Cleared
    <2> QED
      BY <2>1, <2>2, <2>3
  <1>18. ASSUME NEW u \in Thread PROVE Popped(u)'
    <2>1. ASSUME NEW w \in Victims(u)'
          PROVE  /\ fate'[w.agent] = "open"
                 /\ w.agent \notin {cached'[r] : r \in Session}
                 /\ \/ w.lent \/ task'[u].doing = "popped" \/ task'[u].run # "listed"
                    \/ Spares(u, w.agent)'
      <3>1. w \in Victims(u) /\ w.agent \in Agent \ {a}
        BY <1>7, <1>8
      <3>2. /\ task[u].doing = "popped" => task'[u].doing = "popped"
            /\ task[u].doing = "stale" => task'[u].doing = "stale"
            /\ task'[u].run = task[u].run
        BY <1>1, <1>3, <1>5
      <3>3. \/ w.lent \/ task[u].doing = "popped" \/ task[u].run # "listed"
            \/ Spares(u, w.agent)'
        BY <1>16, <3>1, <3>2, SparesKept DEF BInv, Popped
      <3> QED
        BY <1>1, <1>6, <3>1, <3>2, <3>3 DEF BInv, Popped
    <2> QED
      BY <2>1 DEF Popped
  <1>19. IsFiniteSet(Keys)'
    BY <1>6 DEF BInv
  <1> QED
    BY <1>11, <1>12, <1>13, <1>14, <1>15, <1>17, <1>18, <1>19 DEF BInv

(* A thread takes an agent out of the cache, to close it or to drop it.    *)
LEMMA UncacheMoves ==
  ASSUME BInv, IInv', UNCHANGED <<segments, fate>>,
         NEW t \in Thread, NEW s \in Session, NEW b \in Owner, b = cached[s], Uncache(s),
         NEW k \in Task, task' = [task EXCEPT ![t] = k],
         task[t].victims = << >>,
         \/ k.victims = << >>
         \/ /\ b # NoAgent
            /\ k.victims = <<[sid |-> s, agent |-> b, lent |-> FALSE]>>
            /\ k.doing = "popped" \/ k.run # "listed" \/ Spares(t, b)',
         k.doing \in TurnSteps =>
           /\ InTurn(t) /\ k.sid = task[t].sid /\ k.agent \in {task[t].agent, NoAgent}
           /\ k.run = task[t].run /\ task[t].doing # "teardown",
         k.doing # "built", k.stage = "commit",
         StepOK(t)'
  PROVE  BInv'
  <1> DEFINE v == [sid |-> s, agent |-> b, lent |-> FALSE]
  <1>1. /\ task' \in [Thread -> Task] /\ task'[t] = k /\ fate' = fate
        /\ \A u \in Thread \ {t} : task'[u] = task[u]
        /\ cached \in [Session -> Owner]
        /\ cached' = [cached EXCEPT ![s] = NoAgent]
        /\ fate \in [Agent -> {"unbuilt", "open", "closed", "torn", "overrun"}]
    BY DEF BInv, BoundaryTypeOK, Uncache
  <1>2. \A r \in Session : Owners(r)' = Owners(r)
    BY OwnersOfSame
  <1>3. Keys' = Keys \ {s} /\ \A r \in Keys' : cached'[r] = cached[r] /\ r # s
    BY <1>1 DEF Keys
  <1>4. \A u \in Thread : InTurn(u)' =>
          InTurn(u) /\ task'[u].sid = task[u].sid /\ task'[u].agent \in {task[u].agent, NoAgent}
    BY <1>1 DEF InTurn
  \* The agent popped is a victim now and in the cache no more.
  <1>5. ASSUME k.victims # << >>
        PROVE  /\ b \in Agent /\ s \in Keys /\ fate[b] = "open"
               /\ Len(k.victims) = 1 /\ k.victims[1] = v
               /\ \A r \in Session : cached'[r] # b
               /\ \A u \in Thread : \A i \in 1..Len(task[u].victims) :
                    task[u].victims[i].agent # b
    <2>1. b \in Agent /\ s \in Keys /\ fate[b] = "open"
      BY <1>1, <1>5 DEF Keys, Owner, BInv, OpenOK
    <2>2. Len(k.victims) = 1 /\ k.victims[1] = v
      <3>1. k.victims = <<v>>
        BY <1>5
      <3> HIDE DEF v
      <3> QED
        BY <3>1
    <2>3. \A r \in Session : cached'[r] # b
      BY <1>1, <2>1, LifecycleAssumption DEF BInv, OneHome, Serves, Keys
    <2>4. \A u \in Thread : \A i \in 1..Len(task[u].victims) : task[u].victims[i].agent # b
      BY <2>1, VictimTypes DEF BInv, Popped
    <2> QED
      BY <2>1, <2>2, <2>3, <2>4
  <1>6. Len(<< >>) = 0 /\ Len(task[t].victims) = 0
    BY EmptySeq
  <1>7. \A u \in Thread : \A w \in Victims(u)' : w \in Victims(u) \/ (u = t /\ w = v /\ k.victims # << >>)
    BY <1>1, <1>5, <1>6 DEF Victims
  <1>8. BoundaryTypeOK'
    <2>1. Ordered(Keys', lru')
      BY <1>3, WithoutOrdered DEF Uncache, BInv, BoundaryTypeOK
    <2>2. cached' \in [Session -> Owner]
      BY <1>1 DEF Owner
    <2> QED
      BY <1>1, <1>3, <2>1, <2>2 DEF BInv, BoundaryTypeOK, IInv
  <1>9. OneTurn'
    <2>1. \A u \in Thread : Blocks(u)' => Blocks(u) /\ task'[u].sid = task[u].sid
      BY <1>1, <1>4 DEF Blocks, InTurn
    <2> QED
      BY <2>1 DEF BInv, OneTurn
  <1>10. OneHome'
    <2>1. PICK home \in [Agent -> Session \union {NoSession}] : Serves(home)
      BY DEF BInv, OneHome
    <2>2. \A r \in Keys' : home[cached'[r]] = r
      BY <1>3, <2>1 DEF Serves
    <2>3. \A u \in Thread : \A w \in Victims(u)' : home[w.agent] = w.sid
      BY <1>5, <1>7, <2>1 DEF Serves
    <2>4. Serves(home)'
      BY <1>2, <1>4, <2>1, <2>2, <2>3 DEF Serves
    <2> QED
      BY <2>4 DEF OneHome
  <1>11. OpenOK'
    BY <1>1, <1>2, <1>3, <1>4 DEF BInv, OpenOK
  <1>12. ClosedOnce'
    BY <1>1, <1>5, <1>6 DEF BInv, ClosedOnce
  <1>13. \A a \in Agent : HoldersStay(a)
    BY <1>1, <1>4, LifecycleAssumption DEF HoldersStay, InTurn
  <1>14. ASSUME NEW u \in Thread PROVE StepOK(u)' /\ BuiltOK(u)' /\ Cleared(u)'
    <2>1. StepOK(u)'
      BY <1>1 DEF BInv, StepOK
    <2>2. BuiltOK(u)'
      <3>1. CASE u = t
        BY <1>1, <3>1 DEF BuiltOK
      <3>2. CASE u # t
        <4> SUFFICES ASSUME task[u].doing = "built"
                     PROVE  BuiltOK(u)'
          BY <1>1, <3>2 DEF BuiltOK
        <4>1. task[u].agent # b /\ task[u].agent # NoAgent
          BY DEF BInv, BuiltOK, StepOK
        <4>2. \A r \in Session : cached'[r] # task[u].agent
          BY <1>1, <4>1 DEF BInv, BuiltOK
        <4>3. \A x \in Thread : \A w \in Victims(x)' : w.agent # task[u].agent
          BY <1>7, <4>1 DEF BInv, BuiltOK
        <4>4. \A x \in Thread : InTurn(x)' /\ task'[x].agent = task[u].agent => x = u
          BY <1>4, <4>1 DEF BInv, BuiltOK
        <4> QED
          BY <1>1, <1>2, <3>2, <4>2, <4>3, <4>4 DEF BInv, BuiltOK
      <3> QED
        BY <3>1, <3>2
    <2>3. Cleared(u)'
      BY <1>1, <1>2 DEF BInv, Cleared
    <2> QED
      BY <2>1, <2>2, <2>3
  <1>15. ASSUME NEW u \in Thread PROVE Popped(u)'
    <2>1. ASSUME NEW w \in Victims(u)'
          PROVE  /\ fate'[w.agent] = "open"
                 /\ w.agent \notin {cached'[r] : r \in Session}
                 /\ \/ w.lent \/ task'[u].doing = "popped" \/ task'[u].run # "listed"
                    \/ Spares(u, w.agent)'
      <3>1. CASE w \in Victims(u)
        <4>1. w.agent \in Agent /\ u # t
          BY <1>6, <3>1, VictimTypes DEF BInv, Victims
        <4>2. \A r \in Session : cached'[r] # w.agent
          BY <1>1, <3>1, <4>1, LifecycleAssumption DEF BInv, Popped
        <4>3. \/ w.lent \/ task[u].doing = "popped" \/ task[u].run # "listed"
              \/ Spares(u, w.agent)'
          BY <1>1, <1>13, <3>1, <4>1, SparesKept DEF BInv, Popped
        <4> QED
          BY <1>1, <3>1, <4>1, <4>2, <4>3 DEF BInv, Popped
      <3>2. CASE u = t /\ w = v /\ k.victims # << >>
        <4>1. k.doing = "popped" \/ k.run # "listed" \/ Spares(t, b)'
          BY <3>2
        <4>2. w.agent = b /\ w.agent' = b /\ task'[u].doing = k.doing /\ task'[u].run = k.run
          BY <1>1, <3>2
        <4>3. fate'[b] = "open" /\ b \notin {cached'[r] : r \in Session}
          BY <1>1, <1>5, <3>2
        <4> QED
          BY <3>2, <4>1, <4>2, <4>3
      <3> QED
        BY <1>7, <3>1, <3>2
    <2> QED
      BY <2>1 DEF Popped
  <1>16. IsFiniteSet(Keys)'
    BY <1>3, FS_Subset DEF BInv
  <1> QED
    BY <1>8, <1>9, <1>10, <1>11, <1>12, <1>14, <1>15, <1>16 DEF BInv

LEMMA EvictAgentPreserves ==
  ASSUME BInv, IInv', NEW t \in Thread, NEW s \in Session, EvictAgent(t, s)
  PROVE  BInv'
  <1> DEFINE v == [sid |-> s, agent |-> cached[s], lent |-> FALSE]
             k == [NoTask EXCEPT !.doing = "popped", !.sid = s, !.victims = <<v>>]
  <1>1. /\ task \in [Thread -> Task] /\ NoTask \in Task /\ task[t] = NoTask
        /\ UNCHANGED <<vars, fate>> /\ cached[s] \in Agent /\ cached[s] # NoAgent
        /\ Uncache(s) /\ task' = [task EXCEPT ![t] = k]
    BY TurnSession DEF EvictAgent, Owner
  <1>2. v \in Victim /\ <<v>> \in Seq(Victim)
    BY <1>1 DEF Victim
  <1>3. /\ k.doing = "popped" /\ k.sid = s /\ k.victims = <<v>> /\ k.stage = "commit"
        /\ k.run = "listed" /\ k \in Task
    BY <1>1, <1>2 DEF NoTask, Task
  <1> HIDE DEF k
  <1>4. task'[t] = k /\ Len(<<v>>) = 1 /\ <<v>>[1].sid = s /\ <<v>> # << >>
    BY <1>1, <1>3
  <1>5. StepOK(t)'
    <2> HIDE DEF v
    <2> QED
      BY <1>3, <1>4 DEF StepOK
  <1>6. PICK b \in Owner : b = cached[s]
    BY <1>1 DEF Owner
  <1>7. b # NoAgent /\ v = [sid |-> s, agent |-> b, lent |-> FALSE]
    BY <1>1, <1>6
  <1>8. UNCHANGED <<segments, fate>> /\ task[t].victims = << >>
    BY <1>1 DEF vars, NoTask
  <1>9. ~(k.doing \in TurnSteps) /\ k.doing # "built"
    BY <1>3 DEF TurnSteps
  <1> HIDE DEF v
  <1>10. k.victims = <<[sid |-> s, agent |-> b, lent |-> FALSE]>>
    BY <1>3, <1>7
  <1> QED
    BY <1>1, <1>3, <1>5, <1>6, <1>7, <1>8, <1>9, <1>10, UncacheMoves

LEMMA RefreshFailsPreserves ==
  ASSUME BInv, IInv', NEW t \in Thread, RefreshFails(t)
  PROVE  BInv'
  <1> DEFINE s == task[t].sid
             v == [sid |-> s, agent |-> cached[s], lent |-> FALSE]
             k == IF cached[s] = NoAgent
                  THEN [task[t] EXCEPT !.doing = "rebuild", !.agent = NoAgent]
                  ELSE [task[t] EXCEPT !.doing = "stale", !.agent = NoAgent, !.victims = <<v>>]
  <1>1. /\ task[t] \in Task /\ task \in [Thread -> Task] /\ StepOK(t)
        /\ task[t].doing = "found" /\ s \in Session /\ cached[s] \in Owner
        /\ UNCHANGED <<vars, fate>> /\ Uncache(s) /\ task' = [task EXCEPT ![t] = k]
        /\ task[t].victims = << >> /\ task[t].stage = "commit" /\ InTurn(t)
    BY TurnSession DEF BInv, RefreshFails, StepOK, InTurn, TurnSteps
  <1>2. CASE cached[s] = NoAgent
    <2>1. /\ k \in Task /\ k.doing = "rebuild" /\ k.sid = s /\ k.agent = NoAgent
          /\ k.victims = << >> /\ k.stage = "commit" /\ k.run = task[t].run
      BY <1>1, <1>2 DEF Task, TurnSteps, Owner
    <2> HIDE DEF k
    <2>2. StepOK(t)'
      BY <1>1, <2>1 DEF StepOK
    <2> QED
      BY <1>1, <2>1, <2>2, UncacheMoves DEF vars
  <1>3. CASE cached[s] # NoAgent
    <2>1. v \in Victim /\ <<v>> \in Seq(Victim) /\ cached[s] \in Agent
      BY <1>1, <1>3 DEF Victim, Owner
    <2>2. /\ k \in Task /\ k.doing = "stale" /\ k.sid = s /\ k.agent = NoAgent
          /\ k.victims = <<v>> /\ k.stage = "commit" /\ k.run = task[t].run
      BY <1>1, <1>3, <2>1 DEF Task, TurnSteps, Owner
    <2> HIDE DEF k
    <2>0. Len(<<v>>) = 1 /\ <<v>>[1].sid = s
      <3> HIDE DEF v
      <3>1. Len(<<v>>) = 1 /\ <<v>>[1] = v
        OBVIOUS
      <3> QED
        BY <3>1 DEF v
    <2>3. StepOK(t)'
      BY <1>1, <2>0, <2>2 DEF StepOK
    <2>4. task'[t] = k /\ \A u \in Thread \ {t} : task'[u] = task[u]
      BY <1>1, <2>2
    <2>5. PICK b \in Owner : b = cached[s]
      BY <1>1
    <2>6. k.run # "listed" \/ Spares(t, b)'
      <3> SUFFICES ASSUME k.run = "listed", NEW u \in Thread, InTurn(u)', task'[u].agent = b
                   PROVE  task'[u].run # "listed" \/ task'[u].doing = "teardown"
        BY <1>1, <2>2, <2>4 DEF Spares
      <3>1. u # t
        BY <1>3, <2>2, <2>4, <2>5
      <3>2. InTurn(u) /\ task'[u] = task[u]
        BY <2>4, <3>1 DEF InTurn
      <3>3. task[u].agent = cached[s] => task[u].sid = s
        BY <1>1, <1>3, <2>1, <3>2 DEF BInv, OneHome, Serves, Keys
      <3>4. Blocks(t)
        BY <1>1, <2>2 DEF Blocks
      <3> QED
        BY <1>1, <2>5, <3>1, <3>2, <3>3, <3>4 DEF BInv, OneTurn, Blocks
    <2> QED
      <3>2. k.victims = <<[sid |-> s, agent |-> b, lent |-> FALSE]>>
        BY <2>2, <2>5
      <3> HIDE DEF v
      <3> QED
        BY <1>1, <1>3, <2>2, <2>3, <2>5, <2>6, <3>2, UncacheMoves DEF vars
  <1> QED
    BY <1>2, <1>3

LEMMA CancelledUninvokedPreserves ==
  ASSUME BInv, IInv', NEW t \in Thread, CancelledUninvoked(t)
  PROVE  BInv'
  <1> DEFINE s == task[t].sid
             k == [task[t] EXCEPT !.doing = "teardown", !.agent = NoAgent]
  <1>1. /\ task[t] \in Task /\ task \in [Thread -> Task] /\ StepOK(t)
        /\ task[t].doing = "ready" /\ s \in Session
        /\ task[t].victims = << >> /\ task[t].stage = "commit" /\ InTurn(t)
        /\ UNCHANGED fate /\ task' = [task EXCEPT ![t] = k]
    BY TurnSession DEF BInv, CancelledUninvoked, StepOK, InTurn, TurnSteps, Task
  <1>2. /\ k \in Task /\ k.doing = "teardown" /\ k.sid = s /\ k.agent = NoAgent
        /\ k.victims = << >> /\ k.stage = "commit" /\ k.run = task[t].run
    BY <1>1 DEF Task, TurnSteps, Owner
  <1> HIDE DEF k
  <1>3. StepOK(t)'
    BY <1>1, <1>2 DEF StepOK
  <1>4. CASE Uncache(s) /\ UnregisterAgent(s)
    <2>1. PICK b \in Owner : b = cached[s]
      BY <1>1 DEF BInv, BoundaryTypeOK
    <2>2. UNCHANGED <<segments, fate>>
      BY <1>1, <1>4 DEF UnregisterAgent
    <2> QED
      BY <1>1, <1>2, <1>3, <1>4, <2>1, <2>2, UncacheMoves
  <1>5. CASE UNCHANGED <<vars, cached, lru>>
    <2>1. \A r \in Session : Owners(r)' = Owners(r)
      BY <1>5, OwnersOfSame DEF vars
    <2>2. Moves(t, k)
      BY <1>1, <1>2 DEF Moves
    <2> QED
      BY <1>1, <1>2, <1>3, <1>5, <2>1, <2>2, TaskMoves
  <1> QED
    BY <1>4, <1>5 DEF CancelledUninvoked

\* A new agent enters the cache, which it is not in yet.
LEMMA PublishAgentPreserves ==
  ASSUME BInv, IInv', NEW t \in Thread, PublishAgent(t)
  PROVE  BInv'
  <1>1. /\ task[t] \in Task /\ task \in [Thread -> Task] /\ StepOK(t)
        /\ task[t].doing \in {"found", "built"} /\ task[t].sid \in Session
        /\ task[t].agent \in Agent
        /\ task[t].victims = << >> /\ task[t].stage = "commit"
        /\ UNCHANGED <<segments, fate>>
    BY TurnSession DEF BInv, PublishAgent, RegisterAgent, StepOK, Task, Owner
  <1>2. \A r \in Session : Owners(r)' = Owners(r)
    BY <1>1, OwnersOfSame
  <1>3. CASE task[t].doing = "found"
    <2> DEFINE k == [task[t] EXCEPT !.doing = "ready"]
    <2>1. task' = [task EXCEPT ![t] = k] /\ UNCHANGED <<cached, lru, fate>>
      BY <1>1, <1>3 DEF PublishAgent, Do
    <2>2. k \in Task
      BY <1>1 DEF Task, TurnSteps
    <2>3. StepOK(t)'
      BY <1>1, <2>1 DEF StepOK, Task
    <2>4. Moves(t, k)
      BY <1>1, <1>3 DEF Moves, Task, InTurn, TurnSteps
    <2> HIDE DEF k
    <2> QED
      BY <1>2, <2>1, <2>2, <2>3, <2>4, TaskMoves
  <1>4. CASE task[t].doing = "built"
    <2>1. PICK s \in Session, a \in Agent : s = task[t].sid /\ a = task[t].agent
      BY <1>1
    <2> DEFINE k == [task[t] EXCEPT !.doing = "published"]
    <2>2. /\ k \in Task /\ k.doing = "published" /\ k.sid = s /\ k.agent = a
          /\ k.victims = task[t].victims /\ k.victims = << >> /\ k.stage = "commit"
          /\ k.run = task[t].run
      BY <1>1, <2>1 DEF Task, TurnSteps
    <2>3. /\ task' = [task EXCEPT ![t] = k] /\ lru' = MovedToEnd(s)
          /\ cached' = [cached EXCEPT ![s] = a]
      BY <1>1, <1>4, <2>1 DEF PublishAgent, Do
    <2> HIDE DEF k
    <2>4. /\ task' \in [Thread -> Task] /\ task'[t] = k
          /\ \A u \in Thread \ {t} : task'[u] = task[u]
      BY <1>1, <2>2, <2>3
    <2>5. /\ cached' \in [Session -> Owner] /\ cached'[s] = a /\ fate' = fate
          /\ \A r \in Session \ {s} : cached'[r] = cached[r]
          /\ Keys' = Keys \union {s} /\ Keys \subseteq Session
          /\ \A r \in Keys' : r = s \/ (r \in Keys /\ cached'[r] = cached[r])
      BY <1>1, <2>3, LifecycleAssumption DEF BInv, BoundaryTypeOK, Owner, Keys
    <2>6. /\ fate[a] = "open"
          /\ \A u \in Thread : \A v \in Victims(u) : v.agent # a
          /\ \A u \in Thread : InTurn(u) /\ task[u].agent = a => u = t
      BY <1>4, <2>1 DEF BInv, BuiltOK
    <2>7. a # NoAgent /\ InTurn(t)
      BY <1>4, LifecycleAssumption DEF InTurn, TurnSteps
    <2>8. \A u \in Thread : Victims(u)' = Victims(u)
      BY <2>2, <2>4 DEF Victims
    <2>9. ASSUME NEW u \in Thread
          PROVE  /\ InTurn(u)' => InTurn(u) /\ task'[u].sid = task[u].sid /\ task'[u].agent = task[u].agent
                 /\ task'[u].doing = "built" => task[u].doing = "built" /\ u # t
                 /\ task'[u].run = task[u].run
                 /\ task'[u].doing = task[u].doing \/ (u = t /\ task'[u].doing = "published")
      BY <1>4, <2>1, <2>2, <2>4, <2>7 DEF InTurn
    <2>10. BoundaryTypeOK'
      <3>1. Ordered(Keys', lru')
        BY <2>3, <2>5, MovedOrdered DEF BInv, BoundaryTypeOK
      <3>2. \A r \in Keys' : fate'[cached'[r]] \in {"open", "overrun"}
        BY <2>5, <2>6 DEF BInv, BoundaryTypeOK
      <3> QED
        BY <2>4, <2>5, <3>1, <3>2 DEF BInv, BoundaryTypeOK, IInv
    <2>11. OneTurn'
      <3>1. \A u \in Thread : Blocks(u)' => Blocks(u) /\ task'[u].sid = task[u].sid
        BY <1>4, <2>9 DEF Blocks
      <3> QED
        BY <3>1 DEF BInv, OneTurn
    <2>12. OneHome'
      <3>1. PICK home \in [Agent -> Session \union {NoSession}] : Serves(home)
        BY DEF BInv, OneHome
      <3>2. home[a] = s
        BY <2>1, <2>7, <3>1 DEF Serves
      <3>3. Serves(home)'
        BY <1>2, <2>5, <2>8, <2>9, <3>1, <3>2 DEF Serves
      <3> QED
        BY <3>3 DEF OneHome
    <2>13. OpenOK'
      BY <1>2, <2>5, <2>6, <2>9 DEF BInv, OpenOK
    <2>14. ClosedOnce'
      BY SMTT(60), <2>2, <2>4 DEF BInv, ClosedOnce
    <2>15. \A b \in Agent : HoldersStay(b)
      BY <1>4, <2>9 DEF HoldersStay
    <2>16. ASSUME NEW u \in Thread PROVE StepOK(u)' /\ BuiltOK(u)' /\ Cleared(u)'
      <3>1. StepOK(u)'
        BY <2>2, <2>4, <2>7 DEF BInv, StepOK
      <3>2. BuiltOK(u)'
        <4> SUFFICES ASSUME task'[u].doing = "built" PROVE BuiltOK(u)'
          BY DEF BuiltOK
        <4>1. task[u].doing = "built" /\ u # t /\ task'[u] = task[u] /\ InTurn(u)
          BY <2>4, <2>9 DEF InTurn, TurnSteps
        <4>2. task[u].agent # a
          BY <2>6, <4>1
        <4>3. /\ fate[task[u].agent] = "open"
              /\ \A r \in Session : cached'[r] # task[u].agent /\ task[u].agent \notin Owners(r)'
              /\ \A x \in Thread : \A v \in Victims(x)' : v.agent # task[u].agent
          BY <1>2, <2>5, <2>8, <4>1, <4>2 DEF BInv, BuiltOK
        <4>4. \A x \in Thread : InTurn(x)' /\ task'[x].agent = task[u].agent => x = u
          BY <2>9, <4>1 DEF BInv, BuiltOK
        <4> QED
          BY <2>5, <4>1, <4>3, <4>4 DEF BuiltOK
      <3>3. Cleared(u)'
        BY <1>2, <2>2, <2>4 DEF BInv, Cleared
      <3> QED
        BY <3>1, <3>2, <3>3
    <2>17. ASSUME NEW u \in Thread PROVE Popped(u)'
      <3>1. ASSUME NEW w \in Victims(u)'
            PROVE  /\ fate'[w.agent] = "open"
                   /\ w.agent \notin {cached'[r] : r \in Session}
                   /\ \/ w.lent \/ task'[u].doing = "popped" \/ task'[u].run # "listed"
                      \/ Spares(u, w.agent)'
        <4>1. w \in Victims(u) /\ w.agent \in Agent /\ w.agent # a
          BY <2>6, <2>8, VictimTypes DEF BInv
        <4>2. /\ task[u].doing = "popped" => task'[u].doing = "popped"
              /\ task[u].doing = "stale" => task'[u].doing = "stale"
              /\ task'[u].run = task[u].run
          BY <1>4, <2>9
        <4>3. \A r \in Session : cached'[r] # w.agent
          BY <2>5, <4>1 DEF BInv, Popped
        <4>4. \/ w.lent \/ task[u].doing = "popped" \/ task[u].run # "listed"
              \/ Spares(u, w.agent)'
          BY <2>15, <4>1, <4>2, SparesKept DEF BInv, Popped
        <4> QED
          BY <2>5, <4>1, <4>2, <4>3, <4>4 DEF BInv, Popped
      <3> QED
        BY <3>1 DEF Popped
    <2>18. IsFiniteSet(Keys)'
      BY <2>5, FS_AddElement DEF BInv
    <2> QED
      BY <2>10, <2>11, <2>12, <2>13, <2>14, <2>16, <2>17, <2>18 DEF BInv
  <1> QED
    BY <1>1, <1>3, <1>4

\* The turn's agent becomes an owner: a turn that counts holds it, hence it is
\* not about to be closed.
LEMMA CompleteTurnPreserves ==
  ASSUME BInv, IInv', NEW t \in Thread, CompleteTurn(t)
  PROVE  BInv'
  <1>1. /\ task[t] \in Task /\ task \in [Thread -> Task] /\ StepOK(t)
        /\ task[t].doing = "running" /\ task[t].sid \in Session /\ task[t].run = "listed"
        /\ task[t].agent \in Agent
        /\ task[t].victims = << >> /\ task[t].stage = "commit"
        /\ UNCHANGED <<cached, lru, fate>>
    BY TurnSession DEF BInv, CompleteTurn, StepOK, Task, Owner, Unlisted, Turns, TurnSteps
  <1>2. PICK s \in Session, a \in Agent : s = task[t].sid /\ a = task[t].agent
    BY <1>1
  <1> DEFINE k == [task[t] EXCEPT !.doing = "teardown"]
  <1>3. /\ k \in Task /\ k.doing = "teardown" /\ k.sid = s /\ k.agent = a
        /\ k.victims = task[t].victims /\ k.victims = << >> /\ k.stage = "commit"
        /\ k.run = task[t].run
    BY <1>1, <1>2 DEF Task, TurnSteps
  <1>4. task' = [task EXCEPT ![t] = k]
    BY DEF CompleteTurn, Do
  <1> HIDE DEF k
  <1>5. /\ task' \in [Thread -> Task] /\ task'[t] = k /\ Keys' = Keys
        /\ \A u \in Thread \ {t} : task'[u] = task[u]
        /\ cached' = cached /\ fate' = fate
    BY <1>1, <1>3, <1>4 DEF Keys
  <1>6. a # NoAgent /\ InTurn(t)
    BY <1>1, <1>2, LifecycleAssumption DEF InTurn, TurnSteps
  <1>7. /\ Owners(s)' \subseteq Owners(s) \union {a}
        /\ \A r \in Session \ {s} : Owners(r)' = Owners(r)
    BY <1>2, MarkAddsOwner DEF BInv, CompleteTurn
  <1>8. \A u \in Thread : Victims(u)' = Victims(u)
    BY <1>3, <1>5 DEF Victims
  <1>9. ASSUME NEW u \in Thread
        PROVE  /\ InTurn(u)' => InTurn(u) /\ task'[u].sid = task[u].sid /\ task'[u].agent = task[u].agent
               /\ task'[u].doing = "built" => task[u].doing = "built" /\ u # t
               /\ task'[u].run = task[u].run
               /\ task'[u].doing = task[u].doing \/ (u = t /\ task'[u].doing = "teardown")
    BY <1>2, <1>3, <1>5, <1>6 DEF InTurn
  <1>10. BoundaryTypeOK'
    BY <1>1, <1>5 DEF BInv, BoundaryTypeOK, IInv
  <1>11. OneTurn'
    <2>1. \A u \in Thread : Blocks(u)' => Blocks(u) /\ task'[u].sid = task[u].sid
      BY <1>9 DEF Blocks
    <2> QED
      BY <2>1 DEF BInv, OneTurn
  <1>12. OneHome'
    <2>1. PICK home \in [Agent -> Session \union {NoSession}] : Serves(home)
      BY DEF BInv, OneHome
    <2>2. home[a] = s
      BY <1>2, <1>6, <2>1 DEF Serves
    <2>3. \A r \in Session : \A b \in Owners(r)' : home[b] = r
      BY <1>7, <2>1, <2>2 DEF Serves
    <2>4. Serves(home)'
      BY <1>5, <1>8, <1>9, <2>1, <2>3 DEF Serves
    <2> QED
      BY <2>4 DEF OneHome
  <1>13. OpenOK'
    <2>1. fate[a] \in {"open", "overrun"}
      BY <1>2, <1>6 DEF BInv, OpenOK
    <2>2. \A r \in Session : \A b \in Owners(r)' : b # NoAgent /\ fate[b] \in {"open", "overrun"}
      BY <1>6, <1>7, <2>1 DEF BInv, OpenOK
    <2> QED
      BY <1>5, <1>9, <2>2 DEF BInv, OpenOK
  <1>14. ClosedOnce'
    BY SMTT(60), <1>3, <1>5 DEF BInv, ClosedOnce
  <1>15. \A b \in Agent : HoldersStay(b)
    BY <1>1, <1>9 DEF HoldersStay
  <1>16. ASSUME NEW u \in Thread PROVE StepOK(u)'
    BY <1>3, <1>5, <1>6 DEF BInv, StepOK
  <1>17. ASSUME NEW u \in Thread PROVE BuiltOK(u)'
    <2> SUFFICES ASSUME task'[u].doing = "built" PROVE BuiltOK(u)'
      BY DEF BuiltOK
    <2>1. task[u].doing = "built" /\ u # t /\ task'[u] = task[u] /\ InTurn(u)
      BY <1>5, <1>9 DEF InTurn, TurnSteps
    <2>2. task[u].agent # a
      BY <1>2, <1>6, <2>1 DEF BInv, BuiltOK
    <2>3. /\ fate[task[u].agent] = "open"
          /\ \A r \in Session : cached[r] # task[u].agent /\ task[u].agent \notin Owners(r)'
          /\ \A x \in Thread : \A v \in Victims(x)' : v.agent # task[u].agent
      BY <1>7, <1>8, <2>1, <2>2 DEF BInv, BuiltOK
    <2>4. \A x \in Thread : InTurn(x)' /\ task'[x].agent = task[u].agent => x = u
      BY <1>9, <2>1 DEF BInv, BuiltOK
    <2> QED
      BY <1>5, <2>1, <2>3, <2>4 DEF BuiltOK
  <1>18. ASSUME NEW u \in Thread PROVE Cleared(u)'
    <2> SUFFICES ASSUME task'[u].stage \in {"unregister", "discard", "close"},
                        ~task'[u].victims[1].lent, task'[u].run = "listed", NEW r \in Session
                 PROVE  task'[u].victims[1].agent \notin Owners(r)'
      BY DEF Cleared
    <2>1. u # t /\ task'[u] = task[u]
      BY <1>3, <1>5
    <2>2. task[u].doing # "popped" /\ task[u].victims # << >>
      BY <2>1 DEF BInv, StepOK
    <2>3. task[u].victims[1] \in Victims(u)
      BY <2>2, VictimTypes DEF BInv
    <2>4. task[u].victims[1].agent # a
      <3>1. Spares(u, task[u].victims[1].agent)
        BY <2>1, <2>2, <2>3 DEF BInv, Popped
      <3> QED
        BY <1>1, <1>2, <1>6, <3>1 DEF Spares
    <2> QED
      BY <1>7, <2>1, <2>4 DEF BInv, Cleared
  <1>19. ASSUME NEW u \in Thread PROVE Popped(u)'
    <2>1. ASSUME NEW w \in Victims(u)'
          PROVE  /\ fate'[w.agent] = "open"
                 /\ w.agent \notin {cached'[r] : r \in Session}
                 /\ \/ w.lent \/ task'[u].doing = "popped" \/ task'[u].run # "listed"
                    \/ Spares(u, w.agent)'
      <3>1. w \in Victims(u) /\ w.agent \in Agent
        BY <1>8, VictimTypes DEF BInv
      <3>2. /\ task[u].doing = "popped" => task'[u].doing = "popped"
            /\ task[u].doing = "stale" => task'[u].doing = "stale"
            /\ task'[u].run = task[u].run
        BY <1>1, <1>9
      <3>3. \/ w.lent \/ task[u].doing = "popped" \/ task[u].run # "listed"
            \/ Spares(u, w.agent)'
        BY <1>15, <3>1, <3>2, SparesKept DEF BInv, Popped
      <3> QED
        BY <1>5, <3>1, <3>2, <3>3 DEF BInv, Popped
    <2> QED
      BY <2>1 DEF Popped
  <1>20. IsFiniteSet(Keys)'
    BY <1>5 DEF BInv
  <1> QED
    BY <1>10, <1>11, <1>12, <1>13, <1>14, <1>16, <1>17, <1>18, <1>19, <1>20 DEF BInv

\* The loop pops no more keys than there are, each once.
LEMMA EvictedKeys ==
  ASSUME IsFiniteSet(Keys), NEW live, NEW out \in Evicted(live)
  PROVE  /\ Excess(live) \in Nat /\ DOMAIN out = 1..Excess(live)
         /\ \A i \in 1..Excess(live) : out[i] \in Keys
         /\ \A i, j \in 1..Excess(live) : i # j => out[i] # out[j]
  <1>1. IsFiniteSet(Evictable(live)) /\ Evictable(live) \subseteq Keys
    BY FS_Subset DEF Evictable
  <1>2. Cardinality(Keys) \in Nat /\ Cardinality(Evictable(live)) \in Nat
    BY <1>1, FS_CardinalityType
  <1>3. Excess(live) \in Nat
    BY <1>2, CacheAssumption DEF Excess
  <1>4. out \in [1..Excess(live) -> Evictable(live)]
    BY DEF Evicted
  <1>5. ASSUME NEW i \in 1..Excess(live), NEW j \in 1..Excess(live), i < j
        PROVE  out[i] # out[j]
    <2>1. out[j] \notin {out[m] : m \in 1..(j - 1)}
      BY DEF Evicted
    <2>2. i \in 1..(j - 1)
      BY <1>3, <1>5
    <2> QED
      BY <2>1, <2>2
  <1>6. \A i, j \in 1..Excess(live) : i # j => i < j \/ j < i
    BY <1>3
  <1> QED
    BY <1>1, <1>3, <1>4, <1>5, <1>6

\* What the cache lends out is marked when it is popped.
LEMMA PopVictimsPreserves ==
  ASSUME BInv, IInv', NEW t \in Thread, PopVictims(t)
  PROVE  BInv'
  <1>1. /\ task[t] \in Task /\ task \in [Thread -> Task] /\ StepOK(t) /\ InTurn(t)
        /\ task[t].doing = "trimming" /\ task[t].sid \in Session
        /\ task[t].victims = << >>
        /\ UNCHANGED <<vars, fate>>
    BY SMTT(60), TurnSession DEF BInv, PopVictims, StepOK, InTurn, TurnSteps
  <1>2. PICK out \in Evicted(task[t].live) :
          LET gone == {out[i] : i \in DOMAIN out}
          IN /\ cached' = [s \in Session |-> IF s \in gone THEN NoAgent ELSE cached[s]]
             /\ lru' = Without(gone)
             /\ task' = [task EXCEPT ![t] =
                  [@ EXCEPT !.doing = IF gone = {} THEN "ready" ELSE "trimming",
                            !.live = {}, !.stage = "commit",
                            !.victims = [i \in DOMAIN out |->
                               [sid |-> out[i], agent |-> cached[out[i]],
                                lent |-> Lent(cached[out[i]])]]]]
    BY Zenon DEF PopVictims
  <1>3. PICK n \in Nat : n = Excess(task[t].live)
    BY EvictedKeys DEF BInv
  <1>4. /\ DOMAIN out = 1..n /\ \A i \in 1..n : out[i] \in Keys
        /\ \A i, j \in 1..n : i # j => out[i] # out[j]
    BY <1>3, EvictedKeys DEF BInv
  <1> DEFINE gone == {out[i] : i \in 1..n}
             vs == [i \in 1..n |-> [sid |-> out[i], agent |-> cached[out[i]],
                                    lent |-> Lent(cached[out[i]])]]
             k == [task[t] EXCEPT !.doing = IF gone = {} THEN "ready" ELSE "trimming",
                            !.live = {}, !.stage = "commit", !.victims = vs]
  <1>5. /\ cached' = [s \in Session |-> IF s \in gone THEN NoAgent ELSE cached[s]]
        /\ lru' = Without(gone) /\ task' = [task EXCEPT ![t] = k]
    BY <1>2, <1>4
  <1>6. /\ Keys \subseteq Session
        /\ \A r \in Keys : cached[r] \in Agent /\ cached[r] # NoAgent /\ fate[cached[r]] = "open"
        /\ \A r \in Session \ Keys : cached[r] = NoAgent
    BY DEF BInv, BoundaryTypeOK, OpenOK, Keys, Owner
  <1>7. \A i \in 1..n : vs[i] \in Victim
    BY <1>4, <1>6 DEF Victim, Lent
  <1>8. vs \in Seq(Victim) /\ Len(vs) = n
    <2>1. vs \in [1..n -> Victim]
      BY <1>7
    <2>2. vs \in Seq(Victim)
      BY <2>1, SeqDef
    <2>3. DOMAIN vs = 1..n
      OBVIOUS
    <2> HIDE DEF vs
    <2>4. Len(vs) \in Nat /\ 1..Len(vs) = 1..n
      BY <2>2, <2>3, LenProperties
    <2> QED
      BY <2>2, <2>4
  <1>9. ASSUME NEW i \in 1..n
        PROVE  /\ vs[i].sid = out[i] /\ vs[i].agent = cached[out[i]]
               /\ vs[i].lent = Lent(cached[out[i]])
    OBVIOUS
  <1>10. gone \subseteq Keys /\ (n = 0 <=> gone = {})
    <2>1. CASE n = 0
      <3>1. \A i \in 1..n : FALSE
        BY <2>1
      <3> QED
        BY <2>1, <3>1
    <2>2. CASE n # 0
      <3>1. 1 \in 1..n
        BY <2>2
      <3> QED
        BY <1>4, <2>2, <3>1
    <2> QED
      BY <2>1, <2>2
  <1> HIDE DEF vs, gone
  <1>11. /\ k \in Task /\ k.sid = task[t].sid /\ k.agent = task[t].agent /\ k.victims = vs
         /\ k.run = task[t].run /\ k.stage = "commit"
         /\ k.doing = IF gone = {} THEN "ready" ELSE "trimming"
    BY <1>1, <1>8 DEF Task, TurnSteps
  <1> HIDE DEF k
  <1>12. /\ task' \in [Thread -> Task] /\ task'[t] = k /\ fate' = fate
         /\ \A u \in Thread \ {t} : task'[u] = task[u]
    BY <1>1, <1>5, <1>11
  <1>13. \A r \in Session : Owners(r)' = Owners(r)
    BY <1>1, OwnersOfSame DEF vars
  <1>14. /\ cached' \in [Session -> Owner] /\ Keys' = Keys \ gone
         /\ \A r \in Session : cached'[r] = IF r \in gone THEN NoAgent ELSE cached[r]
         /\ \A r \in Keys' : r \in Keys /\ cached'[r] = cached[r]
    BY <1>5, <1>6 DEF Keys, Owner
  <1>15. n = 0 <=> vs = << >>
    BY <1>8, EmptySeq
  <1>16. ASSUME NEW u \in Thread
         PROVE  /\ InTurn(u)' => InTurn(u) /\ task'[u].sid = task[u].sid /\ task'[u].agent = task[u].agent
                /\ task'[u].doing = "built" => task[u].doing = "built" /\ u # t
                /\ task'[u].run = task[u].run
                /\ task'[u].doing = task[u].doing \/ (u = t /\ task'[u].doing = "ready")
    BY <1>1, <1>11, <1>12 DEF InTurn
  <1>17. ASSUME NEW u \in Thread, NEW w \in Victims(u)'
         PROVE  \/ u # t /\ w \in Victims(u)
                \/ u = t /\ \E i \in 1..n : w = vs[i]
    BY <1>8, <1>11, <1>12 DEF Victims
  \* No two keys hold one agent, and no victim is in the cache.
  <1>18. \A q, r \in Keys : cached[q] = cached[r] => q = r
    BY DEF BInv, OneHome, Serves
  <1>19. \A u \in Thread : \A j \in 1..Len(task[u].victims) : \A r \in Keys :
           task[u].victims[j].agent # cached[r]
    BY <1>6, VictimTypes DEF BInv, Popped
  <1>20. BoundaryTypeOK'
    <2>1. Ordered(Keys', lru')
      BY <1>5, <1>14, WithoutOrdered DEF BInv, BoundaryTypeOK
    <2>2. \A r \in Keys' : fate'[cached'[r]] \in {"open", "overrun"}
      BY <1>6, <1>12, <1>14
    <2> QED
      BY <1>12, <1>14, <2>1, <2>2 DEF BInv, BoundaryTypeOK, IInv
  <1>21. OneTurn'
    <2>1. \A u \in Thread : Blocks(u)' => Blocks(u) /\ task'[u].sid = task[u].sid
      BY <1>1, <1>16 DEF Blocks
    <2> QED
      BY <2>1 DEF BInv, OneTurn
  <1>22. OneHome'
    <2>1. PICK home \in [Agent -> Session \union {NoSession}] : Serves(home)
      BY DEF BInv, OneHome
    <2>2. \A u \in Thread : \A w \in Victims(u)' : home[w.agent] = w.sid
      BY <1>4, <1>9, <1>17, <2>1 DEF Serves
    <2>3. Serves(home)'
      BY <1>13, <1>14, <1>16, <2>1, <2>2 DEF Serves
    <2> QED
      BY <2>3 DEF OneHome
  <1>23. OpenOK'
    BY <1>6, <1>12, <1>13, <1>14, <1>16 DEF BInv, OpenOK
  <1>24. ClosedOnce'
    <2> SUFFICES ASSUME NEW u \in Thread, NEW w \in Thread,
                        NEW i \in 1..Len(task'[u].victims), NEW j \in 1..Len(task'[w].victims),
                        task'[u].victims[i].agent = task'[w].victims[j].agent
                 PROVE  u = w /\ i = j
      BY DEF ClosedOnce
    <2>1. CASE u # t /\ w # t
      BY SMTT(60), <1>12, <2>1 DEF BInv, ClosedOnce
    <2>2. CASE u = t /\ w = t
      <3>1. i \in 1..n /\ j \in 1..n /\ vs[i].agent = vs[j].agent
        BY <1>8, <1>11, <1>12, <2>2
      <3>2. out[i] = out[j]
        BY <1>4, <1>9, <1>18, <3>1
      <3> QED
        BY <1>4, <2>2, <3>1, <3>2
    <2>3. CASE u = t /\ w # t
      <3>1. i \in 1..n /\ j \in 1..Len(task[w].victims) /\ vs[i].agent = task[w].victims[j].agent
        BY <1>8, <1>11, <1>12, <2>3
      <3> QED
        BY <1>4, <1>9, <1>19, <3>1
    <2>4. CASE u # t /\ w = t
      <3>1. j \in 1..n /\ i \in 1..Len(task[u].victims) /\ vs[j].agent = task[u].victims[i].agent
        BY <1>8, <1>11, <1>12, <2>4
      <3> QED
        BY <1>4, <1>9, <1>19, <3>1
    <2> QED
      BY <2>1, <2>2, <2>3, <2>4
  <1>25. \A b \in Agent : HoldersStay(b)
    BY <1>1, <1>16 DEF HoldersStay
  <1>26. ASSUME NEW u \in Thread PROVE StepOK(u)'
    <2>1. task[t].agent # NoAgent
      BY <1>1 DEF StepOK
    <2> QED
      BY <1>1, <1>10, <1>11, <1>12, <1>15, <2>1 DEF BInv, StepOK
  <1>27. ASSUME NEW u \in Thread PROVE BuiltOK(u)'
    <2> SUFFICES ASSUME task'[u].doing = "built" PROVE BuiltOK(u)'
      BY DEF BuiltOK
    <2>1. task[u].doing = "built" /\ u # t /\ task'[u] = task[u]
      BY <1>12, <1>16
    <2>2. task[u].agent # NoAgent /\ \A r \in Session : cached[r] # task[u].agent
      BY <2>1 DEF BInv, StepOK, BuiltOK
    <2>3. \A x \in Thread : \A v \in Victims(x)' : v.agent # task[u].agent
      BY <1>4, <1>6, <1>9, <1>17, <2>1, <2>2 DEF BInv, BuiltOK
    <2>4. \A x \in Thread : InTurn(x)' /\ task'[x].agent = task[u].agent => x = u
      BY <1>16, <2>1 DEF BInv, BuiltOK
    <2> QED
      BY <1>12, <1>13, <1>14, <2>1, <2>2, <2>3, <2>4 DEF BInv, BuiltOK
  <1>28. ASSUME NEW u \in Thread PROVE Cleared(u)'
    BY <1>11, <1>12, <1>13 DEF BInv, Cleared
  <1>29. ASSUME NEW u \in Thread PROVE Popped(u)'
    <2>1. ASSUME NEW w \in Victims(u)'
          PROVE  /\ fate'[w.agent] = "open"
                 /\ w.agent \notin {cached'[r] : r \in Session}
                 /\ \/ w.lent \/ task'[u].doing = "popped" \/ task'[u].run # "listed"
                    \/ Spares(u, w.agent)'
      <3>1. CASE u # t /\ w \in Victims(u)
        <4>1. w.agent \in Agent /\ w.agent # NoAgent
          BY <3>1, VictimTypes, LifecycleAssumption DEF BInv
        <4>2. \/ w.lent \/ task[u].doing = "popped" \/ task[u].run # "listed"
              \/ Spares(u, w.agent)'
          BY <1>12, <1>25, <3>1, <4>1, SparesKept DEF BInv, Popped
        <4> QED
          BY <1>12, <1>14, <3>1, <4>1, <4>2 DEF BInv, Popped
      <3>2. CASE u = t /\ \E i \in 1..n : w = vs[i]
        <4>1. PICK i \in 1..n : w = vs[i]
          BY <3>2
        <4>2. PICK b \in Agent : b = cached[out[i]] /\ w.agent = b /\ b # NoAgent
          BY <1>4, <1>6, <1>9, <4>1
        <4>3. w.lent \/ Spares(t, b)'
          <5>1. ~w.lent => \A u2 \in Thread : InTurn(u2) => task[u2].agent # b
            BY <1>9, <4>1, <4>2 DEF Lent, Holders, Turns, InTurn
          <5> QED
            BY <1>16, <5>1 DEF Spares
        <4>4. out[i] \in gone /\ out[i] \in Keys /\ fate[b] = "open"
          BY <1>4, <1>6, <4>2 DEF gone
        <4>5. \A r \in Session : cached'[r] # b
          BY <1>6, <1>14, <1>18, <4>2, <4>4
        <4>6. w.lent \/ Spares(u, w.agent)'
          BY <3>2, <4>2, <4>3
        <4> QED
          BY <1>12, <4>2, <4>4, <4>5, <4>6
      <3> QED
        BY <1>17, <3>1, <3>2
    <2> QED
      BY <2>1 DEF Popped
  <1>30. IsFiniteSet(Keys)'
    BY <1>14, FS_Subset DEF BInv
  <1> QED
    BY <1>20, <1>21, <1>22, <1>23, <1>24, <1>26, <1>27, <1>28, <1>29, <1>30 DEF BInv

-----------------------------------------------------------------------------
(* The invariant, and what follows from it.                                *)
LEMMA BoundaryInitEstablishes == BoundaryInit => BInv
  <1> SUFFICES ASSUME BoundaryInit PROVE BInv
    OBVIOUS
  <1>1. Len(<< >>) = 0
    BY EmptySeq
  <1>2. /\ \A s \in Session : cached[s] = NoAgent /\ segments[s] = << >>
        /\ \A t \in Thread : task[t] = NoTask
        /\ \A a \in Agent : fate[a] = "unbuilt"
        /\ lru = {}
    BY DEF BoundaryInit, Init
  <1>3. IInv
    BY InitEstablishes DEF BoundaryInit
  <1>4. Keys = {} /\ IsFiniteSet(Keys)
    BY <1>2, FS_EmptySet DEF Keys
  <1>5. /\ \A s \in Session : Owners(s) = {}
        /\ \A t \in Thread : Victims(t) = {} /\ ~InTurn(t)
    BY <1>1, <1>2 DEF Owners, Victims, NoTask, InTurn, TurnSteps
  <1>6. BoundaryTypeOK
    <2>1. NoTask \in Task
      BY EmptySeq DEF NoTask, Task, Owner
    <2>2. Ordered(Keys, lru)
      BY <1>2, <1>4 DEF Ordered
    <2> QED
      BY <1>3, <1>4, <2>1, <2>2 DEF BoundaryTypeOK, BoundaryInit, IInv, Owner
  <1>7. OneTurn /\ OpenOK /\ ClosedOnce
    BY <1>1, <1>2, <1>4, <1>5 DEF OneTurn, Blocks, OpenOK, ClosedOnce, NoTask
  <1>8. OneHome
    <2>1. [a \in Agent |-> NoSession] \in [Agent -> Session \union {NoSession}]
      OBVIOUS
    <2>2. Serves([a \in Agent |-> NoSession])
      BY <1>4, <1>5 DEF Serves
    <2> QED
      BY <2>1, <2>2 DEF OneHome
  <1>9. ASSUME NEW t \in Thread PROVE StepOK(t) /\ BuiltOK(t) /\ Popped(t) /\ Cleared(t)
    BY <1>2, <1>5 DEF StepOK, BuiltOK, Popped, Cleared, NoTask
  <1> QED
    BY <1>3, <1>4, <1>6, <1>7, <1>8, <1>9 DEF BInv

LEMMA BoundaryNextPreserves == BInv /\ [BoundaryNext]_boundaryVars => BInv'
  <1> SUFFICES ASSUME BInv, [BoundaryNext]_boundaryVars PROVE BInv'
    OBVIOUS
  <1>1. IInv'
    BY BoundaryStepsAllowed, NextPreserves DEF BInv
  <1>2. ASSUME NEW t \in Thread, TurnStep(t) PROVE BInv'
    BY <1>1, <1>2, FindAgentPreserves, BuildAgentPreserves, RefreshFailsPreserves,
       PublishAgentPreserves, CancelledUnpublishedPreserves, NoteRunsPreserves,
       PopVictimsPreserves, InvokeAgentPreserves, CancelledUninvokedPreserves,
       CompleteTurnPreserves, FailTurnPreserves, EndTurnPreserves, ReapRunPreserves
       DEF TurnStep
  <1>3. ASSUME NEW t \in Thread, CloseStep(t) PROVE BInv'
    BY <1>1, <1>3, CheckRunsPreserves, CommitVictimPreserves, CheckCleanPreserves,
       UnregisterVictimPreserves, DiscardVictimPreserves, CloseVictimPreserves,
       CommitLeftPreserves, ContinueCommitPreserves
       DEF CloseStep
  <1>4. ASSUME NEW t \in Thread, NEW s \in Session,
               AdmitTurn(t, s) \/ EvictAgent(t, s) \/ LeaveSession(t, s)
        PROVE  BInv'
    BY <1>1, <1>4, AdmitTurnPreserves, EvictAgentPreserves, LeaveSessionPreserves
  <1>5. CASE UNCHANGED boundaryVars
    <2>1. /\ UNCHANGED <<cached, lru, task, fate, segments>> /\ Keys' = Keys
          /\ \A s \in Session : Owners(s)' = Owners(s)
          /\ \A t \in Thread : Victims(t)' = Victims(t)
      BY <1>5 DEF boundaryVars, vars, Keys, Owners, Victims
    <2>2. BoundaryTypeOK'
      BY <1>1, <2>1 DEF BInv, BoundaryTypeOK, IInv
    <2>3. OneTurn' /\ ClosedOnce' /\ IsFiniteSet(Keys)'
      BY <2>1 DEF BInv, OneTurn, Blocks, InTurn, ClosedOnce
    <2>4. OneHome'
      BY <2>1 DEF BInv, OneHome, Serves, InTurn
    <2>5. OpenOK'
      BY <2>1 DEF BInv, OpenOK, InTurn
    <2>6. ASSUME NEW t \in Thread PROVE StepOK(t)' /\ BuiltOK(t)' /\ Popped(t)' /\ Cleared(t)'
      <3>1. StepOK(t)' /\ BuiltOK(t)' /\ Cleared(t)'
        BY <2>1 DEF BInv, StepOK, BuiltOK, Cleared, InTurn
      <3>2. Popped(t)'
        BY <2>1 DEF BInv, Popped, Spares, InTurn
      <3> QED
        BY <3>1, <3>2
    <2> QED
      BY <1>1, <2>2, <2>3, <2>4, <2>5, <2>6 DEF BInv
  <1> QED
    BY <1>2, <1>3, <1>4, <1>5 DEF BoundaryNext

(* What the callers of the lifecycle keep true of agents, cache and ledger. *)
THEOREM BoundaryInvariantHolds == BoundarySpec => []BInv
  BY BoundaryInitEstablishes, BoundaryNextPreserves, PTL DEF BoundarySpec

(* The cache is ordered by use and holds no agent that was closed.         *)
THEOREM BoundaryTypeCorrect == BoundarySpec => []BoundaryTypeOK
  BY BoundaryInvariantHolds, PTL DEF BInv

(* No explicit eviction closes the agent of a running turn, however many   *)
(* threads evict, trim and run at once, but for overrun turns.             *)
THEOREM RunsAreSpared == BoundarySpec => []EvictionSparesRuns
  <1>1. BInv => EvictionSparesRuns
    BY DEF BInv, OpenOK, EvictionSparesRuns
  <1> QED
    BY <1>1, BoundaryInvariantHolds, PTL

(* Whoever owns a turn that was not extracted yet is still open, but for   *)
(* the agents the cache closed under their borrower.                       *)
THEOREM OwnersStayOpen == BoundarySpec => []OwedToOpenAgents
  <1>1. BInv => OwedToOpenAgents
    BY DEF BInv, OpenOK, OwedToOpenAgents, Owners
  <1> QED
    BY <1>1, BoundaryInvariantHolds, PTL

(* An extraction under way runs on an agent that nobody closed.            *)
THEOREM ExtractionsRunOpen == BoundarySpec => []ExtractsOnOpenAgents
  <1>1. ASSUME BInv, NEW t \in Thread, call[t].step = "provider"
        PROVE  fate[call[t].agent] \in {"open", "overrun"}
    <2>1. PICK s \in Session : s = call[t].sid
      BY SMTT(60), <1>1 DEF BInv, IInv, TypeOK, Call, NoCall
    <2>2. segments[s] # << >> /\ call[t].agent = segments[s][1].agent
      BY <1>1, <2>1 DEF BInv, IInv, SingleFlight, InProvider
    <2>3. 1 \in 1..Len(segments[s])
      <3>1. Len(segments[s]) \in Nat \ {0}
        BY <1>1, <2>2, EmptySeq DEF BInv, IInv, TypeOK
      <3> QED
        BY <3>1
    <2> QED
      BY <1>1, <2>2, <2>3 DEF BInv, OpenOK, Owners
  <1>2. BInv => ExtractsOnOpenAgents
    BY <1>1 DEF ExtractsOnOpenAgents
  <1> QED
    BY <1>2, BoundaryInvariantHolds, PTL

(* The callers use the lifecycle as it may be used: all that is proved of  *)
(* it holds in the program around it.                                      *)
THEOREM CallersFollowLifecycle == BoundarySpec => Spec
  <1>1. BInv /\ [BoundaryNext]_boundaryVars => [Next]_vars
    BY BoundaryStepsAllowed
  <1>2. BoundaryInit => Init
    BY DEF BoundaryInit
  <1> QED
    BY <1>1, <1>2, BoundaryInvariantHolds, PTL DEF BoundarySpec, Spec

(* Through eviction, "new chat", cancelled and failed turns the ledger of  *)
(* turns owed is kept: none is lost, none extracted by another's agent.    *)
THEOREM LedgerKeptByCallers == BoundarySpec => ImplementsLedger /\ OnlyTheOwnerExtracts
  BY CallersFollowLifecycle, LedgerImplemented, OwnerExtracts
=============================================================================
