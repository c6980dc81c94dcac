-------------------------- MODULE SessionLifecycle --------------------------
(***************************************************************************)
(* api/session_lifecycle.py: which completed turns the memory provider     *)
(* still has to extract, and which agent must extract them.  Every         *)
(* function but the provider call itself runs under one lock (_lock, which *)
(* _condition shares), so every function is one step; commit_session_memory*)
(* is three (before, during and after the provider call).  Any thread may  *)
(* call any function at any time: the callers the program really has are   *)
(* in module MemoryBoundaries.                                             *)
(*                                                                         *)
(* Left out: the timeout argument of commit_session_memory (no caller      *)
(* passes it) and the value of profile_home (a session has one profile for *)
(* life, and a commit without it asks the session store).                  *)
(***************************************************************************)
EXTENDS Integers, Sequences

CONSTANTS
  Session, Agent, Thread,
  NoAgent,        \* Python's None where an agent may stand
  NoSession,      \* the session of a thread that is in no commit
  MaxGeneration   \* bound of the exploration: turns one entry may count

ASSUME LifecycleAssumption ==
  /\ NoAgent \notin Agent
  /\ NoSession \notin Session
  /\ MaxGeneration \in Nat

VARIABLES
  known,       \* keys of _sessions; an absent session has the fields of _new_entry
  generation,  \* turns completed
  committed,   \* committed_generation
  current,     \* "agent": the handle of future generations
  inFlight,    \* "in_flight"
  segments,    \* runs of uncommitted generations and their owners, oldest first
  call         \* where each thread is inside commit_session_memory

vars == <<known, generation, committed, current, inFlight, segments, call>>

Owner == Agent \union {NoAgent}

Segment == [start : Nat, end : Nat, agent : Owner]

NoCall ==
  [step |-> "idle", sid |-> NoSession, agent |-> NoAgent, captured |-> 0]

Call ==
  {NoCall} \union
  [step : {"waiting", "provider"}, sid : Session, agent : Owner, captured : Nat]

Init ==
  /\ known = {}
  /\ generation = [s \in Session |-> 0]
  /\ committed = [s \in Session |-> 0]
  /\ current = [s \in Session |-> NoAgent]
  /\ inFlight = [s \in Session |-> FALSE]
  /\ segments = [s \in Session |-> << >>]
  /\ call = [t \in Thread |-> NoCall]

-----------------------------------------------------------------------------
\* Mutant: the entry is changed but not kept.
SetDefaultForgotten(s) == known

\* _sessions.setdefault(session_id, _new_entry())
SetDefault(s) == known \union {s}

RegisterAgent(s, a) ==
  /\ known' = SetDefault(s)
  /\ current' = [current EXCEPT ![s] = a]
  /\ UNCHANGED <<generation, committed, inFlight, segments, call>>

UnregisterAgent(s) ==
  /\ current' = [current EXCEPT ![s] = NoAgent]
  /\ UNCHANGED <<known, generation, committed, inFlight, segments, call>>

HasUncommittedWork(s) == generation[s] > committed[s]

RecordOwnerProfileHome(s) ==
  /\ known' = SetDefault(s)
  /\ UNCHANGED <<generation, committed, current, inFlight, segments, call>>

\* A busy or dirty entry is never dropped.
Discardable(s) == s \in known /\ ~inFlight[s] /\ ~HasUncommittedWork(s)

DiscardSession(s) ==
  /\ Discardable(s)
  /\ known' = known \ {s}
  /\ generation' = [generation EXCEPT ![s] = 0]
  /\ committed' = [committed EXCEPT ![s] = 0]
  /\ current' = [current EXCEPT ![s] = NoAgent]
  /\ inFlight' = [inFlight EXCEPT ![s] = FALSE]
  /\ segments' = [segments EXCEPT ![s] = << >>]
  /\ UNCHANGED call

\* May the new generation join the last segment?
SameRun(s, owner) ==
  /\ segments[s] # << >>
  /\ ~inFlight[s]
  /\ segments[s][Len(segments[s])].agent = owner

MarkTurnCompleted(s, a) ==
  LET owner == IF a # NoAgent THEN a ELSE current[s]
      turn == generation[s] + 1
  IN /\ generation[s] < MaxGeneration
     /\ known' = SetDefault(s)
     /\ current' = [current EXCEPT ![s] = owner]
     /\ generation' = [generation EXCEPT ![s] = turn]
     /\ segments' = [segments EXCEPT ![s] =
          IF SameRun(s, owner)
          THEN [@ EXCEPT ![Len(@)].end = turn]
          ELSE Append(@, [start |-> turn, end |-> turn, agent |-> owner])]
     /\ UNCHANGED <<committed, inFlight, call>>

-----------------------------------------------------------------------------
\* Mutant: the caller's agent wins over the segment's owner.
EffectiveAgentOfCaller(s, seg, a) ==
  IF a # NoAgent THEN a
  ELSE IF seg.agent # NoAgent THEN seg.agent ELSE current[s]

\* The agent that must extract segment seg, when the caller offers a.
EffectiveAgent(s, seg, a) ==
  IF seg.agent # NoAgent THEN seg.agent
  ELSE IF a # NoAgent THEN a ELSE current[s]

\* _first_uncommitted_segment, as a set of at most one index.
FirstUncommitted(segs, c) ==
  {i \in 1..Len(segs) :
     segs[i].end > c /\ \A j \in 1..(i - 1) : segs[j].end <= c}

\* The segment a commit of s offered agent a would capture.
Capturable(s, a) ==
  {i \in FirstUncommitted(segments[s], committed[s]) :
     /\ s \in known
     /\ HasUncommittedWork(s)
     /\ EffectiveAgent(s, segments[s][i], a) # NoAgent}

\* Mutant: commits of one session may overlap.
FreeAnyway(s) == TRUE

Free(s) == ~inFlight[s]

\* The locked part of commit_session_memory, up to the provider call.
Capture(t, s, a) ==
  /\ Free(s)
  /\ \E i \in Capturable(s, a) :
       LET owner == EffectiveAgent(s, segments[s][i], a)
       IN /\ segments' = [segments EXCEPT ![s][i].agent = owner]
          /\ call' = [call EXCEPT ![t] =
               [step |-> "provider", sid |-> s, agent |-> owner,
                captured |-> segments[s][i].end]]
  /\ inFlight' = [inFlight EXCEPT ![s] = TRUE]
  /\ UNCHANGED <<known, generation, committed, current>>

\* A call that finds nothing it may commit returns False at once.
NothingToCommit(s, a, wait) ==
  IF Free(s) THEN Capturable(s, a) = {} ELSE ~wait

BeginCommit(t, s, a) == call[t] = NoCall /\ Capture(t, s, a)

\* wait=True, and another commit of the session is in flight.
WaitForCommit(t, s, a) ==
  /\ call[t] = NoCall
  /\ ~Free(s)
  /\ call' = [call EXCEPT ![t] =
       [step |-> "waiting", sid |-> s, agent |-> a, captured |-> 0]]
  /\ UNCHANGED <<known, generation, committed, current, inFlight, segments>>

\* The waiter wakes, looks the entry up again and captures what is first now...
ResumeCommit(t) ==
  /\ call[t].step = "waiting"
  /\ Capture(t, call[t].sid, call[t].agent)

\* ... or finds the work done, or the entry gone.
AbandonCommit(t) ==
  /\ call[t].step = "waiting"
  /\ NothingToCommit(call[t].sid, call[t].agent, TRUE)
  /\ call' = [call EXCEPT ![t] = NoCall]
  /\ UNCHANGED <<known, generation, committed, current, inFlight, segments>>

-----------------------------------------------------------------------------
\* The provider raised, or refused: only the guard is released.
CommitFailed(t) ==
  /\ call[t].step = "provider"
  /\ inFlight' = [inFlight EXCEPT ![call[t].sid] = FALSE]
  /\ call' = [call EXCEPT ![t] = NoCall]
  /\ UNCHANGED <<known, generation, committed, current, segments>>

\* Mutant: the late success clears all the work there is by then.
CommittedUpToLatest(s, captured) == generation[s]

CommittedUpTo(s, captured) == IF captured > committed[s] THEN captured ELSE committed[s]

\* Mutant: committed segments stay at the head.
RemainingUnpopped(segs, c) == segs

\* How many segments at the head of segs are committed up to c.
CommittedPrefix(segs, c) ==
  CHOOSE k \in 0..Len(segs) :
    /\ \A j \in 1..k : segs[j].end <= c
    /\ k < Len(segs) => segs[k + 1].end > c

\* What is left of segs once generations up to c are committed.
Remaining(segs, c) ==
  LET rest == SubSeq(segs, CommittedPrefix(segs, c) + 1, Len(segs))
  IN IF rest # << >> /\ rest[1].start <= c
     THEN [rest EXCEPT ![1].start = c + 1]
     ELSE rest

CommitSucceeded(t) ==
  LET s == call[t].sid
      upTo == CommittedUpTo(s, call[t].captured)
  IN /\ call[t].step = "provider"
     /\ inFlight' = [inFlight EXCEPT ![s] = FALSE]
     /\ committed' = [committed EXCEPT ![s] = upTo]
     /\ segments' = [segments EXCEPT ![s] = Remaining(@, upTo)]
     /\ call' = [call EXCEPT ![t] = NoCall]
     /\ UNCHANGED <<known, generation, current>>

Next ==
  \/ \E s \in Session :
       \/ \E a \in Agent : RegisterAgent(s, a)
       \/ UnregisterAgent(s)
       \/ RecordOwnerProfileHome(s)
       \/ DiscardSession(s)
       \/ \E a \in Owner : MarkTurnCompleted(s, a)
  \/ \E t \in Thread :
       \/ \E s \in Session, a \in Owner : BeginCommit(t, s, a) \/ WaitForCommit(t, s, a)
       \/ ResumeCommit(t)
       \/ AbandonCommit(t)
       \/ CommitFailed(t)
       \/ CommitSucceeded(t)

Spec == Init /\ [][Next]_vars

-----------------------------------------------------------------------------
(* Types of the entry fields and of the commit calls; a session that is    *)
(* absent from _sessions has the fields of a new entry.                    *)
TypeOK ==
  /\ known \subseteq Session
  /\ generation \in [Session -> Nat]
  /\ committed \in [Session -> Nat]
  /\ current \in [Session -> Owner]
  /\ inFlight \in [Session -> BOOLEAN]
  /\ segments \in [Session -> Seq(Segment)]
  /\ call \in [Thread -> Call]
  /\ \A s \in Session \ known :
       /\ generation[s] = 0 /\ committed[s] = 0 /\ current[s] = NoAgent
       /\ ~inFlight[s] /\ segments[s] = << >>

(* The segments tile the uncommitted generations: no generation is in two  *)
(* segments or in none, so none is extracted twice or forgotten            *)
(* (mark_turn_completed and the pop-and-trim after a commit).              *)
Tiles(segs, c, g) ==
  /\ c <= g
  /\ \A i \in 1..Len(segs) : segs[i].start <= segs[i].end /\ segs[i].end <= g
  /\ \A i, j \in 1..Len(segs) : i < j => segs[i].end < segs[j].start
  /\ \A i \in 1..(Len(segs) - 1) : segs[i + 1].start = segs[i].end + 1
  /\ segs # << >> => segs[1].start = c + 1 /\ segs[Len(segs)].end = g
  /\ segs = << >> => c = g

SegmentsTile == \A s \in Session : Tiles(segments[s], committed[s], generation[s])

(* in_flight is up exactly while one thread is in the provider call for    *)
(* the session, and that thread runs the agent that owns the first         *)
(* segment (guarantees 4 and 5 of the module docstring): two extractions   *)
(* never overlap, a discarded and re-created entry never inherits the      *)
(* completion of an older commit, and no entry is left busy for ever.      *)
InProvider(t, s) == call[t].step = "provider" /\ call[t].sid = s

SingleFlight ==
  /\ \A s \in Session : inFlight[s] <=> \E t \in Thread : InProvider(t, s)
  /\ \A s \in Session, t, u \in Thread : InProvider(t, s) /\ InProvider(u, s) => t = u
  /\ \A s \in Session, t \in Thread :
       InProvider(t, s) =>
         /\ s \in known
         /\ segments[s] # << >>
         /\ call[t].captured = segments[s][1].end
         /\ call[t].agent = segments[s][1].agent
         /\ call[t].agent # NoAgent

\* The turns a session owes to the provider, each with its owner.
Covers(seg, p) == seg.start <= p[1] /\ p[1] <= seg.end /\ seg.agent = p[2]

Owed(s) ==
  {p \in (1..MaxGeneration) \X Owner :
     \E i \in 1..Len(segments[s]) : Covers(segments[s][i], p)}

(* A turn leaves the ledger, or changes owner, only as the docstring says  *)
(* (guarantees 2, 3 and 4): it is extracted by a successful commit on its  *)
(* own agent that captured it, or, owned by nobody, it is adopted.         *)
ExtractedNow(s, p) ==
  \E t \in Thread :
    /\ InProvider(t, s)
    /\ ~InProvider(t, s)'
    /\ p[1] <= call[t].captured
    /\ p[2] = call[t].agent

AdoptedNow(s, p) == p[2] = NoAgent /\ \E a \in Agent : <<p[1], a>> \in Owed(s)'

OnlyTheOwnerExtracts ==
  [][\A s \in Session : \A p \in Owed(s) :
       p \in Owed(s)' \/ ExtractedNow(s, p) \/ AdoptedNow(s, p)]_vars

(* The bookkeeping implements the abstract ledger.                         *)
Batch(s) ==
  {p[1] : p \in {q \in Owed(s) :
     \E t \in Thread : InProvider(t, s) /\ q[1] <= call[t].captured}}

Ledger == INSTANCE MemoryLedger WITH
            Turn <- 1..MaxGeneration,
            owed <- [s \in Session |-> Owed(s)],
            batch <- [s \in Session |-> Batch(s)]

ImplementsLedger == Ledger!LedgerSpec
=============================================================================
