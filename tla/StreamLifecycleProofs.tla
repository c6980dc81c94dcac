----------------------- MODULE StreamLifecycleProofs -----------------------
(***************************************************************************)
(* Proofs about module StreamLifecycle, for any number of turns, Stops and *)
(* crashes: what the record and the registries say of a turn, whoever      *)
(* writes them, and that neither a stale worker nor a late Stop touches the *)
(* record of a successor.                                                  *)
(***************************************************************************)
EXTENDS StreamLifecycle, TLAPS

\* A launch holds the session lock from the admission to the start of its thread.
Launching == {"claiming", "persisted", "registered"}

StopRecord == [step : {"idle", "published", "raised", "settled"},
               turn : Turn \union {NoTurn}, flag : BOOLEAN]

Outcomes == SUBSET {"result", "error", "cancelled", "interrupted"}

Events == {"none", "done", "cancel", "apperror"}

Places ==
  {"new", "claiming", "persisted", "registered", "launched", "failed", "admitted",
   "preparing", "agent", "result", "error", "saved", "synced", "committed",
   "failing", "teardown", "drained", "gone"}

LockHeld ==
  \A t \in Turn : worker[t] \in Launching \union {"saved"} <=> lock = t

InOrder ==
  \A t, u \in Turn : t < u /\ worker[t] = "new" => worker[u] = "new"

LaunchOK(t) ==
  /\ worker[t] \in Launching => active = t
  /\ worker[t] = "claiming" => pending = NoTurn
  /\ worker[t] \in {"persisted", "registered"} => pending = t
  /\ worker[t] = "launched" /\ t \in streams => active = t \/ t \in cutOff

(* What each registry row stands for: a launch has its claim, a worker its *)
(* row, until an admission takes the overdue row of a detached stream away. *)
RowsOK(t) ==
  /\ t \in streams => worker[t] \in Working \union {"registered", "launched", "drained"}
  /\ worker[t] \in {"registered", "launched"} /\ t \in streams => t \in claims
  /\ t \in flags \/ run[t] # "none" => worker[t] \in Working
  /\ worker[t] \in Working /\ run[t] = "none" => t \notin streams /\ t \in overran
  /\ owner = t => worker[t] \in Working \union Launching \union {"launched"}

\* The record and the writeback ownership are never a predecessor's.
LatestOK(t) ==
  active = t \/ owner = t => \A u \in Turn : t < u => worker[u] = "new"

(* A turn that is active has no outcome yet; others write it only while it *)
(* is active, and so at most once before its own worker does.              *)
OutcomeOK(t) ==
  /\ active = t => outcome[t] = {} /\ worker[t] # "new"
  /\ worker[t] = "new" => outcome[t] = {}
  /\ worker[t] \in Launching \union {"launched", "admitted", "preparing", "agent", "result", "error"} =>
       outcome[t] \in {{}, {"cancelled"}, {"interrupted"}}
  /\ worker[t] \in {"saved", "synced", "committed"} \/ event[t] = "done" =>
       active # t /\ outcome[t] = {"result"}
  /\ event[t] = "done" => worker[t] \in {"teardown", "gone"}

\* A Stop has detached the stream it will settle, and no launch brings it back.
StopOK(c) ==
  stop[c].step # "idle" =>
    /\ stop[c].turn \in Turn
    /\ stop[c].turn \notin streams
    /\ worker[stop[c].turn] \notin {"new", "claiming", "persisted"}

TurnOK(t) == LaunchOK(t) /\ RowsOK(t) /\ LatestOK(t) /\ OutcomeOK(t)

IInv ==
  /\ TypeOK /\ PromptKept /\ LockHeld /\ InOrder
  /\ \A t \in Turn : TurnOK(t)
  /\ \A c \in Stopper : StopOK(c)

-----------------------------------------------------------------------------
LEMMA Turns == \A t \in Turn : t \in Nat /\ t # NoTurn /\ t > NoTurn
  BY StreamAssumption DEF Turn, NoTurn

\* A Stop that moves on, or ends, is still a Stop.
LEMMA StopMoves ==
  ASSUME stop \in [Stopper -> StopRecord], NEW c \in Stopper,
         NEW e \in {"idle", "published", "raised", "settled"}
  PROVE  /\ [stop EXCEPT ![c].step = e] \in [Stopper -> StopRecord]
         /\ [stop EXCEPT ![c] = Idle] \in [Stopper -> StopRecord]
  <1>1. ASSUME NEW s \in StopRecord PROVE [s EXCEPT !.step = e] \in StopRecord
    BY DEF StopRecord
  <1>2. Idle \in StopRecord
    BY DEF Idle, StopRecord
  <1>3. [stop[c] EXCEPT !.step = e] \in StopRecord
    BY <1>1
  <1> QED
    BY <1>2, <1>3

LEMMA InitOK == Init => IInv
  <1> SUFFICES ASSUME Init PROVE IInv
    OBVIOUS
  <1> USE DEF Init
  <1>1. TypeOK
    <2>1. crashes \in 0..MaxCrashes /\ age \in [Turn -> Young..Overdue]
      BY StreamAssumption DEF Young, Overdue
    <2>2. stop \in [Stopper -> [step : {"idle", "published", "raised", "settled"},
                                turn : Turn \union {NoTurn}, flag : BOOLEAN]]
      BY DEF Idle
    <2> QED
      BY <2>1, <2>2 DEF TypeOK, Phase
  <1>2. PromptKept /\ LockHeld /\ InOrder
    BY Turns DEF PromptKept, LockHeld, InOrder, Launching, Turn
  <1>3. ASSUME NEW t \in Turn PROVE TurnOK(t)
    BY Turns DEF TurnOK, LaunchOK, RowsOK, LatestOK, OutcomeOK, Launching, Working
  <1>4. \A c \in Stopper : StopOK(c)
    BY DEF StopOK, Idle
  <1> QED
    BY <1>1, <1>2, <1>3, <1>4 DEF IInv

LEMMA StartTurnPreserves ==
  ASSUME IInv, NEW t \in Turn, StartTurn(t)
  PROVE  IInv'
  <1> USE Turns DEF StartTurn, Reapable, Blocking, others
  <1>1. TypeOK'
    BY DEF IInv, TypeOK, Phase, Young, Overdue, TurnOK, LaunchOK, Launching
  <1>2. PromptKept'
    BY DEF IInv, TypeOK, PromptKept, TurnOK, LaunchOK, Launching
  <1>3. LockHeld' /\ InOrder'
    BY DEF IInv, TypeOK, LockHeld, InOrder, TurnOK, LaunchOK, Launching
  <1>4. ASSUME NEW u \in Turn PROVE TurnOK(u)'
    BY DEF IInv, TypeOK, PromptKept, LockHeld, InOrder, StopOK, TurnOK, LaunchOK, RowsOK, LatestOK,
           OutcomeOK, Launching, Working
  <1>5. ASSUME NEW d \in Stopper PROVE StopOK(d)'
    BY DEF IInv, TypeOK, StopOK, TurnOK, RowsOK, Launching, Working
  <1> QED
    BY <1>1, <1>2, <1>3, <1>4, <1>5 DEF IInv

LEMMA PersistTurnPreserves ==
  ASSUME IInv, NEW t \in Turn, PersistTurn(t)
  PROVE  IInv'
  <1> USE Turns DEF PersistTurn, registries, others
  <1>1. TypeOK'
    BY DEF IInv, TypeOK, Phase, Young, Overdue, TurnOK, LaunchOK, Launching
  <1>2. PromptKept'
    BY DEF IInv, TypeOK, PromptKept, TurnOK, LaunchOK, Launching
  <1>3. LockHeld' /\ InOrder'
    BY DEF IInv, TypeOK, LockHeld, InOrder, TurnOK, LaunchOK, Launching
  <1>4. ASSUME NEW u \in Turn PROVE TurnOK(u)'
    BY DEF IInv, TypeOK, PromptKept, LockHeld, InOrder, StopOK, TurnOK, LaunchOK, RowsOK, LatestOK,
           OutcomeOK, Launching, Working
  <1>5. ASSUME NEW d \in Stopper PROVE StopOK(d)'
    BY DEF IInv, TypeOK, StopOK, TurnOK, RowsOK, Launching, Working
  <1> QED
    BY <1>1, <1>2, <1>3, <1>4, <1>5 DEF IInv

LEMMA RegisterStreamPreserves ==
  ASSUME IInv, NEW t \in Turn, RegisterStream(t)
  PROVE  IInv'
  <1> USE Turns DEF RegisterStream, record, LaunchClaims, others
  <1>1. TypeOK'
    BY DEF IInv, TypeOK, Phase, Young, Overdue, TurnOK, LaunchOK, Launching
  <1>2. PromptKept'
    BY DEF IInv, TypeOK, PromptKept, TurnOK, LaunchOK, Launching
  <1>3. LockHeld' /\ InOrder'
    BY DEF IInv, TypeOK, LockHeld, InOrder, TurnOK, LaunchOK, Launching
  <1>4. ASSUME NEW u \in Turn PROVE TurnOK(u)'
    BY DEF IInv, TypeOK, PromptKept, LockHeld, InOrder, StopOK, TurnOK, LaunchOK, RowsOK, LatestOK,
           OutcomeOK, Launching, Working
  <1>5. ASSUME NEW d \in Stopper PROVE StopOK(d)'
    BY DEF IInv, TypeOK, StopOK, TurnOK, RowsOK, Launching, Working
  <1> QED
    BY <1>1, <1>2, <1>3, <1>4, <1>5 DEF IInv

LEMMA StartWorkerPreserves ==
  ASSUME IInv, NEW t \in Turn, StartWorker(t)
  PROVE  IInv'
  <1> USE Turns DEF StartWorker, record, registries, others
  <1>1. TypeOK'
    BY DEF IInv, TypeOK, Phase, Young, Overdue, TurnOK, LaunchOK, Launching
  <1>2. PromptKept'
    BY DEF IInv, TypeOK, PromptKept, TurnOK, LaunchOK, Launching
  <1>3. LockHeld' /\ InOrder'
    BY DEF IInv, TypeOK, LockHeld, InOrder, TurnOK, LaunchOK, Launching
  <1>4. ASSUME NEW u \in Turn PROVE TurnOK(u)'
    BY DEF IInv, TypeOK, PromptKept, LockHeld, InOrder, StopOK, TurnOK, LaunchOK, RowsOK, LatestOK,
           OutcomeOK, Launching, Working
  <1>5. ASSUME NEW d \in Stopper PROVE StopOK(d)'
    BY DEF IInv, TypeOK, StopOK, TurnOK, RowsOK, Launching, Working
  <1> QED
    BY <1>1, <1>2, <1>3, <1>4, <1>5 DEF IInv

LEMMA LaunchFailsPreserves ==
  ASSUME IInv, NEW t \in Turn, LaunchFails(t)
  PROVE  IInv'
  <1> USE Turns DEF LaunchFails, others
  <1>1. TypeOK'
    BY DEF IInv, TypeOK, Phase, Young, Overdue, TurnOK, LaunchOK, Launching
  <1>2. PromptKept'
    BY DEF IInv, TypeOK, PromptKept, TurnOK, LaunchOK, Launching
  <1>3. LockHeld' /\ InOrder'
    BY DEF IInv, TypeOK, LockHeld, InOrder, TurnOK, LaunchOK, Launching
  <1>4. ASSUME NEW u \in Turn PROVE TurnOK(u)'
    BY DEF IInv, TypeOK, PromptKept, LockHeld, InOrder, StopOK, TurnOK, LaunchOK, RowsOK, LatestOK,
           OutcomeOK, Launching, Working
  <1>5. ASSUME NEW d \in Stopper PROVE StopOK(d)'
    BY DEF IInv, TypeOK, StopOK, TurnOK, RowsOK, Launching, Working
  <1> QED
    BY <1>1, <1>2, <1>3, <1>4, <1>5 DEF IInv

LEMMA AdmitWorkerPreserves ==
  ASSUME IInv, NEW t \in Turn, AdmitWorker(t)
  PROVE  IInv'
  <1> USE Turns DEF AdmitWorker, record, others
  <1>1. TypeOK'
    BY DEF IInv, TypeOK, Phase, Young, Overdue, TurnOK, LaunchOK, Launching
  <1>2. PromptKept'
    BY DEF IInv, TypeOK, PromptKept, TurnOK, LaunchOK, Launching
  <1>3. LockHeld' /\ InOrder'
    BY DEF IInv, TypeOK, LockHeld, InOrder, TurnOK, LaunchOK, Launching
  <1>4. ASSUME NEW u \in Turn PROVE TurnOK(u)'
    BY DEF IInv, TypeOK, PromptKept, LockHeld, InOrder, StopOK, TurnOK, LaunchOK, RowsOK, LatestOK,
           OutcomeOK, Launching, Working
  <1>5. ASSUME NEW d \in Stopper PROVE StopOK(d)'
    BY DEF IInv, TypeOK, StopOK, TurnOK, RowsOK, Launching, Working
  <1> QED
    BY <1>1, <1>2, <1>3, <1>4, <1>5 DEF IInv

LEMMA RefuseWorkerPreserves ==
  ASSUME IInv, NEW t \in Turn, RefuseWorker(t)
  PROVE  IInv'
  <1> USE Turns DEF RefuseWorker, record, others, Release
  <1>1. TypeOK'
    BY DEF IInv, TypeOK, Phase, Young, Overdue, TurnOK, LaunchOK, Launching
  <1>2. PromptKept'
    BY DEF IInv, TypeOK, PromptKept, TurnOK, LaunchOK, Launching
  <1>3. LockHeld' /\ InOrder'
    BY DEF IInv, TypeOK, LockHeld, InOrder, TurnOK, LaunchOK, Launching
  <1>4. ASSUME NEW u \in Turn PROVE TurnOK(u)'
    BY DEF IInv, TypeOK, PromptKept, LockHeld, InOrder, StopOK, TurnOK, LaunchOK, RowsOK, LatestOK,
           OutcomeOK, Launching, Working
  <1>5. ASSUME NEW d \in Stopper PROVE StopOK(d)'
    BY DEF IInv, TypeOK, StopOK, TurnOK, RowsOK, Launching, Working
  <1> QED
    BY <1>1, <1>2, <1>3, <1>4, <1>5 DEF IInv

LEMMA DrainWorkerPreserves ==
  ASSUME IInv, NEW t \in Turn, DrainWorker(t)
  PROVE  IInv'
  <1> USE Turns DEF DrainWorker, record, others, Emit
  <1>1. TypeOK'
    BY DEF IInv, TypeOK, Phase, Young, Overdue, TurnOK, LaunchOK, Launching
  <1>2. PromptKept'
    BY DEF IInv, TypeOK, PromptKept, TurnOK, LaunchOK, Launching
  <1>3. LockHeld' /\ InOrder'
    BY DEF IInv, TypeOK, LockHeld, InOrder, TurnOK, LaunchOK, Launching
  <1>4. ASSUME NEW u \in Turn PROVE TurnOK(u)'
    BY DEF IInv, TypeOK, PromptKept, LockHeld, InOrder, StopOK, TurnOK, LaunchOK, RowsOK, LatestOK,
           OutcomeOK, Launching, Working
  <1>5. ASSUME NEW d \in Stopper PROVE StopOK(d)'
    BY DEF IInv, TypeOK, StopOK, TurnOK, RowsOK, Launching, Working
  <1> QED
    BY <1>1, <1>2, <1>3, <1>4, <1>5 DEF IInv

LEMMA MarkRunningPreserves ==
  ASSUME IInv, NEW t \in Turn, MarkRunning(t)
  PROVE  IInv'
  <1> USE Turns DEF MarkRunning, record, others
  <1>1. TypeOK'
    BY DEF IInv, TypeOK, Phase, Young, Overdue, TurnOK, LaunchOK, Launching
  <1>2. PromptKept'
    BY DEF IInv, TypeOK, PromptKept, TurnOK, LaunchOK, Launching
  <1>3. LockHeld' /\ InOrder'
    BY DEF IInv, TypeOK, LockHeld, InOrder, TurnOK, LaunchOK, Launching
  <1>4. ASSUME NEW u \in Turn PROVE TurnOK(u)'
    BY DEF IInv, TypeOK, PromptKept, LockHeld, InOrder, StopOK, TurnOK, LaunchOK, RowsOK, LatestOK,
           OutcomeOK, Launching, Working
  <1>5. ASSUME NEW d \in Stopper PROVE StopOK(d)'
    BY DEF IInv, TypeOK, StopOK, TurnOK, RowsOK, Launching, Working
  <1> QED
    BY <1>1, <1>2, <1>3, <1>4, <1>5 DEF IInv

LEMMA RegisterAgentPreserves ==
  ASSUME IInv, NEW t \in Turn, RegisterAgent(t)
  PROVE  IInv'
  <1> USE Turns DEF RegisterAgent, record, registries, others
  <1>1. TypeOK'
    BY DEF IInv, TypeOK, Phase, Young, Overdue, TurnOK, LaunchOK, Launching
  <1>2. PromptKept'
    BY DEF IInv, TypeOK, PromptKept, TurnOK, LaunchOK, Launching
  <1>3. LockHeld' /\ InOrder'
    BY DEF IInv, TypeOK, LockHeld, InOrder, TurnOK, LaunchOK, Launching
  <1>4. ASSUME NEW u \in Turn PROVE TurnOK(u)'
    BY DEF IInv, TypeOK, PromptKept, LockHeld, InOrder, StopOK, TurnOK, LaunchOK, RowsOK, LatestOK,
           OutcomeOK, Launching, Working
  <1>5. ASSUME NEW d \in Stopper PROVE StopOK(d)'
    BY DEF IInv, TypeOK, StopOK, TurnOK, RowsOK, Launching, Working
  <1> QED
    BY <1>1, <1>2, <1>3, <1>4, <1>5 DEF IInv

LEMMA AgentReturnsPreserves ==
  ASSUME IInv, NEW t \in Turn, AgentReturns(t)
  PROVE  IInv'
  <1> USE Turns DEF AgentReturns, record, registries, others
  <1>1. TypeOK'
    BY DEF IInv, TypeOK, Phase, Young, Overdue, TurnOK, LaunchOK, Launching
  <1>2. PromptKept'
    BY DEF IInv, TypeOK, PromptKept, TurnOK, LaunchOK, Launching
  <1>3. LockHeld' /\ InOrder'
    BY DEF IInv, TypeOK, LockHeld, InOrder, TurnOK, LaunchOK, Launching
  <1>4. ASSUME NEW u \in Turn PROVE TurnOK(u)'
    BY DEF IInv, TypeOK, PromptKept, LockHeld, InOrder, StopOK, TurnOK, LaunchOK, RowsOK, LatestOK,
           OutcomeOK, Launching, Working
  <1>5. ASSUME NEW d \in Stopper PROVE StopOK(d)'
    BY DEF IInv, TypeOK, StopOK, TurnOK, RowsOK, Launching, Working
  <1> QED
    BY <1>1, <1>2, <1>3, <1>4, <1>5 DEF IInv

LEMMA UnwindCancelledPreserves ==
  ASSUME IInv, NEW t \in Turn, UnwindCancelled(t)
  PROVE  IInv'
  <1> USE Turns DEF UnwindCancelled, record, registries, others, SeesCancel, FinalizeCancelled, MayFinalize, CloseTurn, Emit
  <1>1. TypeOK'
    <2>1. outcome' \in [Turn -> Outcomes]
      BY DEF IInv, TypeOK, Outcomes
    <2>2. event' \in [Turn -> Events] /\ worker' \in [Turn -> Places]
      BY DEF IInv, TypeOK, Events, Places
    <2>3. active' \in Turn \union {NoTurn} /\ pending' \in {NoTurn, active'}
      BY DEF IInv, TypeOK
    <2>4. fresh' \in BOOLEAN
      BY DEF IInv, TypeOK
    <2>5. prompts' \subseteq Turn
      BY DEF IInv, TypeOK
    <2> QED
      BY <2>1, <2>2, <2>3, <2>4, <2>5 DEF IInv, TypeOK, Outcomes, Events, Places
  <1>2. PromptKept'
    BY DEF IInv, TypeOK, PromptKept, TurnOK, LaunchOK, Launching
  <1>3. LockHeld' /\ InOrder'
    BY DEF IInv, TypeOK, LockHeld, InOrder, TurnOK, LaunchOK, Launching
  <1>4. ASSUME NEW u \in Turn PROVE TurnOK(u)'
    BY DEF IInv, TypeOK, PromptKept, LockHeld, InOrder, StopOK, TurnOK, LaunchOK, RowsOK, LatestOK,
           OutcomeOK, Launching, Working
  <1>5. ASSUME NEW d \in Stopper PROVE StopOK(d)'
    BY DEF IInv, TypeOK, StopOK, TurnOK, RowsOK, Launching, Working
  <1> QED
    BY <1>1, <1>2, <1>3, <1>4, <1>5 DEF IInv

LEMMA SkipStaleWritebackPreserves ==
  ASSUME IInv, NEW t \in Turn, SkipStaleWriteback(t)
  PROVE  IInv'
  <1> USE Turns DEF SkipStaleWriteback, record, registries, others
  <1>1. TypeOK'
    BY DEF IInv, TypeOK, Phase, Young, Overdue, TurnOK, LaunchOK, Launching
  <1>2. PromptKept'
    BY DEF IInv, TypeOK, PromptKept, TurnOK, LaunchOK, Launching
  <1>3. LockHeld' /\ InOrder'
    BY DEF IInv, TypeOK, LockHeld, InOrder, TurnOK, LaunchOK, Launching
  <1>4. ASSUME NEW u \in Turn PROVE TurnOK(u)'
    BY DEF IInv, TypeOK, PromptKept, LockHeld, InOrder, StopOK, TurnOK, LaunchOK, RowsOK, LatestOK,
           OutcomeOK, Launching, Working
  <1>5. ASSUME NEW d \in Stopper PROVE StopOK(d)'
    BY DEF IInv, TypeOK, StopOK, TurnOK, RowsOK, Launching, Working
  <1> QED
    BY <1>1, <1>2, <1>3, <1>4, <1>5 DEF IInv

LEMMA SaveResultPreserves ==
  ASSUME IInv, NEW t \in Turn, SaveResult(t)
  PROVE  IInv'
  <1> USE Turns DEF SaveResult, registries, others, MayWrite, IsCurrent, CanSupersede
  <1>1. TypeOK'
    BY DEF IInv, TypeOK, Phase, Young, Overdue, TurnOK, LaunchOK, Launching
  <1>2. PromptKept'
    BY DEF IInv, TypeOK, PromptKept, TurnOK, LaunchOK, Launching
  <1>3. LockHeld' /\ InOrder'
    BY DEF IInv, TypeOK, LockHeld, InOrder, TurnOK, LaunchOK, Launching
  <1>4. ASSUME NEW u \in Turn PROVE TurnOK(u)'
    BY DEF IInv, TypeOK, PromptKept, LockHeld, InOrder, StopOK, TurnOK, LaunchOK, RowsOK, LatestOK,
           OutcomeOK, Launching, Working
  <1>5. ASSUME NEW d \in Stopper PROVE StopOK(d)'
    BY DEF IInv, TypeOK, StopOK, TurnOK, RowsOK, Launching, Working
  <1> QED
    BY <1>1, <1>2, <1>3, <1>4, <1>5 DEF IInv

LEMMA AfterSavePreserves ==
  ASSUME IInv, NEW t \in Turn, AfterSave(t)
  PROVE  IInv'
  <1> USE Turns DEF AfterSave, record, registries, others, FinalizeCancelled, MayFinalize, CloseTurn, Emit
  <1>1. TypeOK'
    <2>1. outcome' \in [Turn -> Outcomes]
      BY DEF IInv, TypeOK, Outcomes
    <2>2. event' \in [Turn -> Events] /\ worker' \in [Turn -> Places]
      BY DEF IInv, TypeOK, Events, Places
    <2>3. active' \in Turn \union {NoTurn} /\ pending' \in {NoTurn, active'}
      BY DEF IInv, TypeOK
    <2>4. fresh' \in BOOLEAN
      BY DEF IInv, TypeOK
    <2>5. prompts' \subseteq Turn
      BY DEF IInv, TypeOK
    <2> QED
      BY <2>1, <2>2, <2>3, <2>4, <2>5 DEF IInv, TypeOK, Outcomes, Events, Places
  <1>2. PromptKept'
    BY DEF IInv, TypeOK, PromptKept, TurnOK, LaunchOK, Launching
  <1>3. LockHeld' /\ InOrder'
    BY DEF IInv, TypeOK, LockHeld, InOrder, TurnOK, LaunchOK, Launching
  <1>4. ASSUME NEW u \in Turn PROVE TurnOK(u)'
    BY DEF IInv, TypeOK, PromptKept, LockHeld, InOrder, StopOK, TurnOK, LaunchOK, RowsOK, LatestOK,
           OutcomeOK, Launching, Working
  <1>5. ASSUME NEW d \in Stopper PROVE StopOK(d)'
    BY DEF IInv, TypeOK, StopOK, TurnOK, RowsOK, Launching, Working
  <1> QED
    BY <1>1, <1>2, <1>3, <1>4, <1>5 DEF IInv

LEMMA CommitSuccessPreserves ==
  ASSUME IInv, NEW t \in Turn, CommitSuccess(t)
  PROVE  IInv'
  <1> USE Turns DEF CommitSuccess, record, registries, others
  <1>1. TypeOK'
    BY DEF IInv, TypeOK, Phase, Young, Overdue, TurnOK, LaunchOK, Launching
  <1>2. PromptKept'
    BY DEF IInv, TypeOK, PromptKept, TurnOK, LaunchOK, Launching
  <1>3. LockHeld' /\ InOrder'
    BY DEF IInv, TypeOK, LockHeld, InOrder, TurnOK, LaunchOK, Launching
  <1>4. ASSUME NEW u \in Turn PROVE TurnOK(u)'
    BY DEF IInv, TypeOK, PromptKept, LockHeld, InOrder, StopOK, TurnOK, LaunchOK, RowsOK, LatestOK,
           OutcomeOK, Launching, Working
  <1>5. ASSUME NEW d \in Stopper PROVE StopOK(d)'
    BY DEF IInv, TypeOK, StopOK, TurnOK, RowsOK, Launching, Working
  <1> QED
    BY <1>1, <1>2, <1>3, <1>4, <1>5 DEF IInv

LEMMA SaveErrorPreserves ==
  ASSUME IInv, NEW t \in Turn, SaveError(t)
  PROVE  IInv'
  <1> USE Turns DEF SaveError, registries, others, IsCurrent, CloseTurn
  <1>1. TypeOK'
    BY ZenonT(60) DEF IInv, TypeOK, Phase, Young, Overdue, TurnOK, LaunchOK, Launching
  <1>2. PromptKept'
    BY DEF IInv, TypeOK, PromptKept, TurnOK, LaunchOK, Launching
  <1>3. LockHeld' /\ InOrder'
    BY DEF IInv, TypeOK, LockHeld, InOrder, TurnOK, LaunchOK, Launching
  <1>4. ASSUME NEW u \in Turn PROVE TurnOK(u)'
    BY DEF IInv, TypeOK, PromptKept, LockHeld, InOrder, StopOK, TurnOK, LaunchOK, RowsOK, LatestOK,
           OutcomeOK, Launching, Working
  <1>5. ASSUME NEW d \in Stopper PROVE StopOK(d)'
    BY DEF IInv, TypeOK, StopOK, TurnOK, RowsOK, Launching, Working
  <1> QED
    BY <1>1, <1>2, <1>3, <1>4, <1>5 DEF IInv

LEMMA EmitOutcomePreserves ==
  ASSUME IInv, NEW t \in Turn, EmitOutcome(t)
  PROVE  IInv'
  <1> USE Turns DEF EmitOutcome, record, registries, others, Emit
  <1>1. TypeOK'
    BY DEF IInv, TypeOK, Phase, Young, Overdue, TurnOK, LaunchOK, Launching
  <1>2. PromptKept'
    BY DEF IInv, TypeOK, PromptKept, TurnOK, LaunchOK, Launching
  <1>3. LockHeld' /\ InOrder'
    BY DEF IInv, TypeOK, LockHeld, InOrder, TurnOK, LaunchOK, Launching
  <1>4. ASSUME NEW u \in Turn PROVE TurnOK(u)'
    BY DEF IInv, TypeOK, PromptKept, LockHeld, InOrder, StopOK, TurnOK, LaunchOK, RowsOK, LatestOK,
           OutcomeOK, Launching, Working
  <1>5. ASSUME NEW d \in Stopper PROVE StopOK(d)'
    BY DEF IInv, TypeOK, StopOK, TurnOK, RowsOK, Launching, Working
  <1> QED
    BY <1>1, <1>2, <1>3, <1>4, <1>5 DEF IInv

LEMMA TeardownPreserves ==
  ASSUME IInv, NEW t \in Turn, Teardown(t)
  PROVE  IInv'
  <1> USE Turns DEF Teardown, record, others, Release, UnregisteredRun
  <1>1. TypeOK'
    BY DEF IInv, TypeOK, Phase, Young, Overdue, TurnOK, LaunchOK, Launching
  <1>2. PromptKept'
    BY DEF IInv, TypeOK, PromptKept, TurnOK, LaunchOK, Launching
  <1>3. LockHeld' /\ InOrder'
    BY DEF IInv, TypeOK, LockHeld, InOrder, TurnOK, LaunchOK, Launching
  <1>4. ASSUME NEW u \in Turn PROVE TurnOK(u)'
    BY DEF IInv, TypeOK, PromptKept, LockHeld, InOrder, StopOK, TurnOK, LaunchOK, RowsOK, LatestOK,
           OutcomeOK, Launching, Working
  <1>5. ASSUME NEW d \in Stopper PROVE StopOK(d)'
    BY DEF IInv, TypeOK, StopOK, TurnOK, RowsOK, Launching, Working
  <1> QED
    BY <1>1, <1>2, <1>3, <1>4, <1>5 DEF IInv

LEMMA RowAgesPreserves ==
  ASSUME IInv, NEW t \in Turn, RowAges(t)
  PROVE  IInv'
  <1> USE Turns DEF RowAges, record, others
  <1>1. TypeOK'
    BY DEF IInv, TypeOK, Phase, Young, Overdue, TurnOK, LaunchOK, Launching
  <1>2. PromptKept'
    BY DEF IInv, TypeOK, PromptKept, TurnOK, LaunchOK, Launching
  <1>3. LockHeld' /\ InOrder'
    BY DEF IInv, TypeOK, LockHeld, InOrder, TurnOK, LaunchOK, Launching
  <1>4. ASSUME NEW u \in Turn PROVE TurnOK(u)'
    BY DEF IInv, TypeOK, PromptKept, LockHeld, InOrder, StopOK, TurnOK, LaunchOK, RowsOK, LatestOK,
           OutcomeOK, Launching, Working
  <1>5. ASSUME NEW d \in Stopper PROVE StopOK(d)'
    BY DEF IInv, TypeOK, StopOK, TurnOK, RowsOK, Launching, Working
  <1> QED
    BY <1>1, <1>2, <1>3, <1>4, <1>5 DEF IInv

LEMMA PublishStopPreserves ==
  ASSUME IInv, NEW c \in Stopper, NEW t \in Turn, PublishStop(c, t)
  PROVE  IInv'
  <1> USE Turns DEF PublishStop, record, others
  <1>1. TypeOK'
    <2>1. stop' \in [Stopper -> StopRecord]
      BY DEF IInv, TypeOK, StopRecord
    <2>2. run' \in [Turn -> Phase]
      BY DEF IInv, TypeOK, Phase
    <2>3. /\ age' \in [Turn -> Young..Overdue]
          /\ \A u \in Turn : run'[u] = "none" => age'[u] = Young
      BY DEF IInv, TypeOK, Young, Overdue
    <2> QED
      BY <2>1, <2>2, <2>3 DEF IInv, TypeOK, StopRecord
  <1>2. PromptKept'
    BY DEF IInv, TypeOK, PromptKept, TurnOK, LaunchOK, Launching
  <1>3. LockHeld' /\ InOrder'
    BY DEF IInv, TypeOK, LockHeld, InOrder, TurnOK, LaunchOK, Launching
  <1>4. ASSUME NEW u \in Turn PROVE TurnOK(u)'
    BY SMTT(60) DEF IInv, TypeOK, PromptKept, LockHeld, InOrder, StopOK, TurnOK, LaunchOK, RowsOK, LatestOK,
           OutcomeOK, Launching, Working
  <1>5. ASSUME NEW d \in Stopper PROVE StopOK(d)'
    BY DEF IInv, TypeOK, StopOK, TurnOK, RowsOK, Launching, Working
  <1> QED
    BY <1>1, <1>2, <1>3, <1>4, <1>5 DEF IInv

LEMMA RaiseFlagPreserves ==
  ASSUME IInv, NEW c \in Stopper, RaiseFlag(c)
  PROVE  IInv'
  <1> USE Turns DEF RaiseFlag, record, registries, others
  <1>1. TypeOK'
    <2>1. stop \in [Stopper -> StopRecord]
      BY DEF IInv, TypeOK, StopRecord
    <2>2. stop' \in [Stopper -> StopRecord]
      BY <2>1, StopMoves
    <2> QED
      BY <2>2 DEF IInv, TypeOK, StopOK, StopRecord
  <1>2. PromptKept'
    BY DEF IInv, TypeOK, PromptKept, TurnOK, LaunchOK, Launching
  <1>3. LockHeld' /\ InOrder'
    BY DEF IInv, TypeOK, LockHeld, InOrder, TurnOK, LaunchOK, Launching
  <1>4. ASSUME NEW u \in Turn PROVE TurnOK(u)'
    BY DEF IInv, TypeOK, PromptKept, LockHeld, InOrder, StopOK, TurnOK, LaunchOK, RowsOK, LatestOK,
           OutcomeOK, Launching, Working
  <1>5. ASSUME NEW d \in Stopper PROVE StopOK(d)'
    BY DEF IInv, TypeOK, StopOK
  <1> QED
    BY <1>1, <1>2, <1>3, <1>4, <1>5 DEF IInv

LEMMA SettleStopPreserves ==
  ASSUME IInv, NEW c \in Stopper, SettleStop(c)
  PROVE  IInv'
  <1> USE Turns DEF SettleStop, record, registries, others, MaySettle, IsCurrent, StoppedPrompts
  <1>1. TypeOK'
    <2>1. stop \in [Stopper -> StopRecord]
      BY DEF IInv, TypeOK, StopRecord
    <2>2. stop' \in [Stopper -> StopRecord]
      BY ZenonT(60), <2>1, StopMoves
    <2>3. outcome' \in [Turn -> Outcomes]
      BY DEF IInv, TypeOK, StopOK, Outcomes
    <2>4. active' \in Turn \union {NoTurn} /\ pending' \in {NoTurn, active'}
      BY DEF IInv, TypeOK
    <2>5. fresh' \in BOOLEAN
      BY DEF IInv, TypeOK
    <2>6. prompts' \subseteq Turn
      BY DEF IInv, TypeOK
    <2> QED
      BY <2>2, <2>3, <2>4, <2>5, <2>6 DEF IInv, TypeOK, StopRecord, Outcomes
  <1>2. PromptKept'
    BY DEF IInv, TypeOK, PromptKept, TurnOK, LaunchOK, Launching
  <1>3. LockHeld' /\ InOrder'
    BY DEF IInv, TypeOK, LockHeld, InOrder, TurnOK, LaunchOK, Launching
  <1>4. ASSUME NEW u \in Turn PROVE TurnOK(u)'
    BY DEF IInv, TypeOK, PromptKept, LockHeld, InOrder, StopOK, TurnOK, LaunchOK, RowsOK, LatestOK,
           OutcomeOK, Launching, Working
  <1>5. ASSUME NEW d \in Stopper PROVE StopOK(d)'
    BY SMTT(60) DEF IInv, TypeOK, StopOK, Idle
  <1> QED
    BY <1>1, <1>2, <1>3, <1>4, <1>5 DEF IInv

LEMMA EmitStopPreserves ==
  ASSUME IInv, NEW c \in Stopper, EmitStop(c)
  PROVE  IInv'
  <1> USE Turns DEF EmitStop, record, registries, others, Emit
  <1>1. TypeOK'
    <2>1. stop \in [Stopper -> StopRecord]
      BY DEF IInv, TypeOK, StopRecord
    <2>2. stop' \in [Stopper -> StopRecord]
      BY <2>1, StopMoves
    <2>3. event' \in [Turn -> Events]
      BY DEF IInv, TypeOK, Events
    <2> QED
      BY <2>2, <2>3 DEF IInv, TypeOK, StopRecord, Events
  <1>2. PromptKept'
    BY DEF IInv, TypeOK, PromptKept, TurnOK, LaunchOK, Launching
  <1>3. LockHeld' /\ InOrder'
    BY DEF IInv, TypeOK, LockHeld, InOrder, TurnOK, LaunchOK, Launching
  <1>4. ASSUME NEW u \in Turn PROVE TurnOK(u)'
    BY DEF IInv, TypeOK, PromptKept, LockHeld, InOrder, StopOK, TurnOK, LaunchOK, RowsOK, LatestOK,
           OutcomeOK, Launching, Working
  <1>5. ASSUME NEW d \in Stopper PROVE StopOK(d)'
    BY DEF IInv, TypeOK, StopOK, Idle
  <1> QED
    BY <1>1, <1>2, <1>3, <1>4, <1>5 DEF IInv

LEMMA SuspectStreamPreserves ==
  ASSUME IInv, SuspectStream
  PROVE  IInv'
  <1> USE Turns DEF SuspectStream, record, registries, others
  <1>1. TypeOK'
    BY DEF IInv, TypeOK, Phase, Young, Overdue, TurnOK, LaunchOK, Launching
  <1>2. PromptKept'
    BY DEF IInv, TypeOK, PromptKept, TurnOK, LaunchOK, Launching
  <1>3. LockHeld' /\ InOrder'
    BY DEF IInv, TypeOK, LockHeld, InOrder, TurnOK, LaunchOK, Launching
  <1>4. ASSUME NEW u \in Turn PROVE TurnOK(u)'
    BY DEF IInv, TypeOK, PromptKept, LockHeld, InOrder, StopOK, TurnOK, LaunchOK, RowsOK, LatestOK,
           OutcomeOK, Launching, Working
  <1>5. ASSUME NEW d \in Stopper PROVE StopOK(d)'
    BY DEF IInv, TypeOK, StopOK, TurnOK, RowsOK, Launching, Working
  <1> QED
    BY <1>1, <1>2, <1>3, <1>4, <1>5 DEF IInv

LEMMA GiveUpSuspectPreserves ==
  ASSUME IInv, GiveUpSuspect
  PROVE  IInv'
  <1> USE Turns DEF GiveUpSuspect, record, registries, others
  <1>1. TypeOK'
    BY DEF IInv, TypeOK, Phase, Young, Overdue, TurnOK, LaunchOK, Launching
  <1>2. PromptKept'
    BY DEF IInv, TypeOK, PromptKept, TurnOK, LaunchOK, Launching
  <1>3. LockHeld' /\ InOrder'
    BY DEF IInv, TypeOK, LockHeld, InOrder, TurnOK, LaunchOK, Launching
  <1>4. ASSUME NEW u \in Turn PROVE TurnOK(u)'
    BY DEF IInv, TypeOK, PromptKept, LockHeld, InOrder, StopOK, TurnOK, LaunchOK, RowsOK, LatestOK,
           OutcomeOK, Launching, Working
  <1>5. ASSUME NEW d \in Stopper PROVE StopOK(d)'
    BY DEF IInv, TypeOK, StopOK, TurnOK, RowsOK, Launching, Working
  <1> QED
    BY <1>1, <1>2, <1>3, <1>4, <1>5 DEF IInv

LEMMA ClearStaleStreamPreserves ==
  ASSUME IInv, ClearStaleStream
  PROVE  IInv'
  <1> USE Turns DEF ClearStaleStream, registries, CloseTurn, Alive
  <1>1. TypeOK'
    BY DEF IInv, TypeOK, Phase, Young, Overdue, TurnOK, LaunchOK, Launching
  <1>2. PromptKept'
    BY DEF IInv, TypeOK, PromptKept, TurnOK, LaunchOK, Launching
  <1>3. LockHeld' /\ InOrder'
    BY DEF IInv, TypeOK, LockHeld, InOrder, TurnOK, LaunchOK, Launching
  <1>4. ASSUME NEW u \in Turn PROVE TurnOK(u)'
    BY DEF IInv, TypeOK, PromptKept, LockHeld, InOrder, StopOK, TurnOK, LaunchOK, RowsOK, LatestOK,
           OutcomeOK, Launching, Working
  <1>5. ASSUME NEW d \in Stopper PROVE StopOK(d)'
    BY DEF IInv, TypeOK, StopOK, TurnOK, RowsOK, Launching, Working
  <1> QED
    BY <1>1, <1>2, <1>3, <1>4, <1>5 DEF IInv

LEMMA RepairStalePendingPreserves ==
  ASSUME IInv, RepairStalePending
  PROVE  IInv'
  <1> USE Turns DEF RepairStalePending, registries, others, CloseTurn, Alive
  <1>1. TypeOK'
    BY ZenonT(60) DEF IInv, TypeOK, Phase, Young, Overdue, TurnOK, LaunchOK, Launching
  <1>2. PromptKept'
    BY DEF IInv, TypeOK, PromptKept, TurnOK, LaunchOK, Launching
  <1>3. LockHeld' /\ InOrder'
    BY DEF IInv, TypeOK, LockHeld, InOrder, TurnOK, LaunchOK, Launching
  <1>4. ASSUME NEW u \in Turn PROVE TurnOK(u)'
    BY DEF IInv, TypeOK, PromptKept, LockHeld, InOrder, StopOK, TurnOK, LaunchOK, RowsOK, LatestOK,
           OutcomeOK, Launching, Working
  <1>5. ASSUME NEW d \in Stopper PROVE StopOK(d)'
    BY DEF IInv, TypeOK, StopOK, TurnOK, RowsOK, Launching, Working
  <1> QED
    BY <1>1, <1>2, <1>3, <1>4, <1>5 DEF IInv

LEMMA PendingAgesPreserves ==
  ASSUME IInv, PendingAges
  PROVE  IInv'
  <1> USE Turns DEF PendingAges, registries, others
  <1>1. TypeOK'
    BY DEF IInv, TypeOK, Phase, Young, Overdue, TurnOK, LaunchOK, Launching
  <1>2. PromptKept'
    BY DEF IInv, TypeOK, PromptKept, TurnOK, LaunchOK, Launching
  <1>3. LockHeld' /\ InOrder'
    BY DEF IInv, TypeOK, LockHeld, InOrder, TurnOK, LaunchOK, Launching
  <1>4. ASSUME NEW u \in Turn PROVE TurnOK(u)'
    BY DEF IInv, TypeOK, PromptKept, LockHeld, InOrder, StopOK, TurnOK, LaunchOK, RowsOK, LatestOK,
           OutcomeOK, Launching, Working
  <1>5. ASSUME NEW d \in Stopper PROVE StopOK(d)'
    BY DEF IInv, TypeOK, StopOK, TurnOK, RowsOK, Launching, Working
  <1> QED
    BY <1>1, <1>2, <1>3, <1>4, <1>5 DEF IInv

LEMMA DrainMarkerAppearsPreserves ==
  ASSUME IInv, DrainMarkerAppears
  PROVE  IInv'
  <1> USE Turns DEF DrainMarkerAppears, record, registries
  <1>1. TypeOK'
    BY DEF IInv, TypeOK, Phase, Young, Overdue, TurnOK, LaunchOK, Launching
  <1>2. PromptKept'
    BY DEF IInv, TypeOK, PromptKept, TurnOK, LaunchOK, Launching
  <1>3. LockHeld' /\ InOrder'
    BY DEF IInv, TypeOK, LockHeld, InOrder, TurnOK, LaunchOK, Launching
  <1>4. ASSUME NEW u \in Turn PROVE TurnOK(u)'
    BY DEF IInv, TypeOK, PromptKept, LockHeld, InOrder, StopOK, TurnOK, LaunchOK, RowsOK, LatestOK,
           OutcomeOK, Launching, Working
  <1>5. ASSUME NEW d \in Stopper PROVE StopOK(d)'
    BY DEF IInv, TypeOK, StopOK, TurnOK, RowsOK, Launching, Working
  <1> QED
    BY <1>1, <1>2, <1>3, <1>4, <1>5 DEF IInv

LEMMA CrashPreserves ==
  ASSUME IInv, Crash
  PROVE  IInv'
  <1> USE Turns DEF Crash
  <1>1. TypeOK'
    <2>1. crashes' \in 0..MaxCrashes /\ age' \in [Turn -> Young..Overdue]
      BY StreamAssumption DEF IInv, TypeOK, Young, Overdue
    <2>2. stop' \in [Stopper -> StopRecord]
      BY DEF Idle, StopRecord
    <2>3. run' \in [Turn -> Phase] /\ worker' \in [Turn -> Places]
      BY DEF IInv, TypeOK, Phase, Places
    <2>4. active' \in Turn \union {NoTurn} /\ pending' \in {NoTurn, active'}
      BY DEF IInv, TypeOK, TurnOK, LaunchOK
    <2> QED
      BY <2>1, <2>2, <2>3, <2>4 DEF IInv, TypeOK, Places, StopRecord
  <1>2. PromptKept'
    BY DEF IInv, TypeOK, PromptKept, TurnOK, LaunchOK, Launching
  <1>3. LockHeld' /\ InOrder'
    BY DEF IInv, TypeOK, LockHeld, InOrder, TurnOK, LaunchOK, Launching
  <1>4. ASSUME NEW u \in Turn PROVE TurnOK(u)'
    BY DEF IInv, TypeOK, PromptKept, LockHeld, InOrder, StopOK, TurnOK, LaunchOK, RowsOK, LatestOK,
           OutcomeOK, Launching, Working
  <1>5. ASSUME NEW d \in Stopper PROVE StopOK(d)'
    BY DEF Idle, StopOK
  <1> QED
    BY <1>1, <1>2, <1>3, <1>4, <1>5 DEF IInv

-----------------------------------------------------------------------------
LEMMA NextPreserves == IInv /\ [Next]_vars => IInv'
  <1> SUFFICES ASSUME IInv, [Next]_vars PROVE IInv'
    OBVIOUS
  <1>1. ASSUME NEW t \in Turn, StartTurn(t) \/ LaunchStep(t) \/ AgentReturns(t) \/ RowAges(t)
        PROVE  IInv'
    BY <1>1, StartTurnPreserves, PersistTurnPreserves, RegisterStreamPreserves,
       StartWorkerPreserves, LaunchFailsPreserves, AgentReturnsPreserves, RowAgesPreserves
       DEF LaunchStep
  <1>2. ASSUME NEW t \in Turn, WorkerStep(t)
        PROVE  IInv'
    BY <1>2, AdmitWorkerPreserves, RefuseWorkerPreserves, DrainWorkerPreserves,
       MarkRunningPreserves, RegisterAgentPreserves, UnwindCancelledPreserves,
       SkipStaleWritebackPreserves, SaveResultPreserves, AfterSavePreserves,
       CommitSuccessPreserves, SaveErrorPreserves, EmitOutcomePreserves, TeardownPreserves
       DEF WorkerStep
  <1>3. ASSUME NEW c \in Stopper, StopStep(c) \/ \E t \in Turn : PublishStop(c, t)
        PROVE  IInv'
    BY <1>3, PublishStopPreserves, RaiseFlagPreserves, SettleStopPreserves, EmitStopPreserves
       DEF StopStep
  <1>4. CASE Repair
    BY <1>4, SuspectStreamPreserves, GiveUpSuspectPreserves, ClearStaleStreamPreserves,
       RepairStalePendingPreserves DEF Repair
  <1>5. CASE PendingAges \/ DrainMarkerAppears \/ Crash
    BY <1>5, PendingAgesPreserves, DrainMarkerAppearsPreserves, CrashPreserves
  <1>6. CASE UNCHANGED vars
    BY <1>6 DEF vars, record, registries, others, IInv, TypeOK, PromptKept, LockHeld, InOrder,
                TurnOK, LaunchOK, RowsOK, LatestOK, OutcomeOK, StopOK
  <1> QED
    BY <1>1, <1>2, <1>3, <1>4, <1>5, <1>6 DEF Next

(* The record, the registries and the threads stay in step, whatever the   *)
(* order of launches, workers, Stops, repairs, crashes and the clock.      *)
THEOREM InvariantHolds == Spec => []IInv
  BY InitOK, NextPreserves, PTL DEF Spec

\* Types; the pending prompt always belongs to the active stream.
THEOREM TypeCorrect == Spec => []TypeOK
  <1>1. IInv => TypeOK
    BY DEF IInv
  <1> QED
    BY <1>1, InvariantHolds, PTL

\* No launch and no working turn ever looks like a stream to reap.
THEOREM OrphansAreDead == Spec => []NoLiveOrphan
  <1>1. IInv => NoLiveOrphan
    BY DEF IInv, TurnOK, RowsOK, NoLiveOrphan, Orphaned, Working
  <1> QED
    BY <1>1, InvariantHolds, PTL

\* The message of the user survives every way a turn can end.
THEOREM PromptsSurvive == Spec => []PromptKept
  <1>1. IInv => PromptKept
    BY DEF IInv
  <1> QED
    BY <1>1, InvariantHolds, PTL

\* A finished turn is in no registry.
THEOREM RowsAreReleased == Spec => []RegistriesReleased
  <1>1. IInv => RegistriesReleased
    BY DEF IInv, TypeOK, TurnOK, RowsOK, RegistriesReleased, Working, Launching
  <1> QED
    BY <1>1, InvariantHolds, PTL

\* A client that was told "done" finds the answer and no cancel marker.
THEOREM DoneIsSaved == Spec => []DoneMeansSaved
  <1>1. IInv => DoneMeansSaved
    BY DEF IInv, TurnOK, OutcomeOK, DoneMeansSaved
  <1> QED
    BY <1>1, InvariantHolds, PTL

-----------------------------------------------------------------------------
(* An admission of u finds the session lock free and no active stream, so  *)
(* no earlier turn is still being launched; a launched one that is still   *)
(* registered was cut off, and a worker without a row was overrun before.  *)
LEMMA AdmissionWaits ==
  ASSUME IInv, NEW t \in Turn, NEW u \in Turn, t < u, StartTurn(u)
  PROVE  \/ worker[t] \in {"failed", "drained", "gone"}
         \/ worker[t] = "launched" /\ t \notin streams
         \/ worker[t] \in Working /\ (age[t] = Overdue \/ t \in overran)
         \/ t \in cutOff
  <1>1. worker[t] # "new" /\ worker[t] \notin Launching
    BY Turns DEF StartTurn, IInv, LockHeld
  <1>2. CASE worker[t] = "launched"
    BY <1>2, Turns DEF StartTurn, IInv, TurnOK, LaunchOK
  <1>3. CASE worker[t] \in Working
    <2>1. run[t] = "none" => t \in overran
      BY <1>3 DEF IInv, TurnOK, RowsOK
    <2>2. run[t] # "none" => age[t] = Overdue
      BY DEF StartTurn, Blocking, IInv, TypeOK, Young, Overdue
    <2> QED
      BY <1>3, <2>1, <2>2
  <1> QED
    BY <1>1, <1>2, <1>3 DEF IInv, TypeOK, Launching, Working

\* Only its own admission makes a turn claim the session.
LEMMA ClaimingIsAdmission ==
  ASSUME IInv, [Next]_vars, NEW u \in Turn, worker[u] = "new", worker'[u] = "claiming"
  PROVE  StartTurn(u)
  <1> USE DEF IInv, TypeOK
  <1>1. ASSUME NEW t \in Turn, StartTurn(t) PROVE t = u
    BY <1>1 DEF StartTurn
  <1>2. ASSUME NEW t \in Turn, LaunchStep(t) \/ AgentReturns(t) \/ RowAges(t) PROVE FALSE
    BY <1>2 DEF LaunchStep, PersistTurn, RegisterStream, StartWorker, LaunchFails, AgentReturns, RowAges
  <1>3. ASSUME NEW t \in Turn, WorkerStep(t) PROVE FALSE
    BY <1>3 DEF WorkerStep, AdmitWorker, RefuseWorker, DrainWorker, MarkRunning, RegisterAgent,
       UnwindCancelled, SkipStaleWriteback, SaveResult, AfterSave, CommitSuccess, SaveError,
       EmitOutcome, Teardown
  <1>4. ASSUME NEW c \in Stopper, StopStep(c) \/ \E t \in Turn : PublishStop(c, t) PROVE FALSE
    BY <1>4 DEF StopStep, PublishStop, RaiseFlag, SettleStop, EmitStop
  <1>5. ~Repair
    BY DEF Repair, SuspectStream, GiveUpSuspect, ClearStaleStream, RepairStalePending
  <1>6. ~(PendingAges \/ DrainMarkerAppears \/ Crash)
    BY DEF PendingAges, DrainMarkerAppears, Crash
  <1>7. ~UNCHANGED vars
    BY DEF vars
  <1> QED
    BY <1>1, <1>2, <1>3, <1>4, <1>5, <1>6, <1>7 DEF Next

(* A successor is admitted only when each earlier worker is gone, can no   *)
(* longer be admitted, or was given its 180 s, unless a repair cut it off. *)
THEOREM SuccessorsWait == Spec => SuccessorWaits
  <1> DEFINE Waits ==
        \A t, u \in Turn :
          t < u /\ worker[u] = "new" /\ worker[u]' = "claiming" =>
            \/ worker[t] \in {"failed", "drained", "gone"}
            \/ worker[t] = "launched" /\ t \notin streams
            \/ worker[t] \in Working /\ (age[t] = Overdue \/ t \in overran)
            \/ t \in cutOff
  <1>1. IInv /\ [Next]_vars => Waits
    BY ClaimingIsAdmission, AdmissionWaits
  <1>2. IInv /\ [Next]_vars => [Waits]_vars
    BY <1>1
  <1> QED
    BY <1>2, InvariantHolds, PTL DEF Spec, SuccessorWaits

-----------------------------------------------------------------------------
(* Who owns the session, by its active stream or by the writeback row, has *)
(* no successor.  The third right to write, over a recovery marker, needs  *)
(* that no later prompt is kept; every later turn would have one.          *)
LEMMA WriterIsLatest ==
  ASSUME IInv, NEW t \in Turn, active = t \/ owner = t \/ MayWrite(t), lock = NoTurn
  PROVE  \A u \in Turn : t < u => worker[u] \in {"new", "failed"}
  <1>1. CASE active = t \/ owner = t
    BY <1>1 DEF IInv, TurnOK, LatestOK
  <1>2. CASE CanSupersede(t)
    BY <1>2, Turns DEF CanSupersede, IInv, PromptKept, LockHeld, Launching
  <1> QED
    BY <1>1, <1>2 DEF MayWrite, IsCurrent

LEMMA WorkerWritesLatest ==
  ASSUME IInv, NEW t \in Turn, WorkerStep(t), record # record'
  PROVE  \A u \in Turn : t < u => worker[u] \in {"new", "failed"}
  <1>1. CASE UnwindCancelled(t)
    BY <1>1, WriterIsLatest DEF UnwindCancelled, FinalizeCancelled, MayFinalize
  <1>2. CASE SaveResult(t)
    BY <1>2, WriterIsLatest DEF SaveResult
  <1>3. CASE AfterSave(t)
    BY <1>3 DEF AfterSave, FinalizeCancelled, MayFinalize, IInv, TurnOK, LatestOK
  <1>4. CASE SaveError(t)
    BY <1>4, WriterIsLatest DEF SaveError, IsCurrent
  <1> QED
    BY <1>1, <1>2, <1>3, <1>4
       DEF WorkerStep, AdmitWorker, RefuseWorker, DrainWorker, MarkRunning, RegisterAgent,
           SkipStaleWriteback, CommitSuccess, EmitOutcome, Teardown

LEMMA LaunchWritesLatest ==
  ASSUME IInv, NEW t \in Turn, StartTurn(t) \/ LaunchStep(t), record # record'
  PROVE  \A u \in Turn : t < u => worker[u] \in {"new", "failed"}
  <1>1. CASE StartTurn(t)
    BY <1>1, Turns DEF StartTurn, IInv, InOrder
  <1>2. CASE LaunchStep(t)
    BY <1>2 DEF LaunchStep, PersistTurn, RegisterStream, StartWorker, LaunchFails,
                record, IInv, TurnOK, LaunchOK, LatestOK, Launching
  <1> QED
    BY <1>1, <1>2

LEMMA StopWritesLatest ==
  ASSUME IInv, NEW c \in Stopper, StopStep(c), record # record'
  PROVE  \A u \in Turn : stop[c].turn < u => worker[u] \in {"new", "failed"}
  <1>1. SettleStop(c)
    BY DEF StopStep, RaiseFlag, EmitStop
  <1>2. stop[c].turn \in Turn /\ active = stop[c].turn /\ lock = NoTurn
    BY <1>1 DEF SettleStop, MaySettle, IsCurrent, record, IInv, StopOK
  <1> QED
    BY <1>2, WriterIsLatest

\* Who moves in a step: the worker of one turn, one Stop, or neither.
LEMMA WhoActs ==
  ASSUME IInv, [Next]_vars, NEW t \in Turn, ActsFor(t), record # record'
  PROVE  \/ StartTurn(t) \/ LaunchStep(t) \/ WorkerStep(t)
         \/ \E c \in Stopper : stop[c].turn = t /\ StopStep(c)
  <1> USE DEF IInv, TypeOK, ActsFor
  <1>1. ASSUME NEW u \in Turn, StartTurn(u) PROVE u = t
    BY <1>1 DEF StartTurn
  <1>2. ASSUME NEW u \in Turn, LaunchStep(u) PROVE u = t
    BY <1>2 DEF LaunchStep, PersistTurn, RegisterStream, StartWorker, LaunchFails
  <1>3. ASSUME NEW u \in Turn, WorkerStep(u) PROVE u = t
    BY <1>3 DEF WorkerStep, AdmitWorker, RefuseWorker, DrainWorker, MarkRunning, RegisterAgent,
       UnwindCancelled, SkipStaleWriteback, SaveResult, AfterSave, CommitSuccess, SaveError,
       EmitOutcome, Teardown
  <1>4. ASSUME NEW u \in Turn, AgentReturns(u) \/ RowAges(u) \/ \E c \in Stopper : PublishStop(c, u)
        PROVE FALSE
    BY <1>4 DEF AgentReturns, RowAges, PublishStop, record
  <1>5. ASSUME NEW c \in Stopper, StopStep(c) PROVE stop[c].turn = t
    BY <1>5 DEF StopStep, RaiseFlag, SettleStop, EmitStop
  <1>6. ~Repair
    BY DEF Repair, SuspectStream, GiveUpSuspect, ClearStaleStream, RepairStalePending
  <1>7. ~(PendingAges \/ DrainMarkerAppears \/ Crash)
    BY DEF PendingAges, DrainMarkerAppears, Crash
  <1>8. ~UNCHANGED vars
    BY DEF vars
  <1> QED
    BY <1>1, <1>2, <1>3, <1>4, <1>5, <1>6, <1>7, <1>8 DEF Next

(* Neither a stale worker nor a late Stop touches the record of a session  *)
(* that has moved on to another turn.                                      *)
THEOREM SuccessorIsSafe == Spec => NoWriteOverSuccessor
  <1> DEFINE Safe ==
        \A t \in Turn :
          ActsFor(t) /\ record # record' =>
            \A u \in Turn : t < u => worker[u] \in {"new", "failed"}
  <1>1. IInv /\ [Next]_vars => Safe
    BY WhoActs, LaunchWritesLatest, WorkerWritesLatest, StopWritesLatest
  <1>2. IInv /\ [Next]_vars => [Safe]_vars
    BY <1>1
  <1> QED
    BY <1>2, InvariantHolds, PTL DEF Spec, NoWriteOverSuccessor
=============================================================================
