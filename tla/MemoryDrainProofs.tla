------------------------- MODULE MemoryDrainProofs --------------------------
(***************************************************************************)
(* The shutdown drain uses api/session_lifecycle.py only through its       *)
(* operations: MemoryDrain implements SessionLifecycle, so whatever holds  *)
(* of the lifecycle holds while the server shuts down; and a drain that    *)
(* reports nothing left abandons no commit.                                *)
(***************************************************************************)
EXTENDS MemoryDrain, SessionLifecycleProofs

(* What the arguments of the lifecycle's operations rest on: a thread that *)
(* is about to commit has a session.                                       *)
BackgroundAt == {"off", "registered", "alive", "called"}

DrainAt ==
  {"off", "join", "look", "pass", "start", "commit", "clean", "late", "stuck"}

Addressed ==
  /\ bg \in [Background -> [at : BackgroundAt, sid : Session \union {NoSession}]]
  /\ \A t \in Background : bg[t].at # "off" => bg[t].sid \in Session
  /\ drain \in [at : DrainAt, todo : SUBSET (Session \union Background),
                sid : Session \union {NoSession}, progress : BOOLEAN]
  /\ drain.at = "start" => drain.sid \in Session
  /\ registered \subseteq Background

LEMMA InitAddressed == DrainInit => Addressed
  BY DEF DrainInit, Addressed, BackgroundAt, DrainAt, Unstarted, NotDraining

(* Whoever acts, threads that are about to commit keep a session.          *)
LEMMA NextAddressed == Addressed /\ [DrainNext]_drainVars => Addressed'
  <1> SUFFICES ASSUME Addressed, [DrainNext]_drainVars PROVE Addressed'
    OBVIOUS
  <1> USE DEF Addressed, BackgroundAt, DrainAt
  <1>1. CASE UNCHANGED <<registered, bg, drain>>
    BY <1>1
  <1>2. ASSUME NEW t \in Background, NEW s \in Session, Spawn(t, s) PROVE Addressed'
    BY <1>2 DEF Spawn
  <1>3. ASSUME NEW t \in Background, StartBackground(t) \/ CallBackground(t)
        PROVE  Addressed'
    <2>1. PICK step \in {"alive", "called"} :
            bg[t].at # "off" /\ bg' = [bg EXCEPT ![t] = [bg[t] EXCEPT !.at = step]]
      BY <1>3 DEF StartBackground, CallBackground
    <2>2. UNCHANGED <<registered, drain>>
      BY <1>3 DEF StartBackground, CallBackground
    <2> QED
      BY <2>1, <2>2
  <1>4. ASSUME NEW t \in Background, LeaveBackground(t) PROVE Addressed'
    BY <1>4 DEF LeaveBackground, Unstarted
  <1>5. ASSUME BeginDrain PROVE Addressed'
    BY <1>5 DEF BeginDrain
  <1>6. ASSUME NEW t \in Background, JoinNext(t) PROVE Addressed'
    BY <1>6 DEF JoinNext
  <1>7. ASSUME EndJoins PROVE Addressed'
    BY <1>7 DEF EndJoins
  <1>8. ASSUME Look PROVE Addressed'
    BY <1>8 DEF Look, Uncommitted
  <1>9. ASSUME NEW s \in Session, CommitNext(s) PROVE Addressed'
    BY <1>9 DEF CommitNext
  <1>10. ASSUME WorkerCalls PROVE Addressed'
    BY <1>10 DEF WorkerCalls, GiveUp, Move
  <1>11. ASSUME WorkerResumes \/ WorkerSucceeds \/ WorkerFails PROVE Addressed'
    BY <1>11 DEF WorkerResumes, WorkerSucceeds, WorkerFails, GiveUp, Move, Awaited
  <1>12. ASSUME LeaveWorker PROVE Addressed'
    BY <1>12 DEF LeaveWorker, Move
  <1>13. ASSUME EndPass PROVE Addressed'
    BY <1>13 DEF EndPass
  <1>14. ASSUME \/ ServerStep \/ \E s \in Session : ServerDiscards(s)
                \/ \E t \in Thread : ServerCommits(t) \/ ContinueStep(t)
                \/ Expire \/ UNCHANGED drainVars
         PROVE  UNCHANGED <<registered, bg, drain>>
    BY <1>14 DEF ServerStep, ServerDiscards, ServerCommits, ContinueStep, Expire,
                 drainVars, drainState
  <1> QED
    BY <1>1, <1>2, <1>3, <1>4, <1>5, <1>6, <1>7, <1>8, <1>9, <1>10, <1>11, <1>12, <1>13,
       <1>14 DEF DrainNext, DrainStep

-----------------------------------------------------------------------------
(* Every step of the drain, of a background thread and of the server is a  *)
(* step of the lifecycle or leaves it alone.                               *)
LEMMA StepsAreLifecycleSteps == Addressed /\ [DrainNext]_drainVars => [Next]_vars
  <1> SUFFICES ASSUME Addressed, [DrainNext]_drainVars PROVE [Next]_vars
    OBVIOUS
  <1> USE DrainAssumption
  <1>1. ASSUME ServerStep PROVE Next
    BY <1>1 DEF ServerStep, Server, Next
  <1>2. ASSUME NEW s \in Session, ServerDiscards(s) PROVE Next
    BY <1>2 DEF ServerDiscards, Next
  <1>3. ASSUME NEW t \in Thread, ServerCommits(t) PROVE Next
    BY <1>3 DEF ServerCommits, Next
  <1>4. ASSUME NEW t \in Thread, Continue(t) PROVE Next
    BY <1>4 DEF Continue, Next
  <1>5. ASSUME NEW t \in Background, CallBackground(t) PROVE Next \/ UNCHANGED vars
    <2>1. t \in Thread /\ bg[t].sid \in Session
      BY <1>5 DEF CallBackground, Addressed
    <2> QED
      BY <1>5, <2>1 DEF CallBackground, Next
  <1>6. ASSUME WorkerCalls PROVE Next \/ UNCHANGED vars
    <2>1. Worker \in Thread /\ drain.sid \in Session /\ NoAgent \in Owner
      BY <1>6 DEF WorkerCalls, Addressed, Owner
    <2> QED
      BY <1>6, <2>1 DEF WorkerCalls, Next
  <1>7. ASSUME WorkerResumes \/ WorkerSucceeds \/ WorkerFails PROVE Next
    BY <1>7 DEF WorkerResumes, WorkerSucceeds, WorkerFails, Next
  <1>8. ASSUME \/ \E t \in Background : \/ \E s \in Session : Spawn(t, s)
                                        \/ StartBackground(t) \/ LeaveBackground(t)
                                        \/ JoinNext(t)
               \/ \E s \in Session : CommitNext(s)
               \/ BeginDrain \/ EndJoins \/ Look \/ LeaveWorker \/ EndPass \/ Expire
               \/ UNCHANGED drainVars
        PROVE  UNCHANGED vars
    BY <1>8 DEF Spawn, StartBackground, LeaveBackground, JoinNext, CommitNext, BeginDrain,
                EndJoins, Look, LeaveWorker, EndPass, Expire, drainVars
  <1> QED
    BY <1>1, <1>2, <1>3, <1>4, <1>5, <1>6, <1>7, <1>8
       DEF DrainNext, DrainStep, ContinueStep

(* The server that drains at shutdown implements the lifecycle.            *)
THEOREM DrainImplementsLifecycle == DrainSpec => Spec
  <1>1. DrainInit => Init
    BY DEF DrainInit
  <1> QED
    BY <1>1, InitAddressed, NextAddressed, StepsAreLifecycleSteps, PTL DEF DrainSpec, Spec

(* Commits of one session never overlap, the drain's own among them.       *)
THEOREM DrainKeepsSingleFlight == DrainSpec => []SingleFlight
  BY DrainImplementsLifecycle, SingleFlightHolds, PTL

-----------------------------------------------------------------------------
(* A session whose provider is extracting still owes something.            *)
LEMMA ExtractingOwes ==
  ASSUME TypeOK, SegmentsTile, SingleFlight,
         NEW t \in Thread, call[t].step = "provider"
  PROVE  call[t].sid \in Uncommitted
  <1> DEFINE s == call[t].sid
  <1>1. s \in Session /\ InProvider(t, s)
    BY DEF TypeOK, Call, NoCall, InProvider
  <1>2. segments[s] \in Seq(Segment) /\ segments[s] # << >>
    BY <1>1 DEF TypeOK, SingleFlight
  <1>3. committed[s] \in Nat /\ generation[s] \in Nat
        /\ Tiles(segments[s], committed[s], generation[s])
    BY <1>1 DEF TypeOK, SegmentsTile
  <1>4. committed[s] < segments[s][1].end /\ segments[s][1].end <= generation[s]
        /\ segments[s][1] \in Segment
    BY <1>2, <1>3, FirstIsUncommitted
  <1>5. generation[s] > committed[s]
    BY <1>3, <1>4 DEF Segment
  <1> QED
    BY <1>1, <1>5 DEF Uncommitted, HasUncommittedWork

(* When the drain finds nothing left, no thread is half way in a commit.   *)
THEOREM NothingIsAbandoned == DrainSpec => NothingAbandoned
  <1> DEFINE Clean == drain.at # "clean" /\ drain'.at = "clean"
             Step == Clean => \A t \in Thread : call[t].step # "provider"
  <1>1. Addressed /\ [DrainNext]_drainVars /\ Clean => Look
    <2> SUFFICES ASSUME Addressed, [DrainNext]_drainVars, Clean PROVE Look
      OBVIOUS
    <2>1. drain' # drain
      OBVIOUS
    <2> QED
      BY <2>1 DEF DrainNext, DrainStep, ServerStep, ServerDiscards, ServerCommits,
         ContinueStep, Spawn, StartBackground, CallBackground, LeaveBackground, Expire,
         BeginDrain, EndJoins, WorkerCalls, LeaveWorker, EndPass, JoinNext, CommitNext,
         WorkerResumes, WorkerSucceeds, WorkerFails, GiveUp, Move, Addressed,
         drainVars, drainState
  <1>2. Addressed /\ Look /\ Clean => Uncommitted = {}
    BY DEF Look
  <1>3. TypeOK /\ SegmentsTile /\ SingleFlight /\ Addressed /\ [DrainNext]_drainVars
          => [Step]_drainVars
    BY <1>1, <1>2, ExtractingOwes
  <1>4. DrainSpec => []Addressed
    BY InitAddressed, NextAddressed, PTL DEF DrainSpec
  <1> QED
    BY <1>3, <1>4, DrainImplementsLifecycle, TypeCorrect, TilingHolds, SingleFlightHolds, PTL
       DEF DrainSpec, NothingAbandoned
-----------------------------------------------------------------------------
(* What the drain has settled so far.  DrainSettles is not inductive:      *)
(* a pass without progress ends the drain, so as long as it made none, a   *)
(* session that owes is refused already or has still to be tried.          *)
ToTry == drain.todo \union (IF drain.at \in {"start", "commit"} THEN {drain.sid} ELSE {})

OwedAreIn(set) == \A s \in Session : due[s] > committed[s] => s \in set

Settling ==
  /\ due \in [Session -> Nat]
  /\ \A s \in Session : due[s] <= generation[s]
  /\ drain.at = "clean" => OwedAreIn({})
  /\ drain.at \in {"pass", "start", "commit"} /\ ~drain.progress /\ ~expired
       => OwedAreIn(refused \union ToTry)
  /\ drain.at = "stuck" /\ ~expired => OwedAreIn(refused)

\* Counters of a session only grow, but when it is discarded.
Grown ==
  \A s \in Session : generation[s] <= generation'[s] /\ committed[s] <= committed'[s]

LEMMA StepsGrow ==
  ASSUME TypeOK,
         \/ ServerStep
         \/ \E t \in Thread, s \in Session, a \in Owner :
              BeginCommit(t, s, a) \/ WaitForCommit(t, s, a)
         \/ \E t \in Thread : Continue(t)
         \/ UNCHANGED vars
  PROVE  Grown
  <1> USE DEF Grown
  <1>1. \A s \in Session : generation[s] \in Nat /\ committed[s] \in Nat
    BY DEF TypeOK
  <1>2. ASSUME NEW s \in Session, NEW a \in Owner, MarkTurnCompleted(s, a) PROVE Grown
    <2>1. generation' = [generation EXCEPT ![s] = generation[s] + 1] /\ committed' = committed
      BY <1>2 DEF MarkTurnCompleted
    <2> QED
      BY <2>1, <1>1 DEF TypeOK
  <1>3. ASSUME NEW t \in Thread, CommitSucceeded(t) PROVE Grown
    <2>1. call[t].sid \in Session /\ call[t].captured \in Nat
      BY <1>3 DEF CommitSucceeded, TypeOK, Call, NoCall
    <2>2. generation' = generation
          /\ committed' = [committed EXCEPT ![call[t].sid] =
                             CommittedUpTo(call[t].sid, call[t].captured)]
      BY <1>3 DEF CommitSucceeded
    <2>3. CommittedUpTo(call[t].sid, call[t].captured) >= committed[call[t].sid]
      BY <2>1, <1>1 DEF CommittedUpTo
    <2> QED
      BY <2>1, <2>2, <2>3, <1>1 DEF TypeOK
  <1>4. ASSUME \/ \E s \in Session : \/ \E a \in Agent : RegisterAgent(s, a)
                                     \/ UnregisterAgent(s) \/ RecordOwnerProfileHome(s)
               \/ \E t \in Thread, s \in Session, a \in Owner :
                    BeginCommit(t, s, a) \/ WaitForCommit(t, s, a)
               \/ \E t \in Thread : ResumeCommit(t) \/ AbandonCommit(t) \/ CommitFailed(t)
               \/ UNCHANGED vars
        PROVE  Grown
    <2>1. UNCHANGED <<generation, committed>>
      BY ZenonT(60), <1>4 DEF RegisterAgent, UnregisterAgent, RecordOwnerProfileHome, BeginCommit,
                  WaitForCommit, ResumeCommit, AbandonCommit, CommitFailed, Capture, vars
    <2> QED
      BY SMTT(60), <2>1, <1>1
  <1> QED
    BY <1>2, <1>3, <1>4 DEF ServerStep, Server, Continue

\* What the server does meanwhile settles more, never less.
LEMMA ServerKeepsSettling ==
  ASSUME Settling, TypeOK, TypeOK', Grown, UNCHANGED <<drain, due, expired, refused>>
  PROVE  Settling'
  <1>1. \A s \in Session : /\ generation[s] \in Nat /\ committed[s] \in Nat /\ due[s] \in Nat
                           /\ generation'[s] \in Nat /\ committed'[s] \in Nat
    BY DEF TypeOK, Settling
  <1>2. \A s \in Session : due'[s] > committed'[s] => due[s] > committed[s]
    BY <1>1 DEF Grown
  <1>3. \A s \in Session : due'[s] <= generation'[s]
    BY <1>1 DEF Grown, Settling
  <1>4. ToTry' = ToTry
    BY DEF ToTry
  <1> QED
    BY <1>2, <1>3, <1>4 DEF Settling, OwedAreIn

LEMMA InitSettling == DrainInit => Settling
  BY DEF DrainInit, Init, Settling, NotDraining

(* One step per action of the drain; everybody else only adds.             *)
LEMMA NextSettling ==
  TypeOK /\ TypeOK' /\ Addressed /\ Settling /\ [DrainNext]_drainVars => Settling'
  <1> SUFFICES ASSUME TypeOK, TypeOK', Addressed, Settling, [DrainNext]_drainVars
               PROVE  Settling'
    OBVIOUS
  <1> DEFINE Else == UNCHANGED <<drain, due, expired, refused>>
  <1>0. /\ drain \in [at : DrainAt, todo : SUBSET (Session \union Background),
                      sid : Session \union {NoSession}, progress : BOOLEAN]
        /\ due \in [Session -> Nat]
        /\ \A s \in Session : generation[s] \in Nat /\ committed[s] \in Nat /\ due[s] \in Nat
    BY DEF Addressed, TypeOK, Settling
  <1>1. ASSUME Else,
               \/ ServerStep
               \/ \E t \in Thread, s \in Session, a \in Owner :
                    BeginCommit(t, s, a) \/ WaitForCommit(t, s, a)
               \/ \E t \in Thread : Continue(t)
               \/ UNCHANGED vars
        PROVE  Settling'
    BY <1>1, StepsGrow, ServerKeepsSettling
  <1>2. ASSUME NEW s \in Session, ServerDiscards(s) PROVE Settling'
    <2>1. /\ generation' = [generation EXCEPT ![s] = 0]
          /\ committed' = [committed EXCEPT ![s] = 0]
          /\ due' = [due EXCEPT ![s] = 0]
          /\ UNCHANGED <<drain, expired, refused>>
      BY <1>2 DEF ServerDiscards, DiscardSession
    <2>2. \A u \in Session : (due'[u] > committed'[u] => due[u] > committed[u])
                             /\ due'[u] <= generation'[u]
      BY <2>1, <1>0 DEF TypeOK, Settling
    <2>3. due' \in [Session -> Nat] /\ ToTry' = ToTry
      BY <2>1, <1>0 DEF ToTry
    <2> QED
      BY <2>1, <2>2, <2>3 DEF Settling, OwedAreIn
  <1>3. CASE BeginDrain
    <2>1. drain'.at = "join" /\ due' \in [Session -> Nat]
          /\ (\A s \in Session : due'[s] <= generation'[s])
      BY <1>3, <1>0 DEF BeginDrain, vars
    <2> QED
      BY <2>1 DEF Settling
  <1>4. ASSUME EndJoins \/ \E t \in Background : JoinNext(t) PROVE Settling'
    <2>1. drain'.at \in {"join", "look"} /\ UNCHANGED <<due, generation>>
      BY <1>4, <1>0 DEF EndJoins, JoinNext, vars
    <2> QED
      BY <2>1 DEF Settling
  <1>5. CASE Look
    <2>1. \A s \in Session : s \notin Uncommitted => due[s] <= committed[s]
      BY <1>0 DEF Uncommitted, HasUncommittedWork, Settling
    <2>2. UNCHANGED <<due, generation, committed, expired, refused>>
      BY <1>5 DEF Look, vars
    <2>3. \/ drain'.at = "clean" /\ Uncommitted = {}
          \/ drain'.at = "late"
          \/ drain'.at = "pass" /\ drain'.todo = Uncommitted
      BY <1>5, <1>0 DEF Look
    <2> QED
      BY <2>1, <2>2, <2>3, <1>0 DEF Settling, OwedAreIn, ToTry
  <1>6. ASSUME NEW s \in Session, CommitNext(s) PROVE Settling'
    <2>1. /\ drain.at = "pass" /\ s \in drain.todo /\ drain'.at = "start" /\ drain'.sid = s
          /\ drain'.todo = drain.todo \ {s} /\ drain'.progress = drain.progress
      BY <1>6, <1>0 DEF CommitNext
    <2>2. UNCHANGED <<due, generation, committed, expired, refused>>
      BY <1>6 DEF CommitNext, vars
    <2> QED
      BY <2>1, <2>2 DEF Settling, OwedAreIn, ToTry
  <1>7. ASSUME drain.at \in {"start", "commit"}, GiveUp(drain.sid),
               UNCHANGED <<due, generation, committed, expired>>
        PROVE  Settling'
    <2>1. drain'.at = "pass" /\ drain'.todo = drain.todo /\ drain'.progress = drain.progress
      BY <1>7, <1>0 DEF GiveUp, Move
    <2>2. \A s \in Session : due[s] > committed[s] => HasUncommittedWork(s)
      BY <1>0 DEF Settling, HasUncommittedWork
    <2>3. refused \subseteq refused' /\ (HasUncommittedWork(drain.sid) => drain.sid \in refused')
      BY <1>7 DEF GiveUp
    <2> QED
      BY <1>7, <2>1, <2>2, <2>3 DEF Settling, OwedAreIn, ToTry
  <1>8. CASE WorkerCalls
    <2>1. UNCHANGED <<due, generation, committed, expired>> /\ drain.at = "start"
      BY <1>8 DEF WorkerCalls, BeginCommit, WaitForCommit, Capture, vars
    <2>2. CASE Move("commit") /\ UNCHANGED refused
      <3>1. /\ drain'.at = "commit" /\ drain'.todo = drain.todo /\ drain'.sid = drain.sid
            /\ drain'.progress = drain.progress
        BY <2>2, <1>0 DEF Move
      <3> QED
        BY <2>1, <2>2, <3>1 DEF Settling, OwedAreIn, ToTry
    <2>3. CASE GiveUp(drain.sid)
      BY <2>1, <2>3, <1>7
    <2> QED
      BY <1>8, <2>2, <2>3 DEF WorkerCalls
  <1>9. CASE WorkerResumes
    <2>1. UNCHANGED <<due, generation, committed, expired>> /\ drain.at = "commit"
      BY <1>9 DEF WorkerResumes, ResumeCommit, AbandonCommit, Capture, Awaited
    <2>2. CASE UNCHANGED <<drain, refused>>
      BY <2>1, <2>2 DEF Settling, OwedAreIn, ToTry
    <2>3. CASE GiveUp(drain.sid)
      BY <2>1, <2>3, <1>7
    <2> QED
      BY SMTT(60), <1>9, <2>2, <2>3 DEF WorkerResumes
  <1>10. CASE WorkerSucceeds
    <2>1. drain'.at = "pass" /\ drain'.progress = TRUE
      BY <1>10, <1>0 DEF WorkerSucceeds
    <2>2. UNCHANGED <<due, generation>>
      BY <1>10 DEF WorkerSucceeds, CommitSucceeded
    <2> QED
      BY <2>1, <2>2 DEF Settling
  <1>11. CASE WorkerFails
    <2>1. UNCHANGED <<due, generation, committed, expired>> /\ drain.at = "commit"
          /\ refused' = refused \union {drain.sid}
      BY <1>11 DEF WorkerFails, CommitFailed, Awaited
    <2>2. drain'.at = "pass" /\ drain'.todo = drain.todo /\ drain'.progress = drain.progress
      BY <1>11, <1>0 DEF WorkerFails, Move
    <2> QED
      BY <2>1, <2>2 DEF Settling, OwedAreIn, ToTry
  <1>12. CASE LeaveWorker
    <2>1. drain'.at = "pass" /\ expired' /\ UNCHANGED <<due, generation>>
      BY <1>12, <1>0 DEF LeaveWorker, BudgetIsGone, Move, vars
    <2> QED
      BY <2>1 DEF Settling
  <1>13. CASE EndPass
    <2>1. UNCHANGED <<due, generation, committed, expired, refused>> /\ drain.at = "pass"
      BY <1>13 DEF EndPass, vars
    <2>2. \/ drain'.at \in {"late", "look"}
          \/ drain'.at = "stuck" /\ drain.todo = {} /\ ~drain.progress
      BY <1>13, <1>0 DEF EndPass, Again
    <2> QED
      BY <2>1, <2>2 DEF Settling, OwedAreIn, ToTry
  <1>14. CASE Expire
    <2>1. UNCHANGED <<due, generation, committed, drain, refused>> /\ expired'
      BY <1>14 DEF Expire, vars
    <2> QED
      BY <2>1 DEF Settling, OwedAreIn
  <1>15. ASSUME NEW t \in Background, \/ \E s \in Session : Spawn(t, s)
                                      \/ StartBackground(t) \/ LeaveBackground(t)
         PROVE  Settling'
    BY <1>15, <1>1 DEF Spawn, StartBackground, LeaveBackground
  <1>16. ASSUME NEW t \in Background, CallBackground(t) PROVE Settling'
    <2>1. t \in Thread /\ bg[t].sid \in Session
      BY <1>16, DrainAssumption DEF CallBackground, Addressed
    <2> QED
      BY <1>16, <2>1, <1>1 DEF CallBackground
  <1>17. ASSUME NEW t \in Thread, ServerCommits(t) \/ ContinueStep(t) PROVE Settling'
    BY <1>17, <1>1 DEF ServerCommits, ContinueStep, drainState
  <1>18. ASSUME ServerStep \/ UNCHANGED drainVars PROVE Settling'
    BY <1>18, <1>1 DEF ServerStep, drainVars, drainState
  <1> QED
    BY <1>2, <1>3, <1>4, <1>5, <1>6, <1>8, <1>9, <1>10, <1>11, <1>12, <1>13, <1>14, <1>15,
       <1>16, <1>17, <1>18 DEF DrainNext, DrainStep

(* A drain that ends in time leaves nothing that was owed when it began,   *)
(* except what was refused when it was tried last, for any number of       *)
(* sessions, agents, threads and passes.                                   *)
THEOREM DrainSettlesWhatWasOwed == DrainSpec => []DrainSettles
  <1>1. Settling => DrainSettles
    BY DEF Settling, OwedAreIn, DrainSettles
  <1>2. DrainSpec => []Addressed
    BY InitAddressed, NextAddressed, PTL DEF DrainSpec
  <1>3. DrainSpec => []TypeOK
    BY DrainImplementsLifecycle, TypeCorrect, PTL
  <1>4. DrainSpec => []Settling
    BY InitSettling, NextSettling, <1>2, <1>3, PTL DEF DrainSpec
  <1> QED
    BY <1>1, <1>4, PTL
-----------------------------------------------------------------------------
(* What DrainTypeOK says beyond Addressed and Settling.                    *)
Registered ==
  /\ \A t \in registered : bg[t].at # "off"
  /\ draining \in BOOLEAN
  /\ draining <=> drain.at # "off"
  /\ drain.at = "off" => drain = NotDraining
  /\ draining => registered = {}

Waited ==
  /\ expired \in BOOLEAN
  /\ drain.todo \subseteq (IF drain.at = "join" THEN Background ELSE Session)
  /\ drain.at = "commit" => call[Worker].sid = drain.sid
  /\ refused \subseteq Session

LEMMA InitRegistered == DrainInit => Registered /\ Waited
  <1> SUFFICES ASSUME DrainInit PROVE Registered /\ Waited
    OBVIOUS
  <1>1. drain = NotDraining /\ drain.at = "off" /\ drain.todo = {}
    BY DEF DrainInit, NotDraining
  <1>2. registered = {} /\ refused = {} /\ draining = FALSE /\ expired = FALSE
    BY DEF DrainInit
  <1> QED
    BY <1>1, <1>2 DEF Registered, Waited

(* Threads register before the drain and leave by themselves.              *)
LEMMA NextRegistered == Addressed /\ Registered /\ [DrainNext]_drainVars => Registered'
  <1> SUFFICES ASSUME Addressed, Registered, [DrainNext]_drainVars PROVE Registered'
    OBVIOUS
  <1> USE DEF Addressed, Registered, BackgroundAt, DrainAt
  <1>1. ASSUME UNCHANGED <<registered, bg, draining, drain>> PROVE Registered'
    BY <1>1 DEF NotDraining
  <1>2. ASSUME NEW t \in Background, NEW s \in Session, Spawn(t, s) PROVE Registered'
    BY <1>2 DEF Spawn, MayRegister, NotDraining
  <1>3. ASSUME NEW t \in Background, StartBackground(t) \/ CallBackground(t)
        PROVE  Registered'
    <2>1. PICK step \in {"alive", "called"} :
            bg' = [bg EXCEPT ![t] = [bg[t] EXCEPT !.at = step]]
      BY <1>3 DEF StartBackground, CallBackground
    <2>2. \A u \in registered : bg'[u].at # "off"
      BY <2>1
    <2>3. UNCHANGED <<registered, draining, drain>>
      BY <1>3 DEF StartBackground, CallBackground
    <2> QED
      BY <2>2, <2>3 DEF NotDraining
  <1>4. ASSUME NEW t \in Background, LeaveBackground(t) PROVE Registered'
    BY <1>4 DEF LeaveBackground, NotDraining
  <1>5. CASE BeginDrain
    BY <1>5 DEF BeginDrain, NotDraining
  <1>6. ASSUME drain.at # "off", drain'.at # "off", UNCHANGED <<registered, bg, draining>>
        PROVE  Registered'
    BY <1>6
  <1>7. ASSUME \/ EndJoins \/ Look \/ WorkerCalls \/ LeaveWorker \/ EndPass
               \/ WorkerSucceeds \/ WorkerFails
               \/ \E t \in Background : JoinNext(t)
               \/ \E s \in Session : CommitNext(s)
        PROVE  drain.at # "off" /\ drain'.at # "off" /\ UNCHANGED <<registered, bg, draining>>
    BY <1>7 DEF EndJoins, Look, WorkerCalls, LeaveWorker, EndPass, WorkerSucceeds,
                WorkerFails, JoinNext, CommitNext, GiveUp, Move, Awaited
  <1>8. CASE WorkerResumes
    <2>1. UNCHANGED <<registered, bg, draining>> /\ drain.at = "commit"
      BY <1>8 DEF WorkerResumes, Awaited
    <2>2. drain' = drain \/ drain'.at = "pass"
      BY <1>8 DEF WorkerResumes, GiveUp, Move
    <2> QED
      BY <2>1, <2>2, <1>1, <1>6
  <1>9. ASSUME \/ ServerStep \/ \E s \in Session : ServerDiscards(s)
               \/ \E t \in Thread : ServerCommits(t) \/ ContinueStep(t)
               \/ Expire \/ UNCHANGED drainVars
        PROVE  UNCHANGED <<registered, bg, draining, drain>>
    BY <1>9 DEF ServerStep, ServerDiscards, ServerCommits, ContinueStep, Expire,
                drainVars, drainState
  <1> QED
    BY <1>1, <1>2, <1>3, <1>4, <1>5, <1>6, <1>7, <1>8, <1>9 DEF DrainNext, DrainStep

(* Only the drain moves the worker it waits for.                           *)
LEMMA NextWaited ==
  TypeOK /\ Addressed /\ Waited /\ [DrainNext]_drainVars => Waited'
  <1> SUFFICES ASSUME TypeOK, Addressed, Waited, [DrainNext]_drainVars PROVE Waited'
    OBVIOUS
  <1> USE DrainAssumption
  <1>0. /\ drain \in [at : DrainAt, todo : SUBSET (Session \union Background),
                      sid : Session \union {NoSession}, progress : BOOLEAN]
        /\ registered \subseteq Background /\ call \in [Thread -> Call]
    BY SMTT(60) DEF Addressed, TypeOK
  <1>1. ASSUME call'[Worker] = call[Worker], UNCHANGED <<drain, expired, refused>>
        PROVE  Waited'
    BY <1>1 DEF Waited
  <1>2. ASSUME NEW t \in Thread, t # Worker,
               \/ \E s \in Session, a \in Owner :
                    BeginCommit(t, s, a) \/ WaitForCommit(t, s, a)
               \/ Continue(t)
        PROVE  call'[Worker] = call[Worker]
    BY ZenonT(60), <1>2, <1>0 DEF BeginCommit, WaitForCommit, Continue, ResumeCommit, AbandonCommit,
                      CommitFailed, CommitSucceeded, Capture
  <1>3. ASSUME \/ ServerStep \/ (\E s \in Session : ServerDiscards(s)) \/ UNCHANGED drainVars
        PROVE  Waited'
    <2>1. UNCHANGED <<call, drain, expired, refused>>
      BY <1>3 DEF ServerStep, Server, ServerDiscards, RegisterAgent, UnregisterAgent,
                  RecordOwnerProfileHome, MarkTurnCompleted, DiscardSession, drainVars,
                  drainState, vars
    <2> QED
      BY <2>1, <1>1
  <1>4. ASSUME NEW t \in Thread, ServerCommits(t) PROVE Waited'
    BY <1>4, <1>1, <1>2 DEF ServerCommits, drainState
  <1>5. ASSUME NEW t \in Thread, ContinueStep(t) PROVE Waited'
    <2>1. CASE t = Worker
      BY <1>5, <2>1 DEF ContinueStep, Awaited, Waited, drainState
    <2>2. CASE t # Worker
      BY <1>5, <2>2, <1>1, <1>2 DEF ContinueStep, drainState
    <2> QED
      BY <2>1, <2>2
  <1>6. ASSUME NEW t \in Background, \/ \E s \in Session : Spawn(t, s)
                                     \/ StartBackground(t) \/ LeaveBackground(t)
        PROVE  Waited'
    BY <1>6, <1>1 DEF Spawn, StartBackground, LeaveBackground, vars
  <1>7. ASSUME NEW t \in Background, CallBackground(t) PROVE Waited'
    <2>1. t \in Thread /\ t # Worker /\ bg[t].sid \in Session
      BY <1>7 DEF CallBackground, Addressed
    <2>2. call'[Worker] = call[Worker]
      BY <1>7, <2>1, <1>2 DEF CallBackground, vars
    <2> QED
      BY <1>7, <2>2, <1>1 DEF CallBackground
  <1>8. ASSUME drain'.at # "commit", drain'.at # "join", drain'.todo \subseteq Session,
               expired' \in BOOLEAN, refused' \subseteq Session
        PROVE  Waited'
    BY <1>8 DEF Waited
  <1>9. CASE BeginDrain
    BY <1>9, <1>0 DEF BeginDrain, Waited
  <1>10. ASSUME NEW t \in Background, JoinNext(t) PROVE Waited'
    BY <1>10, <1>0 DEF JoinNext, Waited
  <1>11. ASSUME EndJoins \/ Look \/ LeaveWorker \/ EndPass \/ \E s \in Session : CommitNext(s)
         PROVE  Waited'
    BY ZenonT(60), <1>11, <1>0, <1>8 DEF EndJoins, Look, LeaveWorker, EndPass, CommitNext, Move,
                             Uncommitted, Waited
  <1>12. ASSUME drain.at \in {"start", "commit"}, drain.sid \in Session, GiveUp(drain.sid),
                UNCHANGED expired
         PROVE  Waited'
    BY <1>12, <1>0, <1>8 DEF GiveUp, Move, Waited
  <1>13. CASE WorkerCalls
    <2>1. drain.at = "start" /\ drain.sid \in Session /\ UNCHANGED expired
      BY <1>13 DEF WorkerCalls, Addressed
    <2>2. CASE Move("commit") /\ UNCHANGED refused
               /\ (BeginCommit(Worker, drain.sid, NoAgent)
                   \/ WaitForCommit(Worker, drain.sid, NoAgent))
      <3>1. call'[Worker].sid = drain.sid
        BY <2>2, <1>0 DEF BeginCommit, WaitForCommit, Capture
      <3>2. drain'.at = "commit" /\ drain'.sid = drain.sid /\ drain'.todo = drain.todo
        BY <2>2, <1>0 DEF Move
      <3> QED
        BY <2>1, <2>2, <3>1, <3>2 DEF Waited
    <2>3. CASE GiveUp(drain.sid)
      BY <2>1, <2>3, <1>12
    <2> QED
      BY <1>13, <2>2, <2>3 DEF WorkerCalls
  <1>14. CASE WorkerResumes
    <2>1. drain.at = "commit" /\ UNCHANGED expired
      BY <1>14 DEF WorkerResumes, Awaited
    <2>2. CASE ResumeCommit(Worker) /\ UNCHANGED <<drain, refused>>
      <3>1. call'[Worker].sid = call[Worker].sid
        BY <2>2, <1>0 DEF ResumeCommit, Capture
      <3> QED
        BY <2>1, <2>2, <3>1 DEF Waited
    <2>3. CASE AbandonCommit(Worker) /\ GiveUp(drain.sid)
      <3>1. call[Worker].sid \in Session
        BY <2>3, <1>0 DEF AbandonCommit, Call, NoCall
      <3> QED
        BY <2>1, <2>3, <3>1, <1>12 DEF Waited
    <2> QED
      BY <1>14, <2>2, <2>3 DEF WorkerResumes
  <1>15. ASSUME WorkerSucceeds \/ WorkerFails PROVE Waited'
    <2>1. drain.at = "commit" /\ call[Worker].sid \in Session /\ UNCHANGED expired
      BY <1>15, <1>0 DEF WorkerSucceeds, WorkerFails, CommitSucceeded, CommitFailed, Awaited,
                         Call, NoCall
    <2>2. drain'.at = "pass" /\ drain'.todo = drain.todo
      BY <1>15, <1>0 DEF WorkerSucceeds, WorkerFails, Move
    <2>3. refused' \subseteq refused \union {drain.sid}
      BY <1>15 DEF WorkerSucceeds, WorkerFails
    <2> QED
      BY <2>1, <2>2, <2>3, <1>8 DEF Waited
  <1>16. CASE Expire
    BY <1>16 DEF Expire, Waited, vars
  <1> QED
    BY <1>3, <1>4, <1>5, <1>6, <1>7, <1>9, <1>10, <1>11, <1>13, <1>14, <1>15, <1>16
       DEF DrainNext, DrainStep

(* Types of the drain; no thread registers once it has listed those it     *)
(* joins, and it waits for a worker that is in its call.                   *)
THEOREM DrainTypeCorrect == DrainSpec => []DrainTypeOK
  <1>1. Addressed /\ Registered /\ Waited /\ Settling => DrainTypeOK
    BY DEF Addressed, Registered, Waited, Settling, DrainTypeOK, BackgroundAt, DrainAt,
           Unstarted, NotDraining
  <1>2. DrainSpec => []Addressed
    BY InitAddressed, NextAddressed, PTL DEF DrainSpec
  <1>3. DrainSpec => []TypeOK
    BY DrainImplementsLifecycle, TypeCorrect, PTL
  <1>4. DrainSpec => []Settling
    BY InitSettling, NextSettling, <1>2, <1>3, PTL DEF DrainSpec
  <1>5. DrainSpec => []Registered
    BY InitRegistered, NextRegistered, <1>2, PTL DEF DrainSpec
  <1>6. DrainSpec => []Waited
    BY InitRegistered, NextWaited, <1>2, <1>3, PTL DEF DrainSpec
  <1> QED
    BY <1>1, <1>2, <1>4, <1>5, <1>6, PTL
=============================================================================
