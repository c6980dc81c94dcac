------------------------ MODULE ProcessWakeupsProofs ------------------------
(***************************************************************************)
(* Proofs about module ProcessWakeups, for any finite set of processes and *)
(* any number of turns, copies, aborts and failures: the state keeps its   *)
(* shape, a result is lost only if the prompt of others was filed under    *)
(* its id, it is told once unless it was re-armed or swept, and a result   *)
(* that was read while it waited stays quiet.  The invariant has one part  *)
(* for each of these: Shape, Kept, Once and Hush.                          *)
(***************************************************************************)
EXTENDS ProcessWakeups, FiniteSetTheorems, TLAPS

Unique(S) == \A e, f \in S : e.proc = f.proc => e = f

Threads == [at : {"off", "spawned", "calling", "launching", "started", "failed"},
            batch : SUBSET Entry, key : Proc \cup {None}, tag : BOOLEAN, again : BOOLEAN]

\* Types; nobody acts without a process.
DataOK ==
    /\ running \subseteq Proc /\ consumed \subseteq Proc /\ seen \subseteq Proc
    /\ queue \in Seq(Proc) /\ pending \in BOOLEAN /\ timer \in BOOLEAN
    /\ deferred \subseteq Entry /\ Unique(deferred)
    /\ turn \in {"none", "launching", "fresh", "busy"}
    /\ loop \in [at : {"idle", "look", "defer"}, proc : Proc \cup {None}]
    /\ loop.at # "idle" => loop.proc \in Proc
    /\ drainer \in [Drainer -> [at : {"off", "due", "claim"}, again : BOOLEAN]]
    /\ given \in [Proc -> 0..2]

RunnersOK ==
    /\ runner \in [Runner -> Threads]
    /\ \A r \in Runner : Unique(runner[r].batch) /\ (runner[r].at # "off" => runner[r].key \in Proc)

\* A worker only launches while one thread launches it.
LaunchOK ==
    /\ turn = "launching" <=> \E r \in Runner : runner[r].at = "launching"
    /\ \A r, s \in Runner : runner[r].at = "launching" /\ runner[s].at = "launching" => r = s

Shape == DataOK /\ RunnersOK /\ LaunchOK

\* p is settled, or an aborted launch filed another prompt under its id.
Over(p) == Settled(p) \/ p \in misfiled

\* Somebody answers for p: the drain thread, or an entry under its own id.
Homed(p) ==
    \/ Over(p) \/ loop.proc = p \/ p \in Procs(deferred)
    \/ \E r \in Runner : p \in Procs(runner[r].batch)

\* The claim on p is not mistaken for a read: an entry says whose it is.
Sure(p) ==
    \/ Over(p) \/ \E e \in deferred : e.proc = p /\ e.tag
    \/ \E r \in Runner : \E e \in runner[r].batch : e.proc = p /\ e.tag

Filed(e) == e.proc \in e.text \cup misfiled

(* Every process that ended is homed or in the queue, and the two reasons   *)
(* to drop it from the queue both mean that it is homed.                   *)
Kept ==
    /\ \A e \in deferred : Filed(e)
    /\ \A r \in Runner : \A e \in runner[r].batch : Filed(e)
    /\ \A p \in Proc \ running : Homed(p) \/ InQueue(p)
    /\ \A p \in seen : Homed(p)
    /\ \A p \in consumed : Sure(p)
    /\ \A r \in Runner : runner[r].at = "started" =>
         \A p \in Texts(runner[r].batch) : given[p] > 0

\* Thread r may still put p into the conversation or back into the list.
Held(r, p) ==
    /\ runner[r].at \in {"spawned", "calling", "launching", "failed"}
    /\ p \in Texts(runner[r].batch)

Taken(p) ==
    \/ loop.proc = p \/ p \in Texts(deferred) \/ given[p] = 1
    \/ \E r \in Runner : Held(r, p)

Lone(e) == \A p \in e.text : e.proc = p \/ p \in rearmed

(* A result that is neither re-armed nor swept is in one place, and from    *)
(* when it is taken off the queue it is marked or consumed.                *)
OncePlace(p) ==
    /\ given[p] <= 1
    /\ given[p] = 1 => loop.proc # p /\ p \notin Texts(deferred) /\ \A r \in Runner : ~Held(r, p)
    /\ loop.proc = p => p \notin Texts(deferred) /\ \A r \in Runner : ~Held(r, p)
    /\ p \in Texts(deferred) => \A r \in Runner : ~Held(r, p)
    /\ \A r, s \in Runner : Held(r, p) /\ Held(s, p) => r = s
    /\ Taken(p) => p \in seen \cup consumed

Once ==
    /\ \A e \in deferred : Lone(e)
    /\ \A r \in Runner : \A e \in runner[r].batch : Lone(e)
    /\ \A p \in Proc \ (rearmed \cup swept) : OncePlace(p)

(* A result read while it waited is consumed, and all that is left of it is *)
(* the untagged entry under its own id, which a drain drops.               *)
Plainly(p, e) == p \in {e.proc} \cup e.text => e.proc = p /\ ~e.tag

Hushed(p) ==
    /\ p \in Proc \cap consumed /\ loop.proc # p
    /\ \A e \in deferred : Plainly(p, e)
    /\ \A r \in Runner : p \notin Procs(runner[r].batch) \cup Texts(runner[r].batch)
                                      \cup {runner[r].key}

Hush == \A p \in settled : Hushed(p)

-----------------------------------------------------------------------------
(* Lists of entries.                                                       *)

LEMMA Tagging ==
  ASSUME NEW e \in Entry, NEW b \in BOOLEAN
  PROVE  LET g == [e EXCEPT !.tag = b]
         IN  g \in Entry /\ g.proc = e.proc /\ g.text = e.text /\ g.tag = b
  BY DEF Entry

LEMMA Placing ==
  ASSUME NEW e \in Entry, NEW n \in Nat
  PROVE  LET g == [e EXCEPT !.no = n]
         IN  g \in Entry /\ g.proc = e.proc /\ g.text = e.text /\ g.tag = e.tag
  BY DEF Entry

LEMMA PlainEntry ==
  ASSUME NEW p \in Proc
  PROVE  /\ Plain(p) \in Entry /\ Plain(p).proc = p /\ Plain(p).text = {p}
         /\ ~Plain(p).tag
  BY DEF Plain, Entry

\* An entry set with one entry for each process is finite.
LEMMA UniqueFinite ==
  ASSUME NEW S \in SUBSET Entry, Unique(S)
  PROVE  IsFiniteSet(S)
  <1> DEFINE f == [e \in S |-> e.proc]
  <1>1. f \in [S -> Proc]
    BY DEF Entry
  <1>2. f \in Injection(S, Proc)
    BY <1>1 DEF Injection, IsInjective, Unique
  <1> QED
    BY <1>2, WakeupAssumption, FS_Injection

\* What a list contains after record_deferred_wakeup: see Recorded.
Recorded(list, new, res) ==
    /\ res \subseteq Entry /\ Unique(res)
    /\ Procs(res) = Procs(list) \cup Procs(new)
    /\ \A e \in list \cup new : \E g \in res : g.proc = e.proc /\ (e.tag => g.tag)
    /\ \A g \in res :
        /\ \E e \in list \cup new : e.proc = g.proc /\ e.text = g.text
        /\ g.tag => \E e \in list \cup new : e.proc = g.proc /\ e.tag

LEMMA AppendedEntry ==
  ASSUME NEW list \in SUBSET Entry, NEW new \in SUBSET Entry, Unique(list), Unique(new),
         NEW e \in new
  PROVE  LET g == [e EXCEPT !.no = Cardinality(list) + Cardinality({f \in new : f.no <= e.no})]
         IN  g \in Entry /\ g.proc = e.proc /\ g.text = e.text /\ g.tag = e.tag
  <1>1. Cardinality(list) \in Nat
    BY UniqueFinite, FS_CardinalityType
  <1>2. Cardinality({f \in new : f.no <= e.no}) \in Nat
    <2>1. IsFiniteSet(new)
      BY UniqueFinite
    <2>2. {f \in new : f.no <= e.no} \in SUBSET new
      OBVIOUS
    <2>3. IsFiniteSet({f \in new : f.no <= e.no})
      BY <2>1, <2>2, FS_Subset
    <2> QED
      BY <2>3, FS_CardinalityType
  <1>3. Cardinality(list) + Cardinality({f \in new : f.no <= e.no}) \in Nat
    BY <1>1, <1>2
  <1> QED
    BY <1>3, Placing

LEMMA RecordFacts ==
  ASSUME NEW list \in SUBSET Entry, NEW new \in SUBSET Entry, Unique(list), Unique(new)
  PROVE  Recorded(list, new, Record(list, new))
  <1> DEFINE Tagged(e) == e.tag \/ \E f \in new : f.proc = e.proc /\ f.tag
             Retag(e) == [e EXCEPT !.tag = Tagged(e)]
             Old == {Retag(e) : e \in list}
             Fresh == {e \in new : e.proc \notin Procs(list)}
             Behind == Appended(list, Fresh)
             res == Old \cup Behind
  <1>1. Record(list, new) = res
    BY DEF Record
  <1>2. \A e \in list : /\ Retag(e) \in Old /\ Retag(e) \in Entry
                        /\ Retag(e).proc = e.proc /\ Retag(e).text = e.text
                        /\ Retag(e).tag = Tagged(e)
    <2> SUFFICES ASSUME NEW e \in list
                 PROVE  /\ Retag(e) \in Old /\ Retag(e) \in Entry
                        /\ Retag(e).proc = e.proc /\ Retag(e).text = e.text
                        /\ Retag(e).tag = Tagged(e)
      OBVIOUS
    <2>1. Tagged(e) \in BOOLEAN
      BY DEF Entry
    <2>2. Retag(e) \in Old
      OBVIOUS
    <2> HIDE DEF Tagged
    <2> QED
      BY <2>1, <2>2, Tagging
  <1>3. Fresh \in SUBSET Entry /\ Unique(Fresh)
    BY DEF Unique
  <1> DEFINE At(e) == [e EXCEPT !.no = Cardinality(list) + Cardinality({f \in Fresh : f.no <= e.no})]
  <1>4. \A e \in Fresh : /\ At(e) \in Behind /\ At(e) \in Entry
                         /\ At(e).proc = e.proc /\ At(e).text = e.text /\ At(e).tag = e.tag
    <2>1. \A e \in Fresh : At(e) \in Behind
      BY DEF Appended
    <2> HIDE DEF Fresh
    <2> QED
      BY <1>3, <2>1, AppendedEntry
  <1>5. \A g \in Behind : \E e \in Fresh : g = At(e)
    BY DEF Appended
  <1>6. \A g \in Old : \E e \in list : g = Retag(e)
    OBVIOUS
  <1> HIDE DEF Old, Behind, At, Retag
  <1>7. \A g \in Old : \E e \in list : /\ g \in Entry /\ g.proc = e.proc /\ g.text = e.text
                                       /\ g.tag = Tagged(e) /\ g = Retag(e)
    BY <1>2, <1>6
  <1>8. \A g \in Behind : \E e \in Fresh : /\ g \in Entry /\ g.proc = e.proc /\ g.text = e.text
                                           /\ g.tag = e.tag /\ g = At(e)
    BY <1>4, <1>5
  <1>9. Procs(Old) = Procs(list)
    BY <1>2, <1>7 DEF Procs
  <1>10. Procs(Behind) = Procs(Fresh)
    BY <1>4, <1>8 DEF Procs
  <1>11. Procs(res) = Procs(list) \cup Procs(new)
    <2>1. Procs(res) = Procs(Old) \cup Procs(Behind)
      BY DEF Procs
    <2>2. Procs(list) \cup Procs(Fresh) = Procs(list) \cup Procs(new)
      BY DEF Procs
    <2> HIDE DEF Fresh, res
    <2> QED
      BY <1>9, <1>10, <2>1, <2>2
  <1>12. Unique(res)
    <2> SUFFICES ASSUME NEW g \in res, NEW h \in res, g.proc = h.proc PROVE g = h
      BY DEF Unique
    <2>1. CASE g \in Old /\ h \in Old
      BY <1>7, <2>1 DEF Unique
    <2>2. CASE g \in Behind /\ h \in Behind
      BY <1>8, <1>3, <2>2 DEF Unique
    <2>3. ASSUME NEW x \in Old, NEW y \in Behind, x.proc = y.proc PROVE FALSE
      BY <1>7, <1>8, <2>3 DEF Procs
    <2> QED
      BY <2>1, <2>2, <2>3
  <1>13. \A e \in list \cup new : \E g \in res : g.proc = e.proc /\ (e.tag => g.tag)
    <2> SUFFICES ASSUME NEW e \in list \cup new
                 PROVE  \E g \in res : g.proc = e.proc /\ (e.tag => g.tag)
      OBVIOUS
    <2>1. CASE e \in list
      BY <1>2, <2>1
    <2>2. CASE e \in Fresh
      BY <1>4, <2>2
    <2>3. CASE e \in new /\ e.proc \in Procs(list)
      <3>1. PICK f \in list : f.proc = e.proc
        BY <2>3 DEF Procs
      <3>2. e.tag => Tagged(f)
        BY <3>1, <2>3
      <3> QED
        BY <1>2, <3>1, <3>2
    <2> QED
      BY <2>1, <2>2, <2>3
  <1>14. ASSUME NEW g \in res
         PROVE  /\ \E e \in list \cup new : e.proc = g.proc /\ e.text = g.text
                /\ g.tag => \E e \in list \cup new : e.proc = g.proc /\ e.tag
    <2>1. CASE g \in Old
      <3>1. PICK e \in list : g.proc = e.proc /\ g.text = e.text /\ g.tag = Tagged(e)
        BY <1>7, <2>1
      <3> QED
        BY <3>1
    <2>2. CASE g \in Behind
      BY <1>8, <2>2
    <2> QED
      BY <2>1, <2>2
  <1>15. res \subseteq Entry
    BY <1>7, <1>8
  <1> QED
    BY <1>1, <1>11, <1>12, <1>13, <1>14, <1>15 DEF Recorded

LEMMA UnconsumedFacts ==
  ASSUME NEW S \in SUBSET Entry, Unique(S)
  PROVE  /\ Unconsumed(S) \subseteq S /\ Unique(Unconsumed(S))
         /\ Procs(Unconsumed(S)) \subseteq Procs(S)
         /\ \A e \in S \ Unconsumed(S) : e.proc \in consumed /\ ~e.tag
  BY DEF Unconsumed, Unique, Procs

LEMMA QueueFacts ==
  ASSUME queue \in Seq(Proc), queue # <<>>
  PROVE  /\ Head(queue) \in Proc /\ Tail(queue) \in Seq(Proc)
         /\ \A p : InQueue(p) => p = Head(queue) \/ \E i \in DOMAIN Tail(queue) : Tail(queue)[i] = p
  <1>1. Head(queue) \in Proc /\ Tail(queue) \in Seq(Proc)
    OBVIOUS
  <1>2. ASSUME NEW p, NEW i \in DOMAIN queue, queue[i] = p, p # Head(queue)
        PROVE  \E j \in DOMAIN Tail(queue) : Tail(queue)[j] = p
    <2>1. i # 1 /\ i \in 1..Len(queue)
      BY <1>2
    <2>2. i - 1 \in 1..Len(Tail(queue)) /\ Tail(queue)[i - 1] = p
      BY <1>2, <2>1
    <2> QED
      BY <2>2, <1>1
  <1> QED
    BY <1>1, <1>2 DEF InQueue

LEMMA GivenFacts ==
  ASSUME given \in [Proc -> 0..2], NEW S \in SUBSET Entry, Unique(S)
  PROVE  /\ Given(S) \in [Proc -> 0..2]
         /\ \A p \in Proc : p \notin Texts(S) => Given(S)[p] = given[p]
         /\ \A p \in Texts(S) : Given(S)[p] > 0
         /\ \A p \in Proc : given[p] = 0 /\ (\E e \in S : \A f \in S : p \in f.text <=> f = e)
              => Given(S)[p] = 1
  <1> DEFINE Tells(p) == {e \in S : p \in e.text}
  <1>1. \A p : IsFiniteSet(Tells(p)) /\ Cardinality(Tells(p)) \in Nat
    <2>1. IsFiniteSet(S)
      BY UniqueFinite
    <2>2. \A p : Tells(p) \in SUBSET S
      OBVIOUS
    <2> HIDE DEF Tells
    <2> QED
      BY <2>1, <2>2, FS_Subset, FS_CardinalityType
  <1>2. \A p \in Proc : Given(S)[p] = IF given[p] + Cardinality(Tells(p)) > 2 THEN 2
                                      ELSE given[p] + Cardinality(Tells(p))
    BY DEF Given
  <1>3. DOMAIN Given(S) = Proc /\ Given(S) = [p \in Proc |-> Given(S)[p]]
    BY DEF Given
  <1>4. \A p : p \notin Texts(S) => Tells(p) = {}
    BY DEF Texts
  <1>5. \A p : p \in Texts(S) => Tells(p) # {}
    BY DEF Texts
  <1>6. \A p : (\E e \in S : \A f \in S : p \in f.text <=> f = e) => \E e : Tells(p) = {e}
    OBVIOUS
  <1>7. Texts(S) \subseteq Proc
    BY DEF Texts, Entry
  <1> HIDE DEF Tells
  <1>8. \A p : p \notin Texts(S) => Cardinality(Tells(p)) = 0
    BY <1>4, FS_EmptySet
  <1>9. \A p : p \in Texts(S) => Cardinality(Tells(p)) > 0
    BY <1>1, <1>5, FS_EmptySet
  <1>10. \A p : (\E e \in S : \A f \in S : p \in f.text <=> f = e) => Cardinality(Tells(p)) = 1
    BY <1>6, FS_Singleton
  <1>11. \A p \in Proc : given[p] \in 0..2
    OBVIOUS
  <1>12. Given(S) \in [Proc -> 0..2]
    <2>1. \A p \in Proc : Given(S)[p] \in 0..2
      BY <1>1, <1>2, <1>11
    <2> QED
      BY <1>3, <2>1
  <1>13. \A p \in Proc : p \notin Texts(S) => Given(S)[p] = given[p]
    BY <1>2, <1>8, <1>11
  <1>14. \A p \in Texts(S) : Given(S)[p] > 0
    BY <1>1, <1>2, <1>7, <1>9, <1>11
  <1>15. ASSUME NEW p \in Proc, given[p] = 0, \E e \in S : \A f \in S : p \in f.text <=> f = e
         PROVE  Given(S)[p] = 1
    <2>1. Cardinality(Tells(p)) = 1
      BY <1>10, <1>15
    <2> QED
      BY <1>2, <1>15, <2>1
  <1> QED
    BY <1>12, <1>13, <1>14, <1>15

\* The mark of a process is only taken away once the process is consumed.
LEMMA RetireFacts ==
  ASSUME NEW procs, NEW done, Retire(procs, done), pending \in BOOLEAN
  PROVE  /\ seen' \subseteq seen /\ pending' \in BOOLEAN
         /\ procs \subseteq done => seen \subseteq seen' \cup done
  BY DEF Retire

-----------------------------------------------------------------------------
(* Types.                                                                  *)

LEMMA InitShape == Init => Shape
  <1> SUFFICES ASSUME Init PROVE Shape
    OBVIOUS
  <1>1. DataOK
    <2>1. queue \in Seq(Proc) /\ given \in [Proc -> 0..2]
      BY DEF Init
    <2>2. deferred \subseteq Entry /\ Unique(deferred)
      BY DEF Init, Unique
    <2>3. /\ loop \in [at : {"idle", "look", "defer"}, proc : Proc \cup {None}]
          /\ loop.at = "idle"
      BY DEF Init, Empty
    <2>4. drainer \in [Drainer -> [at : {"off", "due", "claim"}, again : BOOLEAN]]
      BY DEF Init, Away
    <2> QED
      BY <2>1, <2>2, <2>3, <2>4 DEF Init, DataOK
  <1>2. RunnersOK
    BY DEF Init, RunnersOK, Threads, Quiet, Unique
  <1>3. LaunchOK
    BY DEF Init, LaunchOK, Quiet
  <1> QED
    BY <1>1, <1>2, <1>3 DEF Shape

LEMMA ThreadChanges ==
  ASSUME RunnersOK, NEW r \in Runner, NEW v \in Threads, runner' = [runner EXCEPT ![r] = v],
         Unique(v.batch), v.at # "off" => v.key \in Proc
  PROVE  RunnersOK' /\ \A s \in Runner : runner'[s] = IF s = r THEN v ELSE runner[s]
  <1>1. \A s \in Runner : runner'[s] = IF s = r THEN v ELSE runner[s]
    BY DEF RunnersOK
  <1>2. runner' \in [Runner -> Threads]
    BY DEF RunnersOK
  <1> QED
    BY <1>1, <1>2 DEF RunnersOK, Unique

LEMMA ThreadMoves ==
  ASSUME RunnersOK, NEW r \in Runner, runner[r].at # "off",
         NEW x \in {"spawned", "calling", "launching", "started", "failed"},
         runner' = [runner EXCEPT ![r].at = x]
  PROVE  /\ RunnersOK'
         /\ \A s \in Runner : /\ runner'[s].batch = runner[s].batch
                              /\ runner'[s].key = runner[s].key /\ runner'[s].tag = runner[s].tag
                              /\ runner'[s].at = IF s = r THEN x ELSE runner[s].at
  <1>1. \A s \in Runner : runner[s] \in Threads /\ runner'[s] = IF s = r THEN [runner[r] EXCEPT !.at = x] ELSE runner[s]
    BY DEF RunnersOK
  <1>2. [runner[r] EXCEPT !.at = x] \in Threads
    BY <1>1 DEF Threads
  <1>3. \A s \in Runner : /\ runner'[s].batch = runner[s].batch
                          /\ runner'[s].key = runner[s].key /\ runner'[s].tag = runner[s].tag
                          /\ runner'[s].at = IF s = r THEN x ELSE runner[s].at
    BY <1>1 DEF Threads
  <1>4. runner' \in [Runner -> Threads]
    BY <1>2 DEF RunnersOK
  <1> QED
    BY <1>3, <1>4 DEF RunnersOK

LEMMA QuietThread ==
  /\ Quiet \in Threads /\ Unique(Quiet.batch) /\ Quiet.at = "off" /\ Quiet.batch = {} /\ Quiet.key = None
  BY DEF Quiet, Threads, Unique

LEMMA Spawned ==
  ASSUME RunnersOK, NEW r \in Runner, NEW S \in SUBSET Entry, Unique(S), NEW p \in Proc,
         NEW b \in BOOLEAN, NEW c \in BOOLEAN, Spawn(r, S, p, b, c)
  PROVE  /\ RunnersOK'
         /\ \A s \in Runner : s # r => runner'[s] = runner[s]
         /\ runner'[r].at = "spawned" /\ runner'[r].batch = S /\ runner'[r].key = p
         /\ runner'[r].tag = b
  <1> DEFINE v == [at |-> "spawned", batch |-> S, key |-> p, tag |-> b, again |-> c]
  <1>1. v \in Threads /\ v.at = "spawned" /\ v.batch = S /\ v.key = p /\ v.tag = b
    BY DEF Threads
  <1>2. runner' = [runner EXCEPT ![r] = v]
    BY DEF Spawn
  <1> HIDE DEF v
  <1>3. RunnersOK' /\ \A s \in Runner : runner'[s] = IF s = r THEN v ELSE runner[s]
    BY <1>1, <1>2, ThreadChanges
  <1> QED
    BY <1>1, <1>3

LEMMA LaunchUnchanged ==
  ASSUME LaunchOK, turn' = "launching" <=> turn = "launching",
         \A s \in Runner : runner'[s].at = "launching" <=> runner[s].at = "launching"
  PROVE  LaunchOK'
  BY DEF LaunchOK

\* The entries that a failed start hands back, with the tag of their batch.
LEMMA BackFacts ==
  ASSUME RunnersOK, NEW r \in Runner
  PROVE  LET back == {[e EXCEPT !.tag = @ \/ runner[r].tag] : e \in runner[r].batch}
         IN  /\ back \in SUBSET Entry /\ Unique(back) /\ Procs(back) \subseteq Proc
             /\ Procs(back) = Procs(runner[r].batch) /\ Texts(back) = Texts(runner[r].batch)
             /\ \A e \in runner[r].batch : \E g \in back : g.proc = e.proc /\ (e.tag => g.tag)
             /\ \A g \in back : \E e \in runner[r].batch : g.proc = e.proc /\ g.text = e.text
  <1> DEFINE At(e) == [e EXCEPT !.tag = e.tag \/ runner[r].tag]
             back == {At(e) : e \in runner[r].batch}
  <1>1. /\ runner[r].batch \in SUBSET Entry /\ runner[r].tag \in BOOLEAN /\ Unique(runner[r].batch)
    BY DEF RunnersOK, Threads
  <1>2. \A e \in runner[r].batch : /\ At(e) \in back /\ At(e) \in Entry /\ At(e).proc = e.proc
                                   /\ At(e).text = e.text /\ (e.tag => At(e).tag)
    <2> SUFFICES ASSUME NEW e \in runner[r].batch
                 PROVE  /\ At(e) \in back /\ At(e) \in Entry /\ At(e).proc = e.proc
                        /\ At(e).text = e.text /\ (e.tag => At(e).tag)
      OBVIOUS
    <2>1. e \in Entry /\ (e.tag \/ runner[r].tag) \in BOOLEAN
      BY <1>1
    <2>2. At(e) \in Entry /\ At(e).proc = e.proc /\ At(e).text = e.text /\ (e.tag => At(e).tag)
      BY <2>1, Tagging
    <2> QED
      BY <2>2
  <1>3. \A g \in back : \E e \in runner[r].batch : g = At(e)
    OBVIOUS
  <1>4. back = {[e EXCEPT !.tag = @ \/ runner[r].tag] : e \in runner[r].batch}
    OBVIOUS
  <1> HIDE DEF At, back
  <1>5. \A g \in back : \E e \in runner[r].batch : g.proc = e.proc /\ g.text = e.text
    BY <1>2, <1>3
  <1>6. back \in SUBSET Entry /\ Unique(back)
    BY <1>1, <1>2, <1>3 DEF Unique
  <1>7. Procs(back) = Procs(runner[r].batch)
    BY <1>2, <1>5 DEF Procs
  <1>8. Texts(back) = Texts(runner[r].batch)
    BY <1>2, <1>5 DEF Texts
  <1>9. Procs(back) \subseteq Proc
    BY <1>6 DEF Procs, Entry
  <1> QED
    BY <1>2, <1>4, <1>5, <1>6, <1>7, <1>8, <1>9

LEMMA NextShape ==
  ASSUME Shape, [Next]_vars
  PROVE  Shape'
  <1> USE DEF Shape
  <1> USE DEF registry, marks, bounds, ghosts
  <1>0. ASSUME UNCHANGED runner PROVE RunnersOK'
    BY <1>0 DEF RunnersOK
  <1>00. ASSUME UNCHANGED runner, turn' = "launching" <=> turn = "launching" PROVE LaunchOK'
    BY <1>00 DEF LaunchOK
  <1>1. ASSUME NEW p \in Proc, Finish(p) PROVE Shape'
    <2>1. PICK n \in 1..MaxCopies : queue' = queue \o [i \in 1..n |-> p]
      BY <1>1 DEF Finish
    <2>2. n \in Nat
      BY WakeupAssumption
    <2>3. [i \in 1..n |-> p] \in Seq(Proc)
      BY <2>2
    <2>4. queue' \in Seq(Proc)
      BY <2>1, <2>3 DEF DataOK
    <2> QED
      BY <1>1, <2>4, <1>0, <1>00 DEF Finish, DataOK
  <1>2. ASSUME NEW p \in Proc, AgentRead(p) PROVE Shape'
    BY <1>2, <1>0, <1>00 DEF AgentRead, DataOK
  <1>3. CASE HumanStart
    BY <1>3, <1>0, <1>00 DEF HumanStart, DataOK, Active
  <1>4. CASE NextTurnTake
    <2>1. Head(queue) \in Proc /\ Tail(queue) \in Seq(Proc)
      BY <1>4, QueueFacts DEF NextTurnTake, DataOK
    <2>2. Plain(Head(queue)) \in Entry /\ Unique({Plain(Head(queue))})
      BY <2>1, PlainEntry DEF Unique
    <2>3. {Plain(Head(queue))} \in SUBSET Entry
      BY <2>2
    <2>4. Given({Plain(Head(queue))}) \in [Proc -> 0..2]
      BY <2>2, <2>3, GivenFacts DEF DataOK
    <2> QED
      BY <1>4, <2>1, <2>4, <1>0, <1>00 DEF NextTurnTake, DataOK
  <1>5. CASE NextTurnBegin
    BY <1>5, <1>0, <1>00 DEF NextTurnBegin, DataOK
  <1>6. CASE Sweep
    BY <1>6, <1>0, <1>00 DEF Sweep, DataOK
  <1>7. CASE LoopTake
    <2>1. Head(queue) \in Proc /\ Tail(queue) \in Seq(Proc)
      BY <1>7, QueueFacts DEF LoopTake, DataOK
    <2>2. /\ seen' \subseteq Proc /\ pending' \in BOOLEAN
          /\ loop' \in [at : {"idle", "look", "defer"}, proc : Proc \cup {None}]
          /\ loop'.at # "idle" => loop'.proc \in Proc
      <3>1. CASE Unowned(Head(queue))
        BY <1>7, <2>1, <3>1 DEF LoopTake, DataOK, Queued
      <3>2. CASE ~Unowned(Head(queue))
        BY <1>7, <2>1, <3>2 DEF LoopTake, DataOK
      <3> QED
        BY <3>1, <3>2
    <2> QED
      BY <1>7, <2>1, <2>2, <1>0, <1>00 DEF LoopTake, DataOK
  <1>8. CASE LoopBusy
    BY <1>8, <1>0, <1>00 DEF LoopBusy, DataOK
  <1>9. CASE LoopDefer
    <2> DEFINE p == loop.proc
    <2>1. p \in Proc
      BY <1>9 DEF LoopDefer, DataOK
    <2>2. {Plain(p)} \in SUBSET Entry /\ Unique({Plain(p)})
      BY <2>1, PlainEntry DEF Unique
    <2>3. Recorded(deferred, {Plain(p)}, Record(deferred, {Plain(p)}))
      BY <2>2, RecordFacts DEF DataOK
    <2>4. deferred' \subseteq Entry /\ Unique(deferred')
      BY <1>9, <2>3 DEF LoopDefer, Recorded
    <2>5. loop' \in [at : {"idle", "look", "defer"}, proc : Proc \cup {None}] /\ loop'.at = "idle"
      BY <1>9 DEF LoopDefer, Empty
    <2> QED
      BY <1>9, <2>1, <2>4, <2>5, <1>0, <1>00 DEF LoopDefer, DataOK, Queued
  <1>10. ASSUME NEW r \in Runner, LoopIdle(r) PROVE Shape'
    <2> DEFINE e == [Plain(loop.proc) EXCEPT !.tag = TRUE]
    <2>1. loop.proc \in Proc
      BY <1>10 DEF LoopIdle, DataOK
    <2>2. e \in Entry
      BY <2>1, PlainEntry, Tagging
    <2>3. {e} \in SUBSET Entry /\ Unique({e})
      BY <2>2 DEF Unique
    <2>4. Spawn(r, {e}, loop.proc, TRUE, FALSE)
      BY <1>10 DEF LoopIdle
    <2> HIDE DEF e
    <2>5. /\ RunnersOK' /\ runner'[r].at = "spawned"
          /\ \A s \in Runner : s # r => runner'[s] = runner[s]
      BY <2>1, <2>3, <2>4, Spawned
    <2>6. runner[r].at = "off"
      BY <1>10, QuietThread DEF LoopIdle
    <2>7. LaunchOK'
      BY <1>10, <2>5, <2>6, LaunchUnchanged DEF LoopIdle
    <2>8. loop' \in [at : {"idle", "look", "defer"}, proc : Proc \cup {None}] /\ loop'.at = "idle"
      BY <1>10 DEF LoopIdle, Empty
    <2> QED
      BY <1>10, <2>1, <2>5, <2>7, <2>8 DEF LoopIdle, DataOK
  <1>11. ASSUME NEW d \in Drainer, TurnEnd(d) PROVE Shape'
    BY <1>11, <1>0, <1>00 DEF TurnEnd, DataOK
  <1>12. ASSUME NEW d \in Drainer, DrainLook(d) PROVE Shape'
    <2>1. drainer' \in [Drainer -> [at : {"off", "due", "claim"}, again : BOOLEAN]]
      BY <1>12 DEF DrainLook, DataOK, Away
    <2> QED
      BY <1>12, <2>1, <1>0, <1>00 DEF DrainLook, DataOK
  <1>13. ASSUME NEW d \in Drainer, TimerFires(d) PROVE Shape'
    BY <1>13, <1>0, <1>00 DEF TimerFires, DataOK
  <1>14. ASSUME NEW d \in Drainer, NEW r \in Runner, DrainClaim(d, r) PROVE Shape'
    <2> DEFINE S == Unconsumed(deferred)
    <2>1. S \in SUBSET Entry /\ Unique(S)
      BY UnconsumedFacts DEF DataOK
    <2>2. drainer' \in [Drainer -> [at : {"off", "due", "claim"}, again : BOOLEAN]]
      BY <1>14 DEF DrainClaim, DataOK, Away
    <2>3. seen' \subseteq seen /\ pending' \in BOOLEAN
      BY <1>14, RetireFacts DEF DrainClaim, DataOK
    <2>4. DataOK'
      BY <1>14, <2>2, <2>3 DEF DrainClaim, DataOK, Unique
    <2>5. CASE S = {}
      BY <1>14, <2>4, <2>5, <1>0, <1>00 DEF DrainClaim
    <2>6. CASE S # {}
      <3>1. PICK e \in S : Spawn(r, S, e.proc, e.tag, drainer[d].again)
        BY <1>14, <2>6 DEF DrainClaim
      <3>2. e.proc \in Proc /\ e.tag \in BOOLEAN /\ drainer[d].again \in BOOLEAN
        BY <2>1 DEF Entry, DataOK
      <3> HIDE DEF S
      <3>3. /\ RunnersOK' /\ runner'[r].at = "spawned"
            /\ \A s \in Runner : s # r => runner'[s] = runner[s]
        BY <2>1, <3>1, <3>2, Spawned
      <3>4. runner[r].at = "off" /\ turn' = turn
        BY <1>14, QuietThread DEF DrainClaim
      <3>5. LaunchOK'
        BY <3>3, <3>4, LaunchUnchanged
      <3> QED
        BY <2>4, <3>3, <3>5
    <2> QED
      BY <2>5, <2>6
  <1>15. ASSUME NEW r \in Runner, RunnerFilter(r) PROVE Shape'
    <2> DEFINE S == Unconsumed(runner[r].batch)
    <2>1. runner[r] \in Threads /\ runner[r].batch \in SUBSET Entry /\ Unique(runner[r].batch)
      BY DEF RunnersOK, Threads
    <2>2. S \in SUBSET Entry /\ Unique(S)
      BY <2>1, UnconsumedFacts
    <2>3. runner[r].at = "spawned"
      BY <1>15 DEF RunnerFilter
    <2>4. CASE S = {}
      <3>1. runner' = [runner EXCEPT ![r] = Quiet] /\ seen' \subseteq seen /\ pending' \in BOOLEAN
        BY <1>15, <2>4, RetireFacts DEF RunnerFilter, DataOK
      <3>2. RunnersOK' /\ \A s \in Runner : runner'[s] = IF s = r THEN Quiet ELSE runner[s]
        BY <3>1, QuietThread, ThreadChanges
      <3>3. LaunchOK'
        BY <1>15, <2>3, <3>2, QuietThread, LaunchUnchanged DEF RunnerFilter
      <3> QED
        BY <1>15, <3>1, <3>2, <3>3 DEF RunnerFilter, DataOK
    <2>5. CASE S # {}
      <3> DEFINE v == [runner[r] EXCEPT !.batch = S, !.at = "calling"]
      <3>1. v \in Threads /\ v.batch = S /\ v.at = "calling" /\ v.key = runner[r].key
        BY <2>1, <2>2 DEF Threads
      <3>2. runner' = [runner EXCEPT ![r] = v] /\ UNCHANGED marks
        BY <1>15, <2>5 DEF RunnerFilter, RunnersOK
      <3>3. v.key \in Proc
        BY <3>1, <2>3 DEF RunnersOK
      <3> HIDE DEF v, S
      <3>4. RunnersOK' /\ \A s \in Runner : runner'[s] = IF s = r THEN v ELSE runner[s]
        BY <3>1, <3>2, <3>3, <2>2, ThreadChanges
      <3>5. LaunchOK'
        BY <1>15, <2>3, <3>1, <3>4, LaunchUnchanged DEF RunnerFilter
      <3> QED
        BY <1>15, <3>2, <3>4, <3>5 DEF RunnerFilter, DataOK
    <2> QED
      BY <2>4, <2>5
  <1>16. ASSUME NEW r \in Runner, RunnerRefused(r) \/ RunnerFails(r) PROVE Shape'
    <2>1. runner[r].at = "calling" /\ runner' = [runner EXCEPT ![r].at = "failed"] /\ turn' = turn
      BY <1>16 DEF RunnerRefused, RunnerFails
    <2>2. RunnersOK' /\ \A s \in Runner : runner'[s].at = IF s = r THEN "failed" ELSE runner[s].at
      BY ZenonT(60), <2>1, ThreadMoves
    <2>3. LaunchOK'
      BY <2>1, <2>2, LaunchUnchanged
    <2> QED
      BY <1>16, <2>2, <2>3 DEF RunnerRefused, RunnerFails, DataOK
  <1>17. ASSUME NEW r \in Runner, RunnerPaused(r) \/ RunnerDone(r) PROVE Shape'
    <2>1. Procs(runner[r].batch) \subseteq Proc
      BY DEF RunnersOK, Threads, Entry, Procs
    <2>2. /\ runner[r].at \in {"calling", "started"} /\ runner' = [runner EXCEPT ![r] = Quiet]
          /\ turn' = turn /\ seen' \subseteq seen /\ pending' \in BOOLEAN
      BY <1>17, RetireFacts DEF RunnerPaused, RunnerDone, DataOK
    <2>3. RunnersOK' /\ \A s \in Runner : runner'[s] = IF s = r THEN Quiet ELSE runner[s]
      BY <2>2, QuietThread, ThreadChanges
    <2>4. LaunchOK'
      BY <2>2, <2>3, QuietThread, LaunchUnchanged
    <2> QED
      BY <1>17, <2>1, <2>2, <2>3, <2>4 DEF RunnerPaused, RunnerDone, DataOK
  <1>18. ASSUME NEW r \in Runner, RunnerAdmitted(r) PROVE Shape'
    <2>1. /\ runner[r].at = "calling" /\ runner' = [runner EXCEPT ![r].at = "launching"]
          /\ turn = "none" /\ turn' = "launching"
      BY <1>18 DEF RunnerAdmitted, Active
    <2>2. RunnersOK' /\ \A s \in Runner : runner'[s].at = IF s = r THEN "launching" ELSE runner[s].at
      BY ZenonT(60), <2>1, ThreadMoves
    <2>3. LaunchOK'
      BY <2>1, <2>2 DEF LaunchOK
    <2> QED
      BY <1>18, <2>2, <2>3 DEF RunnerAdmitted, DataOK
  <1>19. ASSUME NEW r \in Runner, RunnerLaunched(r) PROVE Shape'
    <2>1. /\ runner[r].at = "launching" /\ runner' = [runner EXCEPT ![r].at = "started"]
          /\ turn' = "fresh"
      BY <1>19 DEF RunnerLaunched
    <2>2. RunnersOK' /\ \A s \in Runner : runner'[s].at = IF s = r THEN "started" ELSE runner[s].at
      BY ZenonT(60), <2>1, ThreadMoves
    <2>3. LaunchOK'
      BY <2>1, <2>2 DEF LaunchOK
    <2>4. runner[r].batch \in SUBSET Entry /\ Unique(runner[r].batch)
      BY DEF RunnersOK, Threads
    <2>5. given' \in [Proc -> 0..2]
      BY <1>19, <2>4, GivenFacts DEF RunnerLaunched, DataOK
    <2> QED
      BY <1>19, <2>2, <2>3, <2>5 DEF RunnerLaunched, DataOK
  <1>20. ASSUME NEW r \in Runner, RunnerAborted(r) PROVE Shape'
    <2> DEFINE joined == [proc |-> runner[r].key, text |-> Texts(runner[r].batch),
                          tag |-> runner[r].tag, no |-> 1]
    <2>1. /\ runner[r].at = "launching" /\ runner' = [runner EXCEPT ![r].at = "failed"]
          /\ turn' = "none"
      BY <1>20 DEF RunnerAborted
    <2>2. RunnersOK' /\ \A s \in Runner : runner'[s].at = IF s = r THEN "failed" ELSE runner[s].at
      BY ZenonT(60), <2>1, ThreadMoves
    <2>3. LaunchOK'
      BY <2>1, <2>2 DEF LaunchOK
    <2>4. Texts(runner[r].batch) \subseteq Proc /\ runner[r].key \in Proc /\ runner[r].tag \in BOOLEAN
      BY <2>1 DEF RunnersOK, Threads, Entry, Texts
    <2>5. joined \in Entry /\ joined.proc \in Proc
      BY <2>4 DEF Entry
    <2>6. {joined} \in SUBSET Entry /\ Unique({joined})
      BY <2>5 DEF Unique
    <2>7. deferred' = Record(deferred, {joined}) /\ Queued({joined.proc})
      BY <1>20 DEF RunnerAborted
    <2>8. timer' \in BOOLEAN
      BY <1>20 DEF RunnerAborted, DataOK
    <2> HIDE DEF joined
    <2>9. deferred' \subseteq Entry /\ Unique(deferred')
      BY <2>6, <2>7, RecordFacts DEF DataOK, Recorded
    <2> QED
      BY <1>20, <2>1, <2>2, <2>3, <2>5, <2>7, <2>8, <2>9 DEF RunnerAborted, DataOK, Queued
  <1>21. ASSUME NEW r \in Runner, RunnerRedefer(r) PROVE Shape'
    <2> DEFINE back == {[e EXCEPT !.tag = @ \/ runner[r].tag] : e \in runner[r].batch}
    <2>1. /\ runner[r].at = "failed" /\ runner' = [runner EXCEPT ![r] = Quiet] /\ turn' = turn
          /\ deferred' = Record(deferred, back) /\ Queued(Procs(back))
      BY <1>21 DEF RunnerRedefer
    <2>2. RunnersOK' /\ \A s \in Runner : runner'[s] = IF s = r THEN Quiet ELSE runner[s]
      BY <2>1, QuietThread, ThreadChanges
    <2>3. LaunchOK'
      BY <2>1, <2>2, QuietThread, LaunchUnchanged
    <2>4. back \in SUBSET Entry /\ Unique(back) /\ Procs(back) \subseteq Proc
      BY BackFacts
    <2> HIDE DEF back
    <2>5. deferred' \subseteq Entry /\ Unique(deferred')
      BY <2>1, <2>4, RecordFacts DEF DataOK, Recorded
    <2> QED
      BY <1>21, <2>1, <2>2, <2>3, <2>4, <2>5 DEF RunnerRedefer, DataOK, Queued
  <1>22. CASE UNCHANGED vars
    BY <1>22, <1>0, <1>00 DEF vars, DataOK
  <1> QED
    BY <1>1, <1>2, <1>3, <1>4, <1>5, <1>6, <1>7, <1>8, <1>9, <1>10, <1>11, <1>12, <1>13, <1>14,
       <1>15, <1>16, <1>17, <1>18, <1>19, <1>20, <1>21, <1>22 DEF Next

LEMMA ShapeIsTyped == Shape => WakeupTypeOK
  BY DEF Shape, DataOK, RunnersOK, LaunchOK, Threads, Unique, WakeupTypeOK

-----------------------------------------------------------------------------
(* No result is lost.                                                      *)

LEMMA InitKept == Init => Kept
  BY QuietThread DEF Init, Kept

\* What is settled stays settled.
LEMMA OverStays ==
  ASSUME Shape, [Next]_vars
  PROVE  \A p \in Proc : (Over(p) => Over(p)') /\ (given[p] > 0 => given'[p] > 0)
  <1> USE DEF registry, marks, bounds, ghosts
  <1>1. \A S \in SUBSET Entry : Unique(S) =>
          \A p \in Proc : given[p] > 0 => Given(S)[p] > 0
    <2> SUFFICES ASSUME NEW S \in SUBSET Entry, Unique(S), NEW p \in Proc, given[p] > 0
                 PROVE  Given(S)[p] > 0
      OBVIOUS
    <2> QED
      BY GivenFacts DEF Shape, DataOK
  <1>2. \A p \in Proc : given[p] > 0 => given'[p] > 0
    <2>1. CASE NextTurnTake
      <3>1. Head(queue) \in Proc
        BY <2>1, QueueFacts DEF NextTurnTake, Shape, DataOK
      <3>2. {Plain(Head(queue))} \in SUBSET Entry /\ Unique({Plain(Head(queue))})
        BY <3>1, PlainEntry DEF Unique
      <3> QED
        BY <2>1, <3>2, <1>1 DEF NextTurnTake
    <2>2. ASSUME NEW r \in Runner, RunnerLaunched(r) PROVE \A p \in Proc : given[p] > 0 => given'[p] > 0
      <3>1. runner[r].batch \in SUBSET Entry /\ Unique(runner[r].batch)
        BY DEF Shape, RunnersOK, Threads
      <3> QED
        BY <2>2, <3>1, <1>1 DEF RunnerLaunched
    <2>3. CASE given' = given
      BY <2>3
    <2>4. \/ NextTurnTake \/ (\E r \in Runner : RunnerLaunched(r)) \/ given' = given
      BY ZenonT(60) DEF Next, vars, Finish, AgentRead, HumanStart, NextTurnBegin, Sweep, LoopTake, LoopBusy,
         LoopDefer, TurnEnd, DrainLook, TimerFires, DrainClaim, LoopIdle, RunnerFilter,
         RunnerRefused, RunnerFails, RunnerPaused, RunnerAdmitted, RunnerAborted, RunnerRedefer,
         RunnerDone
    <2> QED
      BY <2>1, <2>2, <2>3, <2>4
  <1>3. read \subseteq read' /\ waived \subseteq waived' /\ misfiled \subseteq misfiled'
    BY ZenonT(60) DEF Next, vars, Finish, AgentRead, HumanStart, NextTurnTake, NextTurnBegin, Sweep, LoopTake,
       LoopBusy, LoopDefer, TurnEnd, DrainLook, TimerFires, DrainClaim, LoopIdle, RunnerFilter,
       RunnerRefused, RunnerFails, RunnerPaused, RunnerAdmitted, RunnerLaunched, RunnerAborted,
       RunnerRedefer, RunnerDone
  <1> QED
    BY <1>2, <1>3 DEF Over, Settled

\* What a step owes Kept.
Keeps ==
    /\ \A p \in Proc : Homed(p) => Homed(p)'
    /\ \A p \in Proc : Sure(p) => Sure(p)'
    /\ \A p \in Proc : InQueue(p) => InQueue(p)' \/ Homed(p)'
    /\ \A p \in Proc \ running' : p \in running => InQueue(p)'
    /\ \A p \in seen' : p \in seen \/ Homed(p)'
    /\ \A p \in consumed' : p \in consumed \/ Sure(p)'
    /\ \A e \in deferred' : Filed(e)'
    /\ \A r \in Runner : \A e \in runner'[r].batch : Filed(e)'
    /\ \A r \in Runner : runner'[r].at = "started" =>
         \A p \in Texts(runner'[r].batch) : given'[p] > 0

LEMMA KeptFollows ==
  ASSUME Shape, Kept, Keeps
  PROVE  Kept'
  <1>1. seen \subseteq Proc /\ consumed \subseteq Proc
    BY DEF Shape, DataOK
  <1>2. \A p \in Proc \ running' : Homed(p)' \/ InQueue(p)'
    BY DEF Kept, Keeps
  <1>3. \A p \in seen' : Homed(p)'
    BY <1>1 DEF Kept, Keeps
  <1>4. \A p \in consumed' : Sure(p)'
    BY <1>1 DEF Kept, Keeps
  <1> QED
    BY <1>2, <1>3, <1>4 DEF Kept, Keeps

\* The entries, and the process that the drain thread has at hand, do not change.
SameEntries ==
    /\ deferred' = deferred /\ misfiled' = misfiled /\ loop'.proc = loop.proc
    /\ \A r \in Runner : runner'[r].batch = runner[r].batch

LEMMA EntriesStay ==
  ASSUME Shape, Kept, SameEntries, [Next]_vars
  PROVE  /\ \A p \in Proc : Homed(p) => Homed(p)'
         /\ \A p \in Proc : Sure(p) => Sure(p)'
         /\ \A e \in deferred' : Filed(e)'
         /\ \A r \in Runner : \A e \in runner'[r].batch : Filed(e)'
  <1>1. \A p \in Proc : Over(p) => Over(p)'
    BY OverStays
  <1>2. \A p \in Proc : Homed(p) => Homed(p)'
    BY <1>1 DEF SameEntries, Homed, Procs
  <1>3. \A p \in Proc : Sure(p) => Sure(p)'
    BY <1>1 DEF SameEntries, Sure
  <1>4. /\ \A e \in deferred' : Filed(e)'
        /\ \A r \in Runner : \A e \in runner'[r].batch : Filed(e)'
    BY DEF SameEntries, Kept, Filed
  <1> QED
    BY <1>2, <1>3, <1>4

\* A consumed process that somebody is sure of is homed.
LEMMA SureIsHomed == \A p : Sure(p) => Homed(p)
  BY DEF Sure, Homed, Procs

\* Started threads told what they hold, as long as nothing is untold.
LEMMA ToldStays ==
  ASSUME Shape, Kept, [Next]_vars,
         \A r \in Runner : runner'[r].at = "started" =>
            runner[r].at = "started" /\ runner'[r].batch = runner[r].batch,
         \A p \in Proc : given[p] > 0 => given'[p] > 0
  PROVE  \A r \in Runner : runner'[r].at = "started" =>
            \A p \in Texts(runner'[r].batch) : given'[p] > 0
  <1>1. \A r \in Runner : Texts(runner[r].batch) \subseteq Proc
    BY DEF Shape, RunnersOK, Threads, Entry, Texts
  <1> QED
    BY <1>1 DEF Kept

\* Steps that leave the entries alone, and the queue, the marks and the started threads too.
LEMMA EasyKept ==
  ASSUME Shape, Kept, [Next]_vars, SameEntries, queue' = queue, running' = running,
         seen' \subseteq seen, consumed' = consumed,
         \A r \in Runner : runner'[r].at = "started" => runner[r].at = "started"
  PROVE  Kept'
  <1>1. \A r \in Runner : runner'[r].at = "started" =>
          \A p \in Texts(runner'[r].batch) : given'[p] > 0
    BY ToldStays, OverStays DEF SameEntries
  <1>2. \A p : InQueue(p) => InQueue(p)'
    BY DEF InQueue
  <1> QED
    BY <1>1, <1>2, EntriesStay, KeptFollows DEF Keeps

LEMMA FinishKept ==
  ASSUME Shape, Kept, NEW p \in Proc, Finish(p)
  PROVE  Kept'
  <1> USE DEF registry, marks, bounds, ghosts
  <1>1. PICK n \in 1..MaxCopies : queue' = queue \o [i \in 1..n |-> p]
    BY DEF Finish
  <1>2. n \in Nat \ {0} /\ queue \in Seq(Proc)
    BY WakeupAssumption DEF Shape, DataOK
  <1>3. \A q : InQueue(q) => InQueue(q)'
    <2> SUFFICES ASSUME NEW q, NEW i \in DOMAIN queue, queue[i] = q
                 PROVE  \E j \in DOMAIN queue' : queue'[j] = q
      BY DEF InQueue
    <2>1. i \in DOMAIN queue' /\ queue'[i] = q
      BY <1>1, <1>2
    <2> QED
      BY <2>1
  <1>4. InQueue(p)'
    <2>1. Len(queue) + 1 \in DOMAIN queue' /\ queue'[Len(queue) + 1] = p
      BY <1>1, <1>2
    <2> QED
      BY <2>1 DEF InQueue
  <1>5. SameEntries /\ [Next]_vars
    BY DEF Finish, SameEntries, Next
  <1>6. \A r \in Runner : runner'[r].at = "started" =>
          \A q \in Texts(runner'[r].batch) : given'[q] > 0
    BY <1>5, ToldStays, OverStays DEF Finish
  <1>7. \A q \in Proc \ running' : q \in running => q = p
    BY DEF Finish
  <1> QED
    BY <1>3, <1>4, <1>5, <1>6, <1>7, EntriesStay, KeptFollows DEF Keeps, Finish

LEMMA AgentReadKept ==
  ASSUME Shape, Kept, NEW p \in Proc, AgentRead(p)
  PROVE  Kept'
  <1> USE DEF registry, marks, bounds, ghosts
  <1>1. SameEntries /\ [Next]_vars
    BY DEF AgentRead, SameEntries, Next
  <1>2. \A r \in Runner : runner'[r].at = "started" =>
          \A q \in Texts(runner'[r].batch) : given'[q] > 0
    BY <1>1, ToldStays, OverStays DEF AgentRead
  <1>3. Sure(p)'
    BY DEF AgentRead, Sure, Over, Settled
  <1>4. \A q : InQueue(q) => InQueue(q)'
    BY DEF InQueue, AgentRead
  <1> QED
    BY <1>1, <1>2, <1>3, <1>4, EntriesStay, KeptFollows DEF Keeps, AgentRead

\* Both consumers drop a completion only if it is homed already.
LEMMA DropsHomed ==
  ASSUME Shape, Kept, ~Unowned(Head(queue)), queue # <<>>
  PROVE  Homed(Head(queue))
  BY SureIsHomed DEF Unowned, Kept

LEMMA NextTurnTakeKept ==
  ASSUME Shape, Kept, NextTurnTake
  PROVE  Kept'
  <1> USE DEF registry, marks, bounds, ghosts
  <1>0. Head(queue) \in Proc
    BY QueueFacts DEF NextTurnTake, Shape, DataOK
  <1> PICK p \in Proc : p = Head(queue)
    BY <1>0
  <1>1. SameEntries /\ [Next]_vars
    BY DEF NextTurnTake, SameEntries, Next
  <1>2. \A r \in Runner : runner'[r].at = "started" =>
          \A q \in Texts(runner'[r].batch) : given'[q] > 0
    BY <1>1, ToldStays, OverStays DEF NextTurnTake
  <1>3. p \in Proc /\ \A q : InQueue(q) => q = p \/ InQueue(q)'
    BY QueueFacts DEF NextTurnTake, Shape, DataOK, InQueue
  <1>4. CASE Unowned(p)
    <2>1. {Plain(p)} \in SUBSET Entry /\ Unique({Plain(p)}) /\ p \in Texts({Plain(p)})
      BY <1>3, PlainEntry DEF Unique, Texts
    <2>2. given'[p] > 0
      BY <1>4, <2>1, GivenFacts DEF NextTurnTake, Shape, DataOK
    <2>3. Sure(p)' /\ Homed(p)'
      BY <2>2 DEF Sure, Homed, Over, Settled
    <2> QED
      BY <1>1, <1>2, <1>3, <1>4, <2>3, EntriesStay, KeptFollows DEF Keeps, NextTurnTake
  <1>5. CASE ~Unowned(p)
    <2>1. Homed(p)
      BY <1>5, DropsHomed DEF NextTurnTake
    <2>2. Homed(p)'
      BY <1>1, <1>3, <2>1, EntriesStay
    <2> QED
      BY <1>1, <1>2, <1>3, <1>5, <2>2, EntriesStay, KeptFollows DEF Keeps, NextTurnTake
  <1> QED
    BY <1>4, <1>5

LEMMA LoopTakeKept ==
  ASSUME Shape, Kept, LoopTake
  PROVE  Kept'
  <1> USE DEF registry, marks, bounds, ghosts
  <1>0. Head(queue) \in Proc
    BY QueueFacts DEF LoopTake, Shape, DataOK
  <1> PICK p \in Proc : p = Head(queue)
    BY <1>0
  <1>1. [Next]_vars /\ loop.proc = None
    BY DEF LoopTake, Next, Empty
  <1>2. \A r \in Runner : runner'[r].at = "started" =>
          \A q \in Texts(runner'[r].batch) : given'[q] > 0
    BY <1>1, ToldStays, OverStays DEF LoopTake
  <1>3. p \in Proc /\ \A q : InQueue(q) => q = p \/ InQueue(q)'
    BY QueueFacts DEF LoopTake, Shape, DataOK, InQueue
  <1>4. \A q \in Proc : q # None
    BY WakeupAssumption
  <1>5. \A q \in Proc : Over(q) => Over(q)'
    BY <1>1, OverStays
  <1>6. /\ \A q \in Proc : Homed(q) => Homed(q)'
        /\ \A q \in Proc : Sure(q) => Sure(q)'
    BY <1>1, <1>4, <1>5 DEF LoopTake, Homed, Sure, Procs
  <1>7. /\ \A e \in deferred' : Filed(e)'
        /\ \A r \in Runner : \A e \in runner'[r].batch : Filed(e)'
    BY DEF LoopTake, Kept, Filed
  <1>8. CASE Unowned(p)
    <2>1. Homed(p)' /\ seen' = seen \cup {p}
      BY <1>8 DEF LoopTake, Homed, Queued
    <2> QED
      BY <1>2, <1>3, <1>6, <1>7, <2>1, KeptFollows DEF Keeps, LoopTake
  <1>9. CASE ~Unowned(p)
    <2>1. Homed(p)'
      BY <1>3, <1>6, <1>9, DropsHomed DEF LoopTake
    <2> QED
      BY <1>2, <1>3, <1>6, <1>7, <1>9, <2>1, KeptFollows DEF Keeps, LoopTake
  <1> QED
    BY <1>8, <1>9

LEMMA LoopDeferKept ==
  ASSUME Shape, Kept, LoopDefer
  PROVE  Kept'
  <1> USE DEF registry, marks, bounds, ghosts
  <1>0. loop.proc \in Proc
    BY DEF LoopDefer, Shape, DataOK
  <1> PICK p \in Proc : p = loop.proc
    BY <1>0
  <1>1. [Next]_vars
    BY DEF Next
  <1>2. p \in Proc
    BY DEF LoopDefer, Shape, DataOK
  <1>3. /\ {Plain(p)} \in SUBSET Entry /\ Unique({Plain(p)}) /\ Procs({Plain(p)}) = {p}
        /\ Plain(p).proc = p /\ Plain(p).text = {p}
    BY <1>2, PlainEntry DEF Unique, Procs
  <1>4. Recorded(deferred, {Plain(p)}, deferred')
    BY <1>3, RecordFacts DEF LoopDefer, Shape, DataOK
  <1>5. \A r \in Runner : runner'[r].at = "started" =>
          \A q \in Texts(runner'[r].batch) : given'[q] > 0
    BY <1>1, ToldStays, OverStays DEF LoopDefer
  <1>6. \A q \in Proc : Over(q) => Over(q)'
    BY <1>1, OverStays
  <1>7. Procs(deferred') = Procs(deferred) \cup {p}
    BY <1>3, <1>4 DEF Recorded
  <1>8. \A q \in Proc : Homed(q) => Homed(q)'
    BY <1>6, <1>7 DEF LoopDefer, Homed
  <1>9. \A q \in Proc : Sure(q) => Sure(q)'
    <2>1. \A e \in deferred : \E g \in deferred' : g.proc = e.proc /\ (e.tag => g.tag)
      BY <1>4 DEF Recorded
    <2>2. runner' = runner
      BY DEF LoopDefer
    <2> QED
      BY <1>6, <2>1, <2>2 DEF Sure
  <1>10. \A e \in deferred' : Filed(e)'
    BY <1>3, <1>4 DEF LoopDefer, Recorded, Kept, Filed
  <1>11. \A r \in Runner : \A e \in runner'[r].batch : Filed(e)'
    BY DEF LoopDefer, Kept, Filed
  <1>12. seen' = seen \cup {p} /\ Homed(p)'
    BY <1>7 DEF LoopDefer, Queued, Homed
  <1>13. \A q : InQueue(q) => InQueue(q)'
    BY DEF LoopDefer, InQueue
  <1> QED
    BY <1>5, <1>8, <1>9, <1>10, <1>11, <1>12, <1>13, KeptFollows DEF Keeps, LoopDefer

LEMMA LoopIdleKept ==
  ASSUME Shape, Kept, NEW r \in Runner, LoopIdle(r)
  PROVE  Kept'
  <1> USE DEF registry, marks, bounds, ghosts
  <1>0. loop.proc \in Proc
    BY DEF LoopIdle, Shape, DataOK
  <1> PICK p \in Proc : p = loop.proc
    BY <1>0
  <1> DEFINE e == [Plain(p) EXCEPT !.tag = TRUE]
  <1>1. [Next]_vars
    BY DEF Next
  <1>2. p \in Proc
    BY DEF LoopIdle, Shape, DataOK
  <1>3. e \in Entry /\ e.proc = p /\ e.text = {p} /\ e.tag
    BY ZenonT(60), <1>2, PlainEntry, Tagging
  <1>4. Spawn(r, {e}, p, TRUE, FALSE)
    BY DEF LoopIdle
  <1> HIDE DEF e
  <1>5. {e} \in SUBSET Entry /\ Unique({e})
    BY <1>3 DEF Unique
  <1>6. /\ \A s \in Runner : s # r => runner'[s] = runner[s]
        /\ runner'[r].at = "spawned" /\ runner'[r].batch = {e}
    BY <1>2, <1>4, <1>5, Spawned DEF Shape
  <1>7. runner[r].batch = {}
    BY QuietThread DEF LoopIdle
  <1>8. \A s \in Runner : runner'[s].at = "started" =>
          \A q \in Texts(runner'[s].batch) : given'[q] > 0
    BY <1>1, <1>6, ToldStays, OverStays
  <1>9. \A q \in Proc : Over(q) => Over(q)'
    BY <1>1, OverStays
  <1>10. Sure(p)' /\ Homed(p)'
    BY <1>3, <1>6 DEF Sure, Homed, Procs
  <1>11. \A q \in Proc : Homed(q) => Homed(q)'
    <2> SUFFICES ASSUME NEW q \in Proc, Homed(q) PROVE Homed(q)'
      OBVIOUS
    <2>1. ASSUME NEW s \in Runner, q \in Procs(runner[s].batch) PROVE Homed(q)'
      <3>1. s # r /\ runner'[s].batch = runner[s].batch
        BY <1>6, <1>7, <2>1 DEF Procs
      <3> QED
        BY <2>1, <3>1 DEF Homed, Procs
    <2> QED
      BY <1>9, <1>10, <2>1 DEF Homed, LoopIdle
  <1>12. \A q \in Proc : Sure(q) => Sure(q)'
    BY <1>6, <1>7, <1>9 DEF Sure, LoopIdle
  <1>13. \A s \in Runner : \A f \in runner'[s].batch : Filed(f)'
    BY <1>3, <1>6 DEF Kept, Filed, LoopIdle
  <1>14. \A f \in deferred' : Filed(f)'
    BY DEF Kept, Filed, LoopIdle
  <1>15. \A q : InQueue(q) => InQueue(q)'
    BY DEF LoopIdle, InQueue
  <1> QED
    BY <1>8, <1>10, <1>11, <1>12, <1>13, <1>14, <1>15, KeptFollows DEF Keeps, LoopIdle

\* One thread forgets the entries it need not tell: they belong to what is settled.
LEMMA DroppedIsSettled ==
  ASSUME Shape, Kept, NEW S \in SUBSET Entry, Unique(S), NEW e \in S \ Unconsumed(S)
  PROVE  Sure(e.proc) /\ e.proc \in Proc /\ ~e.tag
  BY UnconsumedFacts DEF Kept, Entry

LEMMA DrainClaimKept ==
  ASSUME Shape, Kept, NEW d \in Drainer, NEW r \in Runner, DrainClaim(d, r)
  PROVE  Kept'
  <1> USE DEF registry, marks, bounds, ghosts
  <1> PICK S \in SUBSET Entry : S = Unconsumed(deferred)
    BY UnconsumedFacts DEF Shape, DataOK
  <1>1. [Next]_vars
    BY DEF Next
  <1>2. /\ S \subseteq deferred /\ Unique(S)
        /\ \A e \in deferred \ S : Sure(e.proc) /\ e.proc \in Proc /\ ~e.tag
    BY DroppedIsSettled, UnconsumedFacts DEF Shape, DataOK
  <1>3. /\ deferred' = {} /\ runner[r].batch = {}
        /\ \A s \in Runner : s # r => runner'[s] = runner[s]
        /\ runner'[r].batch = S /\ runner'[r].at \in {"off", "spawned"}
    <2>1. runner[r].batch = {} /\ runner[r].at = "off" /\ deferred' = {}
      BY QuietThread DEF DrainClaim
    <2>2. CASE S = {}
      BY <2>1, <2>2 DEF DrainClaim
    <2>3. CASE S # {}
      <3>1. PICK e \in S : Spawn(r, S, e.proc, e.tag, drainer[d].again)
        BY <2>3 DEF DrainClaim
      <3>2. e.proc \in Proc /\ e.tag \in BOOLEAN /\ drainer[d].again \in BOOLEAN
        BY DEF Entry, Shape, DataOK
      <3> QED
        BY <1>2, <2>1, <3>1, <3>2, Spawned DEF Shape
    <2> QED
      BY <2>2, <2>3
  <1>4. \A s \in Runner : runner'[s].at = "started" =>
          \A q \in Texts(runner'[s].batch) : given'[q] > 0
    BY <1>1, <1>3, ToldStays, OverStays
  <1>5. \A q \in Proc : Over(q) => Over(q)'
    BY <1>1, OverStays
  <1>6. ASSUME NEW q \in Proc, Sure(q) PROVE Sure(q)'
    <2>1. ASSUME NEW e \in deferred, e.proc = q, e.tag PROVE Sure(q)'
      <3>1. e \in S
        BY <1>2, <2>1
      <3> QED
        BY <1>3, <2>1, <3>1 DEF Sure
    <2>2. ASSUME NEW s \in Runner, NEW e \in runner[s].batch, e.proc = q, e.tag PROVE Sure(q)'
      <3>1. runner'[s].batch = runner[s].batch
        BY <1>3, <2>2
      <3> QED
        BY <2>2, <3>1 DEF Sure
    <2> QED
      BY <1>5, <1>6, <2>1, <2>2 DEF Sure
  <1>7. ASSUME NEW q \in Proc, Homed(q) PROVE Homed(q)'
    <2>1. ASSUME NEW e \in deferred, e.proc = q PROVE Homed(q)'
      <3>1. CASE e \in S
        BY <1>3, <2>1, <3>1 DEF Homed, Procs
      <3>2. CASE e \notin S
        <4>1. Sure(q)'
          BY <1>2, <1>6, <2>1, <3>2
        <4> QED
          BY <4>1 DEF Sure, Homed, Procs
      <3> QED
        BY <3>1, <3>2
    <2>2. ASSUME NEW s \in Runner, q \in Procs(runner[s].batch) PROVE Homed(q)'
      <3>1. runner'[s].batch = runner[s].batch
        BY <1>3, <2>2 DEF Procs
      <3> QED
        BY <2>2, <3>1 DEF Homed, Procs
    <2>3. q \in Procs(deferred) => \E e \in deferred : e.proc = q
      BY DEF Procs
    <2>4. loop' = loop
      BY DEF DrainClaim
    <2> QED
      BY <1>5, <1>7, <2>1, <2>2, <2>3, <2>4 DEF Homed
  <1>8. \A s \in Runner : \A e \in runner'[s].batch : Filed(e)'
    <2>1. misfiled' = misfiled
      BY DEF DrainClaim
    <2> QED
      BY <1>2, <1>3, <2>1 DEF Kept, Filed
  <1>9. seen' \subseteq seen
    BY RetireFacts DEF DrainClaim, Shape, DataOK
  <1>10. \A q : InQueue(q) => InQueue(q)'
    BY DEF DrainClaim, InQueue
  <1> QED
    BY <1>3, <1>4, <1>6, <1>7, <1>8, <1>9, <1>10, KeptFollows DEF Keeps, DrainClaim

LEMMA RunnerFilterKept ==
  ASSUME Shape, Kept, NEW r \in Runner, RunnerFilter(r)
  PROVE  Kept'
  <1> USE DEF registry, marks, bounds, ghosts
  <1>0. runner[r].batch \in SUBSET Entry /\ Unique(runner[r].batch) /\ runner[r] \in Threads
    BY DEF Shape, RunnersOK, Threads
  <1> PICK S \in SUBSET Entry : S = Unconsumed(runner[r].batch)
    BY <1>0, UnconsumedFacts
  <1>1. [Next]_vars
    BY DEF Next
  <1>2. /\ S \subseteq runner[r].batch
        /\ \A e \in runner[r].batch \ S : Sure(e.proc) /\ e.proc \in Proc /\ ~e.tag
    BY <1>0, DroppedIsSettled, UnconsumedFacts
  <1>3. /\ \A s \in Runner : s # r => runner'[s] = runner[s]
        /\ runner'[r].batch = S /\ runner'[r].at # "started"
    <2>1. CASE S = {}
      <3>1. runner' = [runner EXCEPT ![r] = Quiet]
        BY <2>1 DEF RunnerFilter
      <3> QED
        BY <2>1, <3>1, QuietThread, ThreadChanges DEF Shape, RunnersOK
    <2>2. CASE S # {}
      <3>1. runner' = [runner EXCEPT ![r].batch = S, ![r].at = "calling"]
        BY <2>2 DEF RunnerFilter
      <3> QED
        BY <1>0, <3>1 DEF Shape, RunnersOK, Threads
    <2> QED
      BY <2>1, <2>2
  <1>4. \A s \in Runner : runner'[s].at = "started" =>
          \A q \in Texts(runner'[s].batch) : given'[q] > 0
    BY <1>1, <1>3, ToldStays, OverStays
  <1>5. \A q \in Proc : Over(q) => Over(q)'
    BY <1>1, OverStays
  <1>6. ASSUME NEW q \in Proc, Sure(q) PROVE Sure(q)'
    <2>1. ASSUME NEW s \in Runner, NEW e \in runner[s].batch, e.proc = q, e.tag PROVE Sure(q)'
      <3>1. e \in runner'[s].batch
        BY <1>2, <1>3, <2>1
      <3> QED
        BY <2>1, <3>1 DEF Sure
    <2>2. deferred' = deferred
      BY DEF RunnerFilter
    <2> QED
      BY <1>5, <1>6, <2>1, <2>2 DEF Sure
  <1>7. ASSUME NEW q \in Proc, Homed(q) PROVE Homed(q)'
    <2>1. ASSUME NEW s \in Runner, NEW e \in runner[s].batch, e.proc = q PROVE Homed(q)'
      <3>1. CASE e \in runner'[s].batch
        BY <2>1, <3>1 DEF Homed, Procs
      <3>2. CASE e \notin runner'[s].batch
        <4>1. s = r /\ e \notin S
          BY <1>3, <2>1, <3>2
        <4>2. Sure(q)'
          BY <1>2, <1>6, <2>1, <4>1
        <4> QED
          BY <4>2 DEF Sure, Homed, Procs
      <3> QED
        BY <3>1, <3>2
    <2>2. \A s \in Runner : q \in Procs(runner[s].batch) => \E e \in runner[s].batch : e.proc = q
      BY DEF Procs
    <2>3. loop' = loop /\ deferred' = deferred
      BY DEF RunnerFilter
    <2> QED
      BY <1>5, <1>7, <2>1, <2>2, <2>3 DEF Homed
  <1>8. /\ \A s \in Runner : \A e \in runner'[s].batch : Filed(e)'
        /\ \A e \in deferred' : Filed(e)'
    <2>1. misfiled' = misfiled /\ deferred' = deferred
      BY DEF RunnerFilter
    <2> QED
      BY <1>2, <1>3, <2>1 DEF Kept, Filed
  <1>9. seen' \subseteq seen
    BY RetireFacts DEF RunnerFilter, Shape, DataOK
  <1>10. \A q : InQueue(q) => InQueue(q)'
    BY DEF RunnerFilter, InQueue
  <1> QED
    BY <1>4, <1>6, <1>7, <1>8, <1>9, <1>10, KeptFollows DEF Keeps, RunnerFilter

\* The thread is done with its batch: paused, or its turn has started.
LEMMA RunnerEndsKept ==
  ASSUME Shape, Kept, NEW r \in Runner, RunnerPaused(r) \/ RunnerDone(r)
  PROVE  Kept'
  <1> USE DEF registry, marks, bounds, ghosts
  <1>0. runner[r].batch \in SUBSET Entry
    BY DEF Shape, RunnersOK, Threads
  <1>1. [Next]_vars
    BY DEF Next
  <1>2. runner' = [runner EXCEPT ![r] = Quiet] /\ deferred' = deferred /\ loop' = loop
        /\ queue' = queue /\ running' = running /\ misfiled' = misfiled
        /\ consumed' = consumed \cup Procs(runner[r].batch)
    BY DEF RunnerPaused, RunnerDone
  <1>3. \A s \in Runner : runner'[s] = IF s = r THEN Quiet ELSE runner[s]
    BY <1>2, QuietThread, ThreadChanges DEF Shape
  <1>4. \A s \in Runner : runner'[s].at = "started" =>
          \A q \in Texts(runner'[s].batch) : given'[q] > 0
    BY <1>1, <1>3, QuietThread, ToldStays, OverStays
  <1>5. \A q \in Proc : Over(q) => Over(q)'
    BY <1>1, OverStays
  <1>6. ASSUME NEW e \in runner[r].batch PROVE e.proc \in Proc /\ Over(e.proc)'
    <2>1. e.proc \in Proc
      BY <1>0 DEF Entry
    <2>2. e.proc \in e.text \/ e.proc \in misfiled
      BY DEF Kept, Filed
    <2>3. CASE e.proc \in misfiled
      BY <1>5, <2>1, <2>3 DEF Over
    <2>4. CASE e.proc \in e.text
      <3>1. e.proc \in Texts(runner[r].batch)
        BY <2>4 DEF Texts
      <3>2. CASE RunnerPaused(r)
        BY <2>1, <3>1, <3>2 DEF RunnerPaused, Over, Settled
      <3>3. CASE RunnerDone(r)
        <4>1. given[e.proc] > 0
          BY <3>1, <3>3 DEF RunnerDone, Kept
        <4> QED
          BY <1>5, <2>1, <4>1 DEF Over, Settled
      <3> QED
        BY <3>2, <3>3
    <2> QED
      BY <2>1, <2>2, <2>3, <2>4
  <1>7. ASSUME NEW q \in Proc, Sure(q) PROVE Sure(q)'
    <2>1. ASSUME NEW s \in Runner, NEW e \in runner[s].batch, e.proc = q, e.tag PROVE Sure(q)'
      <3>1. CASE s = r
        BY <1>6, <2>1, <3>1 DEF Sure
      <3>2. CASE s # r
        BY <1>3, <2>1, <3>2 DEF Sure
      <3> QED
        BY <3>1, <3>2
    <2> QED
      BY <1>2, <1>5, <1>7, <2>1 DEF Sure
  <1>8. ASSUME NEW q \in Proc, Homed(q) PROVE Homed(q)'
    <2>1. ASSUME NEW s \in Runner, NEW e \in runner[s].batch, e.proc = q PROVE Homed(q)'
      <3>1. CASE s = r
        BY <1>6, <2>1, <3>1 DEF Homed
      <3>2. CASE s # r
        BY <1>3, <2>1, <3>2 DEF Homed, Procs
      <3> QED
        BY <3>1, <3>2
    <2>2. \A s \in Runner : q \in Procs(runner[s].batch) => \E e \in runner[s].batch : e.proc = q
      BY DEF Procs
    <2> QED
      BY <1>2, <1>5, <1>8, <2>1, <2>2 DEF Homed
  <1>9. /\ \A s \in Runner : \A e \in runner'[s].batch : Filed(e)'
        /\ \A e \in deferred' : Filed(e)'
    BY <1>2, <1>3, QuietThread DEF Kept, Filed
  <1>10. seen' \subseteq seen
    BY RetireFacts DEF RunnerPaused, RunnerDone, Shape, DataOK
  <1>11. \A q : InQueue(q) => InQueue(q)'
    BY <1>2 DEF InQueue
  <1>12. \A q \in Procs(runner[r].batch) : Sure(q)'
    BY <1>6 DEF Procs, Sure
  <1> QED
    BY <1>2, <1>4, <1>7, <1>8, <1>9, <1>10, <1>11, <1>12, KeptFollows DEF Keeps

LEMMA RunnerLaunchedKept ==
  ASSUME Shape, Kept, NEW r \in Runner, RunnerLaunched(r)
  PROVE  Kept'
  <1> USE DEF registry, marks, bounds, ghosts
  <1>0. runner[r].batch \in SUBSET Entry /\ Unique(runner[r].batch)
    BY DEF Shape, RunnersOK, Threads
  <1>1. [Next]_vars
    BY DEF Next
  <1>2. \A s \in Runner : /\ runner'[s].batch = runner[s].batch
                          /\ runner'[s].at = IF s = r THEN "started" ELSE runner[s].at
    BY ZenonT(60), ThreadMoves DEF RunnerLaunched, Shape
  <1>3. SameEntries
    BY <1>2 DEF RunnerLaunched, SameEntries
  <1>4. \A q \in Texts(runner[r].batch) : given'[q] > 0
    BY <1>0, GivenFacts DEF RunnerLaunched, Shape, DataOK
  <1>5. \A s \in Runner : runner'[s].at = "started" =>
          \A q \in Texts(runner'[s].batch) : given'[q] > 0
    <2> SUFFICES ASSUME NEW s \in Runner, runner'[s].at = "started",
                        NEW q \in Texts(runner[s].batch)
                 PROVE  given'[q] > 0
      BY <1>2
    <2>1. q \in Proc
      BY DEF Shape, RunnersOK, Threads, Entry, Texts
    <2> QED
      BY <1>1, <1>2, <1>4, <2>1, OverStays DEF Kept
  <1>6. \A q : InQueue(q) => InQueue(q)'
    BY DEF RunnerLaunched, InQueue
  <1> QED
    BY <1>1, <1>3, <1>5, <1>6, EntriesStay, KeptFollows DEF Keeps, RunnerLaunched

LEMMA RunnerAbortedKept ==
  ASSUME Shape, Kept, NEW r \in Runner, RunnerAborted(r)
  PROVE  Kept'
  <1> USE DEF registry, marks, bounds, ghosts
  <1>0. /\ runner[r].batch \in SUBSET Entry /\ runner[r].at = "launching"
        /\ runner[r].key \in Proc /\ runner[r].tag \in BOOLEAN
    BY DEF RunnerAborted, Shape, RunnersOK, Threads
  <1> PICK joined \in Entry :
        joined = [proc |-> runner[r].key, text |-> Texts(runner[r].batch),
                  tag |-> runner[r].tag, no |-> 1]
    <2>1. Texts(runner[r].batch) \subseteq Proc
      BY <1>0 DEF Entry, Texts
    <2> QED
      BY <1>0, <2>1 DEF Entry
  <1>1. [Next]_vars
    BY DEF Next
  <1>2. \A s \in Runner : /\ runner'[s].batch = runner[s].batch
                          /\ runner'[s].at = "started" => runner[s].at = "started"
    BY <1>0, ThreadMoves DEF RunnerAborted, Shape
  <1>3. /\ deferred' = Record(deferred, {joined}) /\ Queued({joined.proc})
        /\ misfiled' = misfiled \cup ({joined.proc} \ joined.text)
    BY DEF RunnerAborted
  <1>4. Recorded(deferred, {joined}, deferred')
    BY <1>3, RecordFacts DEF Shape, DataOK, Unique
  <1>5. \A s \in Runner : runner'[s].at = "started" =>
          \A q \in Texts(runner'[s].batch) : given'[q] > 0
    BY <1>1, <1>2, ToldStays, OverStays
  <1>6. \A q \in Proc : Over(q) => Over(q)'
    BY <1>1, OverStays
  <1>7. Procs(deferred') = Procs(deferred) \cup {joined.proc}
    BY <1>4 DEF Recorded, Procs
  <1>8. \A q \in Proc : Homed(q) => Homed(q)'
    <2>1. loop' = loop
      BY DEF RunnerAborted
    <2> QED
      BY <1>2, <1>6, <1>7, <2>1 DEF Homed
  <1>9. \A q \in Proc : Sure(q) => Sure(q)'
    <2>1. \A e \in deferred : \E g \in deferred' : g.proc = e.proc /\ (e.tag => g.tag)
      BY <1>4 DEF Recorded
    <2> QED
      BY <1>2, <1>6, <2>1 DEF Sure
  <1>10. \A g \in deferred' : Filed(g)'
    <2>1. \A g \in deferred' : \E e \in deferred \cup {joined} : e.proc = g.proc /\ e.text = g.text
      BY <1>4 DEF Recorded
    <2> QED
      BY ZenonT(60), <1>3, <2>1 DEF Kept, Filed
  <1>11. \A s \in Runner : \A e \in runner'[s].batch : Filed(e)'
    BY <1>2, <1>3 DEF Kept, Filed
  <1>12. seen' = seen \cup {joined.proc} /\ Homed(joined.proc)'
    BY <1>3, <1>7 DEF Queued, Homed
  <1>13. \A q : InQueue(q) => InQueue(q)'
    BY DEF RunnerAborted, InQueue
  <1> QED
    BY <1>5, <1>8, <1>9, <1>10, <1>11, <1>12, <1>13, KeptFollows DEF Keeps, RunnerAborted

LEMMA RunnerRedeferKept ==
  ASSUME Shape, Kept, NEW r \in Runner, RunnerRedefer(r)
  PROVE  Kept'
  <1> USE DEF registry, marks, bounds, ghosts
  <1>0. PICK back \in SUBSET Entry :
          /\ back = {[e EXCEPT !.tag = @ \/ runner[r].tag] : e \in runner[r].batch}
          /\ Unique(back) /\ Procs(back) = Procs(runner[r].batch)
          /\ \A e \in runner[r].batch : \E g \in back : g.proc = e.proc /\ (e.tag => g.tag)
          /\ \A g \in back : \E e \in runner[r].batch : g.proc = e.proc /\ g.text = e.text
    BY BackFacts DEF Shape
  <1>1. [Next]_vars
    BY DEF Next
  <1>2. /\ runner' = [runner EXCEPT ![r] = Quiet] /\ Queued(Procs(back))
        /\ deferred' = Record(deferred, back)
    BY <1>0 DEF RunnerRedefer
  <1>3. \A s \in Runner : runner'[s] = IF s = r THEN Quiet ELSE runner[s]
    BY <1>2, QuietThread, ThreadChanges DEF Shape
  <1>4. Recorded(deferred, back, deferred')
    BY <1>0, <1>2, RecordFacts DEF Shape, DataOK
  <1>5. \A s \in Runner : runner'[s].at = "started" =>
          \A q \in Texts(runner'[s].batch) : given'[q] > 0
    BY <1>1, <1>3, QuietThread, ToldStays, OverStays
  <1>6. \A q \in Proc : Over(q) => Over(q)'
    BY <1>1, OverStays
  <1>7. Procs(deferred') = Procs(deferred) \cup Procs(runner[r].batch)
    BY <1>0, <1>4 DEF Recorded
  <1>8. \A q \in Proc : Homed(q) => Homed(q)'
    <2>1. loop' = loop
      BY DEF RunnerRedefer
    <2> QED
      BY <1>3, <1>6, <1>7, <2>1 DEF Homed
  <1>9. ASSUME NEW q \in Proc, Sure(q) PROVE Sure(q)'
    <2>1. \A e \in deferred \cup back : \E g \in deferred' : g.proc = e.proc /\ (e.tag => g.tag)
      BY <1>4 DEF Recorded
    <2>2. ASSUME NEW s \in Runner, NEW e \in runner[s].batch, e.proc = q, e.tag PROVE Sure(q)'
      <3>1. CASE s = r
        <4>1. PICK g \in back : g.proc = q /\ g.tag
          BY <1>0, <2>2, <3>1
        <4> QED
          BY <2>1, <4>1 DEF Sure
      <3>2. CASE s # r
        BY <1>3, <2>2, <3>2 DEF Sure
      <3> QED
        BY <3>1, <3>2
    <2> QED
      BY <1>6, <1>9, <2>1, <2>2 DEF Sure
  <1>10. \A g \in deferred' : Filed(g)'
    <2>1. \A g \in deferred' : \E e \in deferred \cup back : e.proc = g.proc /\ e.text = g.text
      BY <1>4 DEF Recorded
    <2>2. misfiled' = misfiled
      BY DEF RunnerRedefer
    <2>3. \A e \in back : e.proc \in e.text \cup misfiled
      BY <1>0 DEF Kept, Filed
    <2> QED
      BY <2>1, <2>2, <2>3 DEF Kept, Filed
  <1>11. \A s \in Runner : \A e \in runner'[s].batch : Filed(e)'
    BY <1>3, QuietThread DEF Kept, Filed, RunnerRedefer
  <1>12. seen' = seen \cup Procs(back) /\ \A q \in Procs(back) : Homed(q)'
    BY <1>0, <1>2, <1>7 DEF Queued, Homed
  <1>13. \A q : InQueue(q) => InQueue(q)'
    BY DEF RunnerRedefer, InQueue
  <1> QED
    BY <1>5, <1>8, <1>9, <1>10, <1>11, <1>12, <1>13, KeptFollows DEF Keeps, RunnerRedefer

LEMMA NextKept ==
  ASSUME Shape, Kept, [Next]_vars
  PROVE  Kept'
  <1> USE DEF registry, marks, bounds, ghosts
  <1>1. CASE HumanStart \/ NextTurnBegin \/ Sweep \/ LoopBusy \/ UNCHANGED vars
    <2>1. /\ SameEntries /\ queue' = queue /\ running' = running /\ seen' \subseteq seen
          /\ consumed' = consumed /\ runner' = runner
      BY <1>1 DEF SameEntries, HumanStart, NextTurnBegin, Sweep, LoopBusy, vars, Shape, DataOK
    <2> QED
      BY <2>1, EasyKept
  <1>2. ASSUME NEW d \in Drainer, TurnEnd(d) \/ DrainLook(d) \/ TimerFires(d) PROVE Kept'
    <2>1. /\ SameEntries /\ queue' = queue /\ running' = running /\ seen' = seen
          /\ consumed' = consumed /\ runner' = runner
      BY <1>2 DEF SameEntries, TurnEnd, DrainLook, TimerFires
    <2> QED
      BY <2>1, EasyKept
  <1>3. ASSUME NEW r \in Runner, RunnerRefused(r) \/ RunnerFails(r) \/ RunnerAdmitted(r) PROVE Kept'
    <2>1. \A s \in Runner : /\ runner'[s].batch = runner[s].batch
                            /\ runner'[s].at = "started" => runner[s].at = "started"
      BY <1>3, ThreadMoves DEF RunnerRefused, RunnerFails, RunnerAdmitted, Shape
    <2>2. /\ SameEntries /\ queue' = queue /\ running' = running /\ seen' = seen
          /\ consumed' = consumed
      BY <1>3, <2>1 DEF SameEntries, RunnerRefused, RunnerFails, RunnerAdmitted
    <2> QED
      BY <2>1, <2>2, EasyKept
  <1> QED
    BY <1>1, <1>2, <1>3, FinishKept, AgentReadKept, NextTurnTakeKept, LoopTakeKept, LoopDeferKept,
       LoopIdleKept, DrainClaimKept, RunnerFilterKept, RunnerEndsKept, RunnerLaunchedKept,
       RunnerAbortedKept, RunnerRedeferKept DEF Next

LEMMA KeptMeansNotLost == Shape /\ Kept => LostOnlyIfMisfiled
  <1> SUFFICES ASSUME Shape, Kept, NEW p \in Proc \ running
               PROVE  Settled(p) \/ OnItsWay(p) \/ p \in misfiled
    BY DEF LostOnlyIfMisfiled
  <1>1. ASSUME NEW e, Filed(e), e.proc = p, p \notin misfiled PROVE p \in e.text
    BY <1>1 DEF Filed
  <1>2. p \in Procs(deferred) => p \in misfiled \/ p \in Texts(deferred)
    BY <1>1 DEF Kept, Procs, Texts
  <1>3. \A r \in Runner : p \in Procs(runner[r].batch) => p \in misfiled \/ p \in Texts(runner[r].batch)
    BY <1>1 DEF Kept, Procs, Texts
  <1> QED
    BY <1>2, <1>3 DEF Kept, Homed, Over, OnItsWay

-----------------------------------------------------------------------------
(* No result is told twice.                                                *)

LEMMA InitOnce == Init => Once
  <1> SUFFICES ASSUME Init PROVE Once
    OBVIOUS
  <1>1. \A r \in Runner : runner[r].batch = {} /\ runner[r].at = "off"
    BY QuietThread DEF Init
  <1>2. deferred = {} /\ Texts(deferred) = {} /\ loop.proc = None /\ \A p \in Proc : given[p] = 0
    BY DEF Init, Texts, Empty
  <1>3. \A p \in Proc : p # None
    BY WakeupAssumption
  <1> QED
    BY <1>1, <1>2, <1>3 DEF Once, OncePlace, Held, Taken

\* A mark is only taken away from what is consumed, or by the reaper.
LEMMA MarksStay ==
  ASSUME Shape, [Next]_vars
  PROVE  /\ \A p \in Proc \ swept' : p \in seen \cup consumed => p \in seen' \cup consumed'
         /\ rearmed \subseteq rearmed' /\ swept \subseteq swept'
  <1> USE DEF registry, marks, bounds, ghosts
  <1>1. /\ rearmed \subseteq rearmed' /\ swept \subseteq swept' /\ consumed \subseteq consumed'
    BY ZenonT(60) DEF Next, vars, Finish, AgentRead, HumanStart, NextTurnTake, NextTurnBegin, Sweep, LoopTake,
       LoopBusy, LoopDefer, TurnEnd, DrainLook, TimerFires, DrainClaim, LoopIdle, RunnerFilter,
       RunnerRefused, RunnerFails, RunnerPaused, RunnerAdmitted, RunnerLaunched, RunnerAborted,
       RunnerRedefer, RunnerDone
  <1>2. ASSUME NEW d \in Drainer, NEW r \in Runner, DrainClaim(d, r)
        PROVE  seen \subseteq seen' \cup consumed
    <2>1. Procs(deferred) \ Procs(Unconsumed(deferred)) \subseteq consumed
      BY DEF Procs, Unconsumed
    <2> QED
      BY <1>2, <2>1, RetireFacts DEF DrainClaim, Shape, DataOK
  <1>3. ASSUME NEW r \in Runner, RunnerFilter(r)
        PROVE  seen \subseteq seen' \cup consumed
    <2>1. CASE Unconsumed(runner[r].batch) = {}
      <3>1. Procs(runner[r].batch) \subseteq consumed
        BY <2>1 DEF Procs, Unconsumed
      <3> QED
        BY <1>3, <2>1, <3>1, RetireFacts DEF RunnerFilter, Shape, DataOK
    <2>2. CASE Unconsumed(runner[r].batch) # {}
      BY <1>3, <2>2 DEF RunnerFilter
    <2> QED
      BY <2>1, <2>2
  <1>4. ASSUME NEW r \in Runner, RunnerPaused(r) \/ RunnerDone(r)
        PROVE  seen \subseteq seen' \cup consumed'
    <2>1. CASE RunnerPaused(r)
      BY <2>1 DEF RunnerPaused
    <2>2. CASE RunnerDone(r)
      <3>1. Procs(runner[r].batch) \subseteq consumed'
        BY <2>2 DEF RunnerDone
      <3> QED
        BY <2>2, <3>1, RetireFacts DEF RunnerDone, Shape, DataOK
    <2> QED
      BY <1>4, <2>1, <2>2
  <1>5. CASE Sweep
    BY <1>5 DEF Sweep
  <1>6. ASSUME \A d \in Drainer, r \in Runner : ~DrainClaim(d, r),
               \A r \in Runner : ~RunnerFilter(r) /\ ~RunnerPaused(r) /\ ~RunnerDone(r), ~Sweep
        PROVE  seen \subseteq seen'
    BY ZenonT(60), <1>6 DEF Next, vars, Finish, AgentRead, HumanStart, NextTurnTake, NextTurnBegin, LoopTake,
       LoopBusy, LoopDefer, TurnEnd, DrainLook, TimerFires, LoopIdle, RunnerRefused, RunnerFails,
       RunnerAdmitted, RunnerLaunched, RunnerAborted, RunnerRedefer, Queued
  <1> QED
    BY SMTT(60), <1>1, <1>2, <1>3, <1>4, <1>5, <1>6

\* A step that puts p nowhere new.
LEMMA StaysOnce ==
  ASSUME NEW p \in Proc, OncePlace(p), given'[p] = given[p],
         loop'.proc = p => loop.proc = p,
         p \in Texts(deferred') => p \in Texts(deferred),
         \A r \in Runner : Held(r, p)' => Held(r, p),
         p \in seen \cup consumed => p \in seen' \cup consumed'
  PROVE  OncePlace(p)'
  BY DEF OncePlace, Taken

\* What a step owes Once.
OnceStep ==
    /\ \A e \in deferred' : Lone(e)'
    /\ \A r \in Runner : \A e \in runner'[r].batch : Lone(e)'
    /\ \A p \in Proc \ (rearmed' \cup swept') : OncePlace(p) => OncePlace(p)'

LEMMA OnceFollows ==
  ASSUME Shape, Once, [Next]_vars, OnceStep
  PROVE  Once'
  <1>1. rearmed \subseteq rearmed' /\ swept \subseteq swept'
    BY MarksStay
  <1> QED
    BY <1>1 DEF Once, OnceStep

\* Steps that add no entry.
LEMMA LoneStays ==
  ASSUME Shape, Once, [Next]_vars, deferred' \subseteq deferred,
         \A r \in Runner : runner'[r].batch \subseteq runner[r].batch
  PROVE  /\ \A e \in deferred' : Lone(e)'
         /\ \A r \in Runner : \A e \in runner'[r].batch : Lone(e)'
         /\ Texts(deferred') \subseteq Texts(deferred)
         /\ \A r \in Runner : Texts(runner'[r].batch) \subseteq Texts(runner[r].batch)
  <1>1. rearmed \subseteq rearmed'
    BY MarksStay
  <1> QED
    BY <1>1 DEF Once, Lone, Texts

LEMMA EasyOnce ==
  ASSUME Shape, Once, [Next]_vars, deferred' \subseteq deferred, given' = given,
         loop'.proc = loop.proc,
         \A r \in Runner : /\ runner'[r].batch \subseteq runner[r].batch
                           /\ \/ runner'[r].at = runner[r].at
                              \/ runner[r].at \in {"spawned", "calling", "launching", "failed"}
                              \/ runner'[r].at = "off"
  PROVE  Once'
  <1>1. /\ \A e \in deferred' : Lone(e)'
        /\ \A r \in Runner : \A e \in runner'[r].batch : Lone(e)'
        /\ Texts(deferred') \subseteq Texts(deferred)
        /\ \A r \in Runner : Texts(runner'[r].batch) \subseteq Texts(runner[r].batch)
    BY LoneStays
  <1>2. ASSUME NEW p \in Proc \ (rearmed' \cup swept'), OncePlace(p) PROVE OncePlace(p)'
    <2>1. p \in seen \cup consumed => p \in seen' \cup consumed'
      BY MarksStay
    <2>2. \A r \in Runner : Held(r, p)' => Held(r, p)
      BY <1>1 DEF Held
    <2> QED
      BY <1>1, <1>2, <2>1, <2>2, StaysOnce
  <1> QED
    BY <1>1, <1>2, OnceFollows DEF OnceStep

\* A completion that is taken off the queue is nowhere else.
LEMMA UnownedIsNowhere ==
  ASSUME NEW p \in Proc, Unowned(p), OncePlace(p), given \in [Proc -> 0..2]
  PROVE  /\ given[p] = 0 /\ loop.proc # p /\ p \notin Texts(deferred)
         /\ \A r \in Runner : ~Held(r, p)
  BY DEF Unowned, OncePlace, Taken

LEMMA NextTurnTakeOnce ==
  ASSUME Shape, Once, NextTurnTake
  PROVE  Once'
  <1> USE DEF registry, marks, bounds, ghosts
  <1>0. Head(queue) \in Proc /\ [Next]_vars
    BY QueueFacts DEF NextTurnTake, Shape, DataOK, Next
  <1> PICK p \in Proc : p = Head(queue)
    BY <1>0
  <1>1. CASE ~Unowned(p)
    <2>1. given' = given /\ deferred' = deferred /\ loop' = loop /\ runner' = runner
      BY <1>1 DEF NextTurnTake
    <2> QED
      BY <1>0, <2>1, EasyOnce
  <1>2. CASE Unowned(p)
    <2>1. /\ deferred' = deferred /\ loop' = loop /\ runner' = runner
          /\ given' = Given({Plain(p)}) /\ seen' = seen \cup {p}
      BY <1>2 DEF NextTurnTake
    <2>2. /\ {Plain(p)} \in SUBSET Entry /\ Unique({Plain(p)}) /\ Texts({Plain(p)}) = {p}
          /\ \E e \in {Plain(p)} : \A f \in {Plain(p)} : p \in f.text <=> f = e
      BY PlainEntry DEF Unique, Texts
    <2>3. \A q \in Proc : q # p => given'[q] = given[q]
      BY <2>1, <2>2, GivenFacts DEF Shape, DataOK
    <2>4. given[p] = 0 => given'[p] = 1
      BY <2>1, <2>2, GivenFacts DEF Shape, DataOK
    <2>5. /\ \A e \in deferred' : Lone(e)'
          /\ \A r \in Runner : \A e \in runner'[r].batch : Lone(e)'
      BY <1>0, <2>1, LoneStays
    <2>6. ASSUME NEW q \in Proc \ (rearmed' \cup swept'), OncePlace(q) PROVE OncePlace(q)'
      <3>1. q \in seen \cup consumed => q \in seen' \cup consumed'
        BY <1>0, MarksStay
      <3>2. \A r \in Runner : Held(r, q)' <=> Held(r, q)
        BY <2>1 DEF Held
      <3>3. CASE q # p
        BY <2>1, <2>3, <2>6, <3>1, <3>2, <3>3, StaysOnce
      <3>4. CASE q = p
        <4>1. /\ given[p] = 0 /\ loop.proc # p /\ p \notin Texts(deferred)
              /\ \A r \in Runner : ~Held(r, p)
          BY <1>2, <2>6, <3>4, UnownedIsNowhere DEF Shape, DataOK
        <4> QED
          BY <2>1, <2>4, <3>2, <3>4, <4>1 DEF OncePlace, Taken
      <3> QED
        BY <3>3, <3>4
    <2> QED
      BY <1>0, <2>5, <2>6, OnceFollows DEF OnceStep
  <1> QED
    BY <1>1, <1>2

LEMMA LoopTakeOnce ==
  ASSUME Shape, Once, LoopTake
  PROVE  Once'
  <1> USE DEF registry, marks, bounds, ghosts
  <1>0. Head(queue) \in Proc /\ [Next]_vars
    BY QueueFacts DEF LoopTake, Shape, DataOK, Next
  <1> PICK p \in Proc : p = Head(queue)
    BY <1>0
  <1>1. CASE ~Unowned(p)
    <2>1. given' = given /\ deferred' = deferred /\ loop' = loop /\ runner' = runner
      BY <1>1 DEF LoopTake
    <2> QED
      BY <1>0, <2>1, EasyOnce
  <1>2. CASE Unowned(p)
    <2>1. /\ deferred' = deferred /\ loop'.proc = p /\ runner' = runner
          /\ given' = given /\ seen' = seen \cup {p}
      BY <1>2 DEF LoopTake, Queued
    <2>2. /\ \A e \in deferred' : Lone(e)'
          /\ \A r \in Runner : \A e \in runner'[r].batch : Lone(e)'
      BY <1>0, <2>1, LoneStays
    <2>3. ASSUME NEW q \in Proc \ (rearmed' \cup swept'), OncePlace(q) PROVE OncePlace(q)'
      <3>1. q \in seen \cup consumed => q \in seen' \cup consumed'
        BY <1>0, MarksStay
      <3>2. \A r \in Runner : Held(r, q)' <=> Held(r, q)
        BY <2>1 DEF Held
      <3>3. CASE q # p
        BY <2>1, <2>3, <3>1, <3>2, <3>3, StaysOnce
      <3>4. CASE q = p
        <4>1. /\ given[p] = 0 /\ loop.proc # p /\ p \notin Texts(deferred)
              /\ \A r \in Runner : ~Held(r, p)
          BY <1>2, <2>3, <3>4, UnownedIsNowhere DEF Shape, DataOK
        <4> QED
          BY <2>1, <3>2, <3>4, <4>1 DEF OncePlace, Taken
      <3> QED
        BY <3>3, <3>4
    <2> QED
      BY <1>0, <2>2, <2>3, OnceFollows DEF OnceStep
  <1> QED
    BY <1>1, <1>2

\* The texts of a list after record_deferred_wakeup.
LEMMA RecordedTexts ==
  ASSUME NEW list, NEW new, NEW res, Recorded(list, new, res)
  PROVE  Texts(res) \subseteq Texts(list) \cup Texts(new)
  <1> SUFFICES ASSUME NEW g \in res, NEW p \in g.text PROVE p \in Texts(list) \cup Texts(new)
    BY DEF Texts
  <1>1. PICK e \in list \cup new : e.text = g.text
    BY DEF Recorded
  <1> QED
    BY <1>1 DEF Texts

LEMMA RecordedLone ==
  ASSUME NEW list, NEW new, NEW res, Recorded(list, new, res), rearmed \subseteq rearmed',
         \A e \in list : Lone(e), \A e \in new : Lone(e)'
  PROVE  \A g \in res : Lone(g)'
  <1> SUFFICES ASSUME NEW g \in res PROVE Lone(g)'
    OBVIOUS
  <1>1. PICK e \in list \cup new : e.proc = g.proc /\ e.text = g.text
    BY DEF Recorded
  <1> QED
    BY <1>1 DEF Lone

LEMMA LoopDeferOnce ==
  ASSUME Shape, Once, LoopDefer
  PROVE  Once'
  <1> USE DEF registry, marks, bounds, ghosts
  <1>0. loop.proc \in Proc /\ [Next]_vars
    BY DEF LoopDefer, Shape, DataOK, Next
  <1> PICK p \in Proc : p = loop.proc
    BY <1>0
  <1>1. /\ {Plain(p)} \in SUBSET Entry /\ Unique({Plain(p)}) /\ Texts({Plain(p)}) = {p}
        /\ \A e \in {Plain(p)} : Lone(e)'
    BY PlainEntry DEF Unique, Texts, Lone
  <1>2. Recorded(deferred, {Plain(p)}, deferred')
    BY <1>1, RecordFacts DEF LoopDefer, Shape, DataOK
  <1>3. runner' = runner /\ given' = given /\ rearmed' = rearmed /\ loop'.proc = None
    BY DEF LoopDefer, Empty
  <1>4. Texts(deferred') \subseteq Texts(deferred) \cup {p}
    BY <1>1, <1>2, RecordedTexts
  <1>5. \A e \in deferred' : Lone(e)'
    BY <1>1, <1>2, <1>3, RecordedLone DEF Once
  <1>6. \A r \in Runner : \A e \in runner'[r].batch : Lone(e)'
    BY <1>3 DEF Once, Lone
  <1>7. ASSUME NEW q \in Proc \ (rearmed' \cup swept'), OncePlace(q) PROVE OncePlace(q)'
    <2>1. q \in seen \cup consumed => q \in seen' \cup consumed'
      BY <1>0, MarksStay
    <2>2. \A r \in Runner : Held(r, q)' <=> Held(r, q)
      BY <1>3 DEF Held
    <2>3. q # None
      BY WakeupAssumption
    <2>4. CASE q # p
      BY <1>3, <1>4, <1>7, <2>1, <2>2, <2>3, <2>4, StaysOnce
    <2>5. CASE q = p
      BY <1>3, <1>7, <2>1, <2>2, <2>3, <2>5 DEF OncePlace, Taken
    <2> QED
      BY <2>4, <2>5
  <1> QED
    BY <1>0, <1>5, <1>6, <1>7, OnceFollows DEF OnceStep

LEMMA LoopIdleOnce ==
  ASSUME Shape, Once, NEW r \in Runner, LoopIdle(r)
  PROVE  Once'
  <1> USE DEF registry, marks, bounds, ghosts
  <1>0. loop.proc \in Proc /\ [Next]_vars
    BY DEF LoopIdle, Shape, DataOK, Next
  <1> PICK p \in Proc : p = loop.proc
    BY <1>0
  <1> DEFINE e == [Plain(p) EXCEPT !.tag = TRUE]
  <1>1. e \in Entry /\ e.proc = p /\ e.text = {p}
    BY ZenonT(60), PlainEntry, Tagging
  <1>2. Spawn(r, {e}, p, TRUE, FALSE)
    BY DEF LoopIdle
  <1> HIDE DEF e
  <1>3. {e} \in SUBSET Entry /\ Unique({e}) /\ Texts({e}) = {p}
    BY <1>1 DEF Unique, Texts
  <1>4. /\ \A s \in Runner : s # r => runner'[s] = runner[s]
        /\ runner'[r].at = "spawned" /\ runner'[r].batch = {e}
    BY <1>2, <1>3, Spawned DEF Shape
  <1>5. deferred' = deferred /\ given' = given /\ rearmed' = rearmed /\ loop'.proc = None
    BY DEF LoopIdle, Empty
  <1>6. /\ \A f \in deferred' : Lone(f)'
        /\ \A s \in Runner : \A f \in runner'[s].batch : Lone(f)'
    BY <1>1, <1>4, <1>5 DEF Once, Lone
  <1>7. ASSUME NEW q \in Proc \ (rearmed' \cup swept'), OncePlace(q) PROVE OncePlace(q)'
    <2>1. q \in seen \cup consumed => q \in seen' \cup consumed'
      BY <1>0, MarksStay
    <2>2. \A s \in Runner : Held(s, q)' => (s = r /\ q = p) \/ Held(s, q)
      BY <1>3, <1>4 DEF Held
    <2>3. q # None
      BY WakeupAssumption
    <2>4. CASE q # p
      BY <1>5, <1>7, <2>1, <2>2, <2>3, <2>4, StaysOnce
    <2>5. CASE q = p
      <3>1. \A s \in Runner : ~Held(s, q)
        BY <1>7, <2>5 DEF OncePlace
      <3>2. \A s \in Runner : Held(s, q)' => s = r
        BY <2>2, <3>1
      <3> QED
        BY <1>5, <1>7, <2>1, <2>3, <2>5, <3>2 DEF OncePlace, Taken
    <2> QED
      BY <2>4, <2>5
  <1> QED
    BY <1>0, <1>6, <1>7, OnceFollows DEF OnceStep

LEMMA DrainClaimOnce ==
  ASSUME Shape, Once, NEW d \in Drainer, NEW r \in Runner, DrainClaim(d, r)
  PROVE  Once'
  <1> USE DEF registry, marks, bounds, ghosts
  <1> PICK S \in SUBSET Entry : S = Unconsumed(deferred)
    BY UnconsumedFacts DEF Shape, DataOK
  <1>1. [Next]_vars
    BY DEF Next
  <1>2. S \subseteq deferred /\ Unique(S)
    BY UnconsumedFacts DEF Shape, DataOK
  <1>3. /\ deferred' = {} /\ loop' = loop /\ given' = given /\ rearmed' = rearmed
        /\ \A s \in Runner : s # r => runner'[s] = runner[s]
        /\ runner'[r].batch = S
    <2>1. /\ runner[r].batch = {} /\ deferred' = {} /\ loop' = loop /\ given' = given
          /\ rearmed' = rearmed
      BY QuietThread DEF DrainClaim
    <2>2. CASE S = {}
      BY <2>1, <2>2 DEF DrainClaim
    <2>3. CASE S # {}
      <3>1. PICK e \in S : Spawn(r, S, e.proc, e.tag, drainer[d].again)
        BY <2>3 DEF DrainClaim
      <3>2. e.proc \in Proc /\ e.tag \in BOOLEAN /\ drainer[d].again \in BOOLEAN
        BY DEF Entry, Shape, DataOK
      <3> QED
        BY <1>2, <2>1, <3>1, <3>2, Spawned DEF Shape
    <2> QED
      BY <2>2, <2>3
  <1>4. /\ \A f \in deferred' : Lone(f)'
        /\ \A s \in Runner : \A f \in runner'[s].batch : Lone(f)'
    BY <1>2, <1>3 DEF Once, Lone
  <1>5. ASSUME NEW q \in Proc \ (rearmed' \cup swept'), OncePlace(q) PROVE OncePlace(q)'
    <2>1. q \in seen \cup consumed => q \in seen' \cup consumed'
      BY <1>1, MarksStay
    <2>2. \A s \in Runner : Held(s, q)' => (s = r /\ q \in Texts(deferred)) \/ Held(s, q)
      BY <1>2, <1>3 DEF Held, Texts
    <2>3. q \notin Texts(deferred')
      BY <1>3 DEF Texts
    <2>4. CASE q \in Texts(deferred)
      <3>1. \A s \in Runner : Held(s, q)' => s = r
        BY <1>5, <2>2, <2>4 DEF OncePlace
      <3> QED
        BY <1>3, <1>5, <2>1, <2>3, <2>4, <3>1 DEF OncePlace, Taken
    <2>5. CASE q \notin Texts(deferred)
      BY <1>3, <1>5, <2>1, <2>2, <2>3, <2>5, StaysOnce
    <2> QED
      BY <2>4, <2>5
  <1> QED
    BY <1>1, <1>4, <1>5, OnceFollows DEF OnceStep

LEMMA RunnerLaunchedOnce ==
  ASSUME Shape, Once, NEW r \in Runner, RunnerLaunched(r)
  PROVE  Once'
  <1> USE DEF registry, marks, bounds, ghosts
  <1> DEFINE S == runner[r].batch
  <1>0. S \in SUBSET Entry /\ Unique(S) /\ runner[r].at = "launching"
    BY DEF RunnerLaunched, Shape, RunnersOK, Threads
  <1>1. [Next]_vars
    BY DEF Next
  <1>2. \A s \in Runner : /\ runner'[s].batch = runner[s].batch
                          /\ runner'[s].at = IF s = r THEN "started" ELSE runner[s].at
    BY ThreadMoves DEF RunnerLaunched, Shape
  <1>3. deferred' = deferred /\ loop' = loop /\ rearmed' = rearmed /\ given' = Given(S)
    BY DEF RunnerLaunched
  <1>4. /\ \A f \in deferred' : Lone(f)'
        /\ \A s \in Runner : \A f \in runner'[s].batch : Lone(f)'
    BY <1>1, <1>2, <1>3, LoneStays
  <1>5. ASSUME NEW q \in Proc \ (rearmed' \cup swept'), OncePlace(q) PROVE OncePlace(q)'
    <2>1. q \in seen \cup consumed => q \in seen' \cup consumed'
      BY <1>1, MarksStay
    <2>2. \A s \in Runner : Held(s, q)' => s # r /\ Held(s, q)
      BY <1>2 DEF Held
    <2>3. CASE q \notin Texts(S)
      <3>1. given'[q] = given[q]
        BY <1>0, <1>3, <2>3, GivenFacts DEF Shape, DataOK
      <3> QED
        BY <1>3, <1>5, <2>1, <2>2, <3>1, StaysOnce
    <2>4. CASE q \in Texts(S)
      <3>1. Held(r, q)
        BY <1>0, <2>4 DEF Held
      <3>2. /\ given[q] = 0 /\ loop.proc # q /\ q \notin Texts(deferred)
            /\ \A s \in Runner : Held(s, q) => s = r
            /\ q \in seen \cup consumed
        BY <1>5, <3>1 DEF OncePlace, Taken, Shape, DataOK
      <3>3. PICK e \in S : q \in e.text
        BY <2>4 DEF Texts
      <3>4. \A f \in S : q \in f.text <=> f = e
        <4>1. \A f \in S : q \in f.text => f.proc = q
          BY <1>3, <1>5 DEF Once, Lone
        <4> QED
          BY <1>0, <3>3, <4>1 DEF Unique
      <3>5. given'[q] = 1
        BY <1>0, <1>3, <3>2, <3>3, <3>4, GivenFacts DEF Shape, DataOK
      <3>6. \A s \in Runner : ~Held(s, q)'
        BY <2>2, <3>2
      <3> QED
        BY <1>3, <2>1, <3>2, <3>5, <3>6 DEF OncePlace, Taken
    <2> QED
      BY <2>3, <2>4
  <1> QED
    BY <1>1, <1>4, <1>5, OnceFollows DEF OnceStep

LEMMA RunnerAbortedOnce ==
  ASSUME Shape, Once, NEW r \in Runner, RunnerAborted(r)
  PROVE  Once'
  <1> USE DEF registry, marks, bounds, ghosts
  <1>0. /\ runner[r].batch \in SUBSET Entry /\ runner[r].at = "launching"
        /\ runner[r].key \in Proc /\ runner[r].tag \in BOOLEAN
    BY DEF RunnerAborted, Shape, RunnersOK, Threads
  <1> PICK joined \in Entry :
        joined = [proc |-> runner[r].key, text |-> Texts(runner[r].batch),
                  tag |-> runner[r].tag, no |-> 1]
    <2>1. Texts(runner[r].batch) \subseteq Proc
      BY <1>0 DEF Entry, Texts
    <2> QED
      BY <1>0, <2>1 DEF Entry
  <1>1. [Next]_vars
    BY DEF Next
  <1>2. \A s \in Runner : /\ runner'[s].batch = runner[s].batch
                          /\ runner'[s].at = IF s = r THEN "failed" ELSE runner[s].at
    BY ZenonT(60), <1>0, ThreadMoves DEF RunnerAborted, Shape
  <1>3. /\ deferred' = Record(deferred, {joined}) /\ rearmed' = rearmed \cup joined.text
        /\ loop' = loop /\ given' = given
    BY DEF RunnerAborted
  <1>4. Recorded(deferred, {joined}, deferred')
    BY <1>3, RecordFacts DEF Shape, DataOK, Unique
  <1>5. Texts(deferred') \subseteq Texts(deferred) \cup joined.text
    BY <1>4, RecordedTexts DEF Texts
  <1>6. \A e \in deferred' : Lone(e)'
    <2>1. Lone(joined)'
      BY <1>3 DEF Lone
    <2> QED
      BY <1>3, <1>4, <2>1, RecordedLone DEF Once
  <1>7. \A s \in Runner : \A e \in runner'[s].batch : Lone(e)'
    BY <1>2, <1>3 DEF Once, Lone
  <1>8. ASSUME NEW q \in Proc \ (rearmed' \cup swept'), OncePlace(q) PROVE OncePlace(q)'
    <2>1. q \in seen \cup consumed => q \in seen' \cup consumed'
      BY <1>1, MarksStay
    <2>2. \A s \in Runner : Held(s, q)' => Held(s, q)
      BY <1>0, <1>2 DEF Held
    <2> QED
      BY <1>3, <1>5, <1>8, <2>1, <2>2, StaysOnce
  <1> QED
    BY <1>1, <1>6, <1>7, <1>8, OnceFollows DEF OnceStep

LEMMA RunnerRedeferOnce ==
  ASSUME Shape, Once, NEW r \in Runner, RunnerRedefer(r)
  PROVE  Once'
  <1> USE DEF registry, marks, bounds, ghosts
  <1>0. PICK back \in SUBSET Entry :
          /\ back = {[e EXCEPT !.tag = @ \/ runner[r].tag] : e \in runner[r].batch}
          /\ Unique(back) /\ Texts(back) = Texts(runner[r].batch)
          /\ \A g \in back : \E e \in runner[r].batch : g.proc = e.proc /\ g.text = e.text
    BY BackFacts DEF Shape
  <1>1. [Next]_vars
    BY DEF Next
  <1>2. /\ runner' = [runner EXCEPT ![r] = Quiet] /\ runner[r].at = "failed"
        /\ deferred' = Record(deferred, back) /\ loop' = loop /\ given' = given
        /\ rearmed' = rearmed
    BY <1>0 DEF RunnerRedefer
  <1>3. \A s \in Runner : runner'[s] = IF s = r THEN Quiet ELSE runner[s]
    BY <1>2, QuietThread, ThreadChanges DEF Shape
  <1>4. Recorded(deferred, back, deferred')
    BY <1>0, <1>2, RecordFacts DEF Shape, DataOK
  <1>5. Texts(deferred') \subseteq Texts(deferred) \cup Texts(runner[r].batch)
    BY <1>0, <1>4, RecordedTexts
  <1>6. \A e \in deferred' : Lone(e)'
    <2>1. \A g \in back : Lone(g)'
      BY <1>0, <1>2 DEF Once, Lone
    <2> QED
      BY <1>2, <1>4, <2>1, RecordedLone DEF Once
  <1>7. \A s \in Runner : \A e \in runner'[s].batch : Lone(e)'
    BY <1>2, <1>3, QuietThread DEF Once, Lone
  <1>8. ASSUME NEW q \in Proc \ (rearmed' \cup swept'), OncePlace(q) PROVE OncePlace(q)'
    <2>1. q \in seen \cup consumed => q \in seen' \cup consumed'
      BY <1>1, MarksStay
    <2>2. \A s \in Runner : Held(s, q)' => s # r /\ Held(s, q)
      BY <1>3, QuietThread DEF Held
    <2>3. CASE q \notin Texts(runner[r].batch)
      BY <1>2, <1>5, <1>8, <2>1, <2>2, <2>3, StaysOnce
    <2>4. CASE q \in Texts(runner[r].batch)
      <3>1. Held(r, q)
        BY <1>2, <2>4 DEF Held
      <3>2. \A s \in Runner : ~Held(s, q)'
        BY <1>8, <2>2, <3>1 DEF OncePlace
      <3>3. loop'.proc # q /\ given'[q] # 1 /\ given'[q] <= 1 /\ q \in seen \cup consumed
        BY <1>2, <1>8, <3>1 DEF OncePlace, Taken
      <3> QED
        BY <2>1, <3>2, <3>3 DEF OncePlace
    <2> QED
      BY <2>3, <2>4
  <1> QED
    BY <1>1, <1>6, <1>7, <1>8, OnceFollows DEF OnceStep

LEMMA NextOnce ==
  ASSUME Shape, Once, [Next]_vars
  PROVE  Once'
  <1> USE DEF registry, marks, bounds, ghosts
  <1>1. CASE HumanStart \/ NextTurnBegin \/ Sweep \/ LoopBusy \/ UNCHANGED vars
    <2>1. deferred' = deferred /\ given' = given /\ loop'.proc = loop.proc /\ runner' = runner
      BY <1>1 DEF HumanStart, NextTurnBegin, Sweep, LoopBusy, vars, Shape, DataOK
    <2> QED
      BY <2>1, EasyOnce
  <1>2. ASSUME NEW p \in Proc, Finish(p) \/ AgentRead(p) PROVE Once'
    <2>1. deferred' = deferred /\ given' = given /\ loop' = loop /\ runner' = runner
      BY <1>2 DEF Finish, AgentRead
    <2> QED
      BY <2>1, EasyOnce
  <1>3. ASSUME NEW d \in Drainer, TurnEnd(d) \/ DrainLook(d) \/ TimerFires(d) PROVE Once'
    <2>1. deferred' = deferred /\ given' = given /\ loop' = loop /\ runner' = runner
      BY <1>3 DEF TurnEnd, DrainLook, TimerFires
    <2> QED
      BY <2>1, EasyOnce
  <1>4. ASSUME NEW r \in Runner, RunnerRefused(r) \/ RunnerFails(r) \/ RunnerAdmitted(r) PROVE Once'
    <2>1. \A s \in Runner : /\ runner'[s].batch = runner[s].batch
                            /\ runner'[s].at = runner[s].at \/ runner[s].at = "calling"
      BY <1>4, ThreadMoves DEF RunnerRefused, RunnerFails, RunnerAdmitted, Shape
    <2>2. deferred' = deferred /\ given' = given /\ loop' = loop
      BY <1>4 DEF RunnerRefused, RunnerFails, RunnerAdmitted
    <2> QED
      BY <2>1, <2>2, EasyOnce
  <1>5. ASSUME NEW r \in Runner, RunnerPaused(r) \/ RunnerDone(r) PROVE Once'
    <2>1. /\ runner' = [runner EXCEPT ![r] = Quiet]
          /\ deferred' = deferred /\ given' = given /\ loop' = loop
      BY <1>5 DEF RunnerPaused, RunnerDone
    <2>2. \A s \in Runner : runner'[s] = IF s = r THEN Quiet ELSE runner[s]
      BY <2>1, QuietThread, ThreadChanges DEF Shape
    <2> QED
      BY <2>1, <2>2, QuietThread, EasyOnce
  <1>6. ASSUME NEW r \in Runner, RunnerFilter(r) PROVE Once'
    <2> DEFINE S == Unconsumed(runner[r].batch)
    <2>1. runner[r] \in Threads /\ S \subseteq runner[r].batch
      BY DEF Shape, RunnersOK, Unconsumed
    <2>2. /\ \A s \in Runner : s # r => runner'[s] = runner[s]
          /\ runner'[r].batch \subseteq runner[r].batch /\ runner[r].at = "spawned"
      <3>1. CASE S = {}
        <4>1. runner' = [runner EXCEPT ![r] = Quiet] /\ runner[r].at = "spawned"
          BY <1>6, <3>1 DEF RunnerFilter
        <4> QED
          BY <4>1, QuietThread, ThreadChanges DEF Shape
      <3>2. CASE S # {}
        <4>1. /\ runner' = [runner EXCEPT ![r].batch = S, ![r].at = "calling"]
              /\ runner[r].at = "spawned"
          BY <1>6, <3>2 DEF RunnerFilter
        <4> HIDE DEF S
        <4> QED
          BY <2>1, <4>1 DEF Shape, RunnersOK, Threads
      <3> QED
        BY <3>1, <3>2
    <2>3. deferred' = deferred /\ given' = given /\ loop' = loop
      BY <1>6 DEF RunnerFilter
    <2> QED
      BY <2>2, <2>3, EasyOnce
  <1> QED
    BY <1>1, <1>2, <1>3, <1>4, <1>5, <1>6, NextTurnTakeOnce, LoopTakeOnce, LoopDeferOnce,
       LoopIdleOnce, DrainClaimOnce, RunnerLaunchedOnce, RunnerAbortedOnce, RunnerRedeferOnce
       DEF Next

-----------------------------------------------------------------------------
(* What was read while it waited stays quiet.                              *)

LEMMA InitHush == Init => Hush
  BY DEF Init, Hush

LEMMA PlainlyRecorded ==
  ASSUME NEW p, NEW list, NEW new, NEW res, Recorded(list, new, res),
         \A e \in list : Plainly(p, e),
         \A e \in new : p \notin {e.proc} \cup e.text
  PROVE  \A g \in res : Plainly(p, g)
  <1> SUFFICES ASSUME NEW g \in res, p \in {g.proc} \cup g.text PROVE g.proc = p /\ ~g.tag
    BY DEF Plainly
  <1>1. PICK e \in list \cup new : e.proc = g.proc /\ e.text = g.text
    BY DEF Recorded
  <1>2. e.proc = p
    BY <1>1 DEF Plainly
  <1>3. g.tag => \E f \in list \cup new : f.proc = g.proc /\ f.tag
    BY DEF Recorded
  <1> QED
    BY <1>1, <1>2, <1>3 DEF Plainly

\* The actions that touch what Hushed speaks of, each for one hushed process.
LEMMA HushedStays ==
  ASSUME Shape, [Next]_vars, NEW p, Hushed(p)
  PROVE  Hushed(p)'
  <1> USE DEF registry, marks, bounds, ghosts
  <1>0. p \in Proc /\ p # None /\ consumed \subseteq consumed'
    <2>1. consumed \subseteq consumed'
      BY ZenonT(60) DEF Next, vars, Finish, AgentRead, HumanStart, NextTurnTake, NextTurnBegin, Sweep, LoopTake,
         LoopBusy, LoopDefer, TurnEnd, DrainLook, TimerFires, DrainClaim, LoopIdle, RunnerFilter,
         RunnerRefused, RunnerFails, RunnerPaused, RunnerAdmitted, RunnerLaunched, RunnerAborted,
         RunnerRedefer, RunnerDone
    <2> QED
      BY SMTT(60), <2>1, WakeupAssumption DEF Hushed
  <1> DEFINE Free(r) == p \notin Procs(runner[r].batch) \cup Texts(runner[r].batch) \cup {runner[r].key}
  <1>1. /\ \A r \in Runner : Free(r)
        /\ \A e \in deferred : Plainly(p, e)
    BY DEF Hushed, Plainly
  <1>2. ASSUME deferred' \subseteq deferred, loop'.proc # p,
               \A r \in Runner : /\ runner'[r].batch \subseteq runner[r].batch
                                 /\ runner'[r].key \in {runner[r].key, None}
        PROVE  Hushed(p)'
    <2>1. \A r \in Runner : Free(r)'
      BY <1>0, <1>1, <1>2 DEF Procs, Texts
    <2> QED
      BY <1>0, <1>1, <1>2, <2>1 DEF Hushed
  <1>3. CASE HumanStart \/ NextTurnTake \/ NextTurnBegin \/ Sweep \/ LoopBusy \/ UNCHANGED vars
    <2>1. deferred' = deferred /\ loop'.proc = loop.proc /\ runner' = runner
      BY <1>3 DEF HumanStart, NextTurnTake, NextTurnBegin, Sweep, LoopBusy, vars, Shape, DataOK
    <2> QED
      BY <1>2, <2>1 DEF Hushed
  <1>4. ASSUME NEW q \in Proc, Finish(q) \/ AgentRead(q) PROVE Hushed(p)'
    BY <1>2, <1>4 DEF Finish, AgentRead, Hushed
  <1>5. ASSUME NEW d \in Drainer, TurnEnd(d) \/ DrainLook(d) \/ TimerFires(d) PROVE Hushed(p)'
    BY <1>2, <1>5 DEF TurnEnd, DrainLook, TimerFires, Hushed
  <1>6. CASE LoopTake
    <2>1. Unowned(Head(queue)) => Head(queue) # p
      BY DEF Unowned, Hushed
    <2>2. loop'.proc # p
      <3>1. CASE Unowned(Head(queue))
        BY <1>6, <2>1, <3>1 DEF LoopTake
      <3>2. CASE ~Unowned(Head(queue))
        BY <1>6, <3>2 DEF LoopTake, Hushed
      <3> QED
        BY <3>1, <3>2
    <2> QED
      BY <1>2, <1>6, <2>2 DEF LoopTake
  <1>7. CASE LoopDefer
    <2>0. loop.proc \in Proc /\ loop.proc # p
      BY <1>7 DEF LoopDefer, Shape, DataOK, Hushed
    <2> PICK q \in Proc : q = loop.proc
      BY <2>0
    <2>1. /\ {Plain(q)} \in SUBSET Entry /\ Unique({Plain(q)})
          /\ Plain(q).proc = q /\ Plain(q).text = {q}
      BY PlainEntry DEF Unique
    <2>2. Recorded(deferred, {Plain(q)}, deferred')
      BY <1>7, <2>1, RecordFacts DEF LoopDefer, Shape, DataOK
    <2>3. runner' = runner /\ loop'.proc = None
      BY <1>7 DEF LoopDefer, Empty
    <2>4. \A e \in {Plain(q)} : p \notin {e.proc} \cup e.text
      BY <2>0, <2>1
    <2>5. \A g \in deferred' : Plainly(p, g)
      BY <1>1, <2>2, <2>4, PlainlyRecorded
    <2> QED
      BY <1>0, <1>1, <2>3, <2>5 DEF Hushed
  <1>8. ASSUME NEW r \in Runner, LoopIdle(r) PROVE Hushed(p)'
    <2>0. loop.proc \in Proc /\ loop.proc # p
      BY <1>8 DEF LoopIdle, Shape, DataOK, Hushed
    <2> PICK q \in Proc : q = loop.proc
      BY <2>0
    <2> DEFINE e == [Plain(q) EXCEPT !.tag = TRUE]
    <2>1. e \in Entry /\ e.proc = q /\ e.text = {q}
      BY ZenonT(60), PlainEntry, Tagging
    <2>2. Spawn(r, {e}, q, TRUE, FALSE)
      BY <1>8 DEF LoopIdle
    <2> HIDE DEF e
    <2>3. {e} \in SUBSET Entry /\ Unique({e})
      BY <2>1 DEF Unique
    <2>4. /\ \A s \in Runner : s # r => runner'[s] = runner[s]
          /\ runner'[r].batch = {e} /\ runner'[r].key = q
      BY <2>2, <2>3, Spawned DEF Shape
    <2>5. deferred' = deferred /\ loop'.proc = None
      BY <1>8 DEF LoopIdle, Empty
    <2>6. \A s \in Runner : Free(s)'
      BY <1>1, <2>0, <2>1, <2>4 DEF Procs, Texts
    <2> QED
      BY <1>0, <1>1, <2>5, <2>6 DEF Hushed
  <1>9. ASSUME NEW d \in Drainer, NEW r \in Runner, DrainClaim(d, r) PROVE Hushed(p)'
    <2> PICK S \in SUBSET Entry : S = Unconsumed(deferred)
      BY UnconsumedFacts DEF Shape, DataOK
    <2>1. S \subseteq deferred /\ Unique(S)
      BY UnconsumedFacts DEF Shape, DataOK
    <2>2. \A e \in S : p \notin {e.proc} \cup e.text
      BY <1>1 DEF Unconsumed, Hushed, Plainly
    <2>3. deferred' = {} /\ loop' = loop
      BY <1>9 DEF DrainClaim
    <2>4. CASE S = {}
      BY <1>2, <1>9, <2>3, <2>4 DEF DrainClaim, Hushed
    <2>5. CASE S # {}
      <3>1. PICK e \in S : Spawn(r, S, e.proc, e.tag, drainer[d].again)
        BY <1>9, <2>5 DEF DrainClaim
      <3>2. e.proc \in Proc /\ e.tag \in BOOLEAN /\ drainer[d].again \in BOOLEAN
        BY DEF Entry, Shape, DataOK
      <3>3. /\ \A s \in Runner : s # r => runner'[s] = runner[s]
            /\ runner'[r].batch = S /\ runner'[r].key = e.proc
        BY <2>1, <3>1, <3>2, Spawned DEF Shape
      <3>4. \A s \in Runner : Free(s)'
        BY <1>1, <2>2, <3>3 DEF Procs, Texts
      <3> QED
        BY <1>0, <2>3, <3>4 DEF Hushed
    <2> QED
      BY <2>4, <2>5
  <1>10. ASSUME NEW r \in Runner, RunnerFilter(r) PROVE Hushed(p)'
    <2> DEFINE S == Unconsumed(runner[r].batch)
    <2>1. runner[r] \in Threads /\ S \subseteq runner[r].batch
      BY DEF Shape, RunnersOK, Unconsumed
    <2>2. \A s \in Runner : /\ runner'[s].batch \subseteq runner[s].batch
                            /\ runner'[s].key \in {runner[s].key, None}
      <3>1. CASE S = {}
        <4>1. runner' = [runner EXCEPT ![r] = Quiet]
          BY <1>10, <3>1 DEF RunnerFilter
        <4> QED
          BY <4>1, QuietThread, ThreadChanges DEF Shape
      <3>2. CASE S # {}
        <4>1. runner' = [runner EXCEPT ![r].batch = S, ![r].at = "calling"]
          BY <1>10, <3>2 DEF RunnerFilter
        <4> HIDE DEF S
        <4> QED
          BY <2>1, <4>1 DEF Shape, RunnersOK, Threads
      <3> QED
        BY <3>1, <3>2
    <2> QED
      BY <1>2, <1>10, <2>2 DEF RunnerFilter, Hushed
  <1>11. ASSUME NEW r \in Runner, RunnerPaused(r) \/ RunnerDone(r) PROVE Hushed(p)'
    <2>1. runner' = [runner EXCEPT ![r] = Quiet] /\ deferred' = deferred /\ loop' = loop
      BY <1>11 DEF RunnerPaused, RunnerDone
    <2>2. \A s \in Runner : runner'[s] = IF s = r THEN Quiet ELSE runner[s]
      BY <2>1, QuietThread, ThreadChanges DEF Shape
    <2> QED
      BY <1>2, <2>1, <2>2, QuietThread DEF Hushed
  <1>12. ASSUME NEW r \in Runner,
                RunnerRefused(r) \/ RunnerFails(r) \/ RunnerAdmitted(r) \/ RunnerLaunched(r)
         PROVE  Hushed(p)'
    <2>1. \A s \in Runner : runner'[s].batch = runner[s].batch /\ runner'[s].key = runner[s].key
      BY <1>12, ThreadMoves DEF RunnerRefused, RunnerFails, RunnerAdmitted, RunnerLaunched, Shape
    <2>2. deferred' = deferred /\ loop' = loop
      BY <1>12 DEF RunnerRefused, RunnerFails, RunnerAdmitted, RunnerLaunched
    <2> QED
      BY <1>2, <2>1, <2>2 DEF Hushed
  <1>13. ASSUME NEW r \in Runner, RunnerAborted(r) PROVE Hushed(p)'
    <2>0. /\ runner[r].batch \in SUBSET Entry /\ runner[r].at = "launching"
          /\ runner[r].key \in Proc /\ runner[r].tag \in BOOLEAN
      BY <1>13 DEF RunnerAborted, Shape, RunnersOK, Threads
    <2> PICK joined \in Entry :
          joined = [proc |-> runner[r].key, text |-> Texts(runner[r].batch),
                    tag |-> runner[r].tag, no |-> 1]
      <3>1. Texts(runner[r].batch) \subseteq Proc
        BY <2>0 DEF Entry, Texts
      <3> QED
        BY <2>0, <3>1 DEF Entry
    <2>1. \A s \in Runner : runner'[s].batch = runner[s].batch /\ runner'[s].key = runner[s].key
      BY <1>13, <2>0, ThreadMoves DEF RunnerAborted, Shape
    <2>2. deferred' = Record(deferred, {joined}) /\ loop' = loop
      BY <1>13 DEF RunnerAborted
    <2>3. Recorded(deferred, {joined}, deferred')
      BY <2>2, RecordFacts DEF Shape, DataOK, Unique
    <2>4. \A e \in {joined} : p \notin {e.proc} \cup e.text
      BY <1>1
    <2>5. \A g \in deferred' : Plainly(p, g)
      BY <1>1, <2>3, <2>4, PlainlyRecorded
    <2>6. \A s \in Runner : Free(s)'
      BY <1>1, <2>1
    <2> QED
      BY <1>0, <2>2, <2>5, <2>6 DEF Hushed
  <1>14. ASSUME NEW r \in Runner, RunnerRedefer(r) PROVE Hushed(p)'
    <2>0. PICK back \in SUBSET Entry :
            /\ back = {[e EXCEPT !.tag = @ \/ runner[r].tag] : e \in runner[r].batch}
            /\ Unique(back)
            /\ Procs(back) = Procs(runner[r].batch) /\ Texts(back) = Texts(runner[r].batch)
      BY BackFacts DEF Shape
    <2>1. /\ runner' = [runner EXCEPT ![r] = Quiet] /\ loop' = loop
          /\ deferred' = Record(deferred, back)
      BY <1>14, <2>0 DEF RunnerRedefer
    <2>2. \A s \in Runner : runner'[s] = IF s = r THEN Quiet ELSE runner[s]
      BY <2>1, QuietThread, ThreadChanges DEF Shape
    <2>3. Recorded(deferred, back, deferred')
      BY <2>0, <2>1, RecordFacts DEF Shape, DataOK
    <2>4. \A e \in back : p \notin {e.proc} \cup e.text
      <3>1. p \notin Procs(back) \cup Texts(back)
        BY <1>1, <2>0
      <3> QED
        BY <3>1 DEF Procs, Texts
    <2>5. \A g \in deferred' : Plainly(p, g)
      BY <1>1, <2>3, <2>4, PlainlyRecorded
    <2>6. \A s \in Runner : Free(s)'
      BY <1>0, <1>1, <2>2, QuietThread DEF Procs, Texts
    <2> QED
      BY <1>0, <2>1, <2>5, <2>6 DEF Hushed
  <1> QED
    BY <1>3, <1>4, <1>5, <1>6, <1>7, <1>8, <1>9, <1>10, <1>11, <1>12, <1>13, <1>14 DEF Next

LEMMA NextHush ==
  ASSUME Shape, Hush, [Next]_vars
  PROVE  Hush'
  <1> USE DEF registry, marks, bounds, ghosts
  <1>1. \A p \in settled : Hushed(p)'
    BY HushedStays DEF Hush
  <1>2. ASSUME NEW p \in Proc, AgentRead(p) PROVE Hush'
    <2>1. OnlyWaits(p) => Hushed(p)'
      BY <1>2 DEF AgentRead, OnlyWaits, Hushed, Plainly
    <2>2. settled' = IF OnlyWaits(p) THEN settled \cup {p} ELSE settled
      BY <1>2 DEF AgentRead
    <2> QED
      BY <1>1, <2>1, <2>2 DEF Hush
  <1>3. ASSUME \A p \in Proc : ~AgentRead(p) PROVE Hush'
    <2>1. settled' = settled
      BY ZenonT(60), <1>3 DEF Next, vars, Finish, HumanStart, NextTurnTake, NextTurnBegin, Sweep, LoopTake,
         LoopBusy, LoopDefer, TurnEnd, DrainLook, TimerFires, DrainClaim, LoopIdle, RunnerFilter,
         RunnerRefused, RunnerFails, RunnerPaused, RunnerAdmitted, RunnerLaunched, RunnerAborted,
         RunnerRedefer, RunnerDone
    <2> QED
      BY SMTT(60), <1>1, <2>1 DEF Hush
  <1> QED
    BY <1>2, <1>3

\* A hushed process is in no prompt that is sent.
LEMMA HushedIsQuiet ==
  ASSUME Shape, [Next]_vars, NEW p, Hushed(p)
  PROVE  given'[p] = given[p]
  <1> USE DEF registry, marks, bounds, ghosts
  <1>1. CASE NextTurnTake
    <2>1. Head(queue) \in Proc
      BY <1>1, QueueFacts DEF NextTurnTake, Shape, DataOK
    <2>2. CASE Unowned(Head(queue))
      <3>1. /\ {Plain(Head(queue))} \in SUBSET Entry /\ Unique({Plain(Head(queue))})
            /\ Texts({Plain(Head(queue))}) = {Head(queue)}
        BY <2>1, PlainEntry DEF Unique, Texts
      <3>2. p \in Proc /\ p \notin Texts({Plain(Head(queue))})
        BY <2>2, <3>1 DEF Unowned, Hushed
      <3>3. given' = Given({Plain(Head(queue))})
        BY <1>1, <2>2 DEF NextTurnTake
      <3> QED
        BY <3>1, <3>2, <3>3, GivenFacts DEF Shape, DataOK
    <2>3. CASE ~Unowned(Head(queue))
      BY <1>1, <2>3 DEF NextTurnTake
    <2> QED
      BY <2>2, <2>3
  <1>2. ASSUME NEW r \in Runner, RunnerLaunched(r) PROVE given'[p] = given[p]
    <2>1. runner[r].batch \in SUBSET Entry /\ Unique(runner[r].batch)
      BY DEF Shape, RunnersOK, Threads
    <2>2. p \in Proc /\ p \notin Texts(runner[r].batch)
      BY SMTT(60) DEF Hushed
    <2> QED
      BY <1>2, <2>1, <2>2, GivenFacts DEF RunnerLaunched, Shape, DataOK
  <1>3. \/ NextTurnTake \/ (\E r \in Runner : RunnerLaunched(r)) \/ given' = given
    BY ZenonT(60) DEF Next, vars, Finish, AgentRead, HumanStart, NextTurnBegin, Sweep, LoopTake, LoopBusy,
       LoopDefer, TurnEnd, DrainLook, TimerFires, DrainClaim, LoopIdle, RunnerFilter,
       RunnerRefused, RunnerFails, RunnerPaused, RunnerAdmitted, RunnerAborted, RunnerRedefer,
       RunnerDone
  <1> QED
    BY <1>1, <1>2, <1>3

-----------------------------------------------------------------------------
(* The theorems.                                                           *)

IInv == Shape /\ Kept /\ Once /\ Hush

\* The invariant: shape, no result without a home, one place, and silence.
THEOREM WakeupInvariantHolds == Spec => []IInv
  <1>1. Init => IInv
    BY InitShape, InitKept, InitOnce, InitHush DEF IInv
  <1>2. IInv /\ [Next]_vars => IInv'
    BY NextShape, NextKept, NextOnce, NextHush DEF IInv
  <1> QED
    BY <1>1, <1>2, PTL DEF Spec

\* The list has one entry for each process, and a worker is launched by one thread.
THEOREM WakeupTypeCorrect == Spec => []WakeupTypeOK
  <1>1. IInv => WakeupTypeOK
    BY ShapeIsTyped DEF IInv
  <1> QED
    BY <1>1, WakeupInvariantHolds, PTL

\* Refusals, failed launches and retries lose no result, one case excepted.
THEOREM ResultsAreKept == Spec => []LostOnlyIfMisfiled
  <1>1. IInv => LostOnlyIfMisfiled
    BY KeptMeansNotLost DEF IInv
  <1> QED
    BY <1>1, WakeupInvariantHolds, PTL

\* A result that was neither re-armed nor swept enters the conversation once.
THEOREM ResultsAreToldOnce == Spec => []WokenOnce
  <1>1. IInv => WokenOnce
    BY DEF IInv, Once, OncePlace, WokenOnce
  <1> QED
    BY <1>1, WakeupInvariantHolds, PTL

\* What the agent read while it waited does not wake it any more.
THEOREM ReadResultsStayQuiet == Spec => ReadStaysQuiet
  <1>1. IInv /\ [Next]_vars => [\A p \in settled : given'[p] = given[p]]_vars
    BY HushedIsQuiet DEF IInv, Hush
  <1> QED
    BY <1>1, WakeupInvariantHolds, PTL DEF Spec, ReadStaysQuiet
=============================================================================
