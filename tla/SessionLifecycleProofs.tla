----------------------- MODULE SessionLifecycleProofs -----------------------
(***************************************************************************)
(* Proofs about api/session_lifecycle.py (module SessionLifecycle), for    *)
(* any sets of sessions, agents and threads.                               *)
(***************************************************************************)
EXTENDS SessionLifecycle, SequenceTheorems, TLAPS

-----------------------------------------------------------------------------
(* Lemmas about the segment list.                                          *)

(* When work is tiled and there is some, the first segment is the first    *)
(* uncommitted one, and the list is empty only when nothing is owed.       *)
LEMMA FirstIsUncommitted ==
  ASSUME NEW segs \in Seq(Segment), NEW c \in Nat, NEW g \in Nat,
         Tiles(segs, c, g), segs # << >>
  PROVE  /\ Len(segs) \in Nat \ {0}
         /\ segs[1] \in Segment
         /\ FirstUncommitted(segs, c) = {1}
         /\ c < segs[1].end /\ segs[1].end <= g
  <1>1. Len(segs) \in Nat \ {0} /\ segs[1] \in Segment
    BY EmptySeq, ElementOfSeq
  <1>2. segs[1].end > c /\ segs[1].end <= g
    BY SMTT(60), <1>1 DEF Tiles, Segment
  <1>3. FirstUncommitted(segs, c) = {1}
    <2>1. 1 \in 1..Len(segs) /\ ~(segs[1].end <= c)
      BY <1>1, <1>2 DEF Segment
    <2>2. 1 \in FirstUncommitted(segs, c)
      BY <1>2, <2>1 DEF FirstUncommitted
    <2>3. ASSUME NEW i \in FirstUncommitted(segs, c) PROVE i = 1
      <3>1. i \in 1..Len(segs) /\ \A j \in 1..(i - 1) : segs[j].end <= c
        BY DEF FirstUncommitted
      <3>2. i # 1 => 1 \in 1..(i - 1)
        BY <1>1, <3>1
      <3> QED
        BY <2>1, <3>1, <3>2
    <2> QED
      BY <2>2, <2>3
  <1> QED
    BY <1>1, <1>2, <1>3

(* Committing the first segment leaves exactly the others.                 *)
LEMMA RemainingIsTail ==
  ASSUME NEW segs \in Seq(Segment), NEW c \in Nat, NEW g \in Nat,
         Tiles(segs, c, g), segs # << >>
  PROVE  /\ Remaining(segs, segs[1].end) = SubSeq(segs, 2, Len(segs))
         /\ SubSeq(segs, 2, Len(segs)) \in Seq(Segment)
         /\ Tiles(SubSeq(segs, 2, Len(segs)), segs[1].end, g)
  <1> DEFINE n == Len(segs)
             e == segs[1].end
             rest == SubSeq(segs, 2, n)
  <1>1. n \in Nat \ {0} /\ e \in Nat /\ c < e /\ e <= g
    BY FirstIsUncommitted DEF Segment
  <1>2. \A i \in 1..n : segs[i] \in Segment
    BY ElementOfSeq
  <1>3. /\ rest \in Seq(Segment)
        /\ Len(rest) = n - 1
        /\ \A i \in 1..(n - 1) : rest[i] = segs[i + 1]
    <2>1. \A i \in 2..n : segs[i] \in Segment
      BY <1>1, <1>2
    <2>2. Len(rest) = IF 2 <= n THEN n - 2 + 1 ELSE 0
      BY <1>1, <2>1, SubSeqProperties
    <2>3. rest \in Seq(Segment) /\ \A i \in 1..(n - 2 + 1) : rest[i] = segs[2 + i - 1]
      BY <1>1, <2>1, SubSeqProperties
    <2>4. n - 2 + 1 = n - 1 /\ (~(2 <= n) => n - 1 = 0)
      <3>1. \A m \in Nat \ {0} : m - 2 + 1 = m - 1 /\ (~(2 <= m) => m - 1 = 0)
        OBVIOUS
      <3> HIDE DEF n
      <3> QED
        BY <1>1, <3>1
    <2>5. \A i \in 1..(n - 1) : 2 + i - 1 = i + 1
      BY <1>1
    <2>6. Len(rest) = n - 1
      BY <1>1, <2>2, <2>4
    <2>7. \A i \in 1..(n - 1) : rest[i] = segs[i + 1]
      <3> HIDE DEF rest
      <3> QED
        BY <2>3, <2>4, <2>5
    <2> QED
      BY <2>3, <2>6, <2>7
  <1>4. CommittedPrefix(segs, e) = 1
    <2> DEFINE P(k) == /\ \A j \in 1..k : segs[j].end <= e
                       /\ k < n => segs[k + 1].end > e
    <2>1. \A i \in 1..n : segs[i].start \in Nat /\ segs[i].end \in Nat
      BY <1>2 DEF Segment
    <2>2. n >= 2 => segs[2].end > e
      BY SMTT(60), <1>1, <2>1 DEF Tiles
    <2>3. 1 \in 0..n /\ P(1)
      BY <1>1, <2>2
    <2>4. \A k \in 0..n : P(k) => k = 1
      BY <1>1, <2>1, <2>2
    <2>5. (CHOOSE k \in 0..n : P(k)) = 1
      <3> HIDE DEF P
      <3> QED
        BY <2>3, <2>4
    <2> QED
      BY <2>5 DEF CommittedPrefix
  <1>5. rest # << >> => ~(rest[1].start <= e)
    <2>1. ASSUME rest # << >> PROVE n >= 2
      BY <1>1, <1>3, <2>1, EmptySeq
    <2>2. ASSUME n >= 2 PROVE e < rest[1].start
      BY <1>1, <1>3, <2>2 DEF Tiles
    <2>3. ASSUME n >= 2 PROVE rest[1].start \in Nat
      BY <1>1, <1>2, <1>3, <2>3 DEF Segment
    <2> QED
      BY <1>1, <2>1, <2>2, <2>3
  <1>6. Remaining(segs, e) = rest
    BY <1>4, <1>5 DEF Remaining
  <1>7. Tiles(rest, e, g)
    <2>1. \A i \in 1..Len(rest) : rest[i].start <= rest[i].end /\ rest[i].end <= g
      BY <1>1, <1>3 DEF Tiles
    <2>2. \A i, j \in 1..Len(rest) : i < j => rest[i].end < rest[j].start
      BY <1>1, <1>3 DEF Tiles
    <2>3. \A i \in 1..(Len(rest) - 1) : rest[i + 1].start = rest[i].end + 1
      BY <1>1, <1>3 DEF Tiles
    <2>4. ASSUME rest # << >> PROVE rest[1].start = e + 1 /\ rest[Len(rest)].end = g
      <3>1. n >= 2
        BY <1>1, <1>3, <2>4, EmptySeq
      <3> QED
        BY <1>1, <1>3, <3>1 DEF Tiles
    <2>5. ASSUME rest = << >> PROVE e = g
      <3>1. Len(rest) = 0
        BY <2>5, EmptySeq
      <3>2. n = 1
        BY <1>1, <1>3, <3>1
      <3> QED
        BY <3>2 DEF Tiles
    <2> QED
      BY <1>1, <2>1, <2>2, <2>3, <2>4, <2>5 DEF Tiles
  <1> QED
    BY <1>3, <1>6, <1>7

(* A completed turn that opens a segment keeps the tiling.                 *)
LEMMA AppendTiles ==
  ASSUME NEW segs \in Seq(Segment), NEW c \in Nat, NEW g \in Nat, NEW a \in Owner,
         Tiles(segs, c, g)
  PROVE  LET new == [start |-> g + 1, end |-> g + 1, agent |-> a]
         IN  /\ Append(segs, new) \in Seq(Segment)
             /\ Tiles(Append(segs, new), c, g + 1)
  <1> DEFINE new == [start |-> g + 1, end |-> g + 1, agent |-> a]
             more == Append(segs, new)
  <1>1. new \in Segment
    BY DEF Segment
  <1>2. Len(segs) \in Nat /\ \A i \in 1..Len(segs) : segs[i] \in Segment
    BY LenProperties, ElementOfSeq
  <1>3. /\ more \in Seq(Segment)
        /\ Len(more) = Len(segs) + 1
        /\ \A i \in 1..Len(segs) : more[i] = segs[i]
        /\ more[Len(segs) + 1] = new
        /\ more # << >>
    BY <1>1, <1>2, AppendProperties
  <1>4. segs = << >> <=> Len(segs) = 0
    BY <1>2, EmptySeq
  <1>5. \A i \in 1..Len(segs) : segs[i].start \in Nat /\ segs[i].end \in Nat
    BY <1>2 DEF Segment
  <1>6. \A i \in 1..Len(more) : more[i].start <= more[i].end /\ more[i].end <= g + 1
    BY <1>2, <1>3, <1>5 DEF Tiles
  <1>7. ASSUME NEW i \in 1..Len(more), NEW j \in 1..Len(more), i < j
        PROVE  more[i].end < more[j].start
    <2>1. i \in 1..Len(segs) /\ more[i].end = segs[i].end
      BY <1>2, <1>3, <1>7
    <2>2. CASE j \in 1..Len(segs)
      <3>1. more[j].start = segs[j].start
        BY <1>3, <2>2
      <3> QED
        BY <1>7, <2>1, <2>2, <3>1 DEF Tiles
    <2>3. CASE j = Len(segs) + 1
      <3>1. more[j].start = g + 1
        BY <1>3, <2>3
      <3>2. segs[i].end <= g
        BY <2>1 DEF Tiles
      <3>3. segs[i].end \in Nat
        BY <1>5, <2>1
      <3> HIDE DEF more
      <3> QED
        BY <2>1, <3>1, <3>2, <3>3
    <2> QED
      BY <1>2, <1>3, <2>2, <2>3
  <1>8. \A i \in 1..(Len(more) - 1) : more[i + 1].start = more[i].end + 1
    BY <1>2, <1>3, <1>4, <1>5 DEF Tiles
  <1>9. more[1].start = c + 1 /\ more[Len(more)].end = g + 1
    BY <1>2, <1>3, <1>4 DEF Tiles
  <1>10. Tiles(more, c, g + 1)
    <2>1. c <= g + 1
      BY DEF Tiles
    <2> QED
      BY <1>3, <1>6, <1>7, <1>8, <1>9, <2>1 DEF Tiles
  <1> QED
    BY <1>3, <1>10

(* So does a completed turn that joins the last segment.                   *)
LEMMA ExtendTiles ==
  ASSUME NEW segs \in Seq(Segment), NEW c \in Nat, NEW g \in Nat,
         Tiles(segs, c, g), segs # << >>
  PROVE  LET more == [segs EXCEPT ![Len(segs)].end = g + 1]
         IN  more \in Seq(Segment) /\ Tiles(more, c, g + 1)
  <1> DEFINE n == Len(segs)
             last == [segs[n] EXCEPT !.end = g + 1]
             more == [segs EXCEPT ![n] = last]
  <1>1. n \in Nat \ {0} /\ \A i \in 1..n : segs[i] \in Segment
    BY EmptySeq, ElementOfSeq
  <1>2. last \in Segment /\ last.start = segs[n].start /\ last.end = g + 1
    BY SMTT(60), <1>1 DEF Segment
  <1>3. /\ more \in Seq(Segment)
        /\ Len(more) = n
        /\ \A i \in 1..n : more[i] = IF i = n THEN last ELSE segs[i]
    BY <1>1, <1>2, ExceptSeq
  <1>4. \A i \in 1..n : segs[i].start \in Nat /\ segs[i].end \in Nat
    BY <1>1 DEF Segment
  <1>5. \A i \in 1..n : more[i].start <= more[i].end /\ more[i].end <= g + 1
    BY <1>1, <1>2, <1>3, <1>4 DEF Tiles
  <1>6. \A i, j \in 1..n : i < j => more[i].end < more[j].start
    BY <1>1, <1>2, <1>3, <1>4 DEF Tiles
  <1>7. \A i \in 1..(n - 1) : more[i + 1].start = more[i].end + 1
    BY <1>1, <1>2, <1>3, <1>4 DEF Tiles
  <1>8. more[1].start = c + 1 /\ more[n].end = g + 1
    BY <1>1, <1>2, <1>3 DEF Tiles
  <1>9. more # << >>
    BY <1>1, <1>3, EmptySeq
  <1>10. Tiles(more, c, g + 1)
    BY <1>3, <1>5, <1>6, <1>7, <1>8, <1>9 DEF Tiles
  <1> QED
    BY <1>3, <1>10

(* Adopting a segment changes its owner, not its extent.                   *)
LEMMA AdoptTiles ==
  ASSUME NEW segs \in Seq(Segment), NEW c \in Nat, NEW g \in Nat,
         NEW i \in 1..Len(segs), NEW a \in Owner, Tiles(segs, c, g)
  PROVE  LET more == [segs EXCEPT ![i].agent = a]
         IN  /\ more \in Seq(Segment)
             /\ Len(more) = Len(segs)
             /\ \A j \in 1..Len(segs) :
                  /\ more[j].start = segs[j].start
                  /\ more[j].end = segs[j].end
                  /\ more[j].agent = IF j = i THEN a ELSE segs[j].agent
             /\ Tiles(more, c, g)
  <1> DEFINE new == [segs[i] EXCEPT !.agent = a]
             more == [segs EXCEPT ![i] = new]
  <1>1. Len(segs) \in Nat /\ \A j \in 1..Len(segs) : segs[j] \in Segment
    BY LenProperties, ElementOfSeq
  <1>2. /\ new \in Segment
        /\ new.start = segs[i].start /\ new.end = segs[i].end /\ new.agent = a
    BY <1>1 DEF Segment
  <1>3. /\ more \in Seq(Segment)
        /\ Len(more) = Len(segs)
        /\ \A j \in 1..Len(segs) : more[j] = IF j = i THEN new ELSE segs[j]
    BY <1>2, ExceptSeq
  <1>4. \A j \in 1..Len(segs) :
          /\ more[j].start = segs[j].start
          /\ more[j].end = segs[j].end
          /\ more[j].agent = IF j = i THEN a ELSE segs[j].agent
    BY <1>2, <1>3
  <1>5. more # << >> /\ segs # << >> /\ 1 \in 1..Len(segs) /\ Len(segs) \in 1..Len(segs)
    BY <1>1, <1>3, EmptySeq
  <1>6. Tiles(more, c, g)
    BY <1>1, <1>3, <1>4, <1>5 DEF Tiles
  <1> QED
    BY <1>3, <1>4, <1>6

-----------------------------------------------------------------------------
(* The inductive invariant.  Tiling is what makes the first segment the    *)
(* captured one; single flight is what makes the capture stay the first    *)
(* segment until its own commit ends.                                      *)
IInv == TypeOK /\ SegmentsTile /\ SingleFlight

LEMMA InitEstablishes == Init => IInv
  <1> SUFFICES ASSUME Init PROVE IInv
    OBVIOUS
  <1>1. TypeOK
    <2>1. << >> \in Seq(Segment)
      BY EmptySeq
    <2> QED
      BY <2>1 DEF Init, TypeOK, Owner, Call, NoCall
  <1>2. SegmentsTile
    <2>1. Tiles(<< >>, 0, 0)
      BY EmptySeq DEF Tiles
    <2> QED
      BY <2>1 DEF Init, SegmentsTile
  <1>3. SingleFlight
    BY DEF Init, SingleFlight, InProvider, NoCall
  <1> QED
    BY <1>1, <1>2, <1>3 DEF IInv

LEMMA RegisterAgentPreserves ==
  ASSUME IInv, NEW s \in Session, NEW a \in Agent, RegisterAgent(s, a)
  PROVE  IInv'
  <1>1. TypeOK'
    BY DEF IInv, TypeOK, RegisterAgent, SetDefault, Owner
  <1>2. SegmentsTile'
    BY DEF IInv, SegmentsTile, RegisterAgent
  <1>3. SingleFlight'
    BY DEF IInv, SingleFlight, InProvider, RegisterAgent, SetDefault
  <1> QED
    BY <1>1, <1>2, <1>3 DEF IInv

LEMMA UnregisterAgentPreserves ==
  ASSUME IInv, NEW s \in Session, UnregisterAgent(s)
  PROVE  IInv'
  <1>1. TypeOK'
    BY DEF IInv, TypeOK, UnregisterAgent, Owner
  <1>2. SegmentsTile'
    BY DEF IInv, SegmentsTile, UnregisterAgent
  <1>3. SingleFlight'
    BY DEF IInv, SingleFlight, InProvider, UnregisterAgent
  <1> QED
    BY <1>1, <1>2, <1>3 DEF IInv

LEMMA RecordOwnerProfileHomePreserves ==
  ASSUME IInv, NEW s \in Session, RecordOwnerProfileHome(s)
  PROVE  IInv'
  <1>1. TypeOK'
    BY DEF IInv, TypeOK, RecordOwnerProfileHome, SetDefault
  <1>2. SegmentsTile'
    BY DEF IInv, SegmentsTile, RecordOwnerProfileHome
  <1>3. SingleFlight'
    BY DEF IInv, SingleFlight, InProvider, RecordOwnerProfileHome, SetDefault
  <1> QED
    BY <1>1, <1>2, <1>3 DEF IInv

(* An entry is dropped only when no thread is committing it.               *)
LEMMA DiscardSessionPreserves ==
  ASSUME IInv, NEW s \in Session, DiscardSession(s)
  PROVE  IInv'
  <1>1. TypeOK'
    <2>1. << >> \in Seq(Segment)
      BY EmptySeq
    <2> QED
      BY <2>1 DEF IInv, TypeOK, DiscardSession, Owner
  <1>2. SegmentsTile'
    <2>1. Tiles(<< >>, 0, 0)
      BY EmptySeq DEF Tiles
    <2> QED
      BY <2>1 DEF IInv, TypeOK, SegmentsTile, DiscardSession
  <1>3. SingleFlight'
    <2>1. \A t \in Thread : ~InProvider(t, s)
      BY DEF IInv, SingleFlight, DiscardSession, Discardable
    <2> QED
      BY <2>1 DEF IInv, TypeOK, SingleFlight, InProvider, DiscardSession
  <1> QED
    BY <1>1, <1>2, <1>3 DEF IInv

(* A turn that completes during a commit never touches the captured        *)
(* segment.                                                                *)
LEMMA MarkTurnCompletedPreserves ==
  ASSUME IInv, NEW s \in Session, NEW a \in Owner, MarkTurnCompleted(s, a)
  PROVE  IInv'
  <1> DEFINE owner == IF a # NoAgent THEN a ELSE current[s]
             turn == generation[s] + 1
             segs == segments[s]
             longer == [segs EXCEPT ![Len(segs)].end = turn]
             opened == Append(segs, [start |-> turn, end |-> turn, agent |-> owner])
  <1>1. /\ segs \in Seq(Segment) /\ generation[s] \in Nat /\ committed[s] \in Nat
        /\ owner \in Owner
        /\ Tiles(segs, committed[s], generation[s])
    BY DEF IInv, TypeOK, SegmentsTile
  <1>2. /\ segments' = [segments EXCEPT ![s] = IF SameRun(s, owner) THEN longer ELSE opened]
        /\ generation' = [generation EXCEPT ![s] = turn]
        /\ current' = [current EXCEPT ![s] = owner]
        /\ known' = known \union {s}
        /\ UNCHANGED <<committed, inFlight, call>>
    BY DEF MarkTurnCompleted, SetDefault
  <1>3. /\ segments'[s] \in Seq(Segment)
        /\ Tiles(segments'[s], committed[s], turn)
    <2>1. CASE SameRun(s, owner)
      <3>1. longer \in Seq(Segment) /\ Tiles(longer, committed[s], turn)
        BY <1>1, <2>1, ExtendTiles DEF SameRun
      <3> QED
        BY <1>2, <2>1, <3>1 DEF IInv, TypeOK
    <2>2. CASE ~SameRun(s, owner)
      <3>1. opened \in Seq(Segment) /\ Tiles(opened, committed[s], turn)
        BY <1>1, AppendTiles
      <3> QED
        BY <1>2, <2>2, <3>1 DEF IInv, TypeOK
    <2> QED
      BY <2>1, <2>2
  <1>4. turn \in Nat
    BY <1>1
  <1> HIDE DEF turn
  <1>5. TypeOK'
    <2>1. segments' \in [Session -> Seq(Segment)]
      BY <1>2, <1>3 DEF IInv, TypeOK
    <2>2. /\ known' \subseteq Session
          /\ generation' \in [Session -> Nat]
          /\ committed' \in [Session -> Nat]
          /\ current' \in [Session -> Owner]
          /\ inFlight' \in [Session -> BOOLEAN]
          /\ call' \in [Thread -> Call]
      BY <1>1, <1>2, <1>4 DEF IInv, TypeOK
    <2>3. \A r \in Session \ known' :
            /\ generation'[r] = 0 /\ committed'[r] = 0 /\ current'[r] = NoAgent
            /\ ~inFlight'[r] /\ segments'[r] = << >>
      BY <1>2 DEF IInv, TypeOK
    <2> QED
      BY <2>1, <2>2, <2>3 DEF TypeOK
  <1>6. SegmentsTile'
    <2> SUFFICES ASSUME NEW r \in Session
                 PROVE  Tiles(segments'[r], committed'[r], generation'[r])
      BY DEF SegmentsTile
    <2>1. CASE r = s
      BY <1>2, <1>3, <2>1 DEF IInv, TypeOK
    <2>2. CASE r # s
      BY <1>2, <2>2 DEF IInv, TypeOK, SegmentsTile
    <2> QED
      BY <2>1, <2>2
  <1>7. SingleFlight'
    <2>1. ASSUME NEW r \in Session, NEW t \in Thread, InProvider(t, r)
          PROVE  segments'[r] # << >> /\ segments'[r][1] = segments[r][1]
      <3>1. CASE r # s
        BY <1>2, <2>1, <3>1 DEF IInv, TypeOK, SingleFlight
      <3>2. CASE r = s
        <4>1. inFlight[s] /\ segs # << >>
          BY <2>1, <3>2 DEF IInv, SingleFlight
        <4>2. segments'[s] = opened
          BY <1>2, <4>1 DEF SameRun, IInv, TypeOK
        <4>3. Len(segs) \in Nat \ {0}
          BY <1>1, <4>1, EmptySeq
        <4>4. [start |-> turn, end |-> turn, agent |-> owner] \in Segment
          BY <1>1, <1>4 DEF Segment
        <4>5. opened # << >> /\ opened[1] = segs[1]
          <5> HIDE DEF owner
          <5> QED
            BY <1>1, <4>3, <4>4, AppendProperties
        <4> QED
          BY <3>2, <4>2, <4>5
      <3> QED
        BY <3>1, <3>2
    <2>2. \A t \in Thread, r \in Session : InProvider(t, r)' <=> InProvider(t, r)
      BY <1>2 DEF InProvider
    <2>3. /\ \A r \in Session : inFlight'[r] <=> \E t \in Thread : InProvider(t, r)'
          /\ \A r \in Session, t, u \in Thread : InProvider(t, r)' /\ InProvider(u, r)' => t = u
      BY <1>2, <2>2 DEF IInv, SingleFlight
    <2>4. ASSUME NEW r \in Session, NEW t \in Thread, InProvider(t, r)'
          PROVE  /\ r \in known'
                 /\ segments'[r] # << >>
                 /\ call'[t].captured = segments'[r][1].end
                 /\ call'[t].agent = segments'[r][1].agent
                 /\ call'[t].agent # NoAgent
      <3>1. InProvider(t, r) /\ call' = call /\ r \in known'
        BY <1>2, <2>2, <2>4 DEF IInv, SingleFlight
      <3> QED
        BY <2>1, <3>1 DEF IInv, SingleFlight
    <2> QED
      BY <2>3, <2>4 DEF SingleFlight
  <1> QED
    BY <1>5, <1>6, <1>7 DEF IInv

(* A capture takes the first segment and marks the session busy.           *)
LEMMA CapturePreserves ==
  ASSUME IInv, NEW t \in Thread, NEW s \in Session, NEW a \in Owner,
         Capture(t, s, a), call[t].step # "provider"
  PROVE  IInv'
  <1> DEFINE segs == segments[s]
  <1>1. PICK i \in Capturable(s, a) :
          LET owner == EffectiveAgent(s, segs[i], a)
          IN /\ segments' = [segments EXCEPT ![s][i].agent = owner]
             /\ call' = [call EXCEPT ![t] =
                  [step |-> "provider", sid |-> s, agent |-> owner,
                   captured |-> segs[i].end]]
    BY DEF Capture
  <1> DEFINE owner == EffectiveAgent(s, segs[i], a)
             adopted == [segs EXCEPT ![i].agent = owner]
  <1>2. /\ segs \in Seq(Segment) /\ generation[s] \in Nat /\ committed[s] \in Nat
        /\ Tiles(segs, committed[s], generation[s])
    BY DEF IInv, TypeOK, SegmentsTile
  <1>3. /\ i \in FirstUncommitted(segs, committed[s]) /\ i \in 1..Len(segs)
        /\ s \in known /\ owner # NoAgent
    BY <1>1 DEF Capturable, FirstUncommitted
  <1>4. segs # << >>
    BY <1>2, <1>3, EmptySeq
  <1>5. i = 1 /\ segs[1] \in Segment
    BY <1>2, <1>3, <1>4, FirstIsUncommitted
  <1>6. owner \in Agent
    BY <1>3, <1>5 DEF EffectiveAgent, Segment, Owner, IInv, TypeOK
  <1>7. /\ adopted \in Seq(Segment)
        /\ Tiles(adopted, committed[s], generation[s])
        /\ adopted[1].end = segs[1].end /\ adopted[1].agent = owner
        /\ adopted # << >>
    <2>1. owner \in Owner
      BY <1>6 DEF Owner
    <2>2. /\ adopted \in Seq(Segment)
          /\ Len(adopted) = Len(segs)
          /\ \A j \in 1..Len(segs) :
               /\ adopted[j].start = segs[j].start
               /\ adopted[j].end = segs[j].end
               /\ adopted[j].agent = IF j = i THEN owner ELSE segs[j].agent
          /\ Tiles(adopted, committed[s], generation[s])
      BY <1>2, <1>3, <2>1, AdoptTiles
    <2>3. Len(segs) \in Nat \ {0}
      BY <1>2, <1>4, EmptySeq
    <2> QED
      BY <1>5, <2>2, <2>3, EmptySeq
  <1> DEFINE new == [step |-> "provider", sid |-> s, agent |-> owner, captured |-> segs[1].end]
  <1>8. /\ segments' = [segments EXCEPT ![s] = adopted]
        /\ call' = [call EXCEPT ![t] = new]
        /\ inFlight' = [inFlight EXCEPT ![s] = TRUE]
        /\ UNCHANGED <<known, generation, committed, current>>
        /\ ~inFlight[s]
    BY <1>1, <1>5 DEF Capture, Free
  <1>9. new \in Call
    BY <1>5, <1>6 DEF Call, Segment, Owner
  <1> HIDE DEF owner, adopted
  <1>10. TypeOK'
    <2>1. /\ segments' \in [Session -> Seq(Segment)]
          /\ call' \in [Thread -> Call]
      BY <1>7, <1>8, <1>9 DEF IInv, TypeOK
    <2> QED
      BY <1>3, <1>8, <2>1 DEF IInv, TypeOK
  <1>11. SegmentsTile'
    BY <1>7, <1>8 DEF IInv, TypeOK, SegmentsTile
  <1>12. SingleFlight'
    <2>1. \A u \in Thread : ~InProvider(u, s)
      BY <1>8 DEF IInv, SingleFlight
    <2>2. InProvider(t, s)' /\ \A r \in Session : InProvider(t, r)' => r = s
      BY <1>8 DEF InProvider, IInv, TypeOK
    <2>3. \A u \in Thread, r \in Session : u # t => (InProvider(u, r)' <=> InProvider(u, r))
      BY <1>8 DEF InProvider, IInv, TypeOK
    <2>4. \A r \in Session : ~InProvider(t, r)
      BY DEF InProvider
    <2>5. \A r \in Session : r # s => segments'[r] = segments[r] /\ inFlight'[r] = inFlight[r]
      BY <1>8 DEF IInv, TypeOK
    <2>6. inFlight'[s] /\ segments'[s] = adopted
      BY <1>8 DEF IInv, TypeOK
    <2>7. call'[t] = new /\ \A u \in Thread : u # t => call'[u] = call[u]
      BY <1>8 DEF IInv, TypeOK
    <2>8. \A r \in Session : inFlight'[r] <=> \E u \in Thread : InProvider(u, r)'
      BY <2>1, <2>2, <2>3, <2>4, <2>5, <2>6 DEF IInv, SingleFlight
    <2>9. \A r \in Session, u, v \in Thread : InProvider(u, r)' /\ InProvider(v, r)' => u = v
      BY <2>1, <2>2, <2>3 DEF IInv, SingleFlight
    <2>10. ASSUME NEW r \in Session, NEW u \in Thread, InProvider(u, r)'
           PROVE  /\ r \in known'
                  /\ segments'[r] # << >>
                  /\ call'[u].captured = segments'[r][1].end
                  /\ call'[u].agent = segments'[r][1].agent
                  /\ call'[u].agent # NoAgent
      <3>1. CASE u = t
        BY <1>3, <1>7, <1>8, <2>2, <2>6, <2>7, <2>10, <3>1
      <3>2. CASE u # t
        BY <1>8, <2>1, <2>3, <2>5, <2>7, <2>10, <3>2 DEF IInv, SingleFlight
      <3> QED
        BY <3>1, <3>2
    <2> QED
      BY <2>8, <2>9, <2>10 DEF SingleFlight
  <1> QED
    BY <1>10, <1>11, <1>12 DEF IInv

LEMMA WaitForCommitPreserves ==
  ASSUME IInv, NEW t \in Thread, NEW s \in Session, NEW a \in Owner,
         WaitForCommit(t, s, a)
  PROVE  IInv'
  <1>1. TypeOK'
    BY DEF IInv, TypeOK, WaitForCommit, Call
  <1>2. SegmentsTile'
    BY DEF IInv, SegmentsTile, WaitForCommit
  <1>3. \A u \in Thread, r \in Session : InProvider(u, r)' <=> InProvider(u, r)
    BY DEF IInv, TypeOK, WaitForCommit, InProvider, NoCall
  <1>4. SingleFlight'
    BY <1>3 DEF IInv, TypeOK, SingleFlight, WaitForCommit, InProvider
  <1> QED
    BY <1>1, <1>2, <1>4 DEF IInv

LEMMA AbandonCommitPreserves ==
  ASSUME IInv, NEW t \in Thread, AbandonCommit(t)
  PROVE  IInv'
  <1>1. TypeOK'
    BY DEF IInv, TypeOK, AbandonCommit, Call, NoCall, Owner
  <1>2. SegmentsTile'
    BY DEF IInv, SegmentsTile, AbandonCommit
  <1>3. \A u \in Thread, r \in Session : InProvider(u, r)' <=> InProvider(u, r)
    BY DEF IInv, TypeOK, AbandonCommit, InProvider, NoCall
  <1>4. SingleFlight'
    BY <1>3 DEF IInv, TypeOK, SingleFlight, AbandonCommit, InProvider
  <1> QED
    BY <1>1, <1>2, <1>4 DEF IInv

(* The thread that ends is the only one that was committing the session.   *)
LEMMA EndOfCommitFrees ==
  ASSUME IInv, NEW t \in Thread, call[t].step = "provider",
         inFlight' = [inFlight EXCEPT ![call[t].sid] = FALSE],
         call' = [call EXCEPT ![t] = NoCall],
         known' = known,
         \A r \in Session \ {call[t].sid} : segments'[r] = segments[r]
  PROVE  call[t].sid \in Session /\ SingleFlight'
  <1> DEFINE s == call[t].sid
  <1>1. s \in Session /\ InProvider(t, s)
    BY DEF IInv, TypeOK, Call, NoCall, InProvider
  <1>2. \A u \in Thread : InProvider(u, s) => u = t
    BY <1>1 DEF IInv, SingleFlight
  <1>3. \A r \in Session : ~InProvider(t, r)'
    BY DEF InProvider, NoCall, IInv, TypeOK
  <1>4. \A u \in Thread, r \in Session :
          u # t => call'[u] = call[u] /\ (InProvider(u, r)' <=> InProvider(u, r))
    BY DEF InProvider, IInv, TypeOK
  <1>5. ~inFlight'[s] /\ \A r \in Session : r # s => inFlight'[r] = inFlight[r]
    BY <1>1 DEF IInv, TypeOK
  <1>6. \A r \in Session : inFlight'[r] <=> \E u \in Thread : InProvider(u, r)'
    <2> SUFFICES ASSUME NEW r \in Session
                 PROVE  inFlight'[r] <=> \E u \in Thread : InProvider(u, r)'
      OBVIOUS
    <2>1. CASE r = s
      BY <1>2, <1>3, <1>4, <1>5, <2>1
    <2>2. CASE r # s
      <3>1. ~InProvider(t, r)
        BY <2>2 DEF InProvider
      <3> QED
        BY <1>3, <1>4, <1>5, <2>2, <3>1 DEF IInv, SingleFlight
    <2> QED
      BY <2>1, <2>2
  <1>7. \A r \in Session, u, v \in Thread : InProvider(u, r)' /\ InProvider(v, r)' => u = v
    BY <1>3, <1>4 DEF IInv, SingleFlight
  <1>8. ASSUME NEW r \in Session, NEW u \in Thread, InProvider(u, r)'
        PROVE  /\ r \in known'
               /\ segments'[r] # << >>
               /\ call'[u].captured = segments'[r][1].end
               /\ call'[u].agent = segments'[r][1].agent
               /\ call'[u].agent # NoAgent
    <2>1. u # t /\ InProvider(u, r)
      BY <1>3, <1>4, <1>8
    <2>2. r # s
      BY <1>2, <2>1
    <2> QED
      BY <1>4, <2>1, <2>2 DEF IInv, SingleFlight
  <1>9. SingleFlight'
    BY <1>6, <1>7, <1>8 DEF SingleFlight
  <1> QED
    BY <1>1, <1>9

LEMMA CommitFailedPreserves ==
  ASSUME IInv, NEW t \in Thread, CommitFailed(t)
  PROVE  IInv'
  <1>1. TypeOK'
    BY DEF IInv, TypeOK, CommitFailed, Call
  <1>2. SegmentsTile'
    BY DEF IInv, SegmentsTile, CommitFailed
  <1>3. SingleFlight'
    BY EndOfCommitFrees DEF CommitFailed
  <1> QED
    BY <1>1, <1>2, <1>3 DEF IInv

(* A success takes away the captured segment and nothing that was          *)
(* completed while the provider worked.                                    *)
LEMMA CommitSucceededPreserves ==
  ASSUME IInv, NEW t \in Thread, CommitSucceeded(t)
  PROVE  /\ IInv'
         /\ call[t].sid \in Session
         /\ LET s == call[t].sid
            IN segments' = [segments EXCEPT ![s] = SubSeq(segments[s], 2, Len(segments[s]))]
  <1> DEFINE s == call[t].sid
             segs == segments[s]
             rest == SubSeq(segs, 2, Len(segs))
             upTo == CommittedUpTo(s, call[t].captured)
  <1>1. s \in Session /\ InProvider(t, s)
    BY DEF CommitSucceeded, IInv, TypeOK, Call, NoCall, InProvider
  <1>2. segs # << >> /\ call[t].captured = segs[1].end /\ s \in known
    BY <1>1 DEF IInv, SingleFlight
  <1>3. /\ segs \in Seq(Segment) /\ committed[s] \in Nat /\ generation[s] \in Nat
        /\ Tiles(segs, committed[s], generation[s])
    BY <1>1 DEF IInv, TypeOK, SegmentsTile
  <1>4. committed[s] < segs[1].end /\ segs[1] \in Segment
    BY SMTT(60), <1>2, <1>3, FirstIsUncommitted
  <1>5. upTo = segs[1].end
    BY <1>2, <1>4 DEF CommittedUpTo
  <1>6. Remaining(segs, upTo) = rest /\ rest \in Seq(Segment) /\ Tiles(rest, upTo, generation[s])
    BY <1>2, <1>3, <1>5, RemainingIsTail
  <1>7. upTo \in Nat
    BY <1>4, <1>5 DEF Segment
  <1>8. /\ segments' = [segments EXCEPT ![s] = rest]
        /\ committed' = [committed EXCEPT ![s] = upTo]
        /\ inFlight' = [inFlight EXCEPT ![s] = FALSE]
        /\ call' = [call EXCEPT ![t] = NoCall]
        /\ UNCHANGED <<known, generation, current>>
    BY <1>6 DEF CommitSucceeded
  <1> HIDE DEF rest, upTo
  <1>9. TypeOK'
    <2>1. segments' \in [Session -> Seq(Segment)] /\ committed' \in [Session -> Nat]
      BY <1>6, <1>7, <1>8 DEF IInv, TypeOK
    <2>2. call' \in [Thread -> Call] /\ inFlight' \in [Session -> BOOLEAN]
      BY <1>8 DEF IInv, TypeOK, Call
    <2> QED
      BY <1>2, <1>8, <2>1, <2>2 DEF IInv, TypeOK
  <1>10. SegmentsTile'
    BY <1>6, <1>8 DEF IInv, TypeOK, SegmentsTile
  <1>11. SingleFlight'
    <2>1. \A r \in Session \ {s} : segments'[r] = segments[r]
      BY <1>8 DEF IInv, TypeOK
    <2> QED
      BY <1>8, <2>1, EndOfCommitFrees DEF CommitSucceeded
  <1> QED
    BY <1>1, <1>8, <1>9, <1>10, <1>11 DEF IInv, rest

(* Every step preserves the inductive invariant.                           *)
LEMMA NextPreserves == IInv /\ [Next]_vars => IInv'
  <1> SUFFICES ASSUME IInv, [Next]_vars PROVE IInv'
    OBVIOUS
  <1>1. ASSUME NEW s \in Session, NEW a \in Agent, RegisterAgent(s, a) PROVE IInv'
    BY <1>1, RegisterAgentPreserves
  <1>2. ASSUME NEW s \in Session, UnregisterAgent(s) PROVE IInv'
    BY <1>2, UnregisterAgentPreserves
  <1>3. ASSUME NEW s \in Session, DiscardSession(s) PROVE IInv'
    BY <1>3, DiscardSessionPreserves
  <1>4. ASSUME NEW s \in Session, NEW a \in Owner, MarkTurnCompleted(s, a) PROVE IInv'
    BY <1>4, MarkTurnCompletedPreserves
  <1>5. ASSUME NEW t \in Thread, NEW s \in Session, NEW a \in Owner, BeginCommit(t, s, a)
        PROVE  IInv'
    BY <1>5, CapturePreserves DEF BeginCommit, NoCall
  <1>6. ASSUME NEW t \in Thread, NEW s \in Session, NEW a \in Owner, WaitForCommit(t, s, a)
        PROVE  IInv'
    BY <1>6, WaitForCommitPreserves
  <1>7. ASSUME NEW t \in Thread, ResumeCommit(t) PROVE IInv'
    <2>1. call[t].sid \in Session /\ call[t].agent \in Owner /\ call[t].step # "provider"
      BY <1>7 DEF ResumeCommit, IInv, TypeOK, Call, NoCall
    <2> QED
      BY <1>7, <2>1, CapturePreserves DEF ResumeCommit
  <1>8. ASSUME NEW t \in Thread, AbandonCommit(t) PROVE IInv'
    BY <1>8, AbandonCommitPreserves
  <1>9. ASSUME NEW t \in Thread, CommitFailed(t) PROVE IInv'
    BY <1>9, CommitFailedPreserves
  <1>10. ASSUME NEW t \in Thread, CommitSucceeded(t) PROVE IInv'
    BY <1>10, CommitSucceededPreserves
  <1>11. ASSUME NEW s \in Session, RecordOwnerProfileHome(s) PROVE IInv'
    BY <1>11, RecordOwnerProfileHomePreserves
  <1>12. CASE UNCHANGED vars
    BY <1>12 DEF IInv, TypeOK, SegmentsTile, SingleFlight, InProvider, vars
  <1> QED
    BY <1>1, <1>2, <1>3, <1>4, <1>5, <1>6, <1>7, <1>8, <1>9, <1>10, <1>11, <1>12 DEF Next

-----------------------------------------------------------------------------
THEOREM InvariantHolds == Spec => []IInv
  BY InitEstablishes, NextPreserves, PTL DEF Spec

(* The lifecycle table is well typed in every reachable state.             *)
THEOREM TypeCorrect == Spec => []TypeOK
  BY InvariantHolds, PTL DEF IInv

(* The segments always tile the uncommitted generations of a session.      *)
THEOREM TilingHolds == Spec => []SegmentsTile
  BY InvariantHolds, PTL DEF IInv

(* Two commits of one session never overlap, and a commit in flight always *)
(* stands for the first segment and its owner.                             *)
THEOREM SingleFlightHolds == Spec => []SingleFlight
  BY InvariantHolds, PTL DEF IInv

-----------------------------------------------------------------------------
(* Only the owner extracts: what happens to the turns owed in one step.    *)
Accounted(s) ==
  \A p \in Owed(s) : p \in Owed(s)' \/ ExtractedNow(s, p) \/ AdoptedNow(s, p)

LEMMA SameSegmentsAccounted ==
  ASSUME NEW s \in Session, segments'[s] = segments[s]
  PROVE  Accounted(s)
  BY DEF Accounted, Owed

(* A turn of segs is a turn of segs2 when its segment lies in one of segs2 *)
(* that has the same owner.                                                *)
LEMMA OwedCarriedOver ==
  ASSUME NEW s \in Session,
         \A i \in 1..Len(segments[s]) : \E j \in 1..Len(segments'[s]) :
           /\ segments'[s][j].start = segments[s][i].start
           /\ segments[s][i].end <= segments'[s][j].end
           /\ segments'[s][j].agent = segments[s][i].agent,
         segments[s] \in Seq(Segment), segments'[s] \in Seq(Segment)
  PROVE  Accounted(s)
  <1> SUFFICES ASSUME NEW p \in (1..MaxGeneration) \X Owner,
                      NEW i \in 1..Len(segments[s]), Covers(segments[s][i], p)
               PROVE  p \in Owed(s)'
    BY DEF Accounted, Owed
  <1>1. PICK j \in 1..Len(segments'[s]) :
          /\ segments'[s][j].start = segments[s][i].start
          /\ segments[s][i].end <= segments'[s][j].end
          /\ segments'[s][j].agent = segments[s][i].agent
    OBVIOUS
  <1>2. segments[s][i] \in Segment /\ segments'[s][j] \in Segment
    BY ElementOfSeq
  <1>3. segments[s][i].end \in Nat /\ segments'[s][j].end \in Nat
    BY <1>2 DEF Segment
  <1>4. p[1] <= segments'[s][j].end
    <2>1. p[1] \in 1..MaxGeneration
      OBVIOUS
    <2>2. p[1] \in Int
      BY <2>1
    <2> QED
      BY SMTT(60), <1>1, <1>3, <2>2 DEF Covers
  <1>5. Covers(segments'[s][j], p)
    BY <1>1, <1>4 DEF Covers
  <1> QED
    BY <1>5 DEF Owed

\* An entry that is dropped owes nothing.
LEMMA DiscardKeepsSegments ==
  ASSUME IInv, NEW s \in Session, DiscardSession(s)
  PROVE  segments' = segments
  <1>1. segments[s] = << >>
    <2> SUFFICES ASSUME segments[s] # << >> PROVE FALSE
      OBVIOUS
    <2>1. /\ segments[s] \in Seq(Segment) /\ committed[s] \in Nat /\ generation[s] \in Nat
          /\ Tiles(segments[s], committed[s], generation[s])
      BY DEF IInv, TypeOK, SegmentsTile
    <2>2. committed[s] < segments[s][1].end /\ segments[s][1].end <= generation[s]
          /\ segments[s][1] \in Segment
      BY <2>1, FirstIsUncommitted
    <2>3. committed[s] < generation[s]
      BY <2>1, <2>2 DEF Segment
    <2> QED
      BY <2>3 DEF DiscardSession, Discardable, HasUncommittedWork
  <1>2. segments \in [Session -> Seq(Segment)] /\ segments' = [segments EXCEPT ![s] = << >>]
    BY DEF DiscardSession, IInv, TypeOK
  <1> QED
    BY <1>1, <1>2

LEMMA DiscardAccounted ==
  ASSUME IInv, NEW s \in Session, DiscardSession(s)
  PROVE  \A r \in Session : Accounted(r)
  BY DiscardKeepsSegments, SameSegmentsAccounted

LEMMA MarkAccounted ==
  ASSUME IInv, IInv', NEW s \in Session, NEW a \in Owner, MarkTurnCompleted(s, a)
  PROVE  \A r \in Session : Accounted(r)
  <1> DEFINE owner == IF a # NoAgent THEN a ELSE current[s]
             turn == generation[s] + 1
             segs == segments[s]
             longer == [segs EXCEPT ![Len(segs)].end = turn]
             new == [start |-> turn, end |-> turn, agent |-> owner]
  <1>1. /\ segs \in Seq(Segment) /\ segments'[s] \in Seq(Segment)
        /\ generation[s] \in Nat /\ owner \in Owner
        /\ Tiles(segs, committed[s], generation[s])
    BY DEF IInv, TypeOK, SegmentsTile
  <1>2. segments' = [segments EXCEPT ![s] = IF SameRun(s, owner) THEN longer ELSE Append(segs, new)]
    BY DEF MarkTurnCompleted
  <1>3. \A r \in Session \ {s} : Accounted(r)
    BY <1>2, SameSegmentsAccounted DEF IInv, TypeOK
  <1>4. ASSUME NEW i \in 1..Len(segs)
        PROVE  \E j \in 1..Len(segments'[s]) :
                 /\ segments'[s][j].start = segs[i].start
                 /\ segs[i].end <= segments'[s][j].end
                 /\ segments'[s][j].agent = segs[i].agent
    <2>1. Len(segs) \in Nat /\ segs[i] \in Segment /\ segs[i].end <= generation[s]
      BY <1>1, LenProperties, ElementOfSeq DEF Tiles
    <2>2. segs[i].end \in Nat /\ segs[i].end <= segs[i].end /\ segs[i].end <= turn
      BY SMTT(60), <1>1, <2>1 DEF Segment
    <2>3. CASE SameRun(s, owner)
      <3> DEFINE last == [segs[Len(segs)] EXCEPT !.end = turn]
      <3>1. segs # << >>
        BY <2>3 DEF SameRun
      <3>2. Len(segs) \in 1..Len(segs) /\ segs[Len(segs)] \in Segment
        BY <1>1, <3>1, EmptySeq, ElementOfSeq
      <3>3. turn \in Nat
        BY <1>1
      <3> HIDE DEF turn
      <3>4. /\ last \in Segment /\ last.end = turn
            /\ last.start = segs[Len(segs)].start /\ last.agent = segs[Len(segs)].agent
        BY <3>2, <3>3 DEF Segment
      <3>5. segments'[s] = [segs EXCEPT ![Len(segs)] = last]
        BY <1>2, <2>3 DEF IInv, TypeOK
      <3>6. /\ Len(segments'[s]) = Len(segs)
            /\ segments'[s][i] = IF i = Len(segs) THEN last ELSE segs[i]
        <4> HIDE DEF last
        <4> QED
          BY <1>1, <3>2, <3>4, <3>5, ExceptSeq
      <3> QED
        BY <2>2, <3>4, <3>6
    <2>4. CASE ~SameRun(s, owner)
      <3>1. new \in Segment
        BY <1>1 DEF Segment
      <3>2. segments'[s] = Append(segs, new)
        BY <1>2, <2>4 DEF IInv, TypeOK
      <3>3. Len(segments'[s]) = Len(segs) + 1 /\ segments'[s][i] = segs[i]
        <4> HIDE DEF new
        <4> QED
          BY <1>1, <3>1, <3>2, AppendProperties
      <3>4. i \in 1..Len(segments'[s])
        BY <2>1, <3>3
      <3> QED
        BY <2>2, <3>3, <3>4
    <2> QED
      BY <2>3, <2>4
  <1>5. Accounted(s)
    BY <1>1, <1>4, OwedCarriedOver
  <1> QED
    BY <1>3, <1>5

(* A capture changes an owner only by adopting turns nobody owned.         *)
LEMMA CaptureAccounted ==
  ASSUME IInv, NEW t \in Thread, NEW s \in Session, NEW a \in Owner, Capture(t, s, a)
  PROVE  \A r \in Session : Accounted(r)
  <1> DEFINE segs == segments[s]
  <1>1. PICK k \in Capturable(s, a) :
          segments' = [segments EXCEPT ![s][k].agent = EffectiveAgent(s, segs[k], a)]
    BY DEF Capture
  <1> DEFINE owner == EffectiveAgent(s, segs[k], a)
  <1>2. /\ segs \in Seq(Segment)
        /\ Tiles(segs, committed[s], generation[s])
        /\ committed[s] \in Nat /\ generation[s] \in Nat
    BY DEF IInv, TypeOK, SegmentsTile
  <1>3. k \in 1..Len(segs) /\ owner # NoAgent
    BY <1>1 DEF Capturable, FirstUncommitted
  <1>4. segs[k] \in Segment
    BY <1>2, <1>3, ElementOfSeq
  <1>5. owner \in Agent /\ (segs[k].agent # NoAgent => owner = segs[k].agent)
    BY <1>3, <1>4 DEF EffectiveAgent, Segment, Owner, IInv, TypeOK
  <1>6. segments' = [segments EXCEPT ![s] = [segs EXCEPT ![k].agent = owner]]
    BY <1>1
  <1>7. \A r \in Session \ {s} : Accounted(r)
    BY <1>6, SameSegmentsAccounted DEF IInv, TypeOK
  <1> HIDE DEF owner
  <1>8. /\ Len(segments'[s]) = Len(segs)
        /\ \A j \in 1..Len(segs) :
             /\ segments'[s][j].start = segs[j].start
             /\ segments'[s][j].end = segs[j].end
             /\ segments'[s][j].agent = IF j = k THEN owner ELSE segs[j].agent
    <2>1. segments'[s] = [segs EXCEPT ![k].agent = owner]
      BY <1>6 DEF IInv, TypeOK
    <2>2. owner \in Owner
      BY <1>5 DEF Owner
    <2> HIDE DEF segs
    <2> QED
      BY <1>2, <1>3, <2>1, <2>2, AdoptTiles
  <1>9. ASSUME NEW p \in (1..MaxGeneration) \X Owner,
               NEW i \in 1..Len(segs), Covers(segs[i], p)
        PROVE  p \in Owed(s)' \/ AdoptedNow(s, p)
    <2>1. CASE i = k /\ segs[i].agent = NoAgent
      <3>1. <<p[1], owner>> \in (1..MaxGeneration) \X Owner
        BY <1>5 DEF Owner
      <3>2. Covers(segments'[s][i], <<p[1], owner>>)
        BY <1>8, <1>9, <2>1 DEF Covers
      <3>3. <<p[1], owner>> \in Owed(s)'
        BY <1>8, <3>1, <3>2 DEF Owed
      <3> QED
        BY <1>5, <1>9, <2>1, <3>3 DEF AdoptedNow, Covers
    <2>2. CASE i # k \/ segs[i].agent # NoAgent
      <3>1. Covers(segments'[s][i], p)
        BY <1>5, <1>8, <1>9, <2>2 DEF Covers
      <3> QED
        BY <1>8, <3>1 DEF Owed
    <2> QED
      BY <2>1, <2>2
  <1>10. Accounted(s)
    BY <1>9 DEF Accounted, Owed
  <1> QED
    BY <1>7, <1>10

(* A success takes away the turns of the captured segment, which belong to *)
(* the committing agent, and no other.                                     *)
LEMMA SuccessAccounted ==
  ASSUME IInv, NEW t \in Thread, CommitSucceeded(t)
  PROVE  \A r \in Session : Accounted(r)
  <1>0. PICK s \in Session : s = call[t].sid
    BY CommitSucceededPreserves
  <1> DEFINE segs == segments[s]
             rest == SubSeq(segs, 2, Len(segs))
  <1>1. segments' = [segments EXCEPT ![s] = rest]
    BY <1>0, CommitSucceededPreserves
  <1>2. InProvider(t, s) /\ ~InProvider(t, s)'
    BY <1>0 DEF CommitSucceeded, InProvider, IInv, TypeOK, NoCall
  <1>3. /\ call[t].captured = segs[1].end /\ call[t].agent = segs[1].agent /\ segs # << >>
        /\ segs \in Seq(Segment)
    BY <1>1, <1>2 DEF IInv, SingleFlight, TypeOK
  <1>4. Len(segs) \in Nat \ {0} /\ \A i \in 1..Len(segs) : segs[i] \in Segment
    BY <1>3, EmptySeq, ElementOfSeq
  <1>5. \A r \in Session \ {s} : Accounted(r)
    BY <1>1, SameSegmentsAccounted DEF IInv, TypeOK
  <1>6. /\ Len(rest) = IF 2 <= Len(segs) THEN Len(segs) - 2 + 1 ELSE 0
        /\ \A i \in 1..(Len(segs) - 2 + 1) : rest[i] = segs[2 + i - 1]
    <2>1. \A i \in 2..Len(segs) : segs[i] \in Segment
      BY <1>4
    <2> QED
      BY <1>4, <2>1, SubSeqProperties
  <1>7. ASSUME NEW p \in (1..MaxGeneration) \X Owner,
               NEW i \in 1..Len(segs), Covers(segs[i], p)
        PROVE  p \in Owed(s)' \/ ExtractedNow(s, p)
    <2>1. CASE i = 1
      <3>1. p[1] <= call[t].captured /\ p[2] = call[t].agent
        BY <1>3, <1>7, <2>1 DEF Covers
      <3> QED
        BY <1>2, <3>1 DEF ExtractedNow
    <2>2. CASE i # 1
      <3>1. i - 1 \in 1..Len(rest) /\ rest[i - 1] = segs[i]
        <4>1. /\ i - 1 \in 1..(Len(segs) - 2 + 1)
              /\ 2 + (i - 1) - 1 = i
              /\ 2 <= Len(segs)
          BY <1>4, <2>2
        <4> HIDE DEF rest, segs
        <4> QED
          BY <1>6, <4>1
      <3>2. segments'[s] = rest
        BY <1>1 DEF IInv, TypeOK
      <3>3. Covers(segments'[s][i - 1], p) /\ i - 1 \in 1..Len(segments'[s])
        BY <1>7, <3>1, <3>2
      <3> QED
        BY <3>3 DEF Owed
    <2> QED
      BY <2>1, <2>2
  <1>8. Accounted(s)
    BY <1>7 DEF Accounted, Owed
  <1> QED
    BY <1>1, <1>5, <1>8

(* Guarantees 2 to 4 of the module docstring: a turn is never dropped, and *)
(* never handed to an agent that does not own it.                          *)
THEOREM OwnerExtracts == Spec => OnlyTheOwnerExtracts
  <1>1. ASSUME IInv, IInv', [Next]_vars PROVE \A s \in Session : Accounted(s)
    <2> USE <1>1
    <2>1. ASSUME NEW s \in Session, NEW a \in Agent, RegisterAgent(s, a)
          PROVE  \A r \in Session : Accounted(r)
      BY <2>1, SameSegmentsAccounted DEF RegisterAgent
    <2>2. ASSUME NEW s \in Session, UnregisterAgent(s)
          PROVE  \A r \in Session : Accounted(r)
      BY <2>2, SameSegmentsAccounted DEF UnregisterAgent
    <2>3. ASSUME NEW s \in Session, DiscardSession(s)
          PROVE  \A r \in Session : Accounted(r)
      BY <2>3, DiscardAccounted
    <2>4. ASSUME NEW s \in Session, NEW a \in Owner, MarkTurnCompleted(s, a)
          PROVE  \A r \in Session : Accounted(r)
      BY <2>4, MarkAccounted
    <2>5. ASSUME NEW t \in Thread, NEW s \in Session, NEW a \in Owner, BeginCommit(t, s, a)
          PROVE  \A r \in Session : Accounted(r)
      BY <2>5, CaptureAccounted DEF BeginCommit
    <2>6. ASSUME NEW t \in Thread, NEW s \in Session, NEW a \in Owner, WaitForCommit(t, s, a)
          PROVE  \A r \in Session : Accounted(r)
      BY <2>6, SameSegmentsAccounted DEF WaitForCommit
    <2>7. ASSUME NEW t \in Thread, ResumeCommit(t)
          PROVE  \A r \in Session : Accounted(r)
      <3>1. call[t].sid \in Session /\ call[t].agent \in Owner
        BY <2>7 DEF ResumeCommit, IInv, TypeOK, Call, NoCall
      <3> QED
        BY <2>7, <3>1, CaptureAccounted DEF ResumeCommit
    <2>8. ASSUME NEW t \in Thread, AbandonCommit(t)
          PROVE  \A r \in Session : Accounted(r)
      BY <2>8, SameSegmentsAccounted DEF AbandonCommit
    <2>9. ASSUME NEW t \in Thread, CommitFailed(t)
          PROVE  \A r \in Session : Accounted(r)
      BY <2>9, SameSegmentsAccounted DEF CommitFailed
    <2>10. ASSUME NEW t \in Thread, CommitSucceeded(t)
           PROVE  \A r \in Session : Accounted(r)
      BY <2>10, SuccessAccounted
    <2>11. ASSUME NEW s \in Session, RecordOwnerProfileHome(s)
           PROVE  \A r \in Session : Accounted(r)
      BY <2>11, SameSegmentsAccounted DEF RecordOwnerProfileHome
    <2>12. ASSUME UNCHANGED vars PROVE \A r \in Session : Accounted(r)
      BY <2>12, SameSegmentsAccounted DEF vars
    <2> QED
      BY <2>1, <2>2, <2>3, <2>4, <2>5, <2>6, <2>7, <2>8, <2>9, <2>10, <2>11, <2>12 DEF Next
  <1>2. IInv /\ IInv' /\ [Next]_vars =>
          [\A s \in Session : \A p \in Owed(s) :
             p \in Owed(s)' \/ ExtractedNow(s, p) \/ AdoptedNow(s, p)]_vars
    BY <1>1 DEF Accounted
  <1> QED
    BY <1>2, InvariantHolds, PTL DEF Spec, OnlyTheOwnerExtracts

-----------------------------------------------------------------------------
(* The bookkeeping implements the ledger: what the pairs owed and the batch *)
(* under way are, in terms of the segments.                                *)

Bounded == \A s \in Session : generation[s] <= MaxGeneration

LInv == IInv /\ Bounded

\* Nothing that no commit in flight captured is in the batch.
LEMMA IdleBatch ==
  ASSUME NEW s \in Session, \A t \in Thread : ~InProvider(t, s)
  PROVE  Batch(s) = {}
  BY DEF Batch

\* What is owed up to the end of the first segment is what that segment covers.
LEMMA OldestIsFirst ==
  ASSUME LInv, NEW s \in Session, segments[s] # << >>
  PROVE  /\ segments[s][1] \in Segment
         /\ segments[s][1].end \in 1..MaxGeneration
         /\ \A p \in Owed(s) : p[1] <= segments[s][1].end <=> Covers(segments[s][1], p)
         /\ \A p \in Owed(s) : p[1] \in 1..MaxGeneration /\ p[2] \in Owner /\ p = <<p[1], p[2]>>
         /\ <<segments[s][1].end, segments[s][1].agent>> \in Owed(s)
  <1> DEFINE segs == segments[s]
             first == segs[1]
  <1>1. /\ segs \in Seq(Segment) /\ committed[s] \in Nat /\ generation[s] \in Nat
        /\ Tiles(segs, committed[s], generation[s])
        /\ generation[s] <= MaxGeneration
    BY DEF LInv, Bounded, IInv, TypeOK, SegmentsTile
  <1>2. /\ Len(segs) \in Nat \ {0}
        /\ \A i \in 1..Len(segs) : segs[i] \in Segment
        /\ committed[s] < first.end /\ first.end <= generation[s]
    BY <1>1, FirstIsUncommitted, ElementOfSeq
  <1>3. first \in Segment /\ first.end \in 1..MaxGeneration
    BY SMTT(60), <1>1, <1>2, LifecycleAssumption DEF Segment
  <1>4. \A p \in Owed(s) : p[1] \in 1..MaxGeneration /\ p[2] \in Owner /\ p = <<p[1], p[2]>>
    BY DEF Owed
  <1>5. ASSUME NEW p \in Owed(s), p[1] <= first.end
        PROVE  Covers(first, p)
    <2>1. PICK i \in 1..Len(segs) : Covers(segs[i], p)
      BY DEF Owed
    <2>2. i # 1 => first.end < segs[i].start
      BY <1>1, <1>2 DEF Tiles
    <2>3. p[1] \in Int /\ first.end \in Int /\ segs[i].start \in Int
      BY <1>2, <1>3, <1>4 DEF Segment
    <2>4. i = 1
      BY <1>5, <2>1, <2>2, <2>3 DEF Covers
    <2> QED
      BY <2>1, <2>4
  <1>6. Covers(first, <<first.end, first.agent>>)
    <2>1. first.start <= first.end
      BY <1>1, <1>2 DEF Tiles
    <2>2. first.end <= first.end
      BY <1>3
    <2> HIDE DEF first
    <2> QED
      BY <2>1, <2>2 DEF Covers
  <1>7. <<first.end, first.agent>> \in Owed(s)
    BY <1>2, <1>3, <1>6 DEF Owed, Segment
  <1> QED
    BY <1>3, <1>4, <1>5, <1>7 DEF Covers

\* The batch is what the first segment covers, and it is never empty.
LEMMA BatchIsFirst ==
  ASSUME LInv, NEW s \in Session, NEW t \in Thread, InProvider(t, s)
  PROVE  /\ segments[s] # << >>
         /\ call[t].captured = segments[s][1].end
         /\ Batch(s) = {p[1] : p \in {q \in Owed(s) : q[1] <= segments[s][1].end}}
         /\ Batch(s) # {}
  <1>1. /\ \A u \in Thread : InProvider(u, s) => u = t
        /\ segments[s] # << >> /\ call[t].captured = segments[s][1].end
    BY DEF LInv, IInv, SingleFlight
  <1>2. Batch(s) = {p[1] : p \in {q \in Owed(s) : q[1] <= segments[s][1].end}}
    <2>1. \A q \in Owed(s) :
            (\E u \in Thread : InProvider(u, s) /\ q[1] <= call[u].captured)
              <=> q[1] <= segments[s][1].end
      BY <1>1
    <2> QED
      BY <2>1 DEF Batch
  <1>3. segments[s][1].end \in Batch(s)
    <2>1. /\ segments[s][1].end \in 1..MaxGeneration
          /\ <<segments[s][1].end, segments[s][1].agent>> \in Owed(s)
      BY <1>1, OldestIsFirst
    <2> QED
      BY <1>2, <2>1
  <1> QED
    BY <1>1, <1>2, <1>3

\* A step that changes neither the segments nor who is in the provider.
LEMMA LedgerUntouched ==
  ASSUME segments' = segments,
         \A t \in Thread, s \in Session :
           /\ InProvider(t, s)' <=> InProvider(t, s)
           /\ InProvider(t, s) => call'[t].captured = call[t].captured
  PROVE  UNCHANGED Ledger!ledgerVars
  <1>1. ASSUME NEW s \in Session PROVE Owed(s)' = Owed(s)
    BY DEF Owed
  <1>2. ASSUME NEW s \in Session PROVE Batch(s)' = Batch(s)
    BY SMTT(60), <1>1 DEF Batch
  <1> QED
    BY <1>1, <1>2 DEF Ledger!ledgerVars

(* Turns are counted up to the bound: the ledger has no others.            *)
LEMMA BoundKept ==
  ASSUME LInv, [Next]_vars
  PROVE  Bounded'
  <1>1. generation \in [Session -> Nat] /\ \A s \in Session : generation[s] <= MaxGeneration
    BY DEF LInv, Bounded, IInv, TypeOK
  <1>2. ASSUME NEW s \in Session, NEW a \in Owner, MarkTurnCompleted(s, a) PROVE Bounded'
    <2>1. generation' = [generation EXCEPT ![s] = generation[s] + 1] /\ generation[s] < MaxGeneration
      BY <1>2 DEF MarkTurnCompleted
    <2> QED
      BY <1>1, <2>1, LifecycleAssumption DEF Bounded
  <1>3. ASSUME NEW s \in Session, DiscardSession(s) PROVE Bounded'
    BY <1>1, <1>3, LifecycleAssumption DEF Bounded, DiscardSession
  <1>4. CASE generation' = generation
    BY <1>1, <1>4 DEF Bounded
  <1> QED
    BY ZenonT(60), <1>2, <1>3, <1>4 DEF Next, vars, RegisterAgent, UnregisterAgent, RecordOwnerProfileHome,
       BeginCommit, WaitForCommit, ResumeCommit, AbandonCommit, Capture, CommitFailed,
       CommitSucceeded

(* A step of one session that changes its row of the ledger alone.         *)
LEMMA OneRow ==
  ASSUME NEW s \in Session, NEW new, NEW turns,
         \A r \in Session \ {s} : Owed(r)' = Owed(r) /\ Batch(r)' = Batch(r),
         Owed(s)' = new, Batch(s)' = turns
  PROVE  /\ [r \in Session |-> Owed(r)]' = [[r \in Session |-> Owed(r)] EXCEPT ![s] = new]
         /\ [r \in Session |-> Batch(r)]' = [[r \in Session |-> Batch(r)] EXCEPT ![s] = turns]
  OBVIOUS

(* The rows of the other sessions, when one session's segments and calls   *)
(* change.                                                                 *)
LEMMA OtherRows ==
  ASSUME NEW s \in Session,
         \A r \in Session \ {s} : segments'[r] = segments[r],
         \A t \in Thread, r \in Session \ {s} :
           /\ InProvider(t, r)' <=> InProvider(t, r)
           /\ InProvider(t, r) => call'[t].captured = call[t].captured
  PROVE  \A r \in Session \ {s} : Owed(r)' = Owed(r) /\ Batch(r)' = Batch(r)
  <1> SUFFICES ASSUME NEW r \in Session \ {s} PROVE Owed(r)' = Owed(r) /\ Batch(r)' = Batch(r)
    OBVIOUS
  <1>1. Owed(r)' = Owed(r)
    BY DEF Owed
  <1>2. Batch(r)' = Batch(r)
    BY <1>1 DEF Batch
  <1> QED
    BY <1>1, <1>2

\* A completed turn is newer than every turn owed, and joins no batch.
LEMMA MarkCompletes ==
  ASSUME LInv, NEW s \in Session, NEW a \in Owner, MarkTurnCompleted(s, a)
  PROVE  Ledger!Complete(s)
  <1> DEFINE owner == IF a # NoAgent THEN a ELSE current[s]
             turn == generation[s] + 1
             segs == segments[s]
             n == Len(segs)
             new == [start |-> turn, end |-> turn, agent |-> owner]
             pair == <<turn, owner>>
  <1>1. /\ segs \in Seq(Segment) /\ n \in Nat
        /\ \A i \in 1..n : segs[i] \in Segment /\ segs[i].end <= generation[s]
        /\ generation[s] \in Nat /\ owner \in Owner
        /\ segs # << >> => n \in 1..n /\ segs[n].end = generation[s]
                             /\ segs[n].start <= segs[n].end
    <2>1. Tiles(segs, committed[s], generation[s]) /\ segs \in Seq(Segment)
      BY DEF LInv, IInv, TypeOK, SegmentsTile
    <2> QED
      BY <2>1, EmptySeq, LenProperties, ElementOfSeq DEF LInv, IInv, TypeOK, Tiles
  <1>2. /\ segments' = [segments EXCEPT ![s] =
               IF SameRun(s, owner) THEN [segs EXCEPT ![n].end = turn] ELSE Append(segs, new)]
        /\ call' = call
        /\ turn \in 1..MaxGeneration
    BY <1>1, LifecycleAssumption DEF MarkTurnCompleted
  <1>3. \A p \in Owed(s) : p[1] < turn
    <2> SUFFICES ASSUME NEW p \in (1..MaxGeneration) \X Owner,
                        NEW i \in 1..n, Covers(segs[i], p)
                 PROVE  p[1] < turn
      BY DEF Owed
    <2>1. p[1] \in Int /\ segs[i].end \in Int /\ segs[i].end <= generation[s]
      BY SMTT(60), <1>1 DEF Segment
    <2> QED
      BY <1>1, <2>1 DEF Covers
  <1>4. pair \in (1..MaxGeneration) \X Owner
    BY <1>1, <1>2
  <1>5. \A p \in (1..MaxGeneration) \X Owner : p = pair <=> p[1] = turn /\ p[2] = owner
    OBVIOUS
  <1>6. Owed(s)' = Owed(s) \union {pair}
    <2> HIDE DEF turn, pair, owner
    <2>1. CASE SameRun(s, owner)
      <3> DEFINE last == [segs[n] EXCEPT !.end = turn]
      <3>1. n \in 1..n /\ segs[n] \in Segment /\ segs[n].agent = owner
        BY <1>1, <2>1 DEF SameRun
      <3>2. /\ last \in Segment /\ last.end = turn
            /\ last.start = segs[n].start /\ last.agent = owner
        BY <1>2, <3>1 DEF Segment
      <3>3. segments'[s] = [segs EXCEPT ![n] = last]
        BY <1>2, <2>1 DEF LInv, IInv, TypeOK
      <3>4. /\ Len(segments'[s]) = n
            /\ \A i \in 1..n : segments'[s][i] = IF i = n THEN last ELSE segs[i]
        <4> HIDE DEF last
        <4> QED
          BY <1>1, <3>1, <3>2, <3>3, ExceptSeq
      <3>5. \A p \in (1..MaxGeneration) \X Owner :
              Covers(last, p) <=> Covers(segs[n], p) \/ p = pair
        <4> HIDE DEF last
        <4>1. segs[n].start \in Nat /\ segs[n].end \in Nat /\ segs[n].end = generation[s]
              /\ segs[n].start <= segs[n].end
          BY <1>1, <3>1 DEF SameRun, Segment
        <4>2. turn = generation[s] + 1
          BY DEF turn
        <4> QED
          BY <1>1, <1>5, <3>1, <3>2, <4>1, <4>2 DEF Covers
      <3> HIDE DEF last
      <3> QED
        BY <1>4, <3>1, <3>4, <3>5 DEF Owed
    <2>2. CASE ~SameRun(s, owner)
      <3>1. segments'[s] = Append(segs, new)
        BY <1>2, <2>2 DEF LInv, IInv, TypeOK
      <3>2. /\ Len(segments'[s]) = n + 1
            /\ \A i \in 1..n : segments'[s][i] = segs[i]
            /\ segments'[s][n + 1] = new
        <4>1. new \in Segment
          BY <1>1, <1>2 DEF Segment
        <4> HIDE DEF new
        <4> QED
          BY <1>1, <3>1, <4>1, AppendProperties
      <3>3. \A p \in (1..MaxGeneration) \X Owner : Covers(new, p) <=> p = pair
        BY <1>2, <1>5 DEF Covers
      <3>4. \A i \in 1..(n + 1) : i = n + 1 \/ i \in 1..n
        BY <1>1
      <3>5. n + 1 \in 1..(n + 1) /\ \A i \in 1..n : i \in 1..(n + 1)
        BY <1>1
      <3> HIDE DEF new
      <3> QED
        BY <1>4, <3>2, <3>3, <3>4, <3>5 DEF Owed
    <2> QED
      BY <2>1, <2>2
  <1>7. Batch(s)' = Batch(s)
    <2>1. ASSUME NEW t \in Thread, InProvider(t, s)
          PROVE  ~(turn <= call[t].captured)
      <3>1. call[t].captured = segs[1].end /\ segs # << >>
        BY <2>1, BatchIsFirst
      <3>2. segs[1].end \in Nat /\ segs[1].end <= generation[s]
        BY <1>1, <3>1 DEF Segment
      <3> QED
        BY <1>1, <3>1, <3>2
    <2> HIDE DEF turn
    <2>2. \A q \in Owed(s)' :
            (\E t \in Thread : InProvider(t, s) /\ q[1] <= call[t].captured) => q \in Owed(s)
      BY <1>6, <2>1
    <2> QED
      BY <1>2, <1>6, <2>2 DEF Batch, InProvider
  <1>8. \A r \in Session \ {s} : Owed(r)' = Owed(r) /\ Batch(r)' = Batch(r)
    <2>1. \A r \in Session \ {s} : segments'[r] = segments[r]
      BY <1>2 DEF LInv, IInv, TypeOK
    <2> QED
      BY <1>2, <2>1, OtherRows DEF InProvider
  <1> HIDE DEF turn, owner, pair
  <1>9. /\ [r \in Session |-> Owed(r)]' =
             [[r \in Session |-> Owed(r)] EXCEPT ![s] = Owed(s) \union {pair}]
        /\ [r \in Session |-> Batch(r)]' = [r \in Session |-> Batch(r)]
    BY <1>6, <1>7, <1>8
  <1> QED
    BY <1>1, <1>2, <1>3, <1>9 DEF Ledger!Complete, pair, Owner

(* A capture starts the extraction of the first segment, by its owner or,  *)
(* when nobody owns it, by the agent that adopts it.                       *)
LEMMA CaptureStarts ==
  ASSUME LInv, NEW t \in Thread, NEW s \in Session, NEW a \in Owner, Capture(t, s, a),
         call[t].step # "provider"
  PROVE  Ledger!Start(s)
  <1> DEFINE segs == segments[s]
             first == segs[1]
             oldest == {p \in Owed(s) : p[1] <= first.end}
  <1>1. PICK k \in Capturable(s, a) :
          LET owner == EffectiveAgent(s, segs[k], a)
          IN  /\ segments' = [segments EXCEPT ![s][k].agent = owner]
              /\ call' = [call EXCEPT ![t] =
                   [step |-> "provider", sid |-> s, agent |-> owner, captured |-> segs[k].end]]
    BY DEF Capture
  <1> DEFINE owner == EffectiveAgent(s, segs[k], a)
  <1>2. /\ segs \in Seq(Segment)
        /\ Tiles(segs, committed[s], generation[s])
        /\ committed[s] \in Nat /\ generation[s] \in Nat
    BY DEF LInv, IInv, TypeOK, SegmentsTile
  <1>3. k \in 1..Len(segs) /\ owner # NoAgent /\ k \in FirstUncommitted(segs, committed[s])
    BY <1>1 DEF Capturable, FirstUncommitted
  <1>4. segs # << >>
    BY <1>2, <1>3, EmptySeq
  <1>5. k = 1
    BY <1>2, <1>3, <1>4, FirstIsUncommitted
  <1>6. /\ first \in Segment /\ first.end \in 1..MaxGeneration
        /\ \A p \in Owed(s) : p[1] <= first.end <=> Covers(first, p)
        /\ \A p \in Owed(s) : p[1] \in 1..MaxGeneration /\ p[2] \in Owner /\ p = <<p[1], p[2]>>
        /\ <<first.end, first.agent>> \in Owed(s)
    BY <1>4, OldestIsFirst
  <1>7. owner \in Agent /\ (first.agent # NoAgent => owner = first.agent)
    BY <1>3, <1>5, <1>6 DEF EffectiveAgent, Segment, Owner, LInv, IInv, TypeOK
  <1>8. segments' = [segments EXCEPT ![s] = [segs EXCEPT ![1].agent = owner]]
    BY <1>1, <1>5
  <1>9. call' = [call EXCEPT ![t] =
           [step |-> "provider", sid |-> s, agent |-> owner, captured |-> first.end]]
    BY <1>1, <1>5
  <1> HIDE DEF owner
  <1>10. /\ Len(segments'[s]) = Len(segs)
         /\ \A j \in 1..Len(segs) :
              /\ segments'[s][j].start = segs[j].start
              /\ segments'[s][j].end = segs[j].end
              /\ segments'[s][j].agent = IF j = 1 THEN owner ELSE segs[j].agent
    <2>1. segments'[s] = [segs EXCEPT ![1].agent = owner]
      BY <1>8 DEF LInv, IInv, TypeOK
    <2>2. owner \in Owner /\ 1 \in 1..Len(segs)
      BY <1>3, <1>5, <1>7 DEF Owner
    <2> HIDE DEF segs
    <2> QED
      BY <1>2, <2>1, <2>2, AdoptTiles
  <1>11. oldest # {} /\ \A p \in oldest : p[2] = first.agent
    <2>1. first.end <= first.end
      BY <1>6
    <2> HIDE DEF first
    <2> QED
      BY <1>6, <2>1 DEF Covers
  <1>12. \A j \in 1..Len(segs), p \in oldest : j # 1 => ~Covers(segs[j], p)
    <2>1. \A j \in 1..Len(segs) : j # 1 => first.end < segs[j].start
      BY <1>2, <1>3, <1>5 DEF Tiles
    <2>2. \A j \in 1..Len(segs) : segs[j] \in Segment
      BY <1>2, ElementOfSeq
    <2>3. \A j \in 1..Len(segs) : segs[j].start \in Int
      BY <2>2 DEF Segment
    <2> HIDE DEF first
    <2> QED
      BY <1>6, <2>1, <2>3 DEF Covers
  <1>13. Owed(s)' = (Owed(s) \ oldest) \union {<<p[1], owner>> : p \in oldest}
    <2> HIDE DEF segs, first, oldest
    <2>1. ASSUME NEW p \in Owed(s)'
          PROVE  p \in (Owed(s) \ oldest) \union {<<q[1], owner>> : q \in oldest}
      <3>1. PICK j \in 1..Len(segs) : Covers(segments'[s][j], p)
        BY <1>10 DEF Owed
      <3>2. p \in (1..MaxGeneration) \X Owner /\ p = <<p[1], p[2]>>
        BY DEF Owed
      <3>3. CASE j = 1
        <4> DEFINE q == <<p[1], first.agent>>
        <4>1. Covers(first, q) /\ p[2] = owner /\ p[1] <= first.end
          BY <1>10, <3>1, <3>3 DEF Covers, first
        <4>2. q \in (1..MaxGeneration) \X Owner
          BY <1>6, <3>2 DEF Segment
        <4>3. q \in Owed(s)
          BY <3>3, <4>1, <4>2 DEF Owed, first, segs
        <4>4. q \in oldest /\ p = <<q[1], owner>>
          BY <3>2, <4>1, <4>3 DEF oldest
        <4> QED
          BY <4>4
      <3>4. CASE j # 1
        <4>1. Covers(segs[j], p)
          BY <1>10, <3>1, <3>4 DEF Covers
        <4> QED
          BY <1>12, <3>2, <3>4, <4>1 DEF Owed, segs
      <3> QED
        BY <3>3, <3>4
    <2>2. ASSUME NEW p \in Owed(s), p \notin oldest
          PROVE  p \in Owed(s)'
      <3>1. PICK j \in 1..Len(segs) : Covers(segs[j], p)
        BY DEF Owed, segs
      <3>2. j # 1
        BY <1>6, <2>2, <3>1 DEF oldest, first
      <3>3. Covers(segments'[s][j], p)
        BY <1>10, <3>1, <3>2 DEF Covers
      <3> QED
        BY <1>10, <3>3 DEF Owed
    <2>3. ASSUME NEW q \in oldest
          PROVE  <<q[1], owner>> \in Owed(s)'
      <3> DEFINE p == <<q[1], owner>>
      <3>1. q \in Owed(s) /\ q[1] \in 1..MaxGeneration /\ Covers(first, q)
        BY <1>6 DEF oldest
      <3>2. 1 \in 1..Len(segs)
        BY <1>3, <1>5
      <3>3. Covers(segments'[s][1], p)
        BY <1>10, <3>1, <3>2 DEF Covers, first
      <3>4. p \in (1..MaxGeneration) \X Owner
        BY <1>7, <3>1 DEF Owner
      <3> QED
        BY <1>10, <3>2, <3>3, <3>4 DEF Owed
    <2> QED
      BY <2>1, <2>2, <2>3
  <1>14. Batch(s) = {}
    BY IdleBatch DEF Capture, Free, LInv, IInv, SingleFlight
  <1>15. /\ \A u \in Thread : InProvider(u, s)' <=> u = t
         /\ call'[t].captured = first.end
    BY <1>9 DEF Capture, Free, LInv, IInv, TypeOK, SingleFlight, InProvider
  <1>16. Batch(s)' = {p[1] : p \in oldest}
    <2>1. Batch(s)' = {p[1] : p \in {q \in Owed(s)' : q[1] <= first.end}}
      BY <1>15 DEF Batch
    <2>2. {q \in Owed(s)' : q[1] <= first.end} = {<<p[1], owner>> : p \in oldest}
      <3> HIDE DEF first
      <3> QED
        BY <1>13
    <2> HIDE DEF oldest
    <2>3. ASSUME NEW q \in oldest PROVE q[1] \in Batch(s)'
      <3>1. <<q[1], owner>>[1] = q[1]
        OBVIOUS
      <3> QED
        BY <2>1, <2>2, <3>1
    <2>4. ASSUME NEW n \in Batch(s)' PROVE n \in {p[1] : p \in oldest}
      BY <2>1, <2>2
    <2> QED
      BY <2>3, <2>4
  <1>17. \A r \in Session \ {s} : Owed(r)' = Owed(r) /\ Batch(r)' = Batch(r)
    <2>1. \A r \in Session \ {s} : segments'[r] = segments[r]
      BY <1>8 DEF LInv, IInv, TypeOK
    <2>2. \A u \in Thread, r \in Session \ {s} :
            /\ InProvider(u, r)' <=> InProvider(u, r)
            /\ InProvider(u, r) => call'[u].captured = call[u].captured
      BY <1>9 DEF LInv, IInv, TypeOK, InProvider
    <2> QED
      BY <2>1, <2>2, OtherRows
  <1> HIDE DEF first, oldest
  <1>18. /\ [r \in Session |-> Owed(r)]' =
              [[r \in Session |-> Owed(r)] EXCEPT ![s] =
                 (Owed(s) \ oldest) \union {<<p[1], owner>> : p \in oldest}]
         /\ [r \in Session |-> Batch(r)]' =
              [[r \in Session |-> Batch(r)] EXCEPT ![s] = {p[1] : p \in oldest}]
    BY <1>13, <1>16, <1>17
  <1>19. (\A p \in oldest : p[2] = owner) \/ (\A p \in oldest : p[2] = NoAgent)
    BY <1>7, <1>11
  <1> QED
    BY ZenonT(60), <1>6, <1>7, <1>11, <1>14, <1>18, <1>19 DEF Ledger!Start, oldest

(* A success takes the batch out of the ledger.                            *)
LEMMA SuccessSucceeds ==
  ASSUME LInv, NEW t \in Thread, CommitSucceeded(t)
  PROVE  \E s \in Session : Ledger!Succeed(s)
  <1>0. PICK s \in Session : s = call[t].sid
    BY CommitSucceededPreserves DEF LInv
  <1> DEFINE segs == segments[s]
             first == segs[1]
             rest == SubSeq(segs, 2, Len(segs))
  <1>1. segments' = [segments EXCEPT ![s] = rest]
    BY <1>0, CommitSucceededPreserves DEF LInv
  <1>2. call' = [call EXCEPT ![t] = NoCall] /\ InProvider(t, s)
    BY <1>0 DEF CommitSucceeded, InProvider
  <1>3. /\ segs # << >> /\ Batch(s) # {}
        /\ Batch(s) = {p[1] : p \in {q \in Owed(s) : q[1] <= first.end}}
    BY <1>2, BatchIsFirst
  <1>4. /\ \A p \in Owed(s) : p[1] <= first.end <=> Covers(first, p)
        /\ \A p \in Owed(s) : p[1] \in 1..MaxGeneration
        /\ first \in Segment
    BY <1>3, OldestIsFirst
  <1>5. /\ segs \in Seq(Segment) /\ Tiles(segs, committed[s], generation[s])
        /\ Len(segs) \in Nat \ {0} /\ \A i \in 1..Len(segs) : segs[i] \in Segment
    BY <1>3, EmptySeq, ElementOfSeq DEF LInv, IInv, TypeOK, SegmentsTile
  <1>6. /\ segments'[s] = rest
        /\ Len(rest) = Len(segs) - 1
        /\ \A i \in 1..(Len(segs) - 1) : rest[i] = segs[i + 1]
    <2>1. \A i \in 2..Len(segs) : segs[i] \in Segment
      BY <1>5
    <2>2. /\ Len(rest) = IF 2 <= Len(segs) THEN Len(segs) - 2 + 1 ELSE 0
          /\ \A i \in 1..(Len(segs) - 2 + 1) : rest[i] = segs[2 + i - 1]
      BY <1>5, <2>1, SubSeqProperties
    <2>3. segments'[s] = rest
      BY <1>1 DEF LInv, IInv, TypeOK
    <2> HIDE DEF rest
    <2>4. \A n \in Nat \ {0} : n - 2 + 1 = n - 1 /\ (~(2 <= n) => n - 1 = 0)
      OBVIOUS
    <2>5. \A i \in 1..(Len(segs) - 1) : 2 + i - 1 = i + 1
      BY <1>5
    <2> HIDE DEF segs
    <2> QED
      BY <1>5, <2>2, <2>3, <2>4, <2>5
  <1>7. Owed(s)' = {p \in Owed(s) : ~(p[1] <= first.end)}
    <2> HIDE DEF rest, segs, first
    <2>1. ASSUME NEW p \in Owed(s)' PROVE p \in Owed(s) /\ ~(p[1] <= first.end)
      <3>1. PICK i \in 1..(Len(segs) - 1) : Covers(rest[i], p)
        BY <1>6 DEF Owed
      <3>2. i + 1 \in 1..Len(segs) /\ i + 1 # 1 /\ Covers(segs[i + 1], p)
        BY <1>5, <1>6, <3>1
      <3>3. p \in Owed(s) /\ p[1] \in Int
        BY <3>2 DEF Owed, segs
      <3>4. first.end < segs[i + 1].start /\ segs[i + 1].start \in Int /\ first.end \in Int
        BY SMTT(60), <1>4, <1>5, <3>2 DEF Tiles, Segment, first
      <3> QED
        BY <3>2, <3>3, <3>4 DEF Covers
    <2>2. ASSUME NEW p \in Owed(s), ~(p[1] <= first.end) PROVE p \in Owed(s)'
      <3>1. PICK j \in 1..Len(segs) : Covers(segs[j], p)
        BY DEF Owed, segs
      <3>2. j # 1
        BY <1>4, <2>2, <3>1 DEF first
      <3>3. j - 1 \in 1..(Len(segs) - 1) /\ (j - 1) + 1 = j
        BY <1>5, <3>2
      <3>4. Covers(rest[j - 1], p)
        BY <1>6, <3>1, <3>3
      <3> QED
        BY <1>6, <3>3, <3>4 DEF Owed
    <2> QED
      BY <2>1, <2>2
  <1>8. Owed(s)' = {p \in Owed(s) : p[1] \notin Batch(s)}
    <2>1. \A p \in Owed(s) : p[1] <= first.end <=> p[1] \in Batch(s)
      <3> HIDE DEF first
      <3>1. ASSUME NEW p \in Owed(s), p[1] \in Batch(s) PROVE p[1] <= first.end
        BY <1>3, <3>1
      <3> QED
        BY <1>3, <3>1
    <2> QED
      BY <1>7, <2>1
  <1>9. /\ \A u \in Thread : ~InProvider(u, s)'
        /\ \A u \in Thread, r \in Session \ {s} :
             /\ InProvider(u, r)' <=> InProvider(u, r)
             /\ InProvider(u, r) => call'[u].captured = call[u].captured
    BY <1>2 DEF LInv, IInv, TypeOK, SingleFlight, InProvider, NoCall
  <1>10. Batch(s)' = {}
    BY <1>9 DEF Batch
  <1>11. \A r \in Session \ {s} : Owed(r)' = Owed(r) /\ Batch(r)' = Batch(r)
    <2>1. \A r \in Session \ {s} : segments'[r] = segments[r]
      BY <1>1 DEF LInv, IInv, TypeOK
    <2> QED
      BY <1>9, <2>1, OtherRows
  <1>12. /\ [r \in Session |-> Owed(r)]' =
              [[r \in Session |-> Owed(r)] EXCEPT ![s] = {p \in Owed(s) : p[1] \notin Batch(s)}]
         /\ [r \in Session |-> Batch(r)]' = [[r \in Session |-> Batch(r)] EXCEPT ![s] = {}]
    BY <1>8, <1>10, <1>11
  <1> QED
    BY <1>3, <1>12 DEF Ledger!Succeed

(* A refusal leaves every turn owed.                                       *)
LEMMA FailureRefuses ==
  ASSUME LInv, NEW t \in Thread, CommitFailed(t)
  PROVE  \E s \in Session : Ledger!Refuse(s)
  <1>1. PICK s \in Session : InProvider(t, s)
    BY DEF CommitFailed, LInv, IInv, TypeOK, Call, NoCall, InProvider
  <1>2. Batch(s) # {}
    BY <1>1, BatchIsFirst
  <1>3. segments' = segments /\ call' = [call EXCEPT ![t] = NoCall]
    BY DEF CommitFailed
  <1>4. /\ \A u \in Thread : ~InProvider(u, s)'
        /\ \A u \in Thread, r \in Session \ {s} :
             /\ InProvider(u, r)' <=> InProvider(u, r)
             /\ InProvider(u, r) => call'[u].captured = call[u].captured
    BY <1>1, <1>3 DEF LInv, IInv, TypeOK, SingleFlight, InProvider, NoCall
  <1>5. Owed(s)' = Owed(s) /\ Batch(s)' = {}
    BY <1>3, <1>4 DEF Owed, Batch
  <1>6. \A r \in Session \ {s} : Owed(r)' = Owed(r) /\ Batch(r)' = Batch(r)
    BY <1>3, <1>4, OtherRows
  <1>7. /\ [r \in Session |-> Owed(r)]' = [r \in Session |-> Owed(r)]
        /\ [r \in Session |-> Batch(r)]' = [[r \in Session |-> Batch(r)] EXCEPT ![s] = {}]
    BY <1>5, <1>6
  <1> QED
    BY <1>2, <1>7 DEF Ledger!Refuse

LEMMA InitMaps == Init => Ledger!LedgerInit
  <1> SUFFICES ASSUME Init PROVE Ledger!LedgerInit
    OBVIOUS
  <1>1. ASSUME NEW s \in Session PROVE Owed(s) = {} /\ Batch(s) = {}
    <2>1. Len(segments[s]) = 0
      BY EmptySeq DEF Init
    <2> QED
      BY <2>1 DEF Owed, Batch
  <1> QED
    BY <1>1 DEF Ledger!LedgerInit

LEMMA NextMaps ==
  ASSUME LInv, IInv', [Next]_vars
  PROVE  [Ledger!LedgerNext]_(Ledger!ledgerVars)
  <1>1. ASSUME NEW s \in Session, NEW a \in Owner, MarkTurnCompleted(s, a)
        PROVE  Ledger!LedgerNext
    BY <1>1, MarkCompletes DEF Ledger!LedgerNext
  <1>2. ASSUME NEW t \in Thread, NEW s \in Session, NEW a \in Owner, BeginCommit(t, s, a)
        PROVE  Ledger!LedgerNext
    BY <1>2, CaptureStarts DEF BeginCommit, NoCall, Ledger!LedgerNext
  <1>3. ASSUME NEW t \in Thread, ResumeCommit(t)
        PROVE  Ledger!LedgerNext
    <2>1. call[t].sid \in Session /\ call[t].agent \in Owner /\ call[t].step # "provider"
      BY <1>3 DEF ResumeCommit, LInv, IInv, TypeOK, Call, NoCall
    <2> QED
      BY <1>3, <2>1, CaptureStarts DEF ResumeCommit, Ledger!LedgerNext
  <1>4. ASSUME NEW t \in Thread, CommitFailed(t)
        PROVE  Ledger!LedgerNext
    BY <1>4, FailureRefuses DEF Ledger!LedgerNext
  <1>5. ASSUME NEW t \in Thread, CommitSucceeded(t)
        PROVE  Ledger!LedgerNext
    BY <1>5, SuccessSucceeds DEF Ledger!LedgerNext
  <1>6. ASSUME NEW s \in Session, DiscardSession(s)
        PROVE  UNCHANGED Ledger!ledgerVars
    <2>1. segments' = segments /\ call' = call
      BY <1>6, DiscardKeepsSegments DEF DiscardSession, LInv
    <2> QED
      BY <2>1, LedgerUntouched DEF InProvider
  <1>7. ASSUME NEW t \in Thread, NEW s \in Session, NEW a \in Owner, WaitForCommit(t, s, a)
        PROVE  UNCHANGED Ledger!ledgerVars
    <2>1. /\ segments' = segments /\ call[t] = NoCall
          /\ call' = [call EXCEPT ![t] =
               [step |-> "waiting", sid |-> s, agent |-> a, captured |-> 0]]
      BY <1>7 DEF WaitForCommit
    <2>2. \A u \in Thread, r \in Session :
            /\ InProvider(u, r)' <=> InProvider(u, r)
            /\ InProvider(u, r) => call'[u].captured = call[u].captured
      BY <2>1 DEF InProvider, NoCall, LInv, IInv, TypeOK
    <2> QED
      BY <2>1, <2>2, LedgerUntouched
  <1>8. ASSUME NEW t \in Thread, AbandonCommit(t)
        PROVE  UNCHANGED Ledger!ledgerVars
    <2>1. /\ segments' = segments /\ call[t].step = "waiting"
          /\ call' = [call EXCEPT ![t] = NoCall]
      BY <1>8 DEF AbandonCommit
    <2>2. \A u \in Thread, r \in Session :
            /\ InProvider(u, r)' <=> InProvider(u, r)
            /\ InProvider(u, r) => call'[u].captured = call[u].captured
      BY <2>1 DEF InProvider, NoCall, LInv, IInv, TypeOK
    <2> QED
      BY <2>1, <2>2, LedgerUntouched
  <1>9. ASSUME UNCHANGED <<segments, call>>
        PROVE  UNCHANGED Ledger!ledgerVars
    BY <1>9, LedgerUntouched DEF InProvider
  <1> QED
    BY <1>1, <1>2, <1>3, <1>4, <1>5, <1>6, <1>7, <1>8, <1>9
       DEF Next, vars, RegisterAgent, UnregisterAgent, RecordOwnerProfileHome

(* The bookkeeping of api/session_lifecycle.py keeps the promise of the    *)
(* ledger: every step of it records a turn, starts, ends or refuses an     *)
(* extraction as the ledger allows, or leaves the ledger alone.            *)
THEOREM LedgerImplemented == Spec => ImplementsLedger
  <1>1. Init => LInv
    BY InitEstablishes, LifecycleAssumption DEF LInv, Bounded, Init
  <1>2. LInv /\ [Next]_vars => LInv'
    BY NextPreserves, BoundKept DEF LInv
  <1>3. LInv /\ LInv' /\ [Next]_vars => [Ledger!LedgerNext]_(Ledger!ledgerVars)
    BY NextMaps DEF LInv
  <1> QED
    BY <1>1, <1>2, <1>3, InitMaps, PTL DEF Spec, ImplementsLedger, Ledger!LedgerSpec
=============================================================================
