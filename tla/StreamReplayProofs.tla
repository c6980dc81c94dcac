-------------------------- MODULE StreamReplayProofs --------------------------
(***************************************************************************)
(* Proofs about StreamReplay, for any number of tabs, connections and      *)
(* rows and any capacity of the buffer.                                    *)
(*                                                                         *)
(* The inductive invariant Inv says what the channel's buffer, the queues  *)
(* and the replays hold, in terms of the journal alone: a run of           *)
(* consecutive rows (RunOf) that ends with the last row pushed, and that   *)
(* begins where the replay of the connection stops.  PInv is about the     *)
(* journal and its producers, CInv about the channel, DInv about the       *)
(* connections and the tabs behind them.  A Stop may move the channel's    *)
(* last id one row back; then no row follows (Frozen), and so no row is    *)
(* lost by it.                                                             *)
(***************************************************************************)
EXTENDS StreamReplay, SequenceTheorems, FiniteSetTheorems, TLAPS

RowKind == {"token", "steer", "done", "end"}
LastRow == {"done", "end"}

-----------------------------------------------------------------------------
(* The producers.                                                          *)

WantsToken == fly["worker"].at = "wants" /\ fly["worker"].kind = "token"
Wants == IF WantsToken THEN 1 ELSE 0

\* A row is on disk that has not entered the channel, or is not noted yet.
Behind == \E p \in Producer : fly[p].at = "appended" /\ fly[p].id # 0
Level == IF Behind THEN Len(journal) - 1 ELSE Len(journal)
Noted == IF \E p \in Producer : Publishing(p) /\ fly[p].id # 0
         THEN Len(journal) - 1 ELSE Len(journal)

\* From its note on, a Stop may have moved the channel's last id back.
Stopped == cancelled \/ fly["stop"].at \in {"wants", "appended", "casting", "noting"}

\* No row will follow.
Frozen == Stopped /\ ~WantsToken /\ ~Behind

JournalOK ==
  /\ journal \in Seq(RowKind)
  /\ Has("done") => saved
  /\ Has("end") => Has("done")
  /\ \A m, n \in 1..Len(journal) : m < n /\ journal[m] \in LastRow => journal[n] \in LastRow
  /\ \A m, n \in 1..Len(journal) : m < n => journal[m] # "end"
  /\ Len(journal) <= MaxRows + 1 + (IF Has("done") THEN 1 ELSE 0) + (IF Has("end") THEN 1 ELSE 0)
  /\ alive \in BOOLEAN /\ raised \in BOOLEAN /\ saved \in BOOLEAN
  /\ returned \in BOOLEAN /\ cancelled \in BOOLEAN
  /\ raised => ~alive
  /\ cancelled => raised /\ ~saved

PubRec == [at : {"idle", "raises", "reads", "notes", "wants", "appended", "casting", "noting"},
           kind : Kind, id : Row, to : SUBSET Conn]

PublishingOK(p) ==
  Publishing(p) =>
    \/ fly[p].kind = "cancel" /\ fly[p].id = 0 /\ cancelled
    \/ /\ fly[p].kind \in RowKind
       /\ fly[p].id = Len(journal) /\ Len(journal) # 0 /\ journal[Len(journal)] = fly[p].kind

WorkerOK ==
  LET w == fly["worker"]
  IN /\ w.at \in {"idle", "wants", "appended", "casting", "noting"}
     /\ w.at # "idle" => w.kind \in {"token", "done", "end", "cancel"}
     /\ w.at = "wants" => w.id = 0
     /\ WantsToken => ~saved /\ Len(journal) <= MaxRows
     /\ w.at = "wants" /\ w.kind = "done" => saved /\ ~Terminal
     /\ w.at = "wants" /\ w.kind = "end" => Has("done")
     /\ w.at # "idle" /\ w.kind = "cancel" => raised /\ ~saved

SteerOK ==
  /\ fly["steer"].at \in {"idle", "appended", "casting", "noting"}
  /\ fly["steer"].at # "idle" => alive /\ fly["steer"].kind = "steer"

StopOK ==
  LET s == fly["stop"]
  IN /\ s.at # "idle" => ~alive
     /\ s.at \in {"reads", "notes", "wants", "appended", "casting", "noting"} => raised
     /\ s.at \in {"notes", "wants", "appended", "casting", "noting"} => s.kind = "cancel" /\ ~saved
     /\ s.at # "notes" => s.id = 0
     /\ s.at = "notes" /\ s.id # 0 => s.id <= Level /\ Len(journal) + Wants <= s.id + 1

ProducersOK ==
  /\ fly \in [Producer -> PubRec]
  /\ \A p, q \in Producer : Publishing(p) /\ Publishing(q) => p = q
  /\ \A p \in Producer : PublishingOK(p)
  /\ WorkerOK /\ SteerOK /\ StopOK
  /\ side \in Row /\ (side = 0 \/ side = Noted)

PInv == JournalOK /\ ProducersOK

-----------------------------------------------------------------------------
(* The channel and the queues.                                             *)

\* A frame with an id is that row of the journal; the other is a Stop's.
Genuine(frame) ==
  /\ frame \in Frames
  /\ frame.id = 0 => frame.kind = "cancel" /\ cancelled
  /\ frame.id # 0 => frame.id \in 1..Len(journal) /\ frame.kind = journal[frame.id]

\* The rows of q are those from lo to hi, in order.
RunOf(q, lo, hi) ==
  /\ \A i \in 1..Len(q) : Genuine(q[i]) /\ (q[i].id # 0 => q[i].id \in lo..hi)
  /\ \A i, j \in 1..Len(q) : i < j /\ q[i].id # 0 /\ q[j].id # 0 => q[i].id < q[j].id
  /\ \A n \in lo..hi : \E i \in 1..Len(q) : q[i].id = n

LastOK ==
  \/ chan.last = Level
  \/ chan.last = Level - 1 /\ Frozen

ChannelOK ==
  /\ chan \in [subs : SUBSET Conn, buffer : Seq(Frames), holed : BOOLEAN, last : Row]
  /\ Len(chan.buffer) <= OfflineMax
  /\ LastOK
  /\ \E lo \in 1..(Level + 1) : RunOf(chan.buffer, lo, Level)

CInv == ChannelOK

-----------------------------------------------------------------------------
(* The tabs and the handlers of their connections.                         *)

Held(c) == \E p \in Producer : fly[p].at = "casting" /\ fly[p].id # 0 /\ c \in fly[p].to
Pushed(c) == IF Held(c) THEN Len(journal) - 1 ELSE Level

Exempt(t) == Blind(t) \/ Stopped

IsTop(t, n) == n \in {0} \union shown[t] /\ \A m \in shown[t] : m <= n

\* A tab that may be served again: not told yet, or told and still connected.
Watched(t) == t \notin told \/ \E c \in Conn : conn[c].at \in Open /\ conn[c].tab = t

\* It has not seen "end", and one that has seen "done" was told.
TabOK(t) ==
  /\ Watched(t) =>
       /\ IsTop(t, cursor[t])
       /\ cursor[t] # 0 => /\ cursor[t] <= Len(journal) /\ journal[cursor[t]] # "end"
                           /\ journal[cursor[t]] = "done" => t \in told
       /\ alive /\ ~Exempt(t) => cursor[t] <= Level
  /\ cursor[t] # 0 => \E c \in Conn : conn[c].tab = t
  /\ twice[t] = {} \/ Exempt(t)

Snap == [holed : BOOLEAN, first : Row, last : Row]
ConnRec == [at : Open \union {"new", "left"}, tab : Tab \union {None}, after : Row \union {None},
            snap : Snap \union {None}, blind : BOOLEAN, bound : Row, todo : Seq(Frames)]

ShapeOK ==
  /\ conn \in [Conn -> ConnRec]
  /\ queue \in [Conn -> Seq(Frames)]
  /\ cursor \in [Tab -> Row] /\ shown \in [Tab -> SUBSET Row] /\ twice \in [Tab -> SUBSET Row]
  /\ told \subseteq Tab
  /\ \A c \in Conn : conn[c].at = "new" => conn[c] = Unused
  /\ \A c \in Conn : conn[c].at \in Open => conn[c].tab \in Tab
  /\ \A c, d \in Conn : conn[c].at \in Open /\ conn[d].at \in Open /\ conn[c].tab = conn[d].tab => c = d
  /\ \A c \in chan.subs : conn[c].at \in {"subscribed", "serving", "left"}
  /\ \A c \in Conn : conn[c].at = "subscribed" => c \in chan.subs
  /\ \A p \in Producer : \A c \in fly[p].to : conn[c].at = "left" \/ c \in chan.subs

AskedOK(c) ==
  conn[c].at \in {"peeked", "subscribed"} =>
    /\ conn[c].after = cursor[conn[c].tab] \/ (conn[c].after = None /\ cursor[conn[c].tab] = 0)
    /\ conn[c].at = "peeked" => ~conn[c].blind
    /\ conn[c].at = "peeked" /\ conn[c].after # None /\ ~Exempt(conn[c].tab) => conn[c].after <= Level

SnapOK(c) ==
  LET snap == conn[c].snap
  IN conn[c].at = "subscribed" =>
       /\ snap \in Snap /\ snap.last <= Level
       /\ ~Exempt(conn[c].tab) => snap.last # 0 /\ (conn[c].after # None => conn[c].after <= snap.last)
       /\ \E lo \in 1..(Pushed(c) + 1) :
            /\ RunOf(queue[c], lo, Pushed(c))
            /\ snap.first # 0 => lo = snap.first /\ lo <= snap.last + 1
            /\ lo <= snap.last + 1 \/ (Frozen /\ lo = Len(journal) + 1)
            /\ snap.first = 0 /\ ~Exempt(conn[c].tab) => lo = snap.last + 1

Reaches(c, n) == n <= cursor[conn[c].tab] \/ \E i \in 1..Len(conn[c].todo) : n <= conn[c].todo[i].id
Doomed(c) == \E i \in 1..Len(conn[c].todo) : Ends(conn[c].todo[i])

\* What the replay still has to send are the rows that follow the tab's.
TodoOK(c) ==
  LET todo == conn[c].todo
      t == conn[c].tab
  IN /\ conn[c].after = None => todo = <<>>
     /\ \E from \in 0..cursor[t] :
          /\ ~Exempt(t) => from = cursor[t]
          /\ \A i \in 1..Len(todo) :
               \/ i = Len(todo) /\ todo[i].kind \in {"recover", "interrupted"}
               \/ /\ Genuine(todo[i]) /\ todo[i].id = from + i
                  /\ alive /\ ~Exempt(t) => todo[i].id <= Level

\* What the queue holds follows what was replayed, and nothing else.
QueueOK(c) ==
  /\ c \in chan.subs
  /\ Reaches(c, conn[c].bound)
  /\ \E lo \in 1..(Pushed(c) + 1) :
       /\ RunOf(queue[c], lo, Pushed(c))
       /\ \/ Reaches(c, lo - 1)
          \/ Frozen /\ lo = Len(journal) + 1
          \/ conn[c].after = None /\ cursor[conn[c].tab] = 0
       /\ \/ Exempt(conn[c].tab)
          \/ \A n \in Row : Reaches(c, n) => n <= conn[c].bound \/ n < lo

Sending == {"serving", "late"}
ServeOK(c) ==
  /\ conn[c].at \in Sending => TodoOK(c)
  /\ conn[c].at = "serving" => Doomed(c) \/ QueueOK(c)

ConnOK(c) == AskedOK(c) /\ SnapOK(c) /\ ServeOK(c)

DInv ==
  /\ ShapeOK
  /\ \A t \in Tab : TabOK(t)
  /\ \A c \in Conn : ConnOK(c)

-----------------------------------------------------------------------------
(* The operators the model is built from.                                  *)

LEMMA MaxPair ==
  ASSUME NEW a \in Int, NEW b \in Int
  PROVE  Max({a, b}) = IF a >= b THEN a ELSE b
  <1>1. PICK m \in {a, b} : \A y \in {a, b} : m >= y
    OBVIOUS
  <1>2. Max({a, b}) \in {a, b} /\ \A y \in {a, b} : Max({a, b}) >= y
    BY <1>1 DEF Max
  <1> QED
    BY <1>2

LEMMA MinPair ==
  ASSUME NEW a \in Int, NEW b \in Int
  PROVE  Min({a, b}) = IF a <= b THEN a ELSE b
  <1>1. Min({a, b}) \in {a, b} /\ \A y \in {a, b} : Min({a, b}) <= y
    BY DEF Min
  <1> QED
    BY <1>1

LEMMA MaxIs ==
  ASSUME NEW S, S \subseteq Int, NEW n \in S, \A m \in S : m <= n
  PROVE  Max(S) = n
  <1>1. Max(S) \in S /\ \A y \in S : Max(S) >= y
    BY DEF Max
  <1>2. Max(S) >= n /\ Max(S) <= n /\ Max(S) \in Int /\ n \in Int
    BY <1>1
  <1> QED
    BY <1>2

LEMMA Rows0 ==
  /\ MaxRows \in Nat /\ Row \subseteq Nat /\ 0 \in Row
  /\ \A n \in Nat : n <= MaxRows + 4 => n \in Row
  BY ReplayAssumption DEF Row

\* What a new row does to the journal.
LEMMA Grown ==
  ASSUME NEW S, NEW s \in Seq(S), NEW k \in S
  PROVE  /\ Append(s, k) \in Seq(S) /\ s \o <<k>> = Append(s, k)
         /\ Len(s) \in Nat /\ Len(Append(s, k)) = Len(s) + 1
         /\ \A i \in 1..Len(s) : Append(s, k)[i] = s[i]
         /\ Append(s, k)[Len(s) + 1] = k
         /\ \A x : Contains(Append(s, k), x) <=> Contains(s, x) \/ x = k
  <1>1. /\ Append(s, k) \in Seq(S) /\ Len(s) \in Nat /\ Len(Append(s, k)) = Len(s) + 1
        /\ \A i \in 1..Len(s) : Append(s, k)[i] = s[i]
        /\ Append(s, k)[Len(s) + 1] = k
    BY LenProperties
  <1>2. s \o <<k>> = Append(s, k)
    OBVIOUS
  <1>3. ASSUME NEW x PROVE Contains(Append(s, k), x) <=> Contains(s, x) \/ x = k
    <2>1. \A i \in 1..(Len(s) + 1) : i \in 1..Len(s) \/ i = Len(s) + 1
      BY <1>1
    <2>2. 1..Len(s) \subseteq 1..(Len(s) + 1) /\ Len(s) + 1 \in 1..(Len(s) + 1)
      BY <1>1
    <2> QED
      BY <1>1, <2>1, <2>2 DEF Contains
  <1> QED
    BY <1>1, <1>2, <1>3

LEMMA NoRows == \A k : ~Contains(<<>>, k)
  BY DEF Contains

-----------------------------------------------------------------------------
(* The journal and its producers.                                          *)

LEMMA GrowJournal ==
  ASSUME JournalOK, NEW k \in RowKind, journal' = Append(journal, k),
         UNCHANGED <<alive, raised, saved, returned, cancelled>>,
         ~Has("end"),
         k = "end" => Has("done"),
         k = "done" => saved /\ ~Has("done"),
         k \notin LastRow => ~Terminal /\ Len(journal) <= MaxRows
  PROVE  JournalOK'
  <1>1. /\ journal' \in Seq(RowKind) /\ Len(journal) \in Nat /\ Len(journal') = Len(journal) + 1
        /\ \A i \in 1..Len(journal) : journal'[i] = journal[i]
        /\ journal'[Len(journal) + 1] = k
        /\ \A x : Contains(journal', x) <=> Contains(journal, x) \/ x = k
    BY Grown DEF JournalOK
  <1>2. ASSUME NEW m \in 1..Len(journal'), NEW n \in 1..Len(journal'), m < n, journal'[m] \in LastRow
        PROVE  journal'[n] \in LastRow
    <2>1. m \in 1..Len(journal) /\ journal[m] \in LastRow
      BY <1>1, <1>2
    <2>2. Terminal
      BY <2>1 DEF Terminal, Has, Contains, LastRow
    <2>3. CASE n \in 1..Len(journal)
      BY <1>1, <1>2, <2>1, <2>3 DEF JournalOK
    <2>4. CASE n = Len(journal) + 1
      BY <1>1, <2>2, <2>4
    <2> QED
      BY <1>1, <2>3, <2>4
  <1>3. Len(journal') <= MaxRows + 1 + (IF Has("done")' THEN 1 ELSE 0) + (IF Has("end")' THEN 1 ELSE 0)
    BY <1>1, Rows0 DEF JournalOK, Has, Terminal, RowKind, LastRow
  <1>4. (Has("done")' => saved') /\ (Has("end")' => Has("done")')
    BY <1>1 DEF JournalOK, Has, RowKind, LastRow
  <1>5. ASSUME NEW m \in 1..Len(journal'), NEW n \in 1..Len(journal'), m < n
        PROVE  journal'[m] # "end"
    <2>1. m \in 1..Len(journal) /\ journal'[m] = journal[m]
      BY <1>1, <1>5
    <2> QED
      BY <2>1 DEF Has, Contains
  <1> QED
    BY <1>1, <1>2, <1>3, <1>4, <1>5 DEF JournalOK

\* Without a saved answer there is no last row, and ids stay within Row.
LEMMA JournalFacts ==
  ASSUME JournalOK
  PROVE  /\ Len(journal) \in Nat /\ Len(journal) <= MaxRows + 3 /\ Len(journal) \in Row
         /\ Len(journal) + 1 \in Row
         /\ ~saved => ~Has("done") /\ ~Has("end") /\ ~Terminal
         /\ \A i \in 1..Len(journal) : journal[i] \in RowKind
         /\ ~Has("end") => Len(journal) <= MaxRows + 2
         /\ ~Terminal => Len(journal) <= MaxRows + 1
         /\ journal = <<>> <=> Len(journal) = 0
  <1>1. Len(journal) \in Nat /\ \A i \in 1..Len(journal) : journal[i] \in RowKind
    BY LenProperties, ElementOfSeq DEF JournalOK
  <1>2. journal = <<>> <=> Len(journal) = 0
    BY EmptySeq DEF JournalOK
  <1>3. Len(journal) <= MaxRows + 3
    BY <1>1, Rows0 DEF JournalOK
  <1>4. /\ ~Has("end") => Len(journal) <= MaxRows + 2
        /\ ~Terminal => Len(journal) <= MaxRows + 1
    BY <1>1, Rows0 DEF JournalOK, Terminal
  <1> QED
    BY <1>1, <1>2, <1>3, <1>4, Rows0 DEF JournalOK, Terminal

\* What the producers keep when only the worker takes up something to publish.
LEMMA OfferPreserves ==
  ASSUME PInv, NEW k \in {"token", "done", "end", "cancel"}, Idle("worker"), Offer(k),
         UNCHANGED <<run, side>>,
         k = "token" => ~saved /\ ~raised /\ Len(journal) < MaxRows,
         k = "done" => saved /\ ~Terminal,
         k = "end" => Has("done"),
         k = "cancel" => raised /\ ~saved
  PROVE  PInv'
  <1> DEFINE w == [Resting EXCEPT !.at = "wants", !.kind = k]
  <1>1. JournalOK' /\ Len(journal) \in Nat
    BY JournalFacts DEF PInv, JournalOK, Has, run
  <1>2. /\ w \in PubRec /\ w.at = "wants" /\ w.kind = k /\ w.id = 0
    BY Rows0 DEF Resting, PubRec, Kind
  <1>3. fly' = [fly EXCEPT !["worker"] = w]
    BY DEF Offer
  <1> HIDE DEF w
  <1>4. /\ fly' \in [Producer -> PubRec] /\ fly'["worker"] = w
        /\ fly'["steer"] = fly["steer"] /\ fly'["stop"] = fly["stop"]
    BY <1>2, <1>3 DEF PInv, ProducersOK, Producer
  <1>5. /\ ~Publishing("worker") /\ ~Publishing("worker")'
        /\ \A p \in Producer \ {"worker"} : fly'[p] = fly[p] /\ (Publishing(p)' <=> Publishing(p))
    BY <1>2, <1>4 DEF Idle, Publishing, Producer
  <1>6. \A p \in Producer : PublishingOK(p)'
    BY <1>4, <1>5 DEF PInv, ProducersOK, PublishingOK, run
  <1>7. (Behind' <=> Behind) /\ Level' = Level /\ Noted' = Noted
    BY <1>2, <1>4, <1>5 DEF Behind, Level, Noted, Producer, run, Idle
  <1>8. WorkerOK' /\ SteerOK'
    <2>1. UNCHANGED <<journal, alive, raised, saved>>
      BY DEF run
    <2>2. WorkerOK'
      BY <1>1, <1>2, <1>4, <2>1, Rows0 DEF WorkerOK, WantsToken, Terminal, Has
    <2> QED
      BY <1>4, <2>1, <2>2 DEF PInv, ProducersOK, SteerOK
  <1>9. StopOK'
    <2>1. raised => Wants' = Wants
      BY <1>2, <1>4 DEF Wants, WantsToken, Idle
    <2> QED
      BY <1>1, <1>4, <1>7, <2>1 DEF PInv, ProducersOK, StopOK, run
  <1> QED
    BY <1>1, <1>4, <1>5, <1>6, <1>7, <1>8, <1>9 DEF PInv, ProducersOK

LEMMA SaveTurnPreserves ==
  ASSUME PInv, SaveTurn
  PROVE  PInv'
  <1>1. /\ Idle("worker") /\ ~raised /\ ~saved /\ saved' = TRUE
        /\ UNCHANGED <<journal, alive, raised, returned, cancelled, fly, side>>
    BY DEF SaveTurn
  <1>2. JournalOK'
    BY <1>1 DEF PInv, JournalOK, Has
  <1>3. \A p \in Producer : PublishingOK(p)'
    BY <1>1 DEF PInv, ProducersOK, PublishingOK, Publishing
  <1>4. WorkerOK' /\ SteerOK'
    BY <1>1 DEF PInv, ProducersOK, WorkerOK, SteerOK, WantsToken, Idle, Has, Terminal
  <1>5. StopOK'
    BY <1>1 DEF PInv, ProducersOK, StopOK, Level, Behind, Wants, WantsToken
  <1> QED
    BY <1>1, <1>2, <1>3, <1>4, <1>5 DEF PInv, ProducersOK, Publishing, Noted

LEMMA TeardownPreserves ==
  ASSUME PInv, Teardown
  PROVE  PInv'
  <1>1. /\ Idle("worker") /\ Idle("steer") /\ alive' = FALSE /\ side' = 0 /\ returned' = TRUE
        /\ UNCHANGED <<journal, raised, saved, cancelled, fly>>
    BY DEF Teardown
  <1>2. JournalOK'
    BY <1>1 DEF PInv, JournalOK, Has
  <1>3. \A p \in Producer : PublishingOK(p)'
    BY <1>1 DEF PInv, ProducersOK, PublishingOK, Publishing
  <1>4. WorkerOK' /\ SteerOK'
    BY <1>1 DEF PInv, ProducersOK, WorkerOK, SteerOK, WantsToken, Idle, Has, Terminal
  <1>5. StopOK'
    BY <1>1 DEF PInv, ProducersOK, StopOK, Level, Behind, Wants, WantsToken
  <1> QED
    BY <1>1, <1>2, <1>3, <1>4, <1>5, Rows0 DEF PInv, ProducersOK, Publishing

\* The steps of a Stop before it publishes.
LEMMA StopStepPreserves ==
  ASSUME PInv, NEW s \in PubRec, fly' = [fly EXCEPT !["stop"] = s],
         UNCHANGED <<journal, saved, returned, cancelled, side>>,
         alive' \in BOOLEAN, raised' \in BOOLEAN,
         alive' => alive, raised => raised', raised' => ~alive',
         ~Publishing("stop"), s.at \notin {"appended", "casting", "noting"},
         ~Idle("steer") => alive',
         s.at # "idle" => ~alive',
         s.at \in {"reads", "notes", "wants"} => raised',
         s.at \in {"notes", "wants"} => s.kind = "cancel" /\ ~saved,
         s.at # "notes" => s.id = 0,
         s.at = "notes" /\ s.id # 0 => s.id <= Level /\ Len(journal) + Wants <= s.id + 1
  PROVE  PInv'
  <1>1. JournalOK'
    BY DEF PInv, JournalOK, Has
  <1>2. /\ fly' \in [Producer -> PubRec] /\ fly'["stop"] = s
        /\ fly'["steer"] = fly["steer"] /\ fly'["worker"] = fly["worker"]
    BY DEF PInv, ProducersOK, Producer
  <1>3. /\ ~Publishing("stop")'
        /\ \A p \in Producer \ {"stop"} : fly'[p] = fly[p] /\ (Publishing(p)' <=> Publishing(p))
    BY <1>2 DEF Publishing, Producer
  <1>4. \A p \in Producer : PublishingOK(p)'
    BY <1>2, <1>3 DEF PInv, ProducersOK, PublishingOK
  <1>5. (Behind' <=> Behind) /\ Level' = Level /\ Noted' = Noted /\ Wants' = Wants
    BY <1>2, <1>3 DEF Behind, Level, Noted, Producer, Wants, WantsToken, Publishing
  <1>6. WorkerOK' /\ SteerOK'
    BY <1>2 DEF PInv, ProducersOK, WorkerOK, SteerOK, WantsToken, Terminal, Has, Idle
  <1>7. StopOK'
    BY <1>2, <1>5 DEF StopOK
  <1> QED
    BY <1>1, <1>2, <1>3, <1>4, <1>5, <1>6, <1>7 DEF PInv, ProducersOK

LEMMA StopDetachPreserves ==
  ASSUME PInv, StopDetach
  PROVE  PInv'
  <1> DEFINE s == [fly["stop"] EXCEPT !.at = "raises"]
  <1>1. fly["stop"] \in PubRec /\ fly["stop"].id = 0 /\ fly["stop"].at = "idle"
    BY DEF PInv, ProducersOK, Producer, StopOK, StopDetach, Idle
  <1>2. s \in PubRec /\ s.at = "raises" /\ s.id = 0
    BY <1>1 DEF PubRec
  <1>3. /\ fly' = [fly EXCEPT !["stop"] = s] /\ alive' = FALSE /\ raised' = raised
        /\ Idle("steer")
        /\ UNCHANGED <<journal, saved, returned, cancelled, side>>
    BY DEF StopDetach
  <1> HIDE DEF s
  <1>4. ~Publishing("stop") /\ raised \in BOOLEAN
    BY <1>1 DEF Publishing, PInv, JournalOK
  <1> QED
    BY <1>2, <1>3, <1>4, StopStepPreserves

LEMMA StopRaisePreserves ==
  ASSUME PInv, StopRaise
  PROVE  PInv'
  <1> DEFINE s == [fly["stop"] EXCEPT !.at = "reads"]
  <1>1. fly["stop"] \in PubRec /\ fly["stop"].id = 0 /\ fly["stop"].at = "raises" /\ ~alive
    BY DEF PInv, ProducersOK, Producer, StopOK, StopRaise
  <1>2. s \in PubRec /\ s.at = "reads" /\ s.id = 0
    BY <1>1 DEF PubRec
  <1>3. /\ fly' = [fly EXCEPT !["stop"] = s] /\ raised' = TRUE /\ alive' = alive
        /\ UNCHANGED <<journal, saved, returned, cancelled, side>>
    BY DEF StopRaise
  <1> HIDE DEF s
  <1>4. ~Publishing("stop") /\ alive \in BOOLEAN /\ (~Idle("steer") => alive)
    BY <1>1 DEF Publishing, PInv, JournalOK, ProducersOK, SteerOK, Idle
  <1> QED
    BY <1>1, <1>2, <1>3, <1>4, StopStepPreserves

\* The last noted id is at most one row behind, and then no row follows.
LEMMA StopReadsPreserves ==
  ASSUME PInv, StopReads
  PROVE  PInv'
  <1> DEFINE s == IF saved THEN Resting
                  ELSE [Resting EXCEPT !.at = "notes", !.kind = "cancel", !.id = side]
  <1>1. /\ fly["stop"] \in PubRec /\ fly["stop"].at = "reads" /\ ~alive /\ raised
        /\ fly["steer"].at = "idle" /\ side \in Row /\ Len(journal) \in Nat
    BY JournalFacts DEF PInv, ProducersOK, Producer, StopOK, StopReads, SteerOK
  <1>2. /\ s \in PubRec
        /\ s.at \in {"idle", "notes"}
        /\ s.at = "notes" => s.kind = "cancel" /\ ~saved /\ s.id = side
        /\ s.at # "notes" => s.id = 0
    BY <1>1, Rows0 DEF PubRec, Resting, Kind
  <1>3. /\ fly' = [fly EXCEPT !["stop"] = s] /\ alive' = alive /\ raised' = raised
        /\ UNCHANGED <<journal, saved, returned, cancelled, side>>
    BY DEF StopReads, run
  <1> HIDE DEF s
  <1>4. ~Publishing("stop") /\ Idle("steer") /\ alive \in BOOLEAN /\ raised \in BOOLEAN
    BY <1>1 DEF Publishing, Idle, PInv, JournalOK
  <1>5. side # 0 => side <= Level /\ Len(journal) + Wants <= side + 1
    <2>1. side # 0 => side = Noted
      BY DEF PInv, ProducersOK
    <2>2. CASE fly["worker"].at \in {"appended", "casting", "noting"} /\ fly["worker"].id # 0
      <3>1. Noted = Len(journal) - 1 /\ Wants = 0
        BY <2>2 DEF Noted, Publishing, Producer, Wants, WantsToken
      <3> QED
        BY <1>1, <2>1, <3>1 DEF Level
    <2>3. CASE ~(fly["worker"].at \in {"appended", "casting", "noting"} /\ fly["worker"].id # 0)
      <3>1. Noted = Len(journal) /\ Level = Len(journal) /\ Wants \in {0, 1}
        BY <1>1, <2>3 DEF Noted, Level, Behind, Publishing, Producer, Wants
      <3> QED
        BY <1>1, <2>1, <3>1
    <2> QED
      BY <2>2, <2>3
  <1> QED
    BY <1>1, <1>2, <1>3, <1>4, <1>5, StopStepPreserves

LEMMA StopNotesPreserves ==
  ASSUME PInv, StopNotes
  PROVE  PInv'
  <1> DEFINE s == [fly["stop"] EXCEPT !.at = "wants", !.id = 0]
  <1>1. /\ fly["stop"] \in PubRec /\ fly["stop"].at = "notes" /\ ~alive /\ raised
        /\ fly["stop"].kind = "cancel" /\ ~saved
    BY DEF PInv, ProducersOK, Producer, StopOK, StopNotes
  <1>2. s \in PubRec /\ s.at = "wants" /\ s.id = 0 /\ s.kind = "cancel"
    BY <1>1, Rows0 DEF PubRec
  <1>3. /\ fly' = [fly EXCEPT !["stop"] = s] /\ alive' = alive /\ raised' = raised
        /\ UNCHANGED <<journal, saved, returned, cancelled, side>>
    BY <1>1 DEF StopNotes, run, PInv, ProducersOK
  <1> HIDE DEF s
  <1>4. ~Publishing("stop") /\ (~Idle("steer") => alive) /\ alive \in BOOLEAN /\ raised \in BOOLEAN
    BY <1>1 DEF Publishing, PInv, ProducersOK, SteerOK, Idle, JournalOK
  <1> QED
    BY <1>1, <1>2, <1>3, <1>4, StopStepPreserves

-----------------------------------------------------------------------------
(* A publication.                                                          *)

\* Its steps after the append, or its end.
LEMMA MovePreserves ==
  ASSUME PInv, NEW p \in Producer, NEW r \in PubRec, fly' = [fly EXCEPT ![p] = r],
         UNCHANGED run,
         \/ fly[p].at \in {"wants", "noting"} /\ r.at = "idle" /\ r.id = 0
         \/ /\ fly[p].at \in {"appended", "casting"} /\ r.at \in {"casting", "noting"}
            /\ r.kind = fly[p].kind /\ r.id = fly[p].id,
         side' \in Row, side' = 0 \/ side' = Noted'
  PROVE  PInv' /\ Level' \in Level..Len(journal)
  <1>1. JournalOK' /\ Len(journal) \in Nat
    BY JournalFacts DEF PInv, JournalOK, Has, run
  <1>2. /\ fly' \in [Producer -> PubRec] /\ fly'[p] = r
        /\ \A q \in Producer \ {p} : fly'[q] = fly[q] /\ (Publishing(q)' <=> Publishing(q))
    BY DEF PInv, ProducersOK, Publishing
  <1>3. Publishing(p)' => Publishing(p) /\ fly'[p].kind = fly[p].kind /\ fly'[p].id = fly[p].id
    BY <1>2 DEF Publishing
  <1>4. \A q \in Producer : PublishingOK(q)'
    BY <1>2, <1>3 DEF PInv, ProducersOK, PublishingOK, run
  <1>5. \A q, s \in Producer : Publishing(q)' /\ Publishing(s)' => q = s
    BY <1>2, <1>3 DEF PInv, ProducersOK
  <1>6. Behind' => Behind
    BY <1>2 DEF Behind
  <1>7. Level' \in Level..Len(journal) /\ Level \in Int
    BY <1>1, <1>6 DEF Level, run
  <1>8. (WantsToken' => WantsToken) /\ Wants' <= Wants /\ Wants \in Nat /\ Wants' \in Nat
    BY <1>2 DEF WantsToken, Wants, Producer
  <1>9. UNCHANGED <<journal, alive, raised, saved>>
    BY DEF run
  <1>10. WorkerOK'
    BY <1>2, <1>8, <1>9 DEF PInv, ProducersOK, WorkerOK, WantsToken, Terminal, Has, Producer
  <1>11. SteerOK'
    BY <1>2, <1>9 DEF PInv, ProducersOK, SteerOK, Producer
  <1>12. StopOK'
    <2>1. CASE p = "stop"
      BY <1>2, <1>9, <2>1 DEF PInv, ProducersOK, StopOK
    <2>2. CASE p # "stop"
      <3>1. fly'["stop"] = fly["stop"] /\ fly["stop"].id \in Nat
        BY <1>2, <2>2, Rows0 DEF Producer, PInv, ProducersOK, PubRec
      <3> QED
        BY SMTT(60), <1>1, <1>7, <1>8, <1>9, <3>1 DEF PInv, ProducersOK, StopOK
    <2> QED
      BY <2>1, <2>2
  <1> QED
    BY <1>1, <1>2, <1>4, <1>5, <1>7, <1>10, <1>11, <1>12 DEF PInv, ProducersOK

LEMMA RefusePreserves ==
  ASSUME PInv, NEW p \in Producer, Refuse(p)
  PROVE  PInv'
  <1>1. /\ fly[p].at = "wants" /\ fly' = [fly EXCEPT ![p] = Resting]
        /\ UNCHANGED <<run, side>>
    BY DEF Refuse
  <1>2. Resting \in PubRec /\ Resting.at = "idle" /\ Resting.id = 0
    BY Rows0 DEF Resting, PubRec, Kind
  <1>3. side' \in Row /\ (side' = 0 \/ side' = Noted')
    <2>1. \A q \in Producer : (Publishing(q)' <=> Publishing(q)) /\ (Publishing(q) => fly'[q] = fly[q])
      BY <1>1, <1>2 DEF Publishing, PInv, ProducersOK
    <2>2. Noted' = Noted
      BY <1>1, <2>1 DEF Noted, run
    <2> QED
      BY <1>1, <2>2 DEF PInv, ProducersOK
  <1> QED
    BY <1>1, <1>2, <1>3, MovePreserves

LEMMA EnterPreserves ==
  ASSUME PInv, chan.subs \subseteq Conn, NEW p \in Producer, Enter(p)
  PROVE  PInv' /\ Level' \in Level..Len(journal)
  <1> DEFINE r == [fly[p] EXCEPT !.at = "casting", !.to = chan.subs]
  <1>1. fly[p] \in PubRec /\ fly[p].at = "appended" /\ UNCHANGED <<run, side>>
    BY DEF PInv, ProducersOK, Enter
  <1>2. r \in PubRec /\ r.at = "casting" /\ r.kind = fly[p].kind /\ r.id = fly[p].id
    BY <1>1 DEF PubRec
  <1>3. fly' = [fly EXCEPT ![p] = r]
    BY <1>1 DEF Enter, PInv, ProducersOK
  <1> HIDE DEF r
  <1>4. side' \in Row /\ (side' = 0 \/ side' = Noted')
    <2>1. \A q \in Producer : (Publishing(q)' <=> Publishing(q)) /\ fly'[q].id = fly[q].id
      BY <1>1, <1>2, <1>3 DEF Publishing, PInv, ProducersOK
    <2>2. Noted' = Noted
      BY <1>1, <2>1 DEF Noted, run
    <2> QED
      BY <1>1, <2>2 DEF PInv, ProducersOK
  <1> QED
    BY <1>1, <1>2, <1>3, <1>4, MovePreserves

LEMMA CastPreserves ==
  ASSUME PInv, NEW p \in Producer, Cast(p)
  PROVE  PInv' /\ Level' \in Level..Len(journal)
  <1> DEFINE r == [fly[p] EXCEPT !.at = "noting", !.to = {}]
  <1>1. fly[p] \in PubRec /\ fly[p].at = "casting" /\ UNCHANGED <<run, side>>
    BY DEF PInv, ProducersOK, Cast
  <1>2. r \in PubRec /\ r.at = "noting" /\ r.kind = fly[p].kind /\ r.id = fly[p].id
    BY <1>1 DEF PubRec
  <1>3. fly' = [fly EXCEPT ![p] = r]
    BY <1>1 DEF Cast, PInv, ProducersOK
  <1> HIDE DEF r
  <1>4. side' \in Row /\ (side' = 0 \/ side' = Noted')
    <2>1. \A q \in Producer : (Publishing(q)' <=> Publishing(q)) /\ fly'[q].id = fly[q].id
      BY <1>1, <1>2, <1>3 DEF Publishing, PInv, ProducersOK
    <2>2. Noted' = Noted
      BY <1>1, <2>1 DEF Noted, run
    <2> QED
      BY <1>1, <2>2 DEF PInv, ProducersOK
  <1> QED
    BY <1>1, <1>2, <1>3, <1>4, MovePreserves

\* The id noted last is the id of the last row.
LEMMA NoteIdPreserves ==
  ASSUME PInv, NEW p \in Producer, NoteId(p)
  PROVE  PInv' /\ Level' \in Level..Len(journal)
  <1>1. /\ fly[p].at = "noting" /\ fly' = [fly EXCEPT ![p] = Resting] /\ UNCHANGED run
        /\ side' = IF fly[p].id = 0 THEN side ELSE fly[p].id
    BY DEF NoteId
  <1>2. Resting \in PubRec /\ Resting.at = "idle" /\ Resting.id = 0
    BY Rows0 DEF Resting, PubRec, Kind
  <1>3. side' \in Row /\ (side' = 0 \/ side' = Noted')
    <2>1. \A q \in Producer : ~Publishing(q)'
      BY <1>1, <1>2 DEF Publishing, PInv, ProducersOK
    <2>2. Noted' = Len(journal)
      BY <1>1, <2>1 DEF Noted, run
    <2>3. fly[p].id # 0 => fly[p].id = Len(journal) /\ fly[p].id \in Row
      BY <1>1 DEF PInv, ProducersOK, PublishingOK, Publishing, PubRec
    <2>4. fly[p].id = 0 => Noted = Len(journal)
      BY <1>1 DEF PInv, ProducersOK, Noted, Publishing
    <2> QED
      BY <1>1, <2>2, <2>3, <2>4 DEF PInv, ProducersOK
  <1> QED
    BY <1>1, <1>2, <1>3, MovePreserves

\* The append of a row, under the lock of the journal.
LEMMA RowPreserves ==
  ASSUME PInv, JournalOK', NEW p \in Producer, NEW r \in PubRec, NEW k \in RowKind,
         JournalFree, fly' = [fly EXCEPT ![p] = r],
         journal' = Append(journal, k),
         UNCHANGED <<alive, raised, saved, side>>,
         r.at = "appended", r.kind = k, r.id = Len(journal) + 1,
         \/ p = "worker" /\ k \in {"token", "done", "end"} /\ fly[p].at = "wants" /\ fly[p].kind = k
         \/ p = "steer" /\ k = "steer" /\ alive /\ Len(journal) < MaxRows /\ ~Terminal
            /\ (fly["worker"].at = "wants" => fly["worker"].kind # "done")
  PROVE  PInv' /\ Level = Len(journal) /\ Level' = Level
  <1>1. /\ Len(journal) \in Nat /\ Len(journal') = Len(journal) + 1 /\ journal'[Len(journal) + 1] = k
        /\ \A x : Contains(journal', x) <=> Contains(journal, x) \/ x = k
    BY Grown, JournalFacts DEF PInv, JournalOK
  <1>2. /\ fly' \in [Producer -> PubRec] /\ fly'[p] = r /\ Publishing(p)'
        /\ \A q \in Producer \ {p} : fly'[q] = fly[q] /\ ~Publishing(q)'
    BY DEF PInv, ProducersOK, Publishing, JournalFree
  <1>3. Level = Len(journal) /\ Level' = Len(journal) /\ Noted = Len(journal) /\ Noted' = Len(journal)
    <2>1. ~Behind /\ Behind'
      BY <1>1, <1>2 DEF Behind, JournalFree, Publishing
    <2>2. Noted = Len(journal)
      BY DEF Noted, JournalFree
    <2>3. Noted' = Len(journal') - 1
      BY <1>1, <1>2 DEF Noted
    <2> QED
      BY <1>1, <2>1, <2>2, <2>3 DEF Level
  <1>4. \A q \in Producer : PublishingOK(q)'
    BY <1>1, <1>2 DEF PublishingOK
  <1>5. WorkerOK'
    <2>1. CASE p = "worker"
      BY <1>1, <1>2, <2>1, Rows0 DEF WorkerOK, WantsToken
    <2>2. CASE p = "steer"
      <3>1. fly'["worker"] = fly["worker"]
        BY <1>2, <2>2 DEF Producer
      <3> QED
        BY <1>1, <2>2, <3>1, Rows0 DEF PInv, ProducersOK, WorkerOK, WantsToken, Terminal, Has
    <2> QED
      BY <2>1, <2>2
  <1>6. SteerOK'
    BY <1>2 DEF PInv, ProducersOK, SteerOK, Producer
  <1>7. StopOK'
    <2>1. fly'["stop"] = fly["stop"]
      BY <1>2 DEF Producer
    <2>2. fly["stop"].at = "notes" => p = "worker" /\ WantsToken /\ ~WantsToken'
      BY <1>2 DEF PInv, ProducersOK, StopOK, WorkerOK, WantsToken, JournalOK
    <2>3. fly["stop"].id \in Nat
      BY Rows0 DEF PInv, ProducersOK, PubRec, Producer
    <2> QED
      BY <1>1, <1>3, <2>1, <2>2, <2>3 DEF PInv, ProducersOK, StopOK, Wants
  <1> QED
    BY <1>2, <1>3, <1>4, <1>5, <1>6, <1>7 DEF PInv, ProducersOK

LEMMA SteerPreserves ==
  ASSUME PInv, Steer
  PROVE  PInv' /\ Level = Len(journal) /\ Level' = Level
  <1> DEFINE r == [at |-> "appended", kind |-> "steer", id |-> Len(journal) + 1, to |-> {}]
  <1>1. /\ JournalFree /\ fly' = [fly EXCEPT !["steer"] = r] /\ journal' = Append(journal, "steer")
        /\ UNCHANGED <<alive, raised, saved, returned, cancelled, side>>
        /\ alive /\ Len(journal) < MaxRows /\ ~Terminal
        /\ fly["worker"].at = "wants" => fly["worker"].kind # "done"
    BY DEF Steer, Refused, Settling, Idle
  <1>2. /\ Len(journal) \in Nat /\ Len(journal) + 1 \in Row
    BY JournalFacts DEF PInv
  <1>3. r \in PubRec /\ r.at = "appended" /\ r.kind = "steer" /\ r.id = Len(journal) + 1
    BY <1>2 DEF PubRec, Kind
  <1> HIDE DEF r
  <1>4. JournalOK'
    BY <1>1, <1>2, Rows0, GrowJournal DEF PInv, RowKind, LastRow, Terminal
  <1> QED
    BY <1>1, <1>3, <1>4, RowPreserves DEF Producer, RowKind

LEMMA AppendRowPreserves ==
  ASSUME PInv, NEW p \in Producer, AppendRow(p)
  PROVE  /\ PInv' /\ Level = Len(journal) /\ Level' = Level
         /\ \/ UNCHANGED journal /\ cancelled'
            \/ WantsToken \/ saved
  <1>1. /\ fly[p].at = "wants" /\ JournalFree /\ ~Refused(fly[p].kind)
        /\ UNCHANGED <<alive, raised, saved, returned, side>>
        /\ fly[p] \in PubRec
    BY DEF AppendRow, PInv, ProducersOK
  <1>2. /\ Len(journal) \in Nat /\ Len(journal) + 1 \in Row
    BY JournalFacts DEF PInv
  <1>3. \/ p = "worker" /\ fly[p].kind \in {"token", "done", "end"}
        \/ fly[p].kind = "cancel" /\ raised /\ ~saved /\ fly[p].id = 0
    BY <1>1 DEF PInv, ProducersOK, WorkerOK, SteerOK, StopOK, Producer
  <1>4. CASE p = "worker" /\ fly[p].kind \in {"token", "done", "end"}
    <2> DEFINE r == [fly[p] EXCEPT !.at = "appended", !.id = Len(journal) + 1]
    <2>1. r \in PubRec /\ r.at = "appended" /\ r.kind = fly[p].kind /\ r.id = Len(journal) + 1
      BY <1>1, <1>2 DEF PubRec
    <2>2. fly' = [fly EXCEPT ![p] = r] /\ UNCHANGED cancelled /\ journal' = journal \o <<fly[p].kind>>
      BY <1>4 DEF AppendRow, PInv, ProducersOK
    <2> HIDE DEF r
    <2>3. fly[p].kind \in RowKind /\ journal' = Append(journal, fly[p].kind)
      BY <1>4, <2>2, Grown DEF RowKind, PInv, JournalOK
    <2>4. JournalOK'
      <3>1. ~Has("end")
        <4>1. ~saved \/ ~Terminal => ~Has("end")
          BY JournalFacts DEF PInv, Terminal
        <4> QED
          BY <1>1, <1>4, <4>1 DEF PInv, ProducersOK, WorkerOK, WantsToken, Refused
      <3>2. fly[p].kind = "end" => Has("done")
        BY <1>1, <1>4 DEF PInv, ProducersOK, WorkerOK
      <3>3. fly[p].kind = "done" => saved /\ ~Has("done")
        BY <1>1, <1>4 DEF PInv, ProducersOK, WorkerOK, Terminal
      <3>4. fly[p].kind \notin LastRow => ~Terminal /\ Len(journal) <= MaxRows
        BY <1>1, <1>4, JournalFacts DEF PInv, ProducersOK, WorkerOK, WantsToken, LastRow
      <3> QED
        BY <1>1, <2>2, <2>3, <3>1, <3>2, <3>3, <3>4, GrowJournal DEF PInv
    <2>5. PInv' /\ Level = Len(journal) /\ Level' = Level
      BY <1>1, <1>4, <2>1, <2>2, <2>3, <2>4, RowPreserves
    <2>6. WantsToken \/ saved
      BY <1>1, <1>4 DEF WantsToken, PInv, ProducersOK, WorkerOK, JournalOK
    <2> QED
      BY <2>5, <2>6
  <1>5. CASE fly[p].kind = "cancel" /\ raised /\ ~saved /\ fly[p].id = 0
    <2> DEFINE r == [fly[p] EXCEPT !.at = "appended"]
    <2>1. r \in PubRec /\ r.at = "appended" /\ r.kind = "cancel" /\ r.id = 0
      BY <1>1, <1>5 DEF PubRec
    <2>2. fly' = [fly EXCEPT ![p] = r] /\ cancelled' = TRUE /\ UNCHANGED journal
      BY <1>5 DEF AppendRow, PInv, ProducersOK
    <2> HIDE DEF r
    <2>3. JournalOK'
      BY <1>1, <1>5, <2>2 DEF PInv, JournalOK, Has
    <2>4. /\ fly' \in [Producer -> PubRec] /\ fly'[p] = r /\ Publishing(p)'
          /\ \A q \in Producer \ {p} : fly'[q] = fly[q] /\ ~Publishing(q)'
      BY <1>1, <2>1, <2>2 DEF PInv, ProducersOK, Publishing, JournalFree
    <2>5. /\ Level = Len(journal) /\ Level' = Len(journal)
          /\ Noted = Len(journal) /\ Noted' = Len(journal)
      BY <1>1, <2>1, <2>2, <2>4 DEF Level, Noted, Behind, JournalFree, Publishing
    <2>6. \A q \in Producer : PublishingOK(q)'
      BY <2>1, <2>2, <2>4 DEF PublishingOK
    <2>7. WorkerOK' /\ SteerOK'
      <3>1. WorkerOK'
        BY <1>1, <1>5, <2>1, <2>2, <2>4 DEF PInv, ProducersOK, WorkerOK, WantsToken, Terminal, Has, Producer
      <3> QED
        BY <1>1, <1>5, <2>2, <2>4, <3>1 DEF PInv, ProducersOK, SteerOK, Producer
    <2>8. StopOK'
      <3>1. CASE p = "stop"
        BY <1>1, <2>1, <2>2, <2>4, <3>1 DEF PInv, ProducersOK, StopOK
      <3>2. CASE p # "stop"
        <4>1. fly'["stop"] = fly["stop"] /\ fly["stop"].id \in Nat
          BY <2>4, <3>2, Rows0 DEF Producer, PInv, ProducersOK, PubRec
        <4>2. Wants' <= Wants /\ Wants \in Nat /\ Wants' \in Nat
          BY <1>5, <2>1, <2>4 DEF Wants, WantsToken, Producer
        <4> QED
          BY SMTT(60), <1>1, <1>2, <2>2, <2>5, <4>1, <4>2 DEF PInv, ProducersOK, StopOK
      <3> QED
        BY <3>1, <3>2
    <2> QED
      BY <1>1, <2>2, <2>3, <2>4, <2>5, <2>6, <2>7, <2>8 DEF PInv, ProducersOK
  <1> QED
    BY <1>3, <1>4, <1>5

-----------------------------------------------------------------------------
(* What every step keeps of the journal and of a Stop.                     *)

Extends ==
  /\ Len(journal') >= Len(journal)
  /\ \A i \in 1..Len(journal) : journal'[i] = journal[i]
  /\ cancelled => cancelled'

Onward ==
  /\ Extends
  /\ Level' >= Level
  /\ Stopped => Stopped'
  /\ Frozen => Frozen' /\ journal' = journal
  /\ alive' => alive

LEMMA LevelFacts ==
  ASSUME PInv
  PROVE  /\ Len(journal) \in Nat /\ Level \in 0..Len(journal) /\ Level + 1 >= Len(journal)
         /\ Level \in Row /\ Len(journal) \in Row /\ Len(journal) + 1 \in Row
         /\ Level # Len(journal) <=> Behind
  <1>1. /\ Len(journal) \in Nat /\ Len(journal) \in Row /\ Len(journal) + 1 \in Row
        /\ Len(journal) <= MaxRows + 3
    BY JournalFacts DEF PInv
  <1>2. Behind => Len(journal) # 0
    BY DEF PInv, ProducersOK, PublishingOK, Publishing, Behind
  <1>3. Level \in 0..Len(journal) /\ Level + 1 >= Len(journal) /\ (Level # Len(journal) <=> Behind)
    BY <1>1, <1>2 DEF Level
  <1>4. Level \in Row
    BY <1>1, <1>3, Rows0
  <1> QED
    BY <1>1, <1>3, <1>4

LEMMA StoppedFacts ==
  ASSUME PInv, Stopped
  PROVE  raised /\ ~saved /\ ~alive /\ ~Terminal
  <1>1. raised /\ ~saved
    BY DEF PInv, JournalOK, ProducersOK, StopOK, Stopped
  <1> QED
    BY <1>1, JournalFacts DEF PInv, JournalOK

LEMMA SameOnward ==
  ASSUME PInv, UNCHANGED <<journal, cancelled, fly>>, alive' => alive
  PROVE  Onward
  <1>1. Level' = Level /\ Level \in Int
    BY LevelFacts DEF Level, Behind
  <1>2. (Stopped' <=> Stopped) /\ (Frozen' <=> Frozen)
    BY DEF Stopped, Frozen, WantsToken, Behind
  <1> QED
    BY <1>1, <1>2, LevelFacts DEF Onward, Extends

\* A step that starts no publication of a row.
LEMMA CalmOnward ==
  ASSUME PInv, PInv', UNCHANGED journal, cancelled => cancelled', alive' => alive,
         fly["stop"].at \in {"wants", "appended", "casting", "noting"} => Stopped',
         Behind' => Behind, Stopped /\ WantsToken' => WantsToken
  PROVE  Onward
  <1>1. Level' >= Level
    <2>1. Len(journal) \in Nat
      BY LevelFacts
    <2> QED
      BY <2>1 DEF Level
  <1>2. Stopped => Stopped'
    BY DEF Stopped
  <1>3. Len(journal) \in Nat
    BY LevelFacts
  <1> QED
    BY <1>1, <1>2, <1>3 DEF Onward, Extends, Frozen

LEMMA OfferOnward ==
  ASSUME PInv, PInv', NEW k, Offer(k), Idle("worker"), UNCHANGED run, k = "token" => ~raised
  PROVE  Onward
  <1> DEFINE w == [Resting EXCEPT !.at = "wants", !.kind = k]
  <1>1. fly' = [fly EXCEPT !["worker"] = w] /\ w.at = "wants" /\ w.kind = k
    BY DEF Offer, Resting
  <1> HIDE DEF w
  <1>2. fly'["worker"] = w /\ fly'["steer"] = fly["steer"] /\ fly'["stop"] = fly["stop"]
    BY <1>1 DEF PInv, ProducersOK, Producer
  <1>3. Behind' => Behind
    BY <1>1, <1>2 DEF Behind, Producer
  <1>4. fly["stop"].at \in {"wants", "appended", "casting", "noting"} => Stopped'
    BY <1>2 DEF Stopped
  <1>5. Stopped /\ WantsToken' => WantsToken
    BY <1>1, <1>2, StoppedFacts DEF WantsToken
  <1> QED
    BY <1>3, <1>4, <1>5, CalmOnward DEF run

LEMMA PublishOnward ==
  ASSUME PInv, PInv', NEW p \in Producer, NEW r, fly' = [fly EXCEPT ![p] = r],
         UNCHANGED <<journal, alive>>, cancelled => cancelled',
         Behind' => Behind,
         r.at # "wants",
         \/ r.at \in {"appended", "casting", "noting"}
         \/ cancelled'
         \/ p # "stop"
  PROVE  Onward
  <1>1. fly'[p] = r /\ \A q \in Producer \ {p} : fly'[q] = fly[q]
    BY DEF PInv, ProducersOK
  <1>2. fly["stop"].at \in {"wants", "appended", "casting", "noting"} => Stopped'
    BY <1>1 DEF Stopped, Producer
  <1>3. WantsToken' => WantsToken
    BY <1>1 DEF WantsToken, Producer
  <1> QED
    BY <1>2, <1>3, CalmOnward

\* The ends of a publication.
LEMMA RefuseOnward ==
  ASSUME PInv, PInv', NEW p \in Producer, Refuse(p)
  PROVE  Onward
  <1>1. /\ fly[p].at = "wants" /\ Refused(fly[p].kind) /\ fly' = [fly EXCEPT ![p] = Resting]
        /\ UNCHANGED <<journal, alive, cancelled>>
    BY DEF Refuse, run
  <1>2. Resting.at = "idle"
    BY DEF Resting
  <1>3. Behind' => Behind
    BY <1>1, <1>2 DEF Behind, PInv, ProducersOK
  <1>4. p = "stop" => cancelled
    <2>1. p = "stop" => Stopped /\ fly[p].kind = "cancel"
      BY <1>1 DEF Stopped, PInv, ProducersOK, StopOK
    <2> QED
      BY <1>1, <2>1, StoppedFacts DEF Refused
  <1> QED
    BY <1>1, <1>2, <1>3, <1>4, PublishOnward

LEMMA NoteIdOnward ==
  ASSUME PInv, PInv', NEW p \in Producer, NoteId(p)
  PROVE  Onward
  <1>1. /\ fly[p].at = "noting" /\ fly' = [fly EXCEPT ![p] = Resting]
        /\ UNCHANGED <<journal, alive, cancelled>>
    BY DEF NoteId, run
  <1>2. Resting.at = "idle"
    BY DEF Resting
  <1>3. Behind' => Behind
    BY <1>1, <1>2 DEF Behind, PInv, ProducersOK
  <1>4. p = "stop" => cancelled
    BY <1>1 DEF PInv, ProducersOK, StopOK, PublishingOK, Publishing, RowKind
  <1> QED
    BY <1>1, <1>2, <1>3, <1>4, PublishOnward

LEMMA EnterOnward ==
  ASSUME PInv, PInv', NEW p \in Producer, Enter(p) \/ Cast(p)
  PROVE  Onward
  <1>1. PICK r : /\ fly' = [fly EXCEPT ![p] = r] /\ r.at \in {"casting", "noting"}
                 /\ UNCHANGED <<journal, alive, cancelled>>
    <2>1. fly \in [Producer -> PubRec] /\ fly[p] \in PubRec
      BY DEF PInv, ProducersOK
    <2>2. CASE Enter(p)
      <3>1. PICK r : r = [fly[p] EXCEPT !.at = "casting", !.to = chan.subs]
        OBVIOUS
      <3>2. fly' = [fly EXCEPT ![p] = r] /\ r.at = "casting"
        BY <2>1, <2>2, <3>1 DEF Enter, PubRec
      <3> QED
        BY <2>2, <3>2 DEF Enter, run
    <2>3. CASE Cast(p)
      <3>1. PICK r : r = [fly[p] EXCEPT !.at = "noting", !.to = {}]
        OBVIOUS
      <3>2. fly' = [fly EXCEPT ![p] = r] /\ r.at = "noting"
        BY <2>1, <2>3, <3>1 DEF Cast, PubRec
      <3> QED
        BY <2>3, <3>2 DEF Cast, run
    <2> QED
      BY <2>2, <2>3
  <1>2. Behind' => Behind
    BY <1>1 DEF Behind, PInv, ProducersOK
  <1> QED
    BY <1>1, <1>2, PublishOnward

\* The append of a row: none follows once a Stop is out and no token waits.
LEMMA RowOnward ==
  ASSUME PInv, NEW k, k \in RowKind, journal' = Append(journal, k),
         UNCHANGED <<alive, cancelled>>, fly'["stop"] = fly["stop"],
         Level' = Level, ~Frozen
  PROVE  Onward
  <1>1. /\ Len(journal) \in Nat /\ Len(journal') = Len(journal) + 1
        /\ \A i \in 1..Len(journal) : journal'[i] = journal[i]
        /\ Level \in Int
    BY Grown, LevelFacts DEF PInv, JournalOK
  <1>2. Stopped => Stopped'
    BY DEF Stopped
  <1> QED
    BY <1>1, <1>2 DEF Onward, Extends

LEMMA AppendRowOnward ==
  ASSUME PInv, PInv', NEW p \in Producer, AppendRow(p), Level' = Level,
         (UNCHANGED journal /\ cancelled') \/ WantsToken \/ saved
  PROVE  Onward
  <1>1. CASE fly[p].kind = "cancel"
    <2> DEFINE r == [fly[p] EXCEPT !.at = "appended"]
    <2>1. fly' = [fly EXCEPT ![p] = r] /\ cancelled' /\ UNCHANGED <<journal, alive>>
      BY <1>1 DEF AppendRow, PInv, ProducersOK
    <2>2. r.at = "appended"
      BY DEF PInv, ProducersOK, PubRec
    <2> HIDE DEF r
    <2>3. Behind' => Behind
      BY <2>1, LevelFacts DEF Level
    <2> QED
      BY <2>1, <2>2, <2>3, PublishOnward
  <1>2. CASE fly[p].kind # "cancel"
    <2>1. /\ fly[p].at = "wants" /\ p = "worker"
      BY <1>2 DEF AppendRow, PInv, ProducersOK, SteerOK, StopOK, Producer
    <2>2. fly[p].kind \in RowKind
      BY <1>2, <2>1 DEF PInv, ProducersOK, WorkerOK, RowKind
    <2>3. /\ journal' = Append(journal, fly[p].kind)
          /\ UNCHANGED <<alive, cancelled>> /\ fly'["stop"] = fly["stop"]
      <3>1. /\ journal' = journal \o <<fly[p].kind>> /\ UNCHANGED <<alive, cancelled>>
            /\ fly'["stop"] = fly["stop"]
        BY <1>2, <2>1 DEF AppendRow, PInv, ProducersOK, Producer
      <3> QED
        BY <2>2, <3>1, Grown DEF PInv, JournalOK
    <2>4. ~Frozen
      <3>1. journal' # journal
        BY <2>2, <2>3, Grown DEF PInv, JournalOK
      <3> QED
        BY <3>1, StoppedFacts DEF Frozen
    <2> QED
      BY <2>2, <2>3, <2>4, RowOnward
  <1> QED
    BY <1>1, <1>2

LEMMA StopStepOnward ==
  ASSUME PInv, PInv', StopDetach \/ StopRaise \/ StopReads \/ StopNotes
  PROVE  Onward
  <1>1. /\ fly["stop"].at \in {"idle", "raises", "reads", "notes"}
        /\ UNCHANGED <<journal, cancelled>> /\ (alive' => alive)
        /\ \A q \in Producer \ {"stop"} : fly'[q] = fly[q]
        /\ fly'["stop"].at \notin {"appended"}
    <2>1. fly \in [Producer -> PubRec] /\ fly["stop"] \in PubRec
      BY DEF PInv, ProducersOK, Producer
    <2>2. CASE StopDetach
      BY <2>1, <2>2 DEF StopDetach, Idle, Producer, PubRec
    <2>3. CASE StopRaise
      BY <2>1, <2>3 DEF StopRaise, Producer, PubRec
    <2>4. CASE StopReads
      BY <2>1, <2>4 DEF StopReads, Producer, PubRec, run, Resting
    <2>5. CASE StopNotes
      BY <2>1, <2>5 DEF StopNotes, Producer, PubRec, run
    <2> QED
      BY <2>2, <2>3, <2>4, <2>5
  <1>2. Behind' => Behind
    BY <1>1 DEF Behind
  <1>3. WantsToken' => WantsToken
    BY <1>1 DEF WantsToken, Producer
  <1> QED
    BY <1>1, <1>2, <1>3, CalmOnward

LEMMA ProducersStep ==
  ASSUME PInv, chan.subs \subseteq Conn, [Next]_vars
  PROVE  PInv' /\ Onward
  <1>1. CASE PutToken \/ PutDone \/ PutEnd \/ PutCancel
    <2>1. PICK k \in {"token", "done", "end", "cancel"} :
            /\ Offer(k) /\ Idle("worker") /\ UNCHANGED <<run, side>>
            /\ k = "token" => ~saved /\ ~raised /\ Len(journal) < MaxRows
            /\ k = "done" => saved /\ ~Terminal
            /\ k = "end" => Has("done")
            /\ k = "cancel" => raised /\ ~saved
      BY <1>1 DEF PutToken, PutDone, PutEnd, PutCancel
    <2>2. PInv'
      BY <2>1, OfferPreserves
    <2> QED
      BY <2>1, <2>2, OfferOnward
  <1>2. CASE SaveTurn
    BY <1>2, SaveTurnPreserves, SameOnward DEF SaveTurn
  <1>3. CASE Teardown
    BY <1>3, TeardownPreserves, SameOnward DEF Teardown
  <1>4. CASE Steer
    <2>1. PInv' /\ Level' = Level
      BY <1>4, SteerPreserves
    <2>2. ~Frozen
      BY <1>4, StoppedFacts DEF Frozen, Steer
    <2>3. fly'["stop"] = fly["stop"] /\ journal' = Append(journal, "steer") /\ UNCHANGED <<alive, cancelled>>
      BY <1>4 DEF Steer, PInv, ProducersOK, Producer
    <2> QED
      BY <2>1, <2>2, <2>3, RowOnward DEF RowKind
  <1>5. CASE StopDetach \/ StopRaise \/ StopReads \/ StopNotes
    BY <1>5, StopStepOnward, StopDetachPreserves, StopRaisePreserves, StopReadsPreserves,
       StopNotesPreserves
  <1>6. ASSUME NEW p \in Producer, Publish(p) PROVE PInv' /\ Onward
    <2>1. CASE Refuse(p)
      BY <2>1, RefusePreserves, RefuseOnward
    <2>2. CASE AppendRow(p)
      BY <2>2, AppendRowPreserves, AppendRowOnward
    <2>3. CASE Enter(p)
      BY <2>3, EnterPreserves, EnterOnward
    <2>4. CASE Cast(p)
      BY <2>4, CastPreserves, EnterOnward
    <2>5. CASE NoteId(p)
      BY <2>5, NoteIdPreserves, NoteIdOnward
    <2> QED
      BY <1>6, <2>1, <2>2, <2>3, <2>4, <2>5 DEF Publish
  <1>7. ASSUME UNCHANGED <<run, fly, side>> PROVE PInv' /\ Onward
    <2>1. PInv'
      BY SMTT(60), <1>7 DEF PInv, JournalOK, ProducersOK, run, Has, Publishing, PublishingOK, WorkerOK, SteerOK,
                  StopOK, WantsToken, Terminal, Level, Noted, Behind, Wants
    <2> QED
      BY <1>7, <2>1, SameOnward DEF run
  <1>8. ASSUME NEW c \in Conn,
               Handle(c) \/ Break(c) \/ \E t \in Tab : AttachLate(c, t) \/ \E after : Attach(c, t, after)
        PROVE  UNCHANGED <<run, fly, side>>
    BY Zenon, <1>8 DEF Handle, Break, AttachLate, Attach, Subscribe, Replay, EmitReplay, EndReplay,
       Drain, Unsubscribe
  <1> QED
    BY <1>1, <1>2, <1>3, <1>4, <1>5, <1>6, <1>7, <1>8 DEF Next, vars

-----------------------------------------------------------------------------
(* Sequences of frames that hold a run of rows.                            *)

LEMMA FrameFacts ==
  ASSUME NEW k \in Kind, NEW n \in Row
  PROVE  Frame(k, n) \in Frames /\ Frame(k, n).kind = k /\ Frame(k, n).id = n
  BY DEF Frame, Frames

LEMMA RunStays ==
  ASSUME Extends, PInv, NEW q, NEW lo, NEW hi, RunOf(q, lo, hi)
  PROVE  RunOf(q, lo, hi)'
  <1>1. ASSUME NEW f, Genuine(f) PROVE Genuine(f)'
    BY <1>1, LevelFacts DEF Genuine, Extends
  <1> QED
    BY <1>1 DEF RunOf

LEMMA RunEmpty ==
  ASSUME NEW lo \in Int, NEW hi \in Int, hi < lo
  PROVE  RunOf(<<>>, lo, hi)
  BY DEF RunOf

LEMMA EmptyRun ==
  ASSUME NEW lo \in Int, NEW hi \in Int, RunOf(<<>>, lo, hi)
  PROVE  hi < lo
  BY DEF RunOf

LEMMA RunAppend ==
  ASSUME NEW q \in Seq(Frames), NEW lo \in Nat, NEW hi \in Nat, lo <= hi + 1, RunOf(q, lo, hi),
         NEW f \in Frames, Genuine(f), f.id \in {0, hi + 1}
  PROVE  /\ Append(q, f) \in Seq(Frames)
         /\ RunOf(Append(q, f), lo, IF f.id = 0 THEN hi ELSE hi + 1)
  <1> DEFINE more == Append(q, f)
             top == IF f.id = 0 THEN hi ELSE hi + 1
  <1>1. /\ more \in Seq(Frames) /\ Len(q) \in Nat /\ Len(more) = Len(q) + 1
        /\ \A i \in 1..Len(q) : more[i] = q[i]
        /\ more[Len(q) + 1] = f
        /\ top \in Nat /\ hi <= top
    BY Grown
  <1>2. ASSUME NEW i \in 1..Len(more)
        PROVE  Genuine(more[i]) /\ (more[i].id # 0 => more[i].id \in lo..top)
    <2>1. CASE i \in 1..Len(q)
      BY <1>1, <2>1 DEF RunOf
    <2>2. CASE i = Len(q) + 1
      BY <1>1, <2>2
    <2> QED
      BY <1>1, <2>1, <2>2
  <1>3. ASSUME NEW i \in 1..Len(more), NEW j \in 1..Len(more), i < j,
               more[i].id # 0, more[j].id # 0
        PROVE  more[i].id < more[j].id
    <2>1. i \in 1..Len(q) /\ more[i] = q[i]
      BY <1>1, <1>3
    <2>2. CASE j \in 1..Len(q)
      BY <1>1, <1>3, <2>1, <2>2 DEF RunOf
    <2>3. CASE j = Len(q) + 1
      BY <1>1, <1>3, <2>1, <2>3 DEF RunOf
    <2> QED
      BY <1>1, <2>2, <2>3
  <1>4. ASSUME NEW n \in lo..top PROVE \E i \in 1..Len(more) : more[i].id = n
    <2>1. CASE n \in lo..hi
      <3>1. PICK i \in 1..Len(q) : q[i].id = n
        BY <2>1 DEF RunOf
      <3> QED
        BY <1>1, <3>1
    <2>2. CASE n = hi + 1 /\ f.id = hi + 1
      BY <1>1, <2>2
    <2> QED
      BY <1>1, <2>1, <2>2
  <1> HIDE DEF more, top
  <1>5. RunOf(more, lo, top)
    BY <1>2, <1>3, <1>4 DEF RunOf
  <1> QED
    BY <1>1, <1>5 DEF more, top

\* The first row of a run is its lowest.
LEMMA RunTail ==
  ASSUME NEW q \in Seq(Frames), NEW lo \in Nat \ {0}, NEW hi \in Nat, RunOf(q, lo, hi), q # <<>>
  PROVE  /\ Tail(q) \in Seq(Frames) /\ Head(q) = q[1] /\ Len(q) \in Nat \ {0}
         /\ Genuine(q[1])
         /\ q[1].id # 0 => q[1].id = lo /\ lo <= hi /\ RunOf(Tail(q), lo + 1, hi)
         /\ q[1].id = 0 => RunOf(Tail(q), lo, hi)
  <1> DEFINE rest == Tail(q)
             low == IF q[1].id = 0 THEN lo ELSE lo + 1
  <1>1. /\ rest \in Seq(Frames) /\ Head(q) = q[1] /\ Len(q) \in Nat \ {0}
        /\ Len(rest) = Len(q) - 1 /\ \A i \in 1..Len(rest) : rest[i] = q[i + 1]
    BY HeadTailProperties, EmptySeq
  <1>2. 1 \in 1..Len(q) /\ Genuine(q[1])
    BY <1>1 DEF RunOf
  <1>3. \A i \in 1..Len(rest) : i + 1 \in 1..Len(q) /\ i + 1 # 1 /\ 1 < i + 1
    BY <1>1
  <1>4. \A i \in 1..Len(q) : q[i].id \in Int
    BY Rows0 DEF RunOf, Genuine, Frames
  <1>5. q[1].id # 0 => q[1].id = lo /\ lo <= hi
    <2> SUFFICES ASSUME q[1].id # 0 PROVE q[1].id = lo /\ lo <= hi
      OBVIOUS
    <2>1. q[1].id \in lo..hi
      BY <1>2 DEF RunOf
    <2>2. PICK i \in 1..Len(q) : q[i].id = lo
      BY <2>1 DEF RunOf
    <2>3. i = 1
      <3>1. CASE 1 < i
        BY SMTT(60), <1>2, <2>1, <2>2, <3>1 DEF RunOf
      <3> QED
        BY <3>1
    <2> QED
      BY <2>1, <2>2, <2>3
  <1>6. ASSUME NEW i \in 1..Len(rest)
        PROVE  Genuine(rest[i]) /\ (rest[i].id # 0 => rest[i].id \in low..hi)
    <2>1. Genuine(q[i + 1]) /\ (q[i + 1].id # 0 => q[i + 1].id \in lo..hi)
      BY <1>3 DEF RunOf
    <2>2. q[i + 1].id # 0 /\ q[1].id # 0 => q[1].id < q[i + 1].id
      BY <1>2, <1>3 DEF RunOf
    <2> QED
      BY <1>1, <1>5, <2>1, <2>2
  <1>7. ASSUME NEW i \in 1..Len(rest), NEW j \in 1..Len(rest), i < j, rest[i].id # 0, rest[j].id # 0
        PROVE  rest[i].id < rest[j].id
    <2>1. i + 1 < j + 1
      BY <1>7
    <2> QED
      BY <1>1, <1>3, <1>7, <2>1 DEF RunOf
  <1>8. ASSUME NEW n \in low..hi PROVE \E i \in 1..Len(rest) : rest[i].id = n
    <2>1. n \in lo..hi /\ q[1].id # n
      BY <1>5
    <2>2. PICK i \in 1..Len(q) : q[i].id = n
      BY <2>1 DEF RunOf
    <2>3. i # 1 /\ i - 1 \in 1..Len(rest) /\ i = (i - 1) + 1
      BY <1>1, <2>1, <2>2
    <2> QED
      BY <1>1, <2>2, <2>3
  <1> HIDE DEF rest
  <1>9. RunOf(rest, low, hi)
    BY <1>6, <1>7, <1>8 DEF RunOf
  <1> QED
    BY <1>1, <1>2, <1>5, <1>9 DEF rest

-----------------------------------------------------------------------------
(* The channel.                                                            *)

LEMMA BufferPreserves ==
  ASSUME PInv, PInv', CInv, Onward, Level' = Level,
         chan' \in [subs : SUBSET Conn, buffer : Seq(Frames), holed : BOOLEAN, last : Row],
         chan'.buffer = chan.buffer, LastOK'
  PROVE  CInv'
  <1>1. PICK lo \in 1..(Level + 1) : RunOf(chan.buffer, lo, Level)
    BY DEF CInv, ChannelOK
  <1>2. PICK q, hi : q = chan.buffer /\ hi = Level
    OBVIOUS
  <1>3. RunOf(q, lo, hi)'
    BY <1>1, <1>2, RunStays DEF Onward
  <1>4. RunOf(chan.buffer, lo, Level)'
    BY <1>2, <1>3
  <1> QED
    BY <1>1, <1>4 DEF CInv, ChannelOK

LEMMA LastStays ==
  ASSUME PInv, CInv, Onward, Level' = Level, chan'.last = chan.last
  PROVE  LastOK'
  BY DEF CInv, ChannelOK, LastOK, Onward

\* A row that enters is the next of the run, and the channel's last id.
LEMMA EnterChannel ==
  ASSUME PInv, PInv', CInv, Onward, NEW p \in Producer, Enter(p)
  PROVE  CInv'
  <1>1. /\ fly[p].at = "appended" /\ chan' = Entered(chan, Frame(fly[p].kind, fly[p].id))
        /\ UNCHANGED <<journal, cancelled>>
        /\ fly[p] \in PubRec /\ fly[p].kind \in Kind /\ fly[p].id \in Row
    BY DEF Enter, run, PInv, ProducersOK, PubRec
  <1>2. PICK f : f = Frame(fly[p].kind, fly[p].id)
    OBVIOUS
  <1>3. /\ f \in Frames /\ Genuine(f)
        /\ f.id = 0 => Level = Len(journal) /\ Level' = Level
        /\ f.id # 0 => Level = Len(journal) - 1 /\ Level' = Len(journal) /\ f.id = Len(journal)
    <2>1. f \in Frames /\ f.kind = fly[p].kind /\ f.id = fly[p].id
      BY <1>1, <1>2, FrameFacts
    <2>2. Publishing(p) /\ PublishingOK(p)
      BY <1>1 DEF PInv, ProducersOK, Publishing
    <2>3. Genuine(f) /\ (f.id # 0 => f.id = Len(journal))
      BY <2>1, <2>2, LevelFacts DEF PublishingOK, Genuine, RowKind
    <2>4. Behind <=> f.id # 0
      BY <1>1, <2>1, <2>2 DEF Behind, PInv, ProducersOK, Publishing
    <2>5. ~Behind'
      <3>1. fly'[p].at = "casting" /\ \A q \in Producer \ {p} : fly'[q] = fly[q]
        BY <1>1 DEF Enter, PInv, ProducersOK, PubRec
      <3> QED
        BY <2>2, <3>1 DEF Behind, PInv, ProducersOK, Publishing
    <2> QED
      BY <1>1, <2>1, <2>3, <2>4, <2>5 DEF Level
  <1>4. /\ chan \in [subs : SUBSET Conn, buffer : Seq(Frames), holed : BOOLEAN, last : Row]
        /\ Level \in Nat /\ Level' \in Nat /\ Level' = (IF f.id = 0 THEN Level ELSE Level + 1)
        /\ Len(chan.buffer) \in Nat /\ Len(chan.buffer) <= OfflineMax /\ OfflineMax \in Nat \ {0}
        /\ Level' \in Row
    BY <1>1, <1>3, LevelFacts, ReplayAssumption, LenProperties DEF CInv, ChannelOK
  <1> DEFINE last == IF f.id = 0 THEN chan.last ELSE f.id
             full == Len(chan.buffer) = OfflineMax
             kept == IF full THEN Tail(chan.buffer) ELSE chan.buffer
             ch == IF chan.subs # {}
                   THEN [chan EXCEPT !.last = last, !.buffer = <<>>, !.holed = FALSE]
                   ELSE [chan EXCEPT !.last = last, !.buffer = Append(kept, f), !.holed = @ \/ full]
  <1>5. chan' = ch
    BY <1>1, <1>2 DEF Entered
  <1>6. last \in Row
    BY <1>3, <1>4 DEF Frames
  <1>7. /\ kept \in Seq(Frames) /\ Len(kept) + 1 <= OfflineMax /\ Len(kept) \in Nat
        /\ \E lo \in 1..(Level + 1) : RunOf(kept, lo, Level)
    <2>1. PICK lo \in 1..(Level + 1) : RunOf(chan.buffer, lo, Level)
      BY DEF CInv, ChannelOK
    <2>2. lo \in Nat \ {0} /\ lo <= Level + 1
      BY <1>4, <2>1
    <2>3. CASE full
      <3>1. chan.buffer # <<>> /\ chan.buffer \in Seq(Frames)
        BY <1>4, <2>3, EmptySeq
      <3>2. /\ kept \in Seq(Frames) /\ Len(kept) = Len(chan.buffer) - 1
        BY <2>3, <3>1, HeadTailProperties
      <3>3. RunOf(kept, lo, Level) \/ (lo <= Level /\ RunOf(kept, lo + 1, Level))
        BY <1>4, <2>1, <2>2, <2>3, <3>1, RunTail
      <3>4. lo <= Level => lo + 1 \in 1..(Level + 1)
        BY <1>4, <2>2
      <3> QED
        BY <1>4, <2>1, <2>3, <3>2, <3>3, <3>4
    <2>4. CASE ~full
      BY <1>4, <2>1, <2>4
    <2> QED
      BY <2>3, <2>4
  <1>8. /\ Append(kept, f) \in Seq(Frames) /\ Len(Append(kept, f)) <= OfflineMax
        /\ \E lo \in 1..(Level' + 1) : RunOf(Append(kept, f), lo, Level')
    <2>1. PICK lo \in 1..(Level + 1) : RunOf(kept, lo, Level)
      BY <1>7
    <2>2. lo \in Nat /\ lo <= Level + 1 /\ f.id \in {0, Level + 1} /\ lo \in 1..(Level' + 1)
      BY <1>3, <1>4, <2>1
    <2>3. kept \in Seq(Frames)
      BY <1>7
    <2> HIDE DEF kept
    <2>4. Append(kept, f) \in Seq(Frames) /\ RunOf(Append(kept, f), lo, Level')
      BY <1>3, <1>4, <2>1, <2>2, <2>3, RunAppend
    <2>5. Len(Append(kept, f)) = Len(kept) + 1
      BY <1>3, <2>3, Grown
    <2> QED
      BY <1>7, <2>2, <2>4, <2>5
  <1>9. /\ ch \in [subs : SUBSET Conn, buffer : Seq(Frames), holed : BOOLEAN, last : Row]
        /\ Len(ch.buffer) <= OfflineMax
        /\ ch.last = last
        /\ ch.buffer = <<>> \/ ch.buffer = Append(kept, f)
    <2> HIDE DEF kept, last
    <2>1. full \in BOOLEAN /\ chan.holed \in BOOLEAN /\ <<>> \in Seq(Frames) /\ Len(<<>>) = 0
      BY <1>4, EmptySeq
    <2>2. ASSUME NEW b \in Seq(Frames), NEW h \in BOOLEAN, Len(b) <= OfflineMax
          PROVE  LET new == [chan EXCEPT !.last = last, !.buffer = b, !.holed = h]
                 IN  /\ new \in [subs : SUBSET Conn, buffer : Seq(Frames), holed : BOOLEAN, last : Row]
                     /\ Len(new.buffer) <= OfflineMax /\ new.last = last /\ new.buffer = b
      BY <1>4, <1>6, <2>2
    <2> HIDE DEF full
    <2>3. CASE chan.subs # {}
      <3>1. Len(<<>>) <= OfflineMax
        BY <1>4, <2>1
      <3>2. ch = [chan EXCEPT !.last = last, !.buffer = <<>>, !.holed = FALSE]
        BY <2>3
      <3> HIDE DEF ch
      <3> QED
        BY <2>1, <2>2, <3>1, <3>2
    <2>4. CASE chan.subs = {}
      BY ZenonT(60), <1>8, <2>1, <2>2, <2>4
    <2> QED
      BY <2>3, <2>4
  <1>10. \E lo \in 1..(Level' + 1) : RunOf(ch.buffer, lo, Level')
    <2>1. CASE ch.buffer = <<>>
      <3>1. Level' + 1 \in 1..(Level' + 1) /\ Level' < Level' + 1 /\ Level' + 1 \in Int /\ Level' \in Int
        BY <1>4
      <3>2. RunOf(<<>>, Level' + 1, Level')
        BY <3>1, RunEmpty
      <3> QED
        BY <2>1, <3>1, <3>2
    <2>2. CASE ch.buffer = Append(kept, f)
      BY <1>8, <2>2
    <2> QED
      BY <1>9, <2>1, <2>2
  <1>11. \A q, lo, hi : RunOf(q, lo, hi)' <=> RunOf(q, lo, hi)
    BY <1>1 DEF RunOf, Genuine
  <1>12. LastOK'
    BY <1>3, <1>5, <1>9 DEF LastOK, CInv, ChannelOK, Onward
  <1> HIDE DEF ch
  <1> QED
    BY <1>5, <1>9, <1>10, <1>11, <1>12 DEF CInv, ChannelOK

\* A Stop moves the last id back by at most one row, and no row follows then.
LEMMA StopNotesChannel ==
  ASSUME PInv, PInv', CInv, Onward, StopNotes
  PROVE  CInv'
  <1>1. /\ fly["stop"].at = "notes" /\ fly["stop"].id \in Row
        /\ chan' = [chan EXCEPT !.last = IF fly["stop"].id = 0 THEN @ ELSE fly["stop"].id]
        /\ UNCHANGED journal
    BY DEF StopNotes, run, PInv, ProducersOK, PubRec, Producer
  <1>2. /\ chan' \in [subs : SUBSET Conn, buffer : Seq(Frames), holed : BOOLEAN, last : Row]
        /\ chan'.buffer = chan.buffer
        /\ chan'.last = IF fly["stop"].id = 0 THEN chan.last ELSE fly["stop"].id
    BY <1>1 DEF CInv, ChannelOK
  <1>3. /\ fly'["stop"].at = "wants" /\ \A q \in Producer \ {"stop"} : fly'[q] = fly[q]
    BY DEF StopNotes, PInv, ProducersOK, PubRec, Producer
  <1>4. (Behind' <=> Behind) /\ Level' = Level /\ (WantsToken' <=> WantsToken) /\ Stopped'
    BY <1>1, <1>3 DEF Behind, Level, WantsToken, Stopped, Producer
  <1>5. LastOK'
    <2>1. CASE fly["stop"].id = 0
      BY <1>2, <1>4, <2>1, LastStays
    <2>2. CASE fly["stop"].id # 0
      <3>1. fly["stop"].id <= Level /\ Len(journal) + Wants <= fly["stop"].id + 1
        BY <1>1, <2>2 DEF PInv, ProducersOK, StopOK
      <3>2. fly["stop"].id \in Nat /\ Wants \in {0, 1}
        BY <1>1, Rows0 DEF Wants
      <3>3. \/ fly["stop"].id = Level
            \/ fly["stop"].id = Level - 1 /\ Level = Len(journal) /\ Wants = 0
        BY <3>1, <3>2, LevelFacts
      <3>4. Wants = 0 => ~WantsToken
        BY DEF Wants
      <3>5. Level = Len(journal) => ~Behind
        BY LevelFacts
      <3> QED
        BY <1>2, <1>4, <2>2, <3>3, <3>4, <3>5 DEF LastOK, Frozen
    <2> QED
      BY <2>1, <2>2
  <1> QED
    BY <1>2, <1>4, <1>5, BufferPreserves

LEMMA ChannelStep ==
  ASSUME PInv, PInv', CInv, Onward, [Next]_vars
  PROVE  CInv'
  <1>1. chan \in [subs : SUBSET Conn, buffer : Seq(Frames), holed : BOOLEAN, last : Row]
    BY DEF CInv, ChannelOK
  <1>2. ASSUME UNCHANGED chan, Level' = Level PROVE CInv'
    BY <1>1, <1>2, BufferPreserves, LastStays
  <1>3. ASSUME NEW p, NEW r, fly' = [fly EXCEPT ![p] = r], r.at # "appended", UNCHANGED journal,
               fly[p].at # "appended"
        PROVE  Level' = Level
    BY <1>3 DEF Level, Behind, PInv, ProducersOK
  <1>4. CASE \/ PutToken \/ SaveTurn \/ PutDone \/ PutEnd \/ PutCancel \/ Teardown
             \/ StopRaise \/ StopReads \/ StopDetach
    <2>1. UNCHANGED <<chan, journal>>
      BY <1>4 DEF PutToken, SaveTurn, PutDone, PutEnd, PutCancel, Teardown, StopRaise, StopReads,
                  StopDetach, run
    <2>2. \/ UNCHANGED fly
          \/ \E p \in {"worker", "stop"} :
               \E r : fly' = [fly EXCEPT ![p] = r] /\ r.at # "appended" /\ fly[p].at # "appended"
      <3>1. CASE PutToken \/ PutDone \/ PutEnd \/ PutCancel
        <4>1. PICK k : Offer(k) /\ Idle("worker")
          BY <3>1 DEF PutToken, PutDone, PutEnd, PutCancel
        <4>2. [Resting EXCEPT !.at = "wants", !.kind = k].at # "appended"
          BY DEF Resting
        <4> QED
          BY <4>1, <4>2 DEF Offer, Idle
      <3>2. CASE SaveTurn \/ Teardown
        BY <3>2 DEF SaveTurn, Teardown
      <3>3. CASE StopRaise \/ StopReads \/ StopDetach
        <4>1. fly["stop"].at # "appended" /\ fly["stop"] \in PubRec
          BY <3>3 DEF StopRaise, StopReads, StopDetach, Idle, PInv, ProducersOK, Producer
        <4>2. PICK r : fly' = [fly EXCEPT !["stop"] = r] /\ r.at # "appended"
          <5>1. /\ [fly["stop"] EXCEPT !.at = "raises"].at # "appended"
                /\ [fly["stop"] EXCEPT !.at = "reads"].at # "appended"
            BY <4>1 DEF PubRec
          <5>2. (IF saved THEN Resting
                 ELSE [Resting EXCEPT !.at = "notes", !.kind = "cancel", !.id = side]).at # "appended"
            BY DEF Resting
          <5> QED
            BY <3>3, <5>1, <5>2 DEF StopRaise, StopReads, StopDetach
        <4> QED
          BY <4>1, <4>2
      <3> QED
        BY <1>4, <3>1, <3>2, <3>3
    <2>3. Level' = Level
      BY <1>3, <2>1, <2>2 DEF Level, Behind
    <2> QED
      BY <1>2, <2>1, <2>3
  <1>5. CASE Steer
    BY <1>2, <1>5, SteerPreserves DEF Steer
  <1>6. CASE StopNotes
    BY <1>6, StopNotesChannel
  <1>7. ASSUME NEW p \in Producer, Publish(p) PROVE CInv'
    <2>1. CASE Refuse(p)
      <3>1. /\ fly' = [fly EXCEPT ![p] = Resting] /\ fly[p].at # "appended"
            /\ UNCHANGED <<journal, chan>>
        BY <2>1 DEF Refuse, run
      <3>2. Resting.at # "appended"
        BY DEF Resting
      <3> QED
        BY <1>2, <1>3, <3>1, <3>2
    <2>2. CASE AppendRow(p)
      BY <1>2, <2>2, AppendRowPreserves DEF AppendRow
    <2>3. CASE Enter(p)
      BY <2>3, EnterChannel
    <2>4. CASE Cast(p)
      <3>1. PICK r : r = [fly[p] EXCEPT !.at = "noting", !.to = {}]
        OBVIOUS
      <3>2. fly' = [fly EXCEPT ![p] = r] /\ r.at # "appended" /\ fly[p].at # "appended"
        BY <2>4, <3>1 DEF Cast, PInv, ProducersOK, PubRec
      <3> QED
        BY <1>2, <1>3, <2>4, <3>2 DEF Cast, run
    <2>5. CASE NoteId(p)
      <3>1. /\ fly' = [fly EXCEPT ![p] = Resting] /\ fly[p].at # "appended"
            /\ UNCHANGED <<journal, chan>>
        BY <2>5 DEF NoteId, run
      <3>2. Resting.at # "appended"
        BY DEF Resting
      <3> QED
        BY <1>2, <1>3, <3>1, <3>2
    <2> QED
      BY <1>7, <2>1, <2>2, <2>3, <2>4, <2>5 DEF Publish
  <1>8. ASSUME NEW c \in Conn, Handle(c) \/ Break(c) PROVE CInv'
    <2>1. /\ UNCHANGED <<fly, journal>> /\ Level' = Level
      BY SMTT(60), <1>8 DEF Handle, Break, Subscribe, Replay, EmitReplay, EndReplay, Drain, Unsubscribe,
         run, Level, Behind
    <2>2. \/ UNCHANGED chan
          \/ \E subs \in SUBSET Conn : chan' = [chan EXCEPT !.subs = subs]
      BY <1>1, <1>8 DEF Handle, Break, Subscribe, Replay, EmitReplay, EndReplay, Drain, Unsubscribe
    <2>3. ASSUME NEW subs \in SUBSET Conn, chan' = [chan EXCEPT !.subs = subs] PROVE CInv'
      <3>1. /\ chan' \in [subs : SUBSET Conn, buffer : Seq(Frames), holed : BOOLEAN, last : Row]
            /\ chan'.buffer = chan.buffer /\ chan'.last = chan.last
        BY <1>1, <2>3
      <3> QED
        BY <2>1, <3>1, BufferPreserves, LastStays
    <2> QED
      BY SMTT(60), <1>2, <2>1, <2>2, <2>3
  <1>9. ASSUME NEW c \in Conn, NEW t \in Tab,
               AttachLate(c, t) \/ \E after \in {None, cursor[t]} : Attach(c, t, after)
        PROVE  CInv'
    BY <1>2, <1>9 DEF AttachLate, Attach, run, Level, Behind
  <1>10. CASE UNCHANGED vars
    BY <1>2, <1>10 DEF vars, run, Level, Behind
  <1> QED
    BY <1>4, <1>5, <1>6, <1>7, <1>8, <1>9, <1>10 DEF Next

-----------------------------------------------------------------------------
(* What a step keeps for the connections and tabs it does not serve.       *)

\* What was pushed to a connection is still in its queue.
Carried(c) ==
  /\ c \in chan'.subs
  /\ Pushed(c) \in Int /\ Pushed(c)' \in Int /\ Pushed(c) <= Pushed(c)'
  /\ \A lo \in 1..(Pushed(c) + 1) :
       RunOf(queue[c], lo, Pushed(c)) => RunOf(queue[c], lo, Pushed(c))'

\* A connection that the step leaves alone.
Kept(c) ==
  /\ conn'[c] = conn[c]
  /\ Exempt(conn[c].tab) => Exempt(conn[c].tab)'
  /\ conn[c].at \in Open => cursor'[conn[c].tab] = cursor[conn[c].tab]
  /\ conn[c].at \in {"subscribed", "serving"} /\ c \in chan.subs => Carried(c)

LEMMA GenuineStays ==
  ASSUME PInv, Extends, NEW f, Genuine(f)
  PROVE  Genuine(f)'
  BY LevelFacts DEF Genuine, Extends

LEMMA LevelLater ==
  ASSUME PInv'
  PROVE  Level' \in Int /\ Len(journal') \in Nat
  <1>1. journal' \in Seq(RowKind)
    BY DEF PInv, JournalOK
  <1> QED
    BY <1>1, LenProperties DEF Level

LEMMA PushedFacts ==
  ASSUME PInv, NEW c \in Conn
  PROVE  Pushed(c) \in 0..Level
  <1>1. ASSUME NEW p \in Producer, fly[p].at = "casting", fly[p].id # 0
        PROVE  Level = Len(journal) /\ Len(journal) # 0
    BY <1>1, LevelFacts DEF PInv, ProducersOK, PublishingOK, Publishing, Behind
  <1> QED
    BY <1>1, LevelFacts DEF Pushed, Held

LEMMA CarriedSame ==
  ASSUME PInv, Onward, NEW c \in Conn, c \in chan'.subs, queue'[c] = queue[c], Pushed(c)' = Pushed(c)
  PROVE  Carried(c)
  <1>1. PICK q, hi : q = queue[c] /\ hi = Pushed(c)
    OBVIOUS
  <1>2. hi \in Int
    BY <1>1, PushedFacts, LevelFacts
  <1>3. ASSUME NEW lo, RunOf(q, lo, hi) PROVE RunOf(queue[c], lo, Pushed(c))'
    <2>1. RunOf(q, lo, hi)'
      BY <1>3, RunStays DEF Onward
    <2> QED
      BY <1>1, <2>1
  <1> QED
    BY <1>1, <1>2, <1>3 DEF Carried

LEMMA KeptAsked ==
  ASSUME PInv, PInv', Onward, DInv, NEW c \in Conn, Kept(c)
  PROVE  AskedOK(c)'
  <1>1. AskedOK(c) /\ conn[c] \in ConnRec
    BY DEF DInv, ConnOK, ShapeOK
  <1>2. conn[c].after # None => conn[c].after \in Int
    <2>1. conn[c].after \in Row \union {None}
      BY <1>1 DEF ConnRec
    <2>2. conn[c].after # None => conn[c].after \in Nat
      BY <2>1, Rows0, Zenon
    <2> QED
      BY <2>2
  <1>3. Level \in Int /\ Level' \in Int /\ Level <= Level'
    BY LevelFacts DEF Onward, PInv, Level
  <1> QED
    BY <1>1, <1>2, <1>3 DEF AskedOK, Kept, Open

LEMMA KeptSnap ==
  ASSUME PInv, PInv', Onward, DInv, NEW c \in Conn, Kept(c), conn[c].at = "subscribed"
  PROVE  SnapOK(c)'
  <1>1. /\ SnapOK(c) /\ c \in chan.subs
        /\ conn'[c] = conn[c] /\ Carried(c)
        /\ Exempt(conn[c].tab) => Exempt(conn[c].tab)'
    BY DEF DInv, ConnOK, ShapeOK, Kept, Open
  <1>2. PICK k, q, hi : k = conn[c] /\ q = queue[c] /\ hi = Pushed(c)
    OBVIOUS
  <1>3. PICK lo \in 1..(hi + 1) :
          /\ RunOf(q, lo, hi)
          /\ k.snap.first # 0 => lo = k.snap.first /\ lo <= k.snap.last + 1
          /\ lo <= k.snap.last + 1 \/ (Frozen /\ lo = Len(journal) + 1)
          /\ k.snap.first = 0 /\ ~Exempt(k.tab) => lo = k.snap.last + 1
    BY <1>1, <1>2 DEF SnapOK
  <1>5. conn'[c] = k /\ lo \in 1..(Pushed(c)' + 1)
    BY <1>1, <1>2 DEF Carried
  <1>6. RunOf(queue[c], lo, Pushed(c))'
    BY <1>1, <1>2, <1>3 DEF Carried
  <1>7. k.snap \in Snap /\ k.snap.last <= Level'
    <2>1. k.snap \in Snap /\ k.snap.last <= Level
      BY <1>1, <1>2 DEF SnapOK
    <2>2. k.snap.last \in Nat
      <3>1. k.snap.last \in Row
        BY <2>1 DEF Snap
      <3> QED
        BY <3>1, Rows0, Zenon
    <2>3. Level \in Int /\ Level' \in Int /\ Level <= Level'
      <3>1. Level \in Int
        BY LevelFacts
      <3>2. Level' \in Int
        BY LevelLater
      <3> QED
        BY <3>1, <3>2 DEF Onward
    <2> QED
      BY <2>1, <2>2, <2>3
  <1>8. ~Exempt(k.tab)' => ~Exempt(k.tab)
    BY <1>1, <1>2
  <1>9. Frozen => Frozen' /\ Len(journal') = Len(journal)
    BY DEF Onward
  <1>10. ~Exempt(k.tab) => k.snap.last # 0 /\ (k.after # None => k.after <= k.snap.last)
    BY <1>1, <1>2 DEF SnapOK
  <1> QED
    BY <1>3, <1>5, <1>6, <1>7, <1>8, <1>9, <1>10 DEF SnapOK

LEMMA KeptServe ==
  ASSUME PInv, PInv', Onward, DInv, NEW c \in Conn, Kept(c), conn[c].at \in Sending
  PROVE  ServeOK(c)'
  <1>1. /\ ServeOK(c)
        /\ conn'[c] = conn[c]
        /\ cursor'[conn[c].tab] = cursor[conn[c].tab]
        /\ Exempt(conn[c].tab) => Exempt(conn[c].tab)'
        /\ conn[c].at = "serving" /\ c \in chan.subs => Carried(c)
    BY DEF DInv, ConnOK, Kept, Open, Sending
  <1>2. PICK k, q, hi, m : k = conn[c] /\ q = queue[c] /\ hi = Pushed(c) /\ m = cursor[k.tab]
    OBVIOUS
  <1>3. conn'[c] = k /\ cursor'[k.tab] = m
    BY <1>1, <1>2
  <1>4. TodoOK(c)'
    <2>1. \A f : Genuine(f) => Genuine(f)'
      BY GenuineStays DEF Onward
    <2>2. ~Exempt(k.tab)' => ~Exempt(k.tab)
      BY <1>1, <1>2
    <2>3. Level \in Int /\ Level' \in Int /\ Level <= Level' /\ (alive' => alive)
      BY LevelFacts, LevelLater DEF Onward
    <2>4. \A f : Genuine(f) => f.id \in Int
      BY Rows0 DEF Genuine, Frames
    <2>5. TodoOK(c)
      BY <1>1 DEF ServeOK
    <2>6. PICK from \in 0..m :
            /\ ~Exempt(k.tab) => from = m
            /\ \A i \in 1..Len(k.todo) :
                 \/ i = Len(k.todo) /\ k.todo[i].kind \in {"recover", "interrupted"}
                 \/ /\ Genuine(k.todo[i]) /\ k.todo[i].id = from + i
                    /\ alive /\ ~Exempt(k.tab) => k.todo[i].id <= Level
      BY <1>2, <2>5 DEF TodoOK
    <2>7. k.after = None => k.todo = <<>>
      BY <1>2, <2>5 DEF TodoOK
    <2>8. \A i \in 1..Len(k.todo) :
            \/ i = Len(k.todo) /\ k.todo[i].kind \in {"recover", "interrupted"}
            \/ /\ Genuine(k.todo[i])' /\ k.todo[i].id = from + i
               /\ alive' /\ ~Exempt(k.tab)' => k.todo[i].id <= Level'
      BY <2>1, <2>2, <2>3, <2>4, <2>6
    <2> QED
      BY <1>3, <2>2, <2>6, <2>7, <2>8 DEF TodoOK
  <1>5. Doomed(c) => Doomed(c)'
    BY <1>2, <1>3 DEF Doomed
  <1>6. ASSUME conn[c].at = "serving", QueueOK(c) PROVE QueueOK(c)'
    <2>1. \A n : Reaches(c, n) <=> Reaches(c, n)'
      BY <1>2, <1>3 DEF Reaches
    <2>2. Carried(c) /\ c \in chan'.subs
      BY <1>1, <1>6 DEF QueueOK, Carried
    <2>3. PICK lo \in 1..(hi + 1) :
            /\ RunOf(q, lo, hi)
            /\ Reaches(c, lo - 1) \/ (Frozen /\ lo = Len(journal) + 1) \/ (k.after = None /\ m = 0)
            /\ Exempt(k.tab) \/ \A n \in Row : Reaches(c, n) => n <= k.bound \/ n < lo
      BY <1>2, <1>6 DEF QueueOK
    <2>5. RunOf(queue[c], lo, Pushed(c))' /\ lo \in 1..(Pushed(c)' + 1)
      BY <1>2, <2>2, <2>3 DEF Carried
    <2>6. Reaches(c, lo - 1)' \/ (Frozen' /\ lo = Len(journal') + 1) \/ (k.after = None /\ m = 0)
      BY <2>1, <2>3 DEF Onward
    <2>7. Exempt(k.tab)' \/ \A n \in Row : Reaches(c, n)' => n <= k.bound \/ n < lo
      BY <1>1, <1>2, <2>1, <2>3
    <2>8. Reaches(c, k.bound)'
      BY <1>2, <1>6, <2>1 DEF QueueOK
    <2> QED
      BY <1>3, <2>2, <2>3, <2>5, <2>6, <2>7, <2>8 DEF QueueOK
  <1> QED
    BY <1>1, <1>4, <1>5, <1>6, <1>2, <1>3 DEF ServeOK

LEMMA KeptConn ==
  ASSUME PInv, PInv', Onward, DInv, NEW c \in Conn, Kept(c)
  PROVE  ConnOK(c)'
  <1>1. AskedOK(c)'
    BY KeptAsked
  <1>2. SnapOK(c)'
    <2>1. CASE conn[c].at = "subscribed"
      BY <2>1, KeptSnap
    <2>2. CASE conn[c].at # "subscribed"
      BY <2>2 DEF Kept, SnapOK
    <2> QED
      BY <2>1, <2>2
  <1>3. ServeOK(c)'
    <2>1. CASE conn[c].at \in Sending
      BY <2>1, KeptServe
    <2>2. CASE conn[c].at \notin Sending
      BY <2>2 DEF Kept, ServeOK, Sending
    <2> QED
      BY <2>1, <2>2
  <1> QED
    BY <1>1, <1>2, <1>3 DEF ConnOK

\* A tab that the step does not serve.
LEMMA KeptTab ==
  ASSUME PInv, PInv', Onward, NEW t \in Tab, TabOK(t), cursor[t] \in Row,
         cursor'[t] = cursor[t], shown'[t] = shown[t], twice'[t] = twice[t], t \in told => t \in told',
         Watched(t)' => Watched(t), Exempt(t) => Exempt(t)',
         \A c \in Conn : conn[c].tab = t => conn'[c].tab = t
  PROVE  TabOK(t)'
  <1>1. /\ Level \in Int /\ Level' \in Int /\ Level <= Level' /\ (alive' => alive) /\ cursor[t] \in Nat
        /\ Len(journal) \in Nat /\ Len(journal') \in Nat /\ Len(journal) <= Len(journal')
        /\ \A i \in 1..Len(journal) : journal'[i] = journal[i]
    <2>1. Level \in Int /\ Len(journal) \in Nat
      BY LevelFacts
    <2>2. Level' \in Int /\ Len(journal') \in Nat
      BY LevelLater
    <2>3. Level <= Level' /\ (alive' => alive) /\ Len(journal) <= Len(journal')
          /\ \A i \in 1..Len(journal) : journal'[i] = journal[i]
      BY <2>1, <2>2 DEF Onward, Extends
    <2> QED
      BY <2>1, <2>2, <2>3, Rows0
  <1>2. IsTop(t, cursor[t]) => IsTop(t, cursor[t])'
    BY DEF IsTop
  <1>3. cursor[t] # 0 /\ cursor[t] <= Len(journal)
        => cursor'[t] <= Len(journal') /\ journal'[cursor'[t]] = journal[cursor[t]]
    BY <1>1
  <1>4. alive' /\ ~Exempt(t)' => alive /\ ~Exempt(t)
    BY <1>1
  <1>5. cursor'[t] # 0 => \E c \in Conn : conn'[c].tab = t
    BY DEF TabOK
  <1> QED
    BY <1>1, <1>2, <1>3, <1>4, <1>5 DEF TabOK

LEMMA ExemptStays ==
  ASSUME Stopped => Stopped',
         \A c \in Conn : conn[c].blind => conn'[c].blind /\ conn'[c].tab = conn[c].tab,
         NEW t, Exempt(t)
  PROVE  Exempt(t)'
  BY DEF Exempt, Blind

\* A step of a producer that fills no queue.
LEMMA SameDelivery ==
  ASSUME PInv, PInv', CInv, Onward, DInv,
         UNCHANGED <<conn, queue, tabs>>, chan'.subs = chan.subs,
         \A c \in chan.subs : Pushed(c)' = Pushed(c),
         \A p \in Producer : fly'[p].to \subseteq fly[p].to \union chan.subs
  PROVE  DInv'
  <1>1. \A t : Exempt(t) => Exempt(t)'
    BY ExemptStays DEF Onward
  <1>2. ASSUME NEW c \in Conn PROVE ConnOK(c)'
    <2>1. c \in chan.subs => Carried(c)
      BY CarriedSame
    <2> QED
      BY <1>1, <2>1, KeptConn DEF Kept, tabs
  <1>3. ASSUME NEW t \in Tab PROVE TabOK(t)'
    <2>1. TabOK(t) /\ cursor[t] \in Row
      BY DEF DInv, ShapeOK
    <2>2. Watched(t)' <=> Watched(t)
      BY DEF Watched, tabs
    <2> QED
      BY <1>1, <2>1, <2>2, KeptTab DEF tabs
  <1>4. ShapeOK'
    <2>1. \A p \in Producer : \A c \in fly'[p].to : conn[c].at = "left" \/ c \in chan.subs
      BY DEF DInv, ShapeOK
    <2> QED
      BY <2>1 DEF DInv, ShapeOK, tabs
  <1> QED
    BY <1>2, <1>3, <1>4 DEF DInv

\* A step of a connection c of tab t: its record becomes k.
Acts(c, t, k) ==
  /\ UNCHANGED <<run, fly, side>>
  /\ conn[c].at \in Open \union {"new"} /\ k.at \in Open \union {"left"} /\ k \in ConnRec
  /\ conn' = [conn EXCEPT ![c] = k]
  /\ k.tab = t
  /\ conn[c].at = "new" =>
       k.at \in Open /\ t \notin told /\ \A d \in Conn : conn[d].at \in Open => conn[d].tab # t
  /\ conn[c].at # "new" => conn[c].tab = t /\ (conn[c].blind => k.blind)
  /\ queue' \in [Conn -> Seq(Frames)] /\ \A d \in Conn \ {c} : queue'[d] = queue[d]
  /\ chan'.subs \in {chan.subs, chan.subs \union {c}}
  /\ k.at = "peeked" => conn[c].at = "new"
  /\ k.at = "subscribed" => c \in chan'.subs
  /\ c \in chan'.subs => k.at \notin {"peeked", "late"}
  /\ cursor' \in [Tab -> Row] /\ shown' \in [Tab -> SUBSET Row] /\ twice' \in [Tab -> SUBSET Row]
  /\ \A u \in Tab \ {t} : cursor'[u] = cursor[u] /\ shown'[u] = shown[u] /\ twice'[u] = twice[u]
  /\ told' \in {told, told \union {t}}

LEMMA ActsShape ==
  ASSUME PInv, PInv', CInv, DInv, NEW c \in Conn, NEW t \in Tab, NEW k, Acts(c, t, k)
  PROVE  /\ ShapeOK' /\ Watched(t) /\ conn'[c] = k
         /\ \A d \in Conn \ {c} : conn'[d] = conn[d] /\ (conn[d].at \in Open => conn[d].tab # t)
         /\ c \in chan'.subs => c \in chan.subs \/ chan'.subs = chan.subs \union {c}
  <1>1. /\ conn \in [Conn -> ConnRec] /\ conn' \in [Conn -> ConnRec] /\ conn'[c] = k
        /\ \A d \in Conn \ {c} : conn'[d] = conn[d]
    BY DEF Acts, DInv, ShapeOK
  <1>2. Watched(t)
    BY DEF Acts, Watched
  <1>3. \A d \in Conn \ {c} : conn[d].at \in Open => conn[d].tab # t
    BY DEF Acts, DInv, ShapeOK
  <1>4. \A d \in Conn : conn'[d].at = "new" => conn'[d] = Unused
    BY <1>1 DEF Acts, DInv, ShapeOK, Open
  <1>5. \A d \in Conn : conn'[d].at \in Open => conn'[d].tab \in Tab
    BY <1>1 DEF Acts, DInv, ShapeOK, Open
  <1>6. \A d, e \in Conn : conn'[d].at \in Open /\ conn'[e].at \in Open /\ conn'[d].tab = conn'[e].tab => d = e
    BY <1>1, <1>3 DEF Acts, DInv, ShapeOK
  <1>7. \A d \in chan'.subs : conn'[d].at \in {"subscribed", "serving", "left"}
    <2>1. chan.subs \subseteq Conn
      BY DEF CInv, ChannelOK
    <2> QED
      BY <1>1, <2>1 DEF Acts, DInv, ShapeOK, Open
  <1>8. \A d \in Conn : conn'[d].at = "subscribed" => d \in chan'.subs
    BY <1>1 DEF Acts, DInv, ShapeOK
  <1>9. \A p \in Producer : \A d \in fly'[p].to : conn'[d].at = "left" \/ d \in chan'.subs
    <2>1. \A p \in Producer : fly'[p].to = fly[p].to /\ fly[p].to \subseteq Conn
      BY DEF Acts, PInv, ProducersOK, PubRec
    <2> QED
      BY <1>1, <2>1 DEF Acts, DInv, ShapeOK, Open
  <1>10. told' \subseteq Tab
    BY DEF Acts, DInv, ShapeOK
  <1> QED
    BY <1>1, <1>2, <1>3, <1>4, <1>5, <1>6, <1>7, <1>8, <1>9, <1>10 DEF Acts, ShapeOK

LEMMA ActsKeeps ==
  ASSUME PInv, PInv', CInv, DInv, Onward, NEW c \in Conn, NEW t \in Tab, NEW k, Acts(c, t, k)
  PROVE  /\ \A d \in Conn \ {c} : ConnOK(d)'
         /\ \A u \in Tab \ {t} : TabOK(u)'
         /\ \A u : Exempt(u) => Exempt(u)'
         /\ Level' = Level /\ (Frozen' <=> Frozen) /\ (Stopped' <=> Stopped)
         /\ \A d \in Conn : Pushed(d)' = Pushed(d)
         /\ \A q, lo, hi : RunOf(q, lo, hi)' <=> RunOf(q, lo, hi)
  <1>1. /\ Level' = Level /\ (Frozen' <=> Frozen) /\ (Stopped' <=> Stopped)
        /\ \A d \in Conn : Pushed(d)' = Pushed(d)
        /\ \A q, lo, hi : RunOf(q, lo, hi)' <=> RunOf(q, lo, hi)
    <2>1. UNCHANGED <<journal, cancelled, fly>>
      BY DEF Acts, run
    <2>2. Level' = Level /\ (Frozen' <=> Frozen) /\ (Stopped' <=> Stopped)
      BY <2>1 DEF Level, Frozen, Stopped, Behind, WantsToken
    <2>3. \A d \in Conn : Pushed(d)' = Pushed(d)
      BY <2>1, <2>2 DEF Pushed, Held
    <2>4. \A q, lo, hi : RunOf(q, lo, hi)' <=> RunOf(q, lo, hi)
      BY <2>1 DEF RunOf, Genuine
    <2> QED
      BY <2>2, <2>3, <2>4
  <1>2. /\ conn'[c] = k /\ k.tab = t
        /\ \A d \in Conn \ {c} : conn'[d] = conn[d] /\ (conn[d].at \in Open => conn[d].tab # t)
        /\ conn[c].at # "new" => conn[c].tab = t /\ (conn[c].blind => k.blind)
        /\ conn[c].at = "new" => conn[c] = Unused
        /\ chan.subs \subseteq chan'.subs
    BY ActsShape DEF Acts, DInv, ShapeOK
  <1>3. \A d \in Conn : conn[d].blind => conn'[d].blind /\ conn'[d].tab = conn[d].tab
    BY <1>2 DEF Unused
  <1>4. ASSUME NEW u, Exempt(u) PROVE Exempt(u)'
    BY <1>1, <1>3, <1>4, ExemptStays
  <1>5. ASSUME NEW d \in Conn \ {c} PROVE ConnOK(d)'
    <2>1. conn[d].at \in Open => conn[d].tab \in Tab \ {t}
      BY <1>2 DEF DInv, ShapeOK
    <2>2. d \in chan.subs => Carried(d)
      BY <1>1, <1>2, CarriedSame DEF Acts
    <2>3. Kept(d)
      BY <1>2, <1>4, <2>1, <2>2 DEF Kept, Acts
    <2> QED
      BY <2>3, KeptConn
  <1>6. ASSUME NEW u \in Tab \ {t} PROVE TabOK(u)'
    <2>1. TabOK(u) /\ cursor[u] \in Row
      BY DEF DInv, ShapeOK
    <2>2. \A d \in Conn : conn[d].tab = u => conn'[d].tab = u
      BY <1>2, ReplayAssumption DEF Unused
    <2>3. cursor'[u] = cursor[u] /\ shown'[u] = shown[u] /\ twice'[u] = twice[u] /\ (u \in told => u \in told')
      BY DEF Acts
    <2>4. Watched(u)' => Watched(u)
      BY <1>2 DEF Watched, Acts
    <2> QED
      BY <1>4, <2>1, <2>2, <2>3, <2>4, KeptTab
  <1> QED
    BY <1>1, <1>4, <1>5, <1>6

-----------------------------------------------------------------------------
(* What the producers' steps deliver.                                      *)

LEMMA SameRun ==
  ASSUME PInv, PInv', CInv, Onward, DInv, UNCHANGED <<journal, fly, conn, queue, tabs>>,
         chan'.subs = chan.subs
  PROVE  DInv'
  <1>1. \A c \in Conn : Pushed(c)' = Pushed(c)
    BY DEF Pushed, Held, Level, Behind
  <1>2. chan.subs \subseteq Conn
    BY DEF CInv, ChannelOK
  <1> QED
    BY <1>1, <1>2, SameDelivery

\* A step of one producer by which no row enters the channel or leaves it.
LEMMA QuietStep ==
  ASSUME PInv, PInv', CInv, Onward, DInv, UNCHANGED <<journal, conn, queue, tabs>>,
         chan'.subs = chan.subs,
         NEW p \in Producer, NEW r, fly' = [fly EXCEPT ![p] = r], r.to \subseteq fly[p].to,
         fly[p].at \in {"appended", "casting"} => fly[p].id = 0,
         r.at \in {"appended", "casting"} => r.id = 0
  PROVE  DInv'
  <1>1. fly'[p] = r /\ \A q \in Producer \ {p} : fly'[q] = fly[q]
    BY DEF PInv, ProducersOK
  <1>2. Level' = Level
    <2>1. Behind' <=> Behind
      BY <1>1 DEF Behind
    <2> QED
      BY <2>1 DEF Level
  <1>3. \A c \in Conn : Held(c)' <=> Held(c)
    BY <1>1 DEF Held
  <1>4. \A c \in Conn : Pushed(c)' = Pushed(c)
    BY <1>2, <1>3 DEF Pushed
  <1>5. \A q \in Producer : fly'[q].to \subseteq fly[q].to \union chan.subs
    BY <1>1
  <1>6. chan.subs \subseteq Conn
    BY DEF CInv, ChannelOK
  <1> QED
    BY <1>4, <1>5, <1>6, SameDelivery

LEMMA OfferDelivers ==
  ASSUME PInv, PInv', CInv, Onward, DInv, NEW k, Offer(k), Idle("worker"),
         UNCHANGED <<journal, chan, conn, queue, tabs>>
  PROVE  DInv'
  <1>1. PICK r : r = [Resting EXCEPT !.at = "wants", !.kind = k]
    OBVIOUS
  <1>2. fly' = [fly EXCEPT !["worker"] = r] /\ r.at = "wants" /\ r.to = {} /\ "worker" \in Producer
    BY <1>1 DEF Offer, Resting, Producer
  <1>3. fly["worker"].at = "idle"
    BY DEF Idle
  <1> QED
    BY <1>2, <1>3, QuietStep

LEMMA StopDelivers ==
  ASSUME PInv, PInv', CInv, Onward, DInv, StopDetach \/ StopRaise \/ StopReads \/ StopNotes
  PROVE  DInv'
  <1>1. PICK s : s = fly["stop"]
    OBVIOUS
  <1>2. s \in PubRec /\ "stop" \in Producer
    BY <1>1 DEF PInv, ProducersOK, Producer
  <1>3. /\ UNCHANGED <<journal, conn, queue, tabs>> /\ chan'.subs = chan.subs
        /\ s.at \in {"idle", "raises", "reads", "notes"}
    <2>1. chan \in [subs : SUBSET Conn, buffer : Seq(Frames), holed : BOOLEAN, last : Row]
      BY DEF CInv, ChannelOK
    <2>2. s.at \in {"idle", "raises", "reads", "notes"} /\ UNCHANGED <<journal, conn, queue, tabs>>
      BY <1>1 DEF StopDetach, StopRaise, StopReads, StopNotes, run, Idle
    <2>3. chan'.subs = chan.subs
      BY <2>1 DEF StopDetach, StopRaise, StopReads, StopNotes
    <2> QED
      BY <2>2, <2>3
  <1>4. PICK r : /\ fly' = [fly EXCEPT !["stop"] = r] /\ r.to \subseteq s.to
                 /\ r.at \in {"idle", "raises", "reads", "notes", "wants"}
    <2>1. CASE StopDetach
      <3>1. fly' = [fly EXCEPT !["stop"] = [s EXCEPT !.at = "raises"]]
        BY <1>1, <2>1 DEF StopDetach
      <3>2. [s EXCEPT !.at = "raises"].to = s.to /\ [s EXCEPT !.at = "raises"].at = "raises"
        BY <1>2 DEF PubRec
      <3> QED
        BY <3>1, <3>2
    <2>2. CASE StopRaise
      <3>1. fly' = [fly EXCEPT !["stop"] = [s EXCEPT !.at = "reads"]]
        BY <1>1, <2>2 DEF StopRaise
      <3>2. [s EXCEPT !.at = "reads"].to = s.to /\ [s EXCEPT !.at = "reads"].at = "reads"
        BY <1>2 DEF PubRec
      <3> QED
        BY <3>1, <3>2
    <2>3. CASE StopReads
      <3>1. Resting.to = {} /\ Resting.at = "idle"
        BY DEF Resting
      <3>2. PICK n : n = [Resting EXCEPT !.at = "notes", !.kind = "cancel", !.id = side]
        OBVIOUS
      <3>3. n.to = {} /\ n.at = "notes"
        BY <3>2 DEF Resting
      <3>4. fly' = [fly EXCEPT !["stop"] = IF saved THEN Resting ELSE n]
        BY <2>3, <3>2 DEF StopReads
      <3> QED
        BY <3>1, <3>3, <3>4
    <2>4. CASE StopNotes
      <3>1. PICK n : n = [s EXCEPT !.at = "wants", !.id = 0]
        OBVIOUS
      <3>2. fly' = [fly EXCEPT !["stop"] = n]
        BY <1>1, <2>4, <3>1 DEF StopNotes
      <3>3. n.to = s.to /\ n.at = "wants"
        BY <1>2, <3>1 DEF PubRec
      <3> QED
        BY <3>2, <3>3
    <2> QED
      BY <2>1, <2>2, <2>3, <2>4
  <1>5. /\ r.at \in {"appended", "casting"} => r.id = 0
        /\ fly["stop"].at \in {"appended", "casting"} => fly["stop"].id = 0
        /\ r.to \subseteq fly["stop"].to
    BY <1>1, <1>3, <1>4
  <1> QED
    BY <1>2, <1>3, <1>4, <1>5, QuietStep

\* A new row is not in the channel yet.
LEMMA RowDelivers ==
  ASSUME PInv, PInv', CInv, Onward, DInv, UNCHANGED <<chan, conn, queue, tabs>>, JournalFree,
         Level' = Level, NEW p \in Producer, NEW r, fly' = [fly EXCEPT ![p] = r], r.at = "appended",
         r.to \subseteq fly[p].to
  PROVE  DInv'
  <1>1. fly'[p] = r /\ \A q \in Producer \ {p} : fly'[q] = fly[q]
    BY DEF PInv, ProducersOK
  <1>2. \A c \in Conn : ~Held(c) /\ ~Held(c)'
    BY <1>1 DEF Held, JournalFree, Publishing
  <1>3. \A c \in Conn : Pushed(c)' = Pushed(c)
    BY <1>2 DEF Pushed
  <1>4. \A q \in Producer : fly'[q].to \subseteq fly[q].to \union chan.subs
    BY <1>1
  <1>5. chan.subs \subseteq Conn
    BY DEF CInv, ChannelOK
  <1> QED
    BY <1>3, <1>4, <1>5, SameDelivery

LEMMA AppendRowDelivers ==
  ASSUME PInv, PInv', CInv, Onward, DInv, NEW p \in Producer, AppendRow(p), Level' = Level
  PROVE  DInv'
  <1>1. /\ JournalFree /\ UNCHANGED <<chan, conn, queue, tabs>> /\ fly[p] \in PubRec
    BY DEF AppendRow, PInv, ProducersOK
  <1>2. PICK r : fly' = [fly EXCEPT ![p] = r] /\ r.at = "appended" /\ r.to \subseteq fly[p].to
    <2>1. PICK f, n, m : /\ f = fly[p] /\ n = [f EXCEPT !.at = "appended"]
                         /\ m = [f EXCEPT !.at = "appended", !.id = Len(journal) + 1]
      OBVIOUS
    <2>2. n.at = "appended" /\ n.to = f.to /\ m.at = "appended" /\ m.to = f.to
      BY <1>1, <2>1 DEF PubRec
    <2>3. fly' = [fly EXCEPT ![p] = n] \/ fly' = [fly EXCEPT ![p] = m]
      BY <2>1 DEF AppendRow
    <2> QED
      BY <2>1, <2>2, <2>3
  <1> QED
    BY <1>1, <1>2, RowDelivers

LEMMA EnterDelivers ==
  ASSUME PInv, PInv', CInv, Onward, DInv, NEW p \in Producer, Enter(p)
  PROVE  DInv'
  <1>1. /\ fly[p].at = "appended" /\ Publishing(p) /\ PublishingOK(p) /\ fly[p] \in PubRec
        /\ UNCHANGED <<journal, conn, queue, tabs>>
    BY DEF Enter, Publishing, PInv, ProducersOK, run
  <1>2. chan'.subs = chan.subs /\ chan.subs \subseteq Conn
    <2>1. chan \in [subs : SUBSET Conn, buffer : Seq(Frames), holed : BOOLEAN, last : Row]
      BY DEF CInv, ChannelOK
    <2>2. PICK f : chan' = Entered(chan, f)
      BY DEF Enter
    <2> QED
      BY <2>1, <2>2 DEF Entered
  <1>3. /\ fly'[p].at = "casting" /\ fly'[p].to = chan.subs /\ fly'[p].id = fly[p].id
        /\ \A q \in Producer \ {p} : fly'[q] = fly[q] /\ ~Publishing(q)
    <2>1. PICK f, r : f = fly[p] /\ r = [f EXCEPT !.at = "casting", !.to = chan.subs]
      OBVIOUS
    <2>2. r.at = "casting" /\ r.to = chan.subs /\ r.id = f.id
      BY <1>1, <2>1 DEF PubRec
    <2>3. fly' = [fly EXCEPT ![p] = r]
      BY <2>1 DEF Enter
    <2> QED
      BY <1>1, <2>1, <2>2, <2>3 DEF PInv, ProducersOK
  <1>4. ASSUME NEW c \in chan.subs PROVE Pushed(c)' = Pushed(c)
    <2>1. ~Held(c)
      BY <1>1, <1>3 DEF Held, Publishing
    <2>2. Held(c)' <=> fly[p].id # 0
      BY <1>3 DEF Held, Publishing
    <2>3. ~Behind' /\ (Behind <=> fly[p].id # 0)
      BY <1>1, <1>3 DEF Behind, Publishing
    <2> QED
      BY <1>1, <2>1, <2>2, <2>3 DEF Pushed, Level
  <1>5. \A q \in Producer : fly'[q].to \subseteq fly[q].to \union chan.subs
    BY <1>3
  <1> QED
    BY <1>1, <1>2, <1>4, <1>5, SameDelivery

\* A row reaches the queues of those who were subscribed when it entered.
LEMMA CastDelivers ==
  ASSUME PInv, PInv', CInv, Onward, DInv, NEW p \in Producer, Cast(p)
  PROVE  DInv'
  <1>1. /\ fly[p].at = "casting" /\ Publishing(p) /\ PublishingOK(p) /\ fly[p] \in PubRec
        /\ UNCHANGED <<journal, cancelled, chan, conn, tabs>>
        /\ conn \in [Conn -> ConnRec] /\ queue \in [Conn -> Seq(Frames)]
    BY DEF Cast, Publishing, PInv, ProducersOK, run, DInv, ShapeOK
  <1>2. PICK f : f = Frame(fly[p].kind, fly[p].id)
    OBVIOUS
  <1>3. f \in Frames /\ Genuine(f) /\ f.id = fly[p].id /\ (f.id # 0 => f.id = Len(journal))
    <2>1. f \in Frames /\ f.kind = fly[p].kind /\ f.id = fly[p].id
      BY <1>1, <1>2, FrameFacts DEF PubRec
    <2> QED
      BY <1>1, <2>1, LevelFacts DEF PublishingOK, Genuine, RowKind
  <1>4. /\ fly'[p].at = "noting" /\ fly'[p].to = {}
        /\ \A q \in Producer \ {p} : fly'[q] = fly[q] /\ ~Publishing(q)
    <2>1. PICK g, r : g = fly[p] /\ r = [g EXCEPT !.at = "noting", !.to = {}]
      OBVIOUS
    <2>2. r.at = "noting" /\ r.to = {}
      BY <1>1, <2>1 DEF PubRec
    <2>3. fly' = [fly EXCEPT ![p] = r]
      BY <2>1 DEF Cast
    <2> QED
      BY <1>1, <2>2, <2>3 DEF PInv, ProducersOK
  <1>5. /\ ~Behind /\ ~Behind' /\ Level = Len(journal) /\ Level' = Level /\ Level \in Nat
        /\ \A c \in Conn : (Held(c) <=> f.id # 0 /\ c \in fly[p].to) /\ ~Held(c)'
    <2>1. ~Behind /\ ~Behind'
      BY <1>1, <1>4 DEF Behind, Publishing
    <2>2. ASSUME NEW c \in Conn PROVE (Held(c) <=> f.id # 0 /\ c \in fly[p].to) /\ ~Held(c)'
      BY <1>1, <1>3, <1>4 DEF Held, Publishing
    <2> QED
      BY <1>1, <2>1, <2>2, LevelFacts DEF Level
  <1>6. \A c \in Conn : queue'[c] = IF c \in fly[p].to /\ conn[c].at \in {"subscribed", "serving"}
                                    THEN Append(queue[c], f) ELSE queue[c]
    <2>1. queue' = [c \in Conn |-> IF c \in fly[p].to /\ conn[c].at \in {"subscribed", "serving"}
                                   THEN queue[c] \o <<f>> ELSE queue[c]]
      BY <1>2 DEF Cast
    <2>2. ASSUME NEW c \in Conn PROVE queue[c] \o <<f>> = Append(queue[c], f)
      <3>1. queue[c] \in Seq(Frames)
        BY <1>1
      <3> QED
        BY <1>3, <3>1, Grown
    <2> QED
      BY <2>1, <2>2
  <1>7. queue' \in [Conn -> Seq(Frames)]
    <2>1. ASSUME NEW c \in Conn PROVE queue'[c] \in Seq(Frames)
      <3>1. queue[c] \in Seq(Frames)
        BY <1>1
      <3>2. Append(queue[c], f) \in Seq(Frames)
        BY <1>3, <3>1, Grown
      <3> QED
        BY <1>6, <3>1, <3>2
    <2>2. queue' = [c \in Conn |-> queue'[c]]
      BY DEF Cast
    <2> QED
      BY <2>1, <2>2
  <1>8. ASSUME NEW c \in Conn, c \in chan.subs, conn[c].at \in {"subscribed", "serving"}
        PROVE  Carried(c)
    <2>1. CASE c \notin fly[p].to
      <3>1. queue'[c] = queue[c] /\ Pushed(c)' = Pushed(c)
        BY <1>5, <1>6, <2>1 DEF Pushed
      <3> QED
        BY <1>1, <1>8, <3>1, CarriedSame
    <2>2. CASE c \in fly[p].to
      <3>1. queue'[c] = Append(queue[c], f) /\ queue[c] \in Seq(Frames)
        BY <1>1, <1>6, <1>8, <2>2
      <3>2. /\ Pushed(c) \in Nat /\ Pushed(c)' = (IF f.id = 0 THEN Pushed(c) ELSE Pushed(c) + 1)
            /\ f.id \in {0, Pushed(c) + 1}
        BY <1>1, <1>3, <1>5, <2>2, PushedFacts DEF Pushed
      <3>3. PICK q, hi : q = queue[c] /\ hi = Pushed(c)
        OBVIOUS
      <3>4. ASSUME NEW lo \in 1..(hi + 1), RunOf(q, lo, hi)
            PROVE  RunOf(queue[c], lo, Pushed(c))'
        <4>1. lo \in Nat /\ lo <= hi + 1 /\ hi \in Nat /\ q \in Seq(Frames)
          BY <3>1, <3>2, <3>3, <3>4
        <4>2. RunOf(Append(q, f), lo, IF f.id = 0 THEN hi ELSE hi + 1)
          BY <1>3, <3>2, <3>3, <3>4, <4>1, RunAppend
        <4>3. PICK q2, hi2 : q2 = Append(q, f) /\ hi2 = IF f.id = 0 THEN hi ELSE hi + 1
          OBVIOUS
        <4>4. RunOf(q2, lo, hi2)'
          BY <4>2, <4>3, RunStays DEF Onward
        <4> QED
          BY <3>1, <3>2, <3>3, <4>3, <4>4
      <3> QED
        BY <1>1, <1>8, <3>2, <3>3, <3>4 DEF Carried
    <2> QED
      BY <2>1, <2>2
  <1>9. \A t : Exempt(t) => Exempt(t)'
    BY <1>1, ExemptStays DEF Onward
  <1>10. ASSUME NEW c \in Conn PROVE ConnOK(c)'
    BY <1>1, <1>8, <1>9, KeptConn DEF Kept, tabs
  <1>11. ASSUME NEW t \in Tab PROVE TabOK(t)'
    <2>1. TabOK(t) /\ cursor[t] \in Row
      BY DEF DInv, ShapeOK
    <2>2. Watched(t)' <=> Watched(t)
      BY <1>1 DEF Watched, tabs
    <2> QED
      BY <1>1, <1>9, <2>1, <2>2, KeptTab DEF tabs
  <1>12. ShapeOK'
    <2>1. \A q \in Producer : \A c \in fly'[q].to : conn[c].at = "left" \/ c \in chan.subs
      BY <1>4 DEF DInv, ShapeOK
    <2> QED
      BY <1>1, <1>7, <2>1 DEF DInv, ShapeOK, tabs
  <1> QED
    BY <1>10, <1>11, <1>12 DEF DInv

LEMMA ProducersDeliver ==
  ASSUME PInv, PInv', CInv, Onward, DInv,
         \/ PutToken \/ SaveTurn \/ PutDone \/ PutEnd \/ PutCancel \/ Teardown
         \/ Steer \/ StopDetach \/ StopRaise \/ StopReads \/ StopNotes
         \/ \E p \in Producer : Publish(p)
  PROVE  DInv'
  <1>1. CASE PutToken \/ PutDone \/ PutEnd \/ PutCancel
    BY <1>1, OfferDelivers DEF PutToken, PutDone, PutEnd, PutCancel, run
  <1>2. CASE SaveTurn \/ Teardown
    BY <1>2, SameRun DEF SaveTurn, Teardown
  <1>3. CASE StopDetach \/ StopRaise \/ StopReads \/ StopNotes
    BY <1>3, StopDelivers
  <1>4. CASE Steer
    <2>1. Level' = Level
      BY <1>4, SteerPreserves
    <2>2. PICK r : r = [at |-> "appended", kind |-> "steer", id |-> Len(journal) + 1, to |-> {}]
      OBVIOUS
    <2>3. fly' = [fly EXCEPT !["steer"] = r] /\ JournalFree /\ UNCHANGED <<chan, conn, queue, tabs>>
      BY <1>4, <2>2 DEF Steer
    <2>4. r.at = "appended" /\ r.to \subseteq fly["steer"].to /\ "steer" \in Producer
      BY <2>2 DEF Producer
    <2> QED
      BY <2>1, <2>3, <2>4, RowDelivers
  <1>5. ASSUME NEW p \in Producer, Publish(p) PROVE DInv'
    <2>1. CASE Refuse(p)
      <3>1. /\ fly[p].at = "wants" /\ fly' = [fly EXCEPT ![p] = Resting]
            /\ UNCHANGED <<journal, chan, conn, queue, tabs>>
        BY <2>1 DEF Refuse, run
      <3>2. Resting.at = "idle" /\ Resting.to \subseteq fly[p].to
        BY DEF Resting
      <3> QED
        BY <3>1, <3>2, QuietStep
    <2>2. CASE AppendRow(p)
      BY <2>2, AppendRowPreserves, AppendRowDelivers
    <2>3. CASE Enter(p)
      BY <2>3, EnterDelivers
    <2>4. CASE Cast(p)
      BY <2>4, CastDelivers
    <2>5. CASE NoteId(p)
      <3>1. /\ fly[p].at = "noting" /\ fly' = [fly EXCEPT ![p] = Resting]
            /\ UNCHANGED <<journal, chan, conn, queue, tabs>>
        BY <2>5 DEF NoteId, run
      <3>2. Resting.at = "idle" /\ Resting.to \subseteq fly[p].to
        BY DEF Resting
      <3> QED
        BY <3>1, <3>2, QuietStep
    <2> QED
      BY <1>5, <2>1, <2>2, <2>3, <2>4, <2>5 DEF Publish
  <1> QED
    BY <1>1, <1>2, <1>3, <1>4, <1>5

-----------------------------------------------------------------------------
(* The rows a replay sends.                                                *)

LEMMA RowsFacts ==
  ASSUME PInv, NEW from \in Nat, NEW upto \in Nat, upto <= Len(journal)
  PROVE  /\ Rows(from, upto) \in Seq(Frames)
         /\ Len(Rows(from, upto)) = IF upto > from THEN upto - from ELSE 0
         /\ \A i \in 1..Len(Rows(from, upto)) :
              /\ Genuine(Rows(from, upto)[i]) /\ Rows(from, upto)[i].id = from + i
              /\ from + i \in 1..Len(journal) /\ Rows(from, upto)[i].kind = journal[from + i]
  <1> DEFINE n == IF upto > from THEN upto - from ELSE 0
  <1>1. Len(journal) \in Nat /\ Len(journal) \in Row /\ n \in Nat
    BY LevelFacts
  <1>2. Max({0, upto - from}) = n
    BY MaxPair
  <1>3. ASSUME NEW i \in 1..n
        PROVE  /\ from + i \in 1..Len(journal) /\ from + i \in Row
               /\ journal[from + i] \in RowKind /\ journal[from + i] \in Kind
    <2>1. from + i \in 1..Len(journal)
      BY <1>1
    <2>2. journal[from + i] \in RowKind
      BY <2>1, JournalFacts DEF PInv
    <2>3. from + i \in Row
      BY <1>1, <2>1, Rows0 DEF Row
    <2> QED
      BY <2>1, <2>2, <2>3 DEF RowKind, Kind
  <1> HIDE DEF n
  <1>4. Rows(from, upto) = [i \in 1..n |-> Frame(journal[from + i], from + i)]
    BY <1>2 DEF Rows
  <1>5. \A i \in 1..n : /\ Rows(from, upto)[i] \in Frames
                        /\ Rows(from, upto)[i].id = from + i /\ Rows(from, upto)[i].kind = journal[from + i]
    BY <1>3, <1>4, FrameFacts
  <1>6. Rows(from, upto) \in Seq(Frames) /\ Len(Rows(from, upto)) = n
    <2>1. Rows(from, upto) \in [1..n -> Frames]
      BY <1>4, <1>5
    <2>2. Rows(from, upto) \in Seq(Frames)
      BY <1>1, <2>1, SeqDef
    <2> QED
      BY <1>1, <1>4, <2>2, LenProperties
  <1>7. ASSUME NEW i \in 1..n PROVE Genuine(Rows(from, upto)[i])
    <2>1. from + i # 0
      BY <1>1
    <2> QED
      BY <1>3, <1>5, <2>1 DEF Genuine
  <1> QED
    BY <1>3, <1>5, <1>6, <1>7 DEF n

-----------------------------------------------------------------------------
(* The steps of a connection.                                              *)

LEMMA ActsDone ==
  ASSUME PInv, PInv', CInv, DInv, Onward, NEW c \in Conn, NEW t \in Tab, NEW k, Acts(c, t, k),
         ConnOK(c)', TabOK(t)'
  PROVE  DInv'
  <1>1. ShapeOK'
    BY ActsShape
  <1>2. (\A d \in Conn \ {c} : ConnOK(d)') /\ (\A u \in Tab \ {t} : TabOK(u)')
    BY ActsKeeps
  <1> QED
    BY <1>1, <1>2 DEF DInv

LEMMA ActsSilent ==
  ASSUME PInv, PInv', CInv, DInv, Onward, NEW c \in Conn, NEW t \in Tab, NEW k, Acts(c, t, k),
         UNCHANGED tabs, ConnOK(c)'
  PROVE  DInv'
  <1>1. TabOK(t) /\ cursor[t] \in Row
    BY DEF DInv, ShapeOK
  <1>2. \A d \in Conn : conn[d].tab = t => conn'[d].tab = t
    BY ActsShape DEF Acts
  <1>3. \A u : Exempt(u) => Exempt(u)'
    BY ActsKeeps
  <1>4. TabOK(t)'
    <2>1. Watched(t)
      BY ActsShape
    <2> QED
      BY <1>1, <1>2, <1>3, <2>1, KeptTab DEF tabs
  <1> QED
    BY <1>4, ActsDone

LEMMA AttachDelivers ==
  ASSUME PInv, PInv', CInv, DInv, Onward, NEW c \in Conn, NEW t \in Tab, NEW after, Attach(c, t, after)
  PROVE  DInv'
  <1>1. PICK k : k = [Unused EXCEPT !.at = "peeked", !.tab = t, !.after = after]
    OBVIOUS
  <1>2. /\ k.at = "peeked" /\ k.tab = t /\ k.after = after /\ k.blind = FALSE
        /\ k = [at |-> "peeked", tab |-> t, after |-> after, snap |-> None, blind |-> FALSE,
                bound |-> 0, todo |-> <<>>]
    BY <1>1 DEF Unused
  <1>3. /\ conn[c].at = "new" /\ alive /\ t \notin told
        /\ conn' = [conn EXCEPT ![c] = k] /\ UNCHANGED <<run, fly, chan, side, queue, tabs>>
        /\ \A d \in Conn : conn[d].at \in Open => conn[d].tab # t
        /\ after = cursor[t] \/ (after = None /\ \A d \in Conn : conn[d].tab # t)
        /\ cursor[t] \in Row /\ cursor[t] # None
    <2>1. cursor[t] \in Row /\ cursor[t] # None
      BY Rows0, ReplayAssumption DEF DInv, ShapeOK
    <2> QED
      BY <1>1, <2>1 DEF Attach, Watching
  <1>4. k \in ConnRec
    BY <1>2, <1>3, Rows0 DEF ConnRec, Open
  <1>5. Acts(c, t, k)
    <2>1. c \notin chan'.subs
      BY <1>3 DEF DInv, ShapeOK
    <2> QED
      BY <1>2, <1>3, <1>4, <2>1 DEF Acts, DInv, ShapeOK, Open, tabs
  <1>6. conn'[c] = k
    BY <1>5, ActsShape
  <1>7. TabOK(t)
    BY DEF DInv
  <1>8. after = None => cursor[t] = 0
    BY <1>3, <1>7 DEF TabOK
  <1>9. Level' = Level /\ ~Exempt(t)' => ~Exempt(t)
    BY <1>5, ActsKeeps
  <1>10. Level' = Level
    BY <1>5, ActsKeeps
  <1>11. ~Exempt(t)' /\ after # None => after <= Level'
    <2>1. ~Exempt(t) => cursor[t] <= Level
      BY <1>3, <1>7 DEF TabOK, Watched
    <2> QED
      BY <1>3, <1>9, <1>10, <2>1
  <1>12. cursor' = cursor
    BY <1>3 DEF tabs
  <1>13. ConnOK(c)'
    <2>1. AskedOK(c)'
      BY <1>2, <1>3, <1>6, <1>8, <1>11, <1>12 DEF AskedOK
    <2> QED
      BY <1>2, <1>6, <2>1 DEF ConnOK, SnapOK, ServeOK, Sending
  <1> QED
    BY <1>3, <1>5, <1>13, ActsSilent

\* A connection that breaks, or whose replay is over, promises nothing.
LEMMA LeaveDelivers ==
  ASSUME PInv, PInv', CInv, DInv, Onward, NEW c \in Conn, Break(c) \/ EndReplay(c)
  PROVE  DInv'
  <1>1. PICK k0, t : k0 = conn[c] /\ t = k0.tab
    OBVIOUS
  <1>2. PICK k : k = [k0 EXCEPT !.at = "left", !.snap = None, !.todo = <<>>, !.bound = 0]
    OBVIOUS
  <1>3. k0 \in ConnRec /\ k0.at \in Open /\ t \in Tab
    BY <1>1 DEF Break, EndReplay, DInv, ShapeOK, Open
  <1>4. k \in ConnRec /\ k.at = "left" /\ k.tab = t /\ k.blind = k0.blind
    <2>1. k = [at |-> "left", tab |-> t, after |-> k0.after, snap |-> None, blind |-> k0.blind,
               bound |-> 0, todo |-> <<>>]
      BY <1>1, <1>2, <1>3 DEF ConnRec
    <2>2. /\ k0.after \in Row \union {None} /\ k0.blind \in BOOLEAN /\ 0 \in Row
          /\ t \in Tab \union {None} /\ <<>> \in Seq(Frames) /\ None \in Snap \union {None}
      BY <1>3, Rows0, EmptySeq DEF ConnRec
    <2>3. k \in ConnRec
      BY <2>1, <2>2 DEF ConnRec
    <2> QED
      BY <2>1, <2>3
  <1>5. /\ conn' = [conn EXCEPT ![c] = k]
        /\ queue' = [queue EXCEPT ![c] = <<>>] \/ queue' = queue
        /\ UNCHANGED <<run, fly, chan, side, tabs>>
    BY <1>1, <1>2 DEF Break, EndReplay, Closed
  <1>6. Acts(c, t, k)
    <2>1. queue' \in [Conn -> Seq(Frames)] /\ \A d \in Conn \ {c} : queue'[d] = queue[d]
      <3>1. queue \in [Conn -> Seq(Frames)] /\ <<>> \in Seq(Frames)
        BY EmptySeq DEF DInv, ShapeOK
      <3> QED
        BY <1>5, <3>1
    <2> QED
      BY <1>1, <1>3, <1>4, <1>5, <2>1 DEF Acts, DInv, ShapeOK, Open, tabs
  <1>7. conn'[c] = k
    BY <1>3, <1>6, ActsShape
  <1>8. ConnOK(c)'
    BY <1>4, <1>7 DEF ConnOK, AskedOK, SnapOK, ServeOK, Sending
  <1> QED
    BY <1>3, <1>5, <1>6, <1>8, ActsSilent

LEMMA UnsubscribeDelivers ==
  ASSUME PInv, PInv', CInv, DInv, Onward, NEW c \in Conn, Unsubscribe(c)
  PROVE  DInv'
  <1>1. /\ conn[c].at = "left" /\ UNCHANGED <<run, fly, side, conn, queue, tabs>>
        /\ chan'.subs = chan.subs \ {c}
    BY DEF Unsubscribe, CInv, ChannelOK
  <1>2. \A d \in Conn : Pushed(d)' = Pushed(d)
    BY <1>1 DEF Pushed, Held, Level, Behind, run
  <1>3. \A t : Exempt(t) => Exempt(t)'
    BY <1>1, ExemptStays DEF Onward
  <1>4. ASSUME NEW d \in Conn PROVE ConnOK(d)'
    <2>1. d \in chan.subs /\ conn[d].at \in {"subscribed", "serving"} => Carried(d)
      BY <1>1, <1>2, CarriedSame
    <2> QED
      BY <1>1, <1>3, <2>1, KeptConn DEF Kept, tabs
  <1>5. ASSUME NEW t \in Tab PROVE TabOK(t)'
    <2>1. TabOK(t) /\ cursor[t] \in Row
      BY DEF DInv, ShapeOK
    <2>2. Watched(t)' <=> Watched(t)
      BY <1>1 DEF Watched, tabs
    <2> QED
      BY <1>1, <1>3, <2>1, <2>2, KeptTab DEF tabs
  <1>6. ShapeOK'
    BY <1>1 DEF DInv, ShapeOK, tabs
  <1> QED
    BY <1>4, <1>5, <1>6 DEF DInv

LEMMA SubscribeDelivers ==
  ASSUME PInv, PInv', CInv, DInv, Onward, NEW c \in Conn, Subscribe(c)
  PROVE  DInv'
  <1>1. PICK k0, t, q, last, first, snap :
          /\ k0 = conn[c] /\ t = k0.tab /\ q = chan.buffer /\ last = chan.last
          /\ first = IF q = <<>> THEN 0 ELSE q[1].id
          /\ snap = [holed |-> chan.holed, first |-> first, last |-> last]
    OBVIOUS
  <1>2. PICK k : k = [k0 EXCEPT !.at = "subscribed", !.snap = snap, !.blind = last = 0]
    OBVIOUS
  <1>3. /\ k0 \in ConnRec /\ k0.at = "peeked" /\ t \in Tab /\ AskedOK(c)
        /\ conn \in [Conn -> ConnRec] /\ queue \in [Conn -> Seq(Frames)]
    BY <1>1 DEF Subscribe, DInv, ShapeOK, ConnOK, Open
  <1>4. /\ chan \in [subs : SUBSET Conn, buffer : Seq(Frames), holed : BOOLEAN, last : Row]
        /\ q \in Seq(Frames) /\ last \in Row /\ last \in Nat /\ Level \in Nat
        /\ last = Level \/ (last = Level - 1 /\ Frozen)
    <2>1. chan \in [subs : SUBSET Conn, buffer : Seq(Frames), holed : BOOLEAN, last : Row]
      BY DEF CInv, ChannelOK
    <2>2. Level \in Nat
      BY LevelFacts
    <2> QED
      BY <1>1, <2>1, <2>2, Rows0 DEF CInv, ChannelOK, LastOK
  <1>5. PICK lo \in 1..(Level + 1) : RunOf(q, lo, Level)
    BY <1>1 DEF CInv, ChannelOK
  <1>6. lo \in Nat \ {0} /\ lo <= Level + 1
    BY <1>4, <1>5
  <1>7. q # <<>> => q[1] \in Frames /\ Genuine(q[1]) /\ (q[1].id # 0 => q[1].id = lo /\ lo <= Level)
    BY <1>4, <1>5, <1>6, RunTail DEF Genuine
  <1>8. first \in Row /\ snap \in Snap /\ snap.first = first /\ snap.last = last
    <2>1. first \in Row
      BY <1>1, <1>7, Rows0 DEF Frames
    <2> QED
      BY <1>1, <1>4, <2>1 DEF Snap
  <1>9. /\ k = [at |-> "subscribed", tab |-> t, after |-> k0.after, snap |-> snap, blind |-> last = 0,
                bound |-> k0.bound, todo |-> k0.todo]
    BY <1>1, <1>2, <1>3 DEF ConnRec
  <1>10. k \in ConnRec
    <2>1. /\ k0.after \in Row \union {None} /\ k0.bound \in Row /\ k0.todo \in Seq(Frames)
          /\ t \in Tab \union {None}
      BY <1>3 DEF ConnRec
    <2>2. (last = 0) \in BOOLEAN
      OBVIOUS
    <2> QED
      BY <1>8, <1>9, <2>1, <2>2 DEF ConnRec, Open
  <1>11. /\ conn' = [conn EXCEPT ![c] = k] /\ chan'.subs = chan.subs \union {c}
         /\ queue' = [queue EXCEPT ![c] = q] /\ UNCHANGED <<run, fly, side, tabs>>
    BY ZenonT(60), <1>1, <1>2, <1>4 DEF Subscribe
  <1>12. ~k0.blind
    BY <1>1, <1>3 DEF AskedOK
  <1>13. Acts(c, t, k)
    <2>1. queue' \in [Conn -> Seq(Frames)] /\ queue'[c] = q /\ \A d \in Conn \ {c} : queue'[d] = queue[d]
      BY <1>3, <1>4, <1>11
    <2>2. k.at = "subscribed" /\ k.tab = t
      BY <1>9
    <2> QED
      BY <1>1, <1>3, <1>10, <1>11, <1>12, <2>1, <2>2 DEF Acts, DInv, ShapeOK, Open, tabs
  <1>14. conn'[c] = k /\ queue'[c] = q
    BY <1>3, <1>11, <1>13, ActsShape
  <1>15. /\ Level' = Level /\ (Frozen' <=> Frozen) /\ (Stopped' <=> Stopped) /\ Pushed(c)' = Pushed(c)
         /\ \A u : Exempt(u) => Exempt(u)'
    BY <1>3, <1>13, ActsKeeps
  <1>16. Pushed(c) = Level
    <2>1. c \notin chan.subs /\ \A p \in Producer : c \notin fly[p].to
      BY <1>1, <1>3 DEF DInv, ShapeOK
    <2> QED
      BY <2>1 DEF Pushed, Held
  <1>17. RunOf(queue[c], lo, Pushed(c))' /\ lo \in 1..(Pushed(c)' + 1)
    <2>1. PICK hi : hi = Level
      OBVIOUS
    <2>2. RunOf(q, lo, hi)' /\ Pushed(c)' = hi
      BY <1>3, <1>13, <1>5, <1>15, <1>16, <2>1, ActsKeeps
    <2> QED
      BY <1>5, <1>14, <2>1, <2>2
  <1>18. ~Exempt(t)' => last # 0 /\ ~Stopped /\ ~Exempt(t)
    <2>1. last = 0 => k.blind
      BY <1>9
    <2>2. k.tab = t
      BY <1>9
    <2>3. last = 0 => Blind(t)'
      BY <1>14, <2>1, <2>2 DEF Blind
    <2> QED
      BY <1>15, <2>3 DEF Exempt
  <1>19. first = 0 /\ ~Stopped => q = <<>>
    BY <1>1, <1>7 DEF Genuine, Stopped
  <1>20. q = <<>> => lo = Level + 1
    BY <1>4, <1>5, <1>6, EmptyRun
  <1>21. Frozen => Level = Len(journal)
    BY DEF Frozen, Level
  <1>22. Frozen => Stopped
    BY DEF Frozen
  <1>23. k.after # None => k.after \in Int
    <2>1. k0.after \in Row \union {None}
      BY <1>3 DEF ConnRec
    <2>2. k0.after # None => k0.after \in Nat
      BY <2>1, Rows0, Zenon
    <2> QED
      BY <1>9, <2>2
  <1>24. /\ k.after = cursor[t] \/ (k.after = None /\ cursor[t] = 0)
         /\ ~Exempt(t) /\ k.after # None => k.after <= Level
    BY <1>1, <1>3, <1>9 DEF AskedOK
  <1>25. SnapOK(c)'
    <2>1. k.snap \in Snap /\ k.snap.last <= Level' /\ k.snap.last = last /\ k.snap.first = first
      BY <1>4, <1>8, <1>9, <1>15
    <2>2. ~Exempt(t)' => last # 0 /\ (k.after # None => k.after <= last)
      BY <1>4, <1>18, <1>22, <1>23, <1>24
    <2>3. first # 0 => lo = first /\ lo <= last + 1
      BY <1>1, <1>4, <1>6, <1>7
    <2>4. lo <= last + 1 \/ (Frozen /\ lo = Len(journal) + 1)
      BY <1>4, <1>6, <1>21
    <2>5. first = 0 /\ ~Exempt(t)' => lo = last + 1
      BY <1>4, <1>18, <1>19, <1>20, <1>22
    <2>6. journal' = journal
      BY <1>11 DEF run
    <2>7. k.tab = t
      BY <1>9
    <2> QED
      BY <1>14, <1>15, <1>17, <2>1, <2>2, <2>3, <2>4, <2>5, <2>6, <2>7 DEF SnapOK
  <1>26. AskedOK(c)'
    <2>1. cursor' = cursor
      BY <1>11 DEF tabs
    <2> QED
      BY <1>9, <1>14, <1>24, <2>1 DEF AskedOK
  <1>27. ConnOK(c)'
    BY <1>9, <1>14, <1>25, <1>26 DEF ConnOK, ServeOK, Sending
  <1> QED
    BY <1>3, <1>11, <1>13, <1>27, ActsSilent

\* How far the replay of a snapshot goes.
LEMMA UpToFacts ==
  ASSUME PInv, NEW snap \in Snap, snap.last <= Level, NEW lo \in Nat \ {0},
         snap.first # 0 => lo = snap.first /\ lo <= snap.last + 1
  PROVE  /\ UpTo(snap) \in Nat /\ UpTo(snap) <= Len(journal) /\ snap.last \in Nat
         /\ Min({UpTo(snap), Len(journal)}) = UpTo(snap)
         /\ snap.last # 0 => UpTo(snap) <= snap.last
         /\ snap.first # 0 => UpTo(snap) = lo - 1
         /\ snap.first = 0 => UpTo(snap) = IF snap.last # 0 THEN snap.last ELSE Len(journal)
  <1>1. /\ snap.first \in Nat /\ snap.last \in Nat /\ Len(journal) \in Nat /\ Level \in Nat
        /\ Level <= Len(journal)
    <2>1. snap.first \in Row /\ snap.last \in Row
      BY DEF Snap
    <2>2. snap.first \in Nat /\ snap.last \in Nat
      BY <2>1, Rows0, Zenon
    <2> QED
      BY <2>2, LevelFacts
  <1>2. Min({snap.first - 1, snap.last}) = IF snap.first - 1 <= snap.last THEN snap.first - 1 ELSE snap.last
    BY <1>1, MinPair
  <1>3. snap.first # 0 => UpTo(snap) = lo - 1 /\ lo - 1 <= snap.last
    BY <1>1, <1>2 DEF UpTo
  <1>4. snap.first = 0 => UpTo(snap) = IF snap.last # 0 THEN snap.last ELSE Len(journal)
    BY DEF UpTo
  <1>5. UpTo(snap) \in Nat /\ UpTo(snap) <= Len(journal) /\ (snap.last # 0 => UpTo(snap) <= snap.last)
    BY <1>1, <1>3, <1>4
  <1>6. Min({UpTo(snap), Len(journal)}) = UpTo(snap)
    BY <1>1, <1>5, MinPair
  <1> QED
    BY <1>1, <1>3, <1>4, <1>5, <1>6

\* What the handler sends from the journal and skips from its queue.
Planned(k, bound, todo) ==
  LET snap == k.snap
      from == From(k.after, snap)
  IN \/ k.after = None /\ bound = 0 /\ todo = <<>>
     \/ k.after # None /\ bound = 0 /\ todo = <<Frame("recover", 0)>>
     \/ k.after # None /\ bound = SkipBound(from, snap)
        /\ todo = Rows(from, Min({UpTo(snap), Len(journal)}))

\* What a plan to serve the run from row lo on needs to be sound.
PlanOK(t, m, after, bound, todo, lo) ==
  /\ bound \in Row /\ todo \in Seq(Frames)
  /\ after = None => todo = <<>> /\ bound = 0 /\ m = 0
  /\ \E from \in 0..m :
       /\ ~Exempt(t) => from = m
       /\ \A i \in 1..Len(todo) :
            \/ i = Len(todo) /\ todo[i].kind \in {"recover", "interrupted"}
            \/ /\ Genuine(todo[i]) /\ todo[i].id = from + i
               /\ alive /\ ~Exempt(t) => todo[i].id <= Level
  /\ \/ \E i \in 1..Len(todo) : Ends(todo[i])
     \/ /\ bound <= m \/ \E i \in 1..Len(todo) : bound <= todo[i].id
        /\ \/ lo - 1 <= m \/ \E i \in 1..Len(todo) : lo - 1 <= todo[i].id
           \/ Frozen /\ lo = Len(journal) + 1
           \/ after = None
        /\ \/ Exempt(t)
           \/ m <= bound /\ \A i \in 1..Len(todo) : todo[i].id <= bound

LEMMA PlanIsSound ==
  ASSUME PInv, NEW t, NEW k, NEW bound, NEW todo, Planned(k, bound, todo),
         NEW m \in Row, k.after = m \/ (k.after = None /\ m = 0),
         k.snap \in Snap, k.snap.last <= Level,
         ~Exempt(t) => k.snap.last # 0 /\ (k.after # None => k.after <= k.snap.last),
         NEW lo \in Nat \ {0}, lo <= Len(journal) + 1,
         k.snap.first # 0 => lo = k.snap.first /\ lo <= k.snap.last + 1,
         lo <= k.snap.last + 1 \/ (Frozen /\ lo = Len(journal) + 1)
  PROVE  PlanOK(t, m, k.after, bound, todo, lo)
  <1>1. m \in Nat /\ m # None /\ Level \in Nat /\ Len(journal) \in Nat /\ Level <= Len(journal)
    BY Rows0, LevelFacts, ReplayAssumption
  <1>2. CASE k.after = None /\ bound = 0 /\ todo = <<>>
    <2>1. m = 0
      BY <1>1, <1>2
    <2> QED
      BY <1>1, <1>2, <2>1, Rows0 DEF PlanOK
  <1>3. CASE k.after # None /\ bound = 0 /\ todo = <<Frame("recover", 0)>>
    <2>1. /\ Frame("recover", 0) \in Frames /\ Frame("recover", 0).kind = "recover"
      BY Rows0, FrameFacts DEF Kind
    <2>2. /\ todo \in Seq(Frames) /\ Len(todo) = 1 /\ todo[1].kind = "recover"
          /\ \A i \in 1..Len(todo) : i = Len(todo)
      BY <1>3, <2>1
    <2>3. Ends(todo[1]) /\ 1 \in 1..Len(todo) /\ m \in 0..m
      BY <1>1, <2>2 DEF Ends
    <2> QED
      BY <1>3, <2>2, <2>3, Rows0 DEF PlanOK
  <1>4. ASSUME k.after # None, bound = SkipBound(From(k.after, k.snap), k.snap),
               todo = Rows(From(k.after, k.snap), Min({UpTo(k.snap), Len(journal)}))
        PROVE  PlanOK(t, m, k.after, bound, todo, lo)
    <2>1. PICK from, up : from = From(k.after, k.snap) /\ up = UpTo(k.snap)
      OBVIOUS
    <2>2. /\ up \in Nat /\ up <= Len(journal) /\ k.snap.last \in Nat
          /\ Min({up, Len(journal)}) = up
          /\ k.snap.last # 0 => up <= k.snap.last
          /\ k.snap.first # 0 => up = lo - 1
          /\ k.snap.first = 0 => up = IF k.snap.last # 0 THEN k.snap.last ELSE Len(journal)
      BY <2>1, UpToFacts
    <2>3. k.after = m /\ from \in Nat /\ from <= m /\ (~Exempt(t) => from = m)
      BY SMTT(60), <1>1, <1>4, <2>1, <2>2 DEF From
    <2>4. todo = Rows(from, up)
      BY <1>4, <2>1, <2>2
    <2>5. /\ todo \in Seq(Frames)
          /\ Len(todo) = IF up > from THEN up - from ELSE 0
          /\ \A i \in 1..Len(todo) : Genuine(todo[i]) /\ todo[i].id = from + i
      BY ZenonT(60), <2>2, <2>3, <2>4, RowsFacts
    <2>6. \A n \in Int : n <= up => n <= m \/ \E i \in 1..Len(todo) : n <= todo[i].id
      <3>1. CASE up > from
        <4>1. up - from \in 1..Len(todo) /\ todo[up - from].id = up
          BY <2>2, <2>3, <2>5, <3>1
        <4> QED
          BY <4>1
      <3>2. CASE up <= from
        BY <1>1, <2>2, <2>3, <3>2
      <3> QED
        BY SMTT(60), <2>2, <2>3, <3>1, <3>2
    <2>7. PICK replayed \in {0, up} :
            /\ bound = IF from >= replayed THEN from ELSE replayed
            /\ ~Exempt(t) => replayed = up
      <3>1. PICK r : r = IF journal = <<>> \/ (k.snap.first = 0 /\ k.snap.last = 0) THEN 0 ELSE UpTo(k.snap)
        OBVIOUS
      <3>2. bound = Max({from, r})
        BY <1>4, <2>1, <3>1 DEF SkipBound
      <3>3. r \in {0, up} /\ r \in Int
        BY <2>1, <2>2, <3>1
      <3>4. ~Exempt(t) => journal # <<>> /\ k.snap.last # 0
        <4>1. journal = <<>> => Len(journal) = 0
          BY JournalFacts DEF PInv
        <4> QED
          BY <1>1, <2>2, <4>1
      <3>5. ~Exempt(t) => r = up
        BY <2>1, <3>1, <3>4
      <3>6. Max({from, r}) = IF from >= r THEN from ELSE r
        BY <2>3, <3>3, MaxPair
      <3> QED
        BY <3>2, <3>3, <3>5, <3>6
    <2>8. bound \in Nat /\ bound \in Row
      <3>1. bound \in Nat /\ (bound <= m \/ bound <= Len(journal))
        BY <1>1, <2>2, <2>3, <2>7
      <3>2. Len(journal) \in Row
        BY LevelFacts
      <3> QED
        BY <1>1, <3>1, <3>2, Rows0 DEF Row
    <2>9. bound <= m \/ \E i \in 1..Len(todo) : bound <= todo[i].id
      BY <2>2, <2>3, <2>6, <2>7, <2>8
    <2>10. \/ lo - 1 <= m \/ \E i \in 1..Len(todo) : lo - 1 <= todo[i].id
           \/ Frozen /\ lo = Len(journal) + 1
      <3>1. lo - 1 <= up \/ (Frozen /\ lo = Len(journal) + 1)
        BY <1>1, <2>2
      <3>2. lo - 1 \in Int
        OBVIOUS
      <3> QED
        BY <2>6, <3>1, <3>2
    <2>11. ASSUME ~Exempt(t) PROVE m <= bound /\ \A i \in 1..Len(todo) : todo[i].id <= bound /\ todo[i].id <= Level
      <3>1. from = m /\ bound >= from /\ bound >= up /\ up <= Level
        BY <1>1, <2>2, <2>3, <2>7, <2>11
      <3>2. ASSUME NEW i \in 1..Len(todo) PROVE todo[i].id <= up
        BY SMTT(60), <2>2, <2>3, <2>5
      <3>3. ASSUME NEW i \in 1..Len(todo) PROVE todo[i].id \in Int
        BY <2>3, <2>5
      <3> QED
        BY SMTT(60), <1>1, <2>2, <2>3, <2>8, <3>1, <3>2, <3>3
    <2>12. from \in 0..m
      BY <1>1, <2>3
    <2> HIDE <1>4, <2>6, <2>7
    <2>13. \E f \in 0..m :
             /\ ~Exempt(t) => f = m
             /\ \A i \in 1..Len(todo) : Genuine(todo[i]) /\ todo[i].id = f + i
                                        /\ (~Exempt(t) => todo[i].id <= Level)
      BY <2>3, <2>5, <2>11, <2>12
    <2>14. k.after # None
      BY <1>4
    <2> QED
      BY <2>5, <2>8, <2>9, <2>10, <2>11, <2>13, <2>14 DEF PlanOK
  <1> QED
    BY <1>2, <1>3, <1>4 DEF Planned

LEMMA PlanServes ==
  ASSUME PInv, PInv', CInv, DInv, Onward, NEW c \in Conn, NEW t \in Tab, NEW k, Acts(c, t, k),
         UNCHANGED tabs, k.at = "serving",
         NEW lo \in Nat \ {0}, PlanOK(t, cursor[t], k.after, k.bound, k.todo, lo),
         c \in chan'.subs, lo <= Pushed(c) + 1, RunOf(queue[c], lo, Pushed(c)), queue'[c] = queue[c]
  PROVE  ConnOK(c)'
  <1>1. PICK m, q, hi : m = cursor[t] /\ q = queue[c] /\ hi = Pushed(c)
    OBVIOUS
  <1>2. /\ conn'[c] = k /\ k.tab = t /\ cursor'[t] = m /\ m \in Nat
        /\ k.bound \in Row /\ k.todo \in Seq(Frames) /\ UNCHANGED <<journal, alive>>
    <2>1. conn'[c] = k /\ k.tab = t /\ cursor'[t] = m /\ UNCHANGED <<journal, alive>>
      <3>1. conn'[c] = k
        BY ActsShape
      <3>2. k.tab = t /\ UNCHANGED <<run, cursor>>
        BY DEF Acts, tabs
      <3> QED
        BY <1>1, <3>1, <3>2 DEF run
    <2>2. m \in Row /\ k.bound \in Row /\ k.todo \in Seq(Frames)
      BY <1>1 DEF DInv, ShapeOK, PlanOK
    <2>3. m \in Nat
      BY <2>2, Rows0, Zenon
    <2> QED
      BY <2>1, <2>2, <2>3
  <1>3. /\ Level' = Level /\ (Frozen' <=> Frozen) /\ Pushed(c)' = hi
        /\ \A u : Exempt(u) => Exempt(u)'
    BY <1>1, ActsKeeps
  <1>4. hi \in Nat
    BY <1>1, PushedFacts, LevelFacts
  <1>5. TodoOK(c)'
    <2>1. PICK from \in 0..m :
            /\ ~Exempt(t) => from = m
            /\ \A i \in 1..Len(k.todo) :
                 \/ i = Len(k.todo) /\ k.todo[i].kind \in {"recover", "interrupted"}
                 \/ /\ Genuine(k.todo[i]) /\ k.todo[i].id = from + i
                    /\ alive /\ ~Exempt(t) => k.todo[i].id <= Level
      BY <1>1 DEF PlanOK
    <2>2. k.after = None => k.todo = <<>>
      BY DEF PlanOK
    <2>3. \A f : Genuine(f) => Genuine(f)'
      BY GenuineStays DEF Onward
    <2>4. \A i \in 1..Len(k.todo) :
            \/ i = Len(k.todo) /\ k.todo[i].kind \in {"recover", "interrupted"}
            \/ /\ Genuine(k.todo[i])' /\ k.todo[i].id = from + i
               /\ alive' /\ ~Exempt(t)' => k.todo[i].id <= Level'
      BY <1>2, <1>3, <2>1, <2>3
    <2>5. ~Exempt(t)' => from = m
      BY <1>3, <2>1
    <2> QED
      BY <1>2, <2>2, <2>4, <2>5 DEF TodoOK
  <1>6. CASE \E i \in 1..Len(k.todo) : Ends(k.todo[i])
    <2>1. Doomed(c)'
      BY <1>2, <1>6 DEF Doomed
    <2> QED
      BY <1>2, <1>5, <2>1 DEF ConnOK, AskedOK, SnapOK, ServeOK
  <1>7. CASE ~\E i \in 1..Len(k.todo) : Ends(k.todo[i])
    <2>1. c \in chan'.subs /\ lo <= hi + 1 /\ RunOf(q, lo, hi) /\ queue'[c] = q
      BY <1>1
    <2>2. RunOf(q, lo, hi)'
      BY <2>1, ActsKeeps
    <2>3. RunOf(queue[c], lo, Pushed(c))' /\ lo \in 1..(Pushed(c)' + 1)
      BY <1>3, <1>4, <2>1, <2>2
    <2>4. \A n : Reaches(c, n)' <=> n <= m \/ \E i \in 1..Len(k.todo) : n <= k.todo[i].id
      BY <1>2 DEF Reaches
    <2>5. /\ k.bound <= m \/ \E i \in 1..Len(k.todo) : k.bound <= k.todo[i].id
          /\ \/ lo - 1 <= m \/ \E i \in 1..Len(k.todo) : lo - 1 <= k.todo[i].id
             \/ Frozen /\ lo = Len(journal) + 1
             \/ k.after = None
          /\ \/ Exempt(t)
             \/ m <= k.bound /\ \A i \in 1..Len(k.todo) : k.todo[i].id <= k.bound
          /\ k.after = None => m = 0
      BY <1>1, <1>7 DEF PlanOK
    <2>6. Reaches(c, k.bound)'
      BY <2>4, <2>5
    <2>7. Reaches(c, lo - 1)' \/ (Frozen' /\ lo = Len(journal') + 1) \/ (k.after = None /\ m = 0)
      BY <1>2, <1>3, <2>4, <2>5
    <2>8. ASSUME ~Exempt(t)', NEW n \in Row, Reaches(c, n)' PROVE n <= k.bound
      <3>1. m <= k.bound /\ \A i \in 1..Len(k.todo) : k.todo[i].id <= k.bound
        BY <1>3, <2>5, <2>8
      <3>2. n \in Nat /\ k.bound \in Nat
        BY <1>2, Rows0, Zenon
      <3>3. \A i \in 1..Len(k.todo) : k.todo[i].id \in Nat
        <4>1. ASSUME NEW i \in 1..Len(k.todo) PROVE k.todo[i].id \in Row
          <5>1. k.todo[i] \in Frames
            BY <1>2, <4>1, ElementOfSeq
          <5> QED
            BY <5>1 DEF Frames
        <4> QED
          BY <4>1, Rows0, Zenon
      <3>4. n <= m \/ \E i \in 1..Len(k.todo) : n <= k.todo[i].id
        BY <2>4, <2>8
      <3> QED
        BY <1>2, <3>1, <3>2, <3>3, <3>4
    <2>9. QueueOK(c)'
      BY <1>2, <2>1, <2>3, <2>6, <2>7, <2>8 DEF QueueOK
    <2> QED
      BY <1>2, <1>5, <2>9 DEF ConnOK, AskedOK, SnapOK, ServeOK
  <1> QED
    BY <1>6, <1>7

LEMMA ReplayDelivers ==
  ASSUME PInv, PInv', CInv, DInv, Onward, NEW c \in Conn, Replay(c)
  PROVE  DInv'
  <1>1. PICK k0, t, m, hi : k0 = conn[c] /\ t = k0.tab /\ m = cursor[t] /\ hi = Pushed(c)
    OBVIOUS
  <1>2. /\ k0 \in ConnRec /\ k0.at = "subscribed" /\ t \in Tab /\ AskedOK(c) /\ SnapOK(c)
        /\ m \in Row /\ c \in chan.subs /\ queue \in [Conn -> Seq(Frames)]
    BY <1>1 DEF Replay, DInv, ShapeOK, ConnOK, Open
  <1>3. PICK bound, todo :
          /\ conn' = [conn EXCEPT ![c].at = "serving", ![c].bound = bound, ![c].todo = todo, ![c].snap = None]
          /\ Planned(k0, bound, todo)
    <2>1. PICK plan :
            /\ conn' = [conn EXCEPT ![c].at = "serving", ![c].bound = plan.bound,
                                    ![c].todo = plan.todo, ![c].snap = None]
            /\ plan = IF k0.after = None THEN [bound |-> 0, todo |-> <<>>]
                      ELSE IF k0.snap.holed /\ ~Covered(From(k0.after, k0.snap), k0.snap)
                      THEN [bound |-> 0, todo |-> <<Frame("recover", 0)>>]
                      ELSE [bound |-> SkipBound(From(k0.after, k0.snap), k0.snap),
                            todo |-> Rows(From(k0.after, k0.snap), Min({UpTo(k0.snap), Len(journal)}))]
      BY <1>1 DEF Replay
    <2>2. PICK bound, todo : bound = plan.bound /\ todo = plan.todo
      OBVIOUS
    <2>3. Planned(k0, bound, todo)
      BY <2>1, <2>2 DEF Planned
    <2> QED
      BY ZenonT(60), <2>1, <2>2, <2>3
  <1>4. PICK k : k = [k0 EXCEPT !.at = "serving", !.bound = bound, !.todo = todo, !.snap = None]
    OBVIOUS
  <1>5. k = [at |-> "serving", tab |-> t, after |-> k0.after, snap |-> None, blind |-> k0.blind,
             bound |-> bound, todo |-> todo]
    BY <1>1, <1>2, <1>4 DEF ConnRec
  <1>6. k0.after = m \/ (k0.after = None /\ m = 0)
    BY <1>1, <1>2 DEF AskedOK
  <1>7. /\ k0.snap \in Snap /\ k0.snap.last <= Level
        /\ ~Exempt(t) => k0.snap.last # 0 /\ (k0.after # None => k0.after <= k0.snap.last)
    BY <1>1, <1>2 DEF SnapOK
  <1>8. PICK lo \in 1..(hi + 1) :
            /\ RunOf(queue[c], lo, hi)
            /\ k0.snap.first # 0 => lo = k0.snap.first /\ lo <= k0.snap.last + 1
            /\ lo <= k0.snap.last + 1 \/ (Frozen /\ lo = Len(journal) + 1)
    BY <1>1, <1>2 DEF SnapOK
  <1>9. lo \in Nat \ {0} /\ lo <= hi + 1 /\ lo <= Len(journal) + 1
    <2>1. hi \in Nat /\ hi <= Len(journal) /\ Len(journal) \in Nat
      BY <1>1, PushedFacts, LevelFacts
    <2> QED
      BY <1>8, <2>1
  <1>10. PlanOK(t, m, k0.after, bound, todo, lo)
    BY <1>2, <1>3, <1>6, <1>7, <1>8, <1>9, PlanIsSound
  <1>11. k \in ConnRec
    <2>1. /\ k0.after \in Row \union {None} /\ k0.blind \in BOOLEAN /\ t \in Tab \union {None}
      BY <1>1, <1>2 DEF ConnRec
    <2>2. bound \in Row /\ todo \in Seq(Frames)
      BY <1>10 DEF PlanOK
    <2>3. "serving" \in Open \union {"new", "left"} /\ None \in Snap \union {None}
      BY DEF Open
    <2> QED
      BY <1>5, <2>1, <2>2, <2>3 DEF ConnRec
  <1>12. conn' = [conn EXCEPT ![c] = k] /\ UNCHANGED <<run, fly, chan, side, queue, tabs>>
    BY ZenonT(60), <1>1, <1>3, <1>4 DEF Replay
  <1>13. Acts(c, t, k)
    <2>1. k.at = "serving" /\ k.tab = t /\ k.blind = k0.blind
      BY <1>5
    <2> QED
      BY <1>1, <1>2, <1>11, <1>12, <2>1 DEF Acts, DInv, ShapeOK, Open, tabs
  <1>14. ConnOK(c)'
    <2>1. k.at = "serving" /\ k.after = k0.after /\ k.bound = bound /\ k.todo = todo
      BY <1>5
    <2>2. PlanOK(t, cursor[t], k.after, k.bound, k.todo, lo)
      BY <1>1, <1>10, <2>1
    <2>3. /\ c \in chan'.subs /\ lo <= Pushed(c) + 1 /\ RunOf(queue[c], lo, Pushed(c))
          /\ queue'[c] = queue[c] /\ UNCHANGED tabs
      BY <1>1, <1>2, <1>8, <1>9, <1>12
    <2> QED
      BY <1>2, <1>9, <1>13, <2>1, <2>2, <2>3, PlanServes
  <1> QED
    BY <1>2, <1>12, <1>13, <1>14, ActsSilent

\* The journal alone: the rows that follow the tab's.
LEMMA AttachLateDelivers ==
  ASSUME PInv, PInv', CInv, DInv, Onward, NEW c \in Conn, NEW t \in Tab, AttachLate(c, t)
  PROVE  DInv'
  <1>1. PICK m, len, todo :
          /\ m = cursor[t] /\ len = Len(journal)
          /\ todo = Rows(IF m > len THEN 0 ELSE m, len)
                    \o (IF Terminal THEN <<>> ELSE <<Frame("interrupted", len + 1)>>)
    OBVIOUS
  <1>2. PICK k : k = [Unused EXCEPT !.at = "late", !.tab = t, !.after = m, !.todo = todo]
    OBVIOUS
  <1>3. k = [at |-> "late", tab |-> t, after |-> m, snap |-> None, blind |-> FALSE,
             bound |-> 0, todo |-> todo]
    BY <1>2 DEF Unused
  <1>4. /\ conn[c].at = "new" /\ ~alive /\ t \notin told
        /\ conn' = [conn EXCEPT ![c] = k] /\ UNCHANGED <<run, fly, chan, side, queue, tabs>>
        /\ \A d \in Conn : conn[d].at \in Open => conn[d].tab # t
    BY <1>1, <1>2 DEF AttachLate, Watching
  <1>5. /\ m \in Row /\ m \in Nat /\ m # None /\ len \in Nat /\ TabOK(t)
        /\ m <= len
    <2>1. TabOK(t) /\ m \in Row /\ len \in Nat
      BY <1>1, LevelFacts DEF DInv, ShapeOK
    <2>2. m \in Nat /\ m # None
      BY <2>1, Rows0, ReplayAssumption, Zenon
    <2> QED
      BY <1>1, <1>4, <2>1, <2>2 DEF TabOK, Watched
  <1>6. PICK rows, rest :
          /\ rows = Rows(m, len) /\ rest = IF Terminal THEN <<>> ELSE <<Frame("interrupted", len + 1)>>
          /\ todo = rows \o rest
    <2>1. ~(m > len)
      BY <1>5
    <2> QED
      BY <1>1, <2>1
  <1>7. /\ rows \in Seq(Frames) /\ Len(rows) = len - m
        /\ \A i \in 1..Len(rows) : /\ Genuine(rows[i]) /\ rows[i].id = m + i
                                   /\ m + i \in 1..len /\ rows[i].kind = journal[m + i]
    <2>1. m <= len /\ len <= Len(journal)
      BY <1>1, <1>5
    <2>2. /\ rows \in Seq(Frames)
          /\ Len(rows) = IF len > m THEN len - m ELSE 0
          /\ \A i \in 1..Len(rows) :
               /\ Genuine(rows[i]) /\ rows[i].id = m + i
               /\ m + i \in 1..Len(journal) /\ rows[i].kind = journal[m + i]
      BY <1>5, <1>6, <2>1, RowsFacts
    <2>3. Len(rows) = len - m
      BY <1>5, <2>1, <2>2
    <2>4. Len(journal) = len
      BY <1>1
    <2> QED
      BY <2>2, <2>3, <2>4, Zenon
  <1>8. /\ Frame("interrupted", len + 1) \in Frames /\ Frame("interrupted", len + 1).kind = "interrupted"
    BY <1>1, LevelFacts, FrameFacts DEF Kind
  <1>9. /\ rest \in Seq(Frames) /\ (Terminal => Len(rest) = 0)
        /\ ~Terminal => Len(rest) = 1 /\ rest[1].kind = "interrupted"
    BY <1>6, <1>8
  <1>10. /\ todo \in Seq(Frames) /\ Len(todo) = Len(rows) + Len(rest)
         /\ Len(rows) \in Nat /\ Len(rest) \in Nat
         /\ \A i \in 1..Len(todo) : todo[i] = IF i <= Len(rows) THEN rows[i] ELSE rest[i - Len(rows)]
    BY <1>6, <1>7, <1>9, ConcatProperties, LenProperties
  <1>11. \E from \in 0..m :
           /\ ~Exempt(t) => from = m
           /\ \A i \in 1..Len(todo) :
                \/ i = Len(todo) /\ todo[i].kind \in {"recover", "interrupted"}
                \/ /\ Genuine(todo[i]) /\ todo[i].id = from + i
                   /\ alive /\ ~Exempt(t) => todo[i].id <= Level
    <2>1. ASSUME NEW i \in 1..Len(todo)
          PROVE  \/ i = Len(todo) /\ todo[i].kind \in {"recover", "interrupted"}
                 \/ Genuine(todo[i]) /\ todo[i].id = m + i
      <3>1. CASE i <= Len(rows)
        <4>1. i \in 1..Len(rows) /\ todo[i] = rows[i]
          BY <1>10, <3>1
        <4> QED
          BY <1>7, <4>1
      <3>2. CASE i > Len(rows)
        <4>1. ~Terminal
          BY <1>5, <1>7, <1>9, <1>10, <3>2
        <4>2. i = Len(rows) + 1 /\ i = Len(todo) /\ i - Len(rows) = 1
          <5>1. Len(rest) = 1
            BY <1>9, <4>1
          <5>2. Len(todo) = Len(rows) + 1 /\ Len(rows) \in Nat
            BY <1>10, <5>1
          <5> QED
            BY <3>2, <5>2
        <4> QED
          BY <1>9, <1>10, <3>2, <4>1, <4>2
      <3> QED
        BY <1>5, <1>7, <3>1, <3>2
    <2>2. m \in 0..m
      BY <1>5
    <2> QED
      BY <1>4, <2>1, <2>2
  <1>12. Acts(c, t, k)
    <2>1. k.at = "late" /\ k.tab = t /\ k.blind = FALSE
      BY <1>3
    <2>2. k \in ConnRec
      BY <1>3, <1>5, <1>10, Rows0 DEF ConnRec, Open
    <2>3. c \notin chan'.subs
      BY <1>4 DEF DInv, ShapeOK
    <2> QED
      BY <1>4, <2>1, <2>2, <2>3 DEF Acts, DInv, ShapeOK, Open, tabs
  <1>13. TodoOK(c)'
    <2>1. conn'[c] = k /\ k.tab = t /\ k.todo = todo /\ k.after = m
      BY <1>3, <1>12, ActsShape
    <2>2. cursor'[t] = m /\ alive' = alive /\ Level' = Level /\ (Exempt(t) => Exempt(t)')
      BY <1>1, <1>4, <1>12, ActsKeeps DEF tabs, run
    <2>3. \A f : Genuine(f) => Genuine(f)'
      BY GenuineStays DEF Onward
    <2>4. PICK from \in 0..m :
            /\ ~Exempt(t) => from = m
            /\ \A i \in 1..Len(todo) :
                 \/ i = Len(todo) /\ todo[i].kind \in {"recover", "interrupted"}
                 \/ /\ Genuine(todo[i]) /\ todo[i].id = from + i
                    /\ alive /\ ~Exempt(t) => todo[i].id <= Level
      BY <1>11
    <2>5. \A i \in 1..Len(todo) :
            \/ i = Len(todo) /\ todo[i].kind \in {"recover", "interrupted"}
            \/ /\ Genuine(todo[i])' /\ todo[i].id = from + i
               /\ alive' /\ ~Exempt(t)' => todo[i].id <= Level'
      BY <2>2, <2>3, <2>4
    <2>6. ~Exempt(t)' => from = m
      BY <2>2, <2>4
    <2> QED
      BY <1>5, <2>1, <2>2, <2>5, <2>6 DEF TodoOK
  <1>14. ConnOK(c)'
    <2>1. conn'[c].at = "late"
      BY <1>3, <1>12, ActsShape
    <2> QED
      BY <1>13, <2>1 DEF ConnOK, AskedOK, SnapOK, ServeOK
  <1> QED
    BY <1>4, <1>12, <1>14, ActsSilent

-----------------------------------------------------------------------------
(* What a tab renders.                                                     *)

\* A frame that does not end the connection is the row that the journal holds
\* under its id.
Fits(t, f) ==
  /\ f.id \in Row
  /\ ~Exempt(t) => f.kind \in {"cancel", "interrupted", "recover"} \/ f.id > cursor[t]
  /\ ~Ends(f) => /\ f.id \in 1..Len(journal) /\ f.kind = journal[f.id]
                 /\ alive /\ ~Exempt(t) => f.id <= Level

LEMMA RenderShape ==
  ASSUME DInv, NEW c \in Conn, NEW t \in Tab, conn[c].tab = t, NEW f, f.id \in Row, Render(c, f)
  PROVE  /\ cursor' \in [Tab -> Row] /\ shown' \in [Tab -> SUBSET Row] /\ twice' \in [Tab -> SUBSET Row]
         /\ \A u \in Tab \ {t} : cursor'[u] = cursor[u] /\ shown'[u] = shown[u] /\ twice'[u] = twice[u]
         /\ cursor'[t] = IF f.id > cursor[t] THEN f.id ELSE cursor[t]
         /\ IF f.kind \in {"cancel", "interrupted", "recover"}
            THEN shown'[t] = shown[t] /\ twice'[t] = twice[t]
            ELSE /\ shown'[t] = shown[t] \union {f.id}
                 /\ twice'[t] = twice[t] \union (shown[t] \intersect {f.id})
         /\ told' = IF Settles(f) THEN told \union {t} ELSE told
  <1>1. cursor \in [Tab -> Row] /\ shown \in [Tab -> SUBSET Row] /\ twice \in [Tab -> SUBSET Row]
    BY DEF DInv, ShapeOK
  <1>2. cursor' = [cursor EXCEPT ![t] = IF f.id > cursor[t] THEN f.id ELSE cursor[t]]
    BY DEF Render
  <1>3. \/ f.kind \in {"cancel", "interrupted", "recover"} /\ shown' = shown /\ twice' = twice
        \/ /\ f.kind \notin {"cancel", "interrupted", "recover"}
           /\ shown' = [shown EXCEPT ![t] = shown[t] \union {f.id}]
           /\ twice' = [twice EXCEPT ![t] = twice[t] \union (shown[t] \intersect {f.id})]
    BY DEF Render
  <1>4. told' = IF Settles(f) THEN told \union {t} ELSE told
    BY DEF Render
  <1>5. shown[t] \union {f.id} \in SUBSET Row /\ twice[t] \union (shown[t] \intersect {f.id}) \in SUBSET Row
    BY <1>1
  <1>6. cursor' \in [Tab -> Row] /\ (\A u \in Tab \ {t} : cursor'[u] = cursor[u])
        /\ cursor'[t] = IF f.id > cursor[t] THEN f.id ELSE cursor[t]
    BY <1>1, <1>2
  <1>7. /\ shown' \in [Tab -> SUBSET Row] /\ twice' \in [Tab -> SUBSET Row]
        /\ \A u \in Tab \ {t} : shown'[u] = shown[u] /\ twice'[u] = twice[u]
        /\ IF f.kind \in {"cancel", "interrupted", "recover"}
           THEN shown'[t] = shown[t] /\ twice'[t] = twice[t]
           ELSE /\ shown'[t] = shown[t] \union {f.id}
                /\ twice'[t] = twice[t] \union (shown[t] \intersect {f.id})
    BY <1>1, <1>3, <1>5
  <1> QED
    BY <1>4, <1>6, <1>7

LEMMA RenderTab ==
  ASSUME PInv, DInv, NEW c \in Conn, NEW t \in Tab, conn[c].tab = t, Watched(t),
         NEW f, Fits(t, f), Render(c, f), UNCHANGED <<journal, alive>>, Level' = Level,
         Exempt(t) => Exempt(t)', \E d \in Conn : conn'[d].tab = t,
         Ends(f) => ~\E d \in Conn : conn'[d].at \in Open /\ conn'[d].tab = t
  PROVE  TabOK(t)'
  <1>1. /\ cursor'[t] = IF f.id > cursor[t] THEN f.id ELSE cursor[t]
        /\ IF f.kind \in {"cancel", "interrupted", "recover"}
           THEN shown'[t] = shown[t] /\ twice'[t] = twice[t]
           ELSE /\ shown'[t] = shown[t] \union {f.id}
                /\ twice'[t] = twice[t] \union (shown[t] \intersect {f.id})
        /\ told' = IF Settles(f) THEN told \union {t} ELSE told
    BY ZenonT(60), RenderShape DEF Fits
  <1>2. f.id \in Nat /\ cursor[t] \in Nat /\ shown[t] \subseteq Nat
    <2>1. f.id \in Row /\ cursor[t] \in Row /\ shown[t] \subseteq Row
      BY DEF Fits, DInv, ShapeOK
    <2> QED
      BY <2>1, Rows0, Zenon
  <1>3. /\ TabOK(t)
        /\ cursor[t] \in {0} \union shown[t] /\ \A m \in shown[t] : m <= cursor[t]
        /\ cursor[t] # 0 => /\ cursor[t] <= Len(journal) /\ journal[cursor[t]] # "end"
                            /\ journal[cursor[t]] = "done" => t \in told
        /\ alive /\ ~Exempt(t) => cursor[t] <= Level
    BY DEF DInv, TabOK, IsTop
  <1>4. twice'[t] = {} \/ Exempt(t)'
    <2>1. CASE Exempt(t)
      BY <2>1
    <2>2. CASE ~Exempt(t)
      <3>1. twice[t] = {}
        BY <1>3, <2>2 DEF TabOK
      <3>2. f.kind \in {"cancel", "interrupted", "recover"} \/ f.id \notin shown[t]
        BY <1>2, <1>3, <2>2 DEF Fits
      <3> QED
        BY <1>1, <3>1, <3>2
    <2> QED
      BY <2>1, <2>2
  <1>5. CASE Ends(f)
    <2>1. ~Watched(t)'
      BY <1>1, <1>5 DEF Watched, Settles
    <2> QED
      BY <1>4, <2>1 DEF TabOK
  <1>6. CASE ~Ends(f)
    <2>1. f.kind \in {"token", "steer", "done"}
      BY <1>6 DEF Ends
    <2>2. shown'[t] = shown[t] \union {f.id}
      BY <1>1, <2>1
    <2>3. IsTop(t, cursor[t])'
      BY <1>1, <1>2, <1>3, <2>2 DEF IsTop
    <2>4. f.id <= Len(journal) /\ journal[f.id] # "end" /\ (journal[f.id] = "done" => t \in told')
      BY <1>1, <1>6, <2>1 DEF Fits, Settles
    <2>5. cursor'[t] # 0 => /\ cursor'[t] <= Len(journal') /\ journal'[cursor'[t]] # "end"
                            /\ journal'[cursor'[t]] = "done" => t \in told'
      BY <1>1, <1>3, <2>4
    <2>6. alive' /\ ~Exempt(t)' => cursor'[t] <= Level'
      BY <1>1, <1>3, <1>6 DEF Fits
    <2> QED
      BY <1>4, <2>3, <2>5, <2>6 DEF TabOK
  <1> QED
    BY <1>5, <1>6

\* The tab closes a connection that a frame ended.
LEMMA CloseActs ==
  ASSUME PInv, DInv, NEW c \in Conn, conn[c].at \in Sending, NEW f, Fits(conn[c].tab, f), Ends(f),
         Render(c, f), conn' = Closed(c), queue' = [queue EXCEPT ![c] = <<>>],
         UNCHANGED <<run, fly, chan, side>>
  PROVE  \E k : Acts(c, conn[c].tab, k) /\ k.at = "left"
  <1>1. PICK k0, t : k0 = conn[c] /\ t = k0.tab
    OBVIOUS
  <1>2. PICK k : k = [k0 EXCEPT !.at = "left", !.snap = None, !.todo = <<>>, !.bound = 0]
    OBVIOUS
  <1>3. k0 \in ConnRec /\ t \in Tab
    BY <1>1 DEF DInv, ShapeOK, Open, Sending
  <1>4. /\ k = [at |-> "left", tab |-> t, after |-> k0.after, snap |-> None, blind |-> k0.blind,
                bound |-> 0, todo |-> <<>>]
    BY <1>1, <1>2, <1>3 DEF ConnRec
  <1>5. k \in ConnRec
    <2>1. /\ k0.after \in Row \union {None} /\ k0.blind \in BOOLEAN /\ 0 \in Row
          /\ t \in Tab \union {None} /\ <<>> \in Seq(Frames) /\ None \in Snap \union {None}
      BY <1>3, Rows0, EmptySeq DEF ConnRec
    <2> QED
      BY <1>4, <2>1 DEF ConnRec
  <1>6. conn' = [conn EXCEPT ![c] = k]
    BY <1>1, <1>2 DEF Closed
  <1>7. queue' \in [Conn -> Seq(Frames)] /\ \A d \in Conn \ {c} : queue'[d] = queue[d]
    BY DEF DInv, ShapeOK
  <1>8. /\ cursor' \in [Tab -> Row] /\ shown' \in [Tab -> SUBSET Row] /\ twice' \in [Tab -> SUBSET Row]
        /\ \A u \in Tab \ {t} : cursor'[u] = cursor[u] /\ shown'[u] = shown[u] /\ twice'[u] = twice[u]
        /\ told' = told \union {t}
    BY <1>1, <1>3, RenderShape DEF Fits, Settles
  <1>9. k.at = "left" /\ k.tab = t /\ k.blind = k0.blind
    BY <1>4
  <1>10. Acts(c, t, k)
    BY <1>1, <1>5, <1>6, <1>7, <1>8, <1>9 DEF Acts, Open, Sending
  <1> QED
    BY <1>1, <1>9, <1>10

LEMMA CloseDelivers ==
  ASSUME PInv, PInv', CInv, DInv, Onward, NEW c \in Conn, conn[c].at \in Sending,
         NEW f, Fits(conn[c].tab, f), Ends(f), Render(c, f), conn' = Closed(c),
         queue' = [queue EXCEPT ![c] = <<>>], UNCHANGED <<run, fly, chan, side>>
  PROVE  DInv'
  <1>1. PICK t, k : t = conn[c].tab /\ Acts(c, t, k) /\ k.at = "left"
    BY CloseActs
  <1>2. t \in Tab
    BY <1>1 DEF DInv, ShapeOK, Open, Sending
  <1>3. conn'[c] = k
    BY <1>1, <1>2, ActsShape
  <1>4. ConnOK(c)'
    BY <1>1, <1>3 DEF ConnOK, AskedOK, SnapOK, ServeOK, Sending
  <1>5. Level' = Level /\ (Exempt(t) => Exempt(t)')
    BY <1>1, <1>2, ActsKeeps
  <1>6. conn'[c].tab = t
    BY <1>1, <1>3 DEF Acts
  <1>7. TabOK(t)'
    <2>1. Watched(t)
      BY <1>1, <1>2, ActsShape
    <2>2. ~\E d \in Conn : conn'[d].at \in Open /\ conn'[d].tab = t
      BY <1>1, <1>2, <1>3, ActsShape DEF Open
    <2> QED
      BY <1>1, <1>2, <1>5, <1>6, <2>1, <2>2, RenderTab DEF run
  <1> QED
    BY <1>1, <1>2, <1>4, <1>7, ActsDone

LEMMA TailFacts ==
  ASSUME NEW s \in Seq(Frames), s # <<>>
  PROVE  /\ Len(s) \in Nat \ {0} /\ Tail(s) \in Seq(Frames) /\ Len(Tail(s)) = Len(s) - 1
         /\ Head(s) = s[1] /\ s[1] \in Frames /\ s[1].id \in Row
         /\ \A i \in 1..Len(Tail(s)) : Tail(s)[i] = s[i + 1]
  <1>1. /\ Len(s) \in Nat \ {0} /\ Tail(s) \in Seq(Frames) /\ Len(Tail(s)) = Len(s) - 1
        /\ Head(s) = s[1] /\ \A i \in 1..Len(Tail(s)) : Tail(s)[i] = s[i + 1]
    BY HeadTailProperties, EmptySeq
  <1>2. s[1] \in Frames
    BY <1>1, ElementOfSeq
  <1> QED
    BY <1>1, <1>2 DEF Frames

\* The head of a replay.
LEMMA EmitFits ==
  ASSUME PInv, DInv, NEW c \in Conn, conn[c].at \in Sending, conn[c].todo # <<>>,
         NEW h, h = Head(conn[c].todo)
  PROVE  /\ Fits(conn[c].tab, h) /\ h = conn[c].todo[1] /\ conn[c].todo \in Seq(Frames)
         /\ conn[c].tab \in Tab /\ Watched(conn[c].tab)
         /\ h.kind \in {"recover", "interrupted"} \/ h.id <= cursor[conn[c].tab] + 1
  <1>1. PICK k, t, m : k = conn[c] /\ t = k.tab /\ m = cursor[t]
    OBVIOUS
  <1>2. /\ k \in ConnRec /\ t \in Tab /\ Watched(t) /\ m \in Row /\ TodoOK(c) /\ TabOK(t)
    BY <1>1 DEF DInv, ShapeOK, ConnOK, ServeOK, Open, Sending, Watched
  <1>3. k.todo \in Seq(Frames) /\ m \in Nat
    <2>1. k.todo \in Seq(Frames)
      BY <1>2 DEF ConnRec
    <2>2. m \in Nat
      BY <1>2, Rows0, Zenon
    <2> QED
      BY <2>1, <2>2
  <1>4. Len(k.todo) \in Nat \ {0} /\ 1 \in 1..Len(k.todo) /\ h = k.todo[1] /\ h \in Frames
    BY <1>1, <1>3, EmptySeq, LenProperties, HeadTailProperties
  <1>5. PICK from \in 0..m :
            /\ ~Exempt(t) => from = m
            /\ \A i \in 1..Len(k.todo) :
                 \/ i = Len(k.todo) /\ k.todo[i].kind \in {"recover", "interrupted"}
                 \/ /\ Genuine(k.todo[i]) /\ k.todo[i].id = from + i
                    /\ alive /\ ~Exempt(t) => k.todo[i].id <= Level
    BY <1>1, <1>2 DEF TodoOK
  <1>6. h.id \in Row
    BY <1>4 DEF Frames
  <1>7. CASE h.kind \in {"recover", "interrupted"}
    <2>1. Ends(h)
      BY <1>7 DEF Ends
    <2> QED
      BY <1>1, <1>2, <1>3, <1>4, <1>6, <1>7, <2>1 DEF Fits
  <1>8. CASE h.kind \notin {"recover", "interrupted"}
    <2>1. /\ Genuine(h) /\ h.id = from + 1 /\ (alive /\ ~Exempt(t) => h.id <= Level)
      BY <1>4, <1>5, <1>8
    <2>2. h.id # 0 /\ h.id <= m + 1 /\ (~Exempt(t) => h.id > m)
      BY <1>3, <1>5, <2>1
    <2>3. h.id \in 1..Len(journal) /\ h.kind = journal[h.id]
      BY <2>1, <2>2 DEF Genuine
    <2> QED
      BY <1>1, <1>2, <1>3, <1>4, <1>6, <2>1, <2>2, <2>3 DEF Fits
  <1> QED
    BY <1>7, <1>8

\* The queue is served as before once a row of the replay is out.
LEMMA EmitServes ==
  ASSUME PInv, PInv', CInv, DInv, Onward, NEW c \in Conn, NEW t \in Tab, NEW k, Acts(c, t, k),
         conn[c].at \in Sending, conn[c].tab = t, NEW h, conn[c].todo # <<>>, h = Head(conn[c].todo),
         ~Ends(h), k = [conn[c] EXCEPT !.todo = Tail(conn[c].todo)],
         cursor'[t] = IF h.id > cursor[t] THEN h.id ELSE cursor[t],
         UNCHANGED <<chan, queue>>
  PROVE  ConnOK(c)'
  <1>1. PICK k0, m, todo, q, hi :
          k0 = conn[c] /\ m = cursor[t] /\ todo = k0.todo /\ q = queue[c] /\ hi = Pushed(c)
    OBVIOUS
  <1>2. /\ k0 \in ConnRec /\ m \in Row /\ TodoOK(c)
        /\ k0.at = "serving" => Doomed(c) \/ QueueOK(c)
        /\ h = todo[1] /\ todo \in Seq(Frames) /\ todo # <<>>
    BY <1>1, EmitFits DEF DInv, ShapeOK, ConnOK, ServeOK
  <1>3. /\ k.at = k0.at /\ k0.at \in Sending /\ k.tab = t /\ k.after = k0.after /\ k.bound = k0.bound
        /\ k.todo = Tail(todo) /\ k.bound \in Row
    BY <1>1, <1>2 DEF ConnRec
  <1>4. conn'[c] = k
    BY ActsShape
  <1>5. /\ Level' = Level /\ (Frozen' <=> Frozen) /\ Pushed(c)' = hi
        /\ \A u : Exempt(u) => Exempt(u)'
    BY <1>1, ActsKeeps
  <1>6. UNCHANGED <<journal, alive>>
    BY DEF Acts, run
  <1>7. /\ Len(todo) \in Nat \ {0} /\ k.todo \in Seq(Frames) /\ Len(k.todo) = Len(todo) - 1
        /\ \A i \in 1..Len(k.todo) : k.todo[i] = todo[i + 1] /\ i + 1 \in 1..Len(todo)
        /\ 1 \in 1..Len(todo)
        /\ \A i \in 1..Len(todo) : i = 1 \/ i - 1 \in 1..Len(k.todo)
    <2>1. /\ Len(todo) \in Nat \ {0} /\ k.todo \in Seq(Frames) /\ Len(k.todo) = Len(todo) - 1
          /\ \A i \in 1..Len(k.todo) : k.todo[i] = todo[i + 1]
      BY ZenonT(60), <1>2, <1>3, TailFacts
    <2> QED
      BY <2>1
  <1>8. /\ m \in Nat /\ h.id \in Nat
    <2>1. h.id \in Row
      BY <1>2, TailFacts
    <2> QED
      BY <1>2, <2>1, Rows0, Zenon
  <1>9. PICK top \in Nat : cursor'[t] = top /\ top = IF h.id > m THEN h.id ELSE m
    BY <1>1, <1>8
  <1>10. PICK from \in 0..m :
            /\ ~Exempt(t) => from = m
            /\ \A i \in 1..Len(todo) :
                 \/ i = Len(todo) /\ todo[i].kind \in {"recover", "interrupted"}
                 \/ /\ Genuine(todo[i]) /\ todo[i].id = from + i
                    /\ alive /\ ~Exempt(t) => todo[i].id <= Level
    BY <1>1, <1>2 DEF TodoOK
  <1>11. k.after # None
    BY <1>1, <1>2, <1>3 DEF TodoOK
  <1>12. h.id = from + 1 /\ from + 1 \in 0..top /\ (~Exempt(t) => from + 1 = top)
    <2>1. h.kind \notin {"recover", "interrupted"}
      BY DEF Ends
    <2>2. h.id = from + 1
      BY <1>2, <1>7, <1>10, <2>1
    <2> QED
      BY <1>8, <1>9, <1>10, <2>2
  <1>13. TodoOK(c)'
    <2>1. \A f : Genuine(f) => Genuine(f)'
      BY GenuineStays DEF Onward
    <2>2. ASSUME NEW i \in 1..Len(k.todo)
          PROVE  \/ i = Len(k.todo) /\ k.todo[i].kind \in {"recover", "interrupted"}
                 \/ /\ Genuine(k.todo[i])' /\ k.todo[i].id = (from + 1) + i
                    /\ alive' /\ ~Exempt(t)' => k.todo[i].id <= Level'
      <3>1. i + 1 \in 1..Len(todo) /\ k.todo[i] = todo[i + 1] /\ (i + 1 = Len(todo) => i = Len(k.todo))
        <4>1. i \in Int /\ i + 1 \in 1..Len(todo) /\ k.todo[i] = todo[i + 1]
          BY <1>7
        <4>2. Len(todo) \in Nat /\ Len(k.todo) = Len(todo) - 1
          BY <1>7
        <4> QED
          BY SMTT(60), <4>1, <4>2
      <3>2. \/ i + 1 = Len(todo) /\ todo[i + 1].kind \in {"recover", "interrupted"}
            \/ /\ Genuine(todo[i + 1]) /\ todo[i + 1].id = from + (i + 1)
               /\ alive /\ ~Exempt(t) => todo[i + 1].id <= Level
        BY <1>10, <3>1
      <3>3. from + (i + 1) = (from + 1) + i
        BY <1>8, <1>10
      <3> QED
        BY <1>5, <1>6, <2>1, <3>1, <3>2, <3>3
    <2>3. ~Exempt(t)' => from + 1 = top
      BY <1>5, <1>12
    <2>4. conn'[c] = k /\ k.tab = t /\ cursor'[t] = top /\ k.after # None
      BY <1>3, <1>4, <1>9, <1>11
    <2>5. PICK next \in 0..top : next = from + 1
      BY <1>12
    <2>6. \A i \in 1..Len(k.todo) :
            \/ i = Len(k.todo) /\ k.todo[i].kind \in {"recover", "interrupted"}
            \/ /\ Genuine(k.todo[i])' /\ k.todo[i].id = next + i
               /\ alive' /\ ~Exempt(t)' => k.todo[i].id <= Level'
      BY <2>2, <2>5
    <2>7. ~Exempt(t)' => next = top
      BY <2>3, <2>5
    <2>8. \E g \in 0..top :
            /\ ~Exempt(t)' => g = top
            /\ \A i \in 1..Len(k.todo) :
                 \/ i = Len(k.todo) /\ k.todo[i].kind \in {"recover", "interrupted"}
                 \/ /\ Genuine(k.todo[i])' /\ k.todo[i].id = g + i
                    /\ alive' /\ ~Exempt(t)' => k.todo[i].id <= Level'
      BY <2>6, <2>7, Zenon
    <2>9. conn'[c].tab = t /\ conn'[c].todo = k.todo /\ cursor'[conn'[c].tab] = top
      BY <2>4
    <2>10. \E g \in 0..cursor'[conn'[c].tab] :
             /\ ~Exempt(conn[c].tab)' => g = cursor'[conn'[c].tab]
             /\ \A i \in 1..Len(conn'[c].todo) :
                  \/ i = Len(conn'[c].todo) /\ conn'[c].todo[i].kind \in {"recover", "interrupted"}
                  \/ /\ Genuine(conn[c].todo[i])' /\ conn'[c].todo[i].id = g + i
                     /\ alive' /\ ~Exempt(conn[c].tab)' => conn'[c].todo[i].id <= Level'
      <3>1. PICK g \in 0..top :
              /\ ~Exempt(t)' => g = top
              /\ \A i \in 1..Len(k.todo) :
                   \/ i = Len(k.todo) /\ k.todo[i].kind \in {"recover", "interrupted"}
                   \/ /\ Genuine(k.todo[i])' /\ k.todo[i].id = g + i
                      /\ alive' /\ ~Exempt(t)' => k.todo[i].id <= Level'
        BY <2>8, Zenon
      <3>2. g \in 0..cursor'[conn'[c].tab] /\ (~Exempt(conn[c].tab)' => g = cursor'[conn'[c].tab])
        BY <2>9, <3>1
      <3>3. ASSUME NEW i \in 1..Len(conn'[c].todo)
            PROVE  \/ i = Len(conn'[c].todo) /\ conn'[c].todo[i].kind \in {"recover", "interrupted"}
                   \/ /\ Genuine(conn[c].todo[i])' /\ conn'[c].todo[i].id = g + i
                      /\ alive' /\ ~Exempt(conn[c].tab)' => conn'[c].todo[i].id <= Level'
        BY <2>9, <3>1
      <3> QED
        BY <3>2, <3>3, Zenon
    <2>11. conn'[c].after = None => conn'[c].todo = <<>>
      BY <2>4
    <2> QED
      BY <2>10, <2>11, Zenon DEF TodoOK
  <1>14. \A n \in Int : Reaches(c, n)' <=> Reaches(c, n)
    <2>1. ASSUME NEW n \in Int, Reaches(c, n) PROVE Reaches(c, n)'
      <3>1. n <= m \/ \E i \in 1..Len(todo) : n <= todo[i].id
        BY <1>1, <2>1 DEF Reaches
      <3>2. n <= top \/ \E i \in 1..Len(k.todo) : n <= k.todo[i].id
        <4>1. CASE n <= m
          BY <1>8, <1>9, <4>1
        <4>2. ASSUME NEW i \in 1..Len(todo), n <= todo[i].id
              PROVE  n <= top \/ \E j \in 1..Len(k.todo) : n <= k.todo[j].id
          <5>1. CASE i = 1
            BY <1>2, <1>8, <1>9, <4>2, <5>1
          <5>2. CASE i - 1 \in 1..Len(k.todo)
            <6>1. k.todo[i - 1] = todo[i]
              BY SMTT(60), <1>7, <5>2
            <6> QED
              BY <4>2, <5>2, <6>1
          <5> QED
            BY <1>7, <5>1, <5>2
        <4> QED
          BY <3>1, <4>1, <4>2
      <3> QED
        BY <1>3, <1>4, <1>9, <3>2 DEF Reaches
    <2>2. ASSUME NEW n \in Int, Reaches(c, n)' PROVE Reaches(c, n)
      <3>1. n <= top \/ \E i \in 1..Len(k.todo) : n <= k.todo[i].id
        BY <1>3, <1>4, <1>9, <2>2 DEF Reaches
      <3>2. n <= m \/ \E i \in 1..Len(todo) : n <= todo[i].id
        BY <1>2, <1>7, <1>8, <1>9, <3>1
      <3> QED
        BY <1>1, <3>2 DEF Reaches
    <2> QED
      BY SMTT(60), <2>1, <2>2
  <1>15. Doomed(c) => Doomed(c)'
    <2>1. ASSUME NEW i \in 1..Len(todo), Ends(todo[i]) PROVE \E j \in 1..Len(k.todo) : Ends(k.todo[j])
      <3>1. i # 1
        BY <1>2, <2>1
      <3>2. i - 1 \in 1..Len(k.todo) /\ k.todo[i - 1] = todo[i]
        BY SMTT(60), <1>7, <3>1
      <3> QED
        BY <2>1, <3>2
    <2> QED
      BY <1>1, <1>4, <2>1 DEF Doomed
  <1>16. ASSUME QueueOK(c) PROVE QueueOK(c)'
    <2>1. PICK lo \in 1..(hi + 1) :
            /\ RunOf(q, lo, hi)
            /\ Reaches(c, lo - 1) \/ (Frozen /\ lo = Len(journal) + 1) \/ k0.after = None
            /\ Exempt(t) \/ \A n \in Row : Reaches(c, n) => n <= k0.bound \/ n < lo
      BY <1>1, <1>16 DEF QueueOK
    <2>2. RunOf(q, lo, hi)'
      BY <2>1, ActsKeeps
    <2>3. RunOf(queue[c], lo, Pushed(c))' /\ lo \in 1..(Pushed(c)' + 1)
      BY <1>1, <1>5, <2>1, <2>2
    <2>4. Reaches(c, lo - 1)' \/ (Frozen' /\ lo = Len(journal') + 1)
      <3>1. lo - 1 \in Int
        OBVIOUS
      <3> QED
        BY <1>3, <1>5, <1>6, <1>11, <1>14, <2>1, <3>1
    <2>5. Reaches(c, k.bound)'
      <3>1. Reaches(c, k.bound)
        BY <1>1, <1>3, <1>16 DEF QueueOK
      <3>2. k.bound \in Int
        BY <1>3, Rows0
      <3> QED
        BY <1>14, <3>1, <3>2
    <2>6. Exempt(t)' \/ \A n \in Row : Reaches(c, n)' => n <= k.bound \/ n < lo
      <3>1. \A n \in Row : n \in Int
        BY Rows0
      <3> QED
        BY <1>3, <1>5, <1>14, <2>1, <3>1
    <2>7. c \in chan'.subs
      BY <1>16 DEF QueueOK
    <2> QED
      BY <1>3, <1>4, <2>3, <2>4, <2>5, <2>6, <2>7 DEF QueueOK
  <1> QED
    BY <1>2, <1>3, <1>4, <1>13, <1>15, <1>16 DEF ConnOK, AskedOK, SnapOK, ServeOK, Sending

LEMMA EmitDelivers ==
  ASSUME PInv, PInv', CInv, DInv, Onward, NEW c \in Conn, EmitReplay(c)
  PROVE  DInv'
  <1>1. PICK k0, t, h : k0 = conn[c] /\ t = k0.tab /\ h = Head(k0.todo)
    OBVIOUS
  <1>2. /\ k0.at \in Sending /\ k0.todo # <<>> /\ Render(c, h)
        /\ UNCHANGED <<run, fly, chan, side>>
    BY <1>1 DEF EmitReplay, Sending
  <1>3. Fits(t, h) /\ t \in Tab /\ Watched(t) /\ k0.todo \in Seq(Frames)
    BY <1>1, <1>2, EmitFits
  <1>4. CASE Ends(h)
    <2>1. conn' = Closed(c) /\ queue' = [queue EXCEPT ![c] = <<>>]
      BY <1>1, <1>4 DEF EmitReplay
    <2> QED
      BY <1>1, <1>2, <1>3, <1>4, <2>1, CloseDelivers
  <1>5. CASE ~Ends(h)
    <2>1. PICK k : k = [k0 EXCEPT !.todo = Tail(k0.todo)]
      OBVIOUS
    <2>2. conn' = [conn EXCEPT ![c] = k] /\ queue' = queue
      BY <1>1, <1>5, <2>1 DEF EmitReplay
    <2>3. k0 \in ConnRec /\ queue \in [Conn -> Seq(Frames)]
      BY <1>1 DEF DInv, ShapeOK
    <2>4. Tail(k0.todo) \in Seq(Frames)
      BY <1>2, <1>3, HeadTailProperties
    <2>5. k \in ConnRec /\ k.at = k0.at /\ k.tab = t /\ k.blind = k0.blind
      BY <1>1, <1>2, <2>1, <2>3, <2>4 DEF ConnRec
    <2>6. /\ cursor' \in [Tab -> Row] /\ shown' \in [Tab -> SUBSET Row] /\ twice' \in [Tab -> SUBSET Row]
          /\ \A u \in Tab \ {t} : cursor'[u] = cursor[u] /\ shown'[u] = shown[u] /\ twice'[u] = twice[u]
          /\ cursor'[t] = IF h.id > cursor[t] THEN h.id ELSE cursor[t]
          /\ told' \in {told, told \union {t}}
      BY <1>1, <1>2, <1>3, RenderShape DEF Fits
    <2>7. Acts(c, t, k)
      <3>1. c \in chan.subs => k0.at # "late"
        BY <1>1 DEF DInv, ShapeOK
      <3> QED
        BY <1>1, <1>2, <1>3, <2>2, <2>3, <2>5, <2>6, <3>1 DEF Acts, Open, Sending
    <2>8. ConnOK(c)'
      BY <1>1, <1>2, <1>3, <1>5, <2>1, <2>2, <2>6, <2>7, EmitServes
    <2>9. conn'[c] = k
      BY <1>3, <2>7, ActsShape
    <2>10. Level' = Level /\ (Exempt(t) => Exempt(t)')
      BY <1>3, <2>7, ActsKeeps
    <2>11. TabOK(t)'
      BY <1>1, <1>2, <1>3, <1>5, <2>5, <2>9, <2>10, RenderTab DEF run
    <2> QED
      BY <1>3, <2>7, <2>8, <2>11, ActsDone
  <1> QED
    BY <1>4, <1>5

\* The head of a queue, once the replay is out.
LEMMA DrainFacts ==
  ASSUME PInv, DInv, NEW c \in Conn, conn[c].at = "serving", conn[c].todo = <<>>, queue[c] # <<>>,
         NEW t, t = conn[c].tab, NEW f, f = Head(queue[c])
  PROVE  /\ c \in chan.subs /\ t \in Tab /\ Watched(t) /\ conn[c] \in ConnRec /\ conn[c].bound \in Nat
         /\ cursor[t] \in Nat /\ conn[c].bound <= cursor[t]
         /\ f \in Frames /\ Genuine(f) /\ f.id \in Nat /\ Pushed(c) \in Nat
         /\ Tail(queue[c]) \in Seq(Frames)
         /\ \E lo \in 1..(Pushed(c) + 1) :
              /\ f.id # 0 => f.id = lo /\ lo <= Pushed(c) /\ RunOf(Tail(queue[c]), lo + 1, Pushed(c))
              /\ f.id = 0 => RunOf(Tail(queue[c]), lo, Pushed(c))
              /\ \/ lo - 1 <= cursor[t]
                 \/ Frozen /\ lo = Len(journal) + 1
                 \/ conn[c].after = None /\ cursor[t] = 0
              /\ Exempt(t) \/ cursor[t] <= conn[c].bound \/ cursor[t] < lo
  <1>1. PICK k, q, m, hi : k = conn[c] /\ q = queue[c] /\ m = cursor[t] /\ hi = Pushed(c)
    OBVIOUS
  <1>2. /\ k \in ConnRec /\ t \in Tab /\ Watched(t) /\ m \in Row /\ q \in Seq(Frames)
        /\ Doomed(c) \/ QueueOK(c)
    BY <1>1 DEF DInv, ShapeOK, ConnOK, ServeOK, Open, Watched
  <1>3. QueueOK(c)
    <2>1. Len(k.todo) = 0
      BY <1>1
    <2>2. ~Doomed(c)
      BY <1>1, <2>1 DEF Doomed
    <2> QED
      BY <1>2, <2>2
  <1>4. k.bound \in Nat /\ m \in Nat /\ hi \in Nat
    <2>1. k.bound \in Row
      BY <1>2 DEF ConnRec
    <2>2. k.bound \in Nat /\ m \in Nat
      BY <1>2, <2>1, Rows0, Zenon
    <2> QED
      BY <1>1, <2>2, PushedFacts, LevelFacts
  <1>5. \A n : Reaches(c, n) <=> n <= m
    <2>1. Len(k.todo) = 0
      BY <1>1
    <2> QED
      BY <1>1, <2>1 DEF Reaches
  <1>6. c \in chan.subs /\ k.bound <= m
    BY <1>1, <1>3, <1>5 DEF QueueOK
  <1>7. PICK lo \in 1..(hi + 1) :
          /\ RunOf(q, lo, hi)
          /\ Reaches(c, lo - 1) \/ (Frozen /\ lo = Len(journal) + 1) \/ (k.after = None /\ m = 0)
          /\ Exempt(t) \/ \A n \in Row : Reaches(c, n) => n <= k.bound \/ n < lo
    BY <1>1, <1>3 DEF QueueOK
  <1>8. lo \in Nat \ {0}
    BY <1>4, <1>7
  <1>9. /\ Tail(q) \in Seq(Frames) /\ f = q[1] /\ Genuine(f)
        /\ f.id # 0 => f.id = lo /\ lo <= hi /\ RunOf(Tail(q), lo + 1, hi)
        /\ f.id = 0 => RunOf(Tail(q), lo, hi)
    BY <1>1, <1>2, <1>4, <1>7, <1>8, RunTail
  <1>10. f \in Frames /\ f.id \in Nat
    <2>1. f \in Frames /\ f.id \in Row
      BY <1>9 DEF Genuine, Frames
    <2> QED
      BY <2>1, Rows0, Zenon
  <1>11. Exempt(t) \/ m <= k.bound \/ m < lo
    BY <1>2, <1>4, <1>5, <1>7
  <1>12. lo - 1 <= m \/ (Frozen /\ lo = Len(journal) + 1) \/ (k.after = None /\ m = 0)
    BY <1>5, <1>7
  <1> QED
    BY <1>1, <1>2, <1>4, <1>6, <1>7, <1>9, <1>10, <1>11, <1>12

\* A frame that the filter lets through is the next row, or a Stop's.
LEMMA DrainFits ==
  ASSUME PInv, DInv, NEW c \in Conn, conn[c].at = "serving", conn[c].todo = <<>>, queue[c] # <<>>,
         NEW t, t = conn[c].tab, NEW f, f = Head(queue[c]), ~Skipped(c, f),
         NEW sent, sent = [f EXCEPT !.id = SentAs(f)]
  PROVE  /\ Fits(t, sent) /\ (Ends(sent) <=> Ends(f))
         /\ sent.kind \in {"cancel", "interrupted", "recover"} \/ sent.id <= cursor[t] + 1
            \/ (conn[c].after = None /\ cursor[t] = 0)
         /\ ~Ends(f) => f.id # 0 /\ sent.id = f.id
  <1>1. /\ c \in chan.subs /\ t \in Tab /\ conn[c].bound \in Nat
        /\ cursor[t] \in Nat /\ conn[c].bound <= cursor[t]
        /\ f \in Frames /\ Genuine(f) /\ f.id \in Nat /\ Pushed(c) \in Nat
    BY DrainFacts
  <1>2. PICK lo \in 1..(Pushed(c) + 1) :
          /\ f.id # 0 => f.id = lo /\ lo <= Pushed(c)
          /\ \/ lo - 1 <= cursor[t]
             \/ Frozen /\ lo = Len(journal) + 1
             \/ conn[c].after = None /\ cursor[t] = 0
          /\ Exempt(t) \/ cursor[t] <= conn[c].bound \/ cursor[t] < lo
    BY SMTT(60), DrainFacts
  <1>3. sent.kind = f.kind /\ sent.id = SentAs(f) /\ (Ends(sent) <=> Ends(f))
    BY <1>1 DEF Frames, Ends
  <1>4. CASE f.id = 0
    <2>1. f.kind = "cancel" /\ sent.id \in Row
      BY <1>1, <1>3, <1>4 DEF Genuine, SentAs, PInv, ProducersOK
    <2> QED
      BY <1>3, <2>1 DEF Fits, Ends
  <1>5. CASE f.id # 0
    <2>1. sent.id = f.id /\ f.id = lo /\ lo <= Pushed(c) /\ f.id > conn[c].bound
      BY <1>1, <1>2, <1>3, <1>5 DEF SentAs, Skipped
    <2>2. Pushed(c) <= Level /\ Level <= Len(journal) /\ Level \in Nat /\ Len(journal) \in Nat
      BY PushedFacts, LevelFacts
    <2>3. f.id \in Row /\ f.id \in 1..Len(journal) /\ f.kind = journal[f.id]
      BY <1>1, <1>5 DEF Genuine, Frames
    <2>4. f.id <= Level
      BY <1>1, <2>1, <2>2
    <2>5. ~Exempt(t) => f.id > cursor[t]
      BY <1>1, <1>2, <2>1
    <2>6. f.id <= cursor[t] + 1 \/ (conn[c].after = None /\ cursor[t] = 0)
      BY SMTT(60), <1>1, <1>2, <2>1, <2>2
    <2> QED
      BY <1>3, <1>5, <2>1, <2>3, <2>4, <2>5, <2>6 DEF Fits
  <1> QED
    BY <1>4, <1>5

\* What is left of the queue follows what the tab has.
LEMMA DrainServes ==
  ASSUME PInv, PInv', CInv, DInv, Onward, NEW c \in Conn, NEW t \in Tab, Acts(c, t, conn[c]),
         conn[c].at = "serving", conn[c].todo = <<>>, queue[c] # <<>>, conn[c].tab = t,
         NEW f, f = Head(queue[c]), queue'[c] = Tail(queue[c]),
         \/ cursor'[t] = cursor[t] /\ (f.id # 0 => f.id <= conn[c].bound)
         \/ f.id # 0 /\ conn[c].bound < f.id
            /\ cursor'[t] = IF f.id > cursor[t] THEN f.id ELSE cursor[t]
  PROVE  ConnOK(c)'
  <1>1. PICK k, m, q, hi : k = conn[c] /\ m = cursor[t] /\ q = Tail(queue[c]) /\ hi = Pushed(c)
    OBVIOUS
  <1>2. /\ c \in chan.subs /\ k.bound \in Nat
        /\ m \in Nat /\ k.bound <= m /\ f.id \in Nat /\ hi \in Nat
    BY <1>1, DrainFacts
  <1>3. PICK lo \in 1..(hi + 1) :
          /\ f.id # 0 => f.id = lo /\ lo <= hi /\ RunOf(q, lo + 1, hi)
          /\ f.id = 0 => RunOf(q, lo, hi)
          /\ lo - 1 <= m \/ (Frozen /\ lo = Len(journal) + 1) \/ (k.after = None /\ m = 0)
          /\ Exempt(t) \/ m <= k.bound \/ m < lo
    BY SMTT(60), <1>1, DrainFacts
  <1>4. PICK top \in Nat :
          /\ cursor'[t] = top /\ top >= m
          /\ f.id = 0 => top = m
          /\ f.id # 0 => \/ top = m /\ f.id <= k.bound
                         \/ top = IF f.id > m THEN f.id ELSE m
          /\ top > m => f.id # 0 /\ top = f.id
    BY SMTT(60), <1>1, <1>2
  <1>5. /\ Level' = Level /\ (Frozen' <=> Frozen) /\ Pushed(c)' = hi
        /\ (\A u : Exempt(u) => Exempt(u)') /\ conn'[c] = k
    BY <1>1, ActsKeeps, ActsShape
  <1>6. PICK next \in 1..(hi + 1) : /\ next = IF f.id # 0 THEN lo + 1 ELSE lo
                                   /\ RunOf(q, next, hi)
    BY <1>2, <1>3
  <1>7. RunOf(queue[c], next, Pushed(c))' /\ next \in 1..(Pushed(c)' + 1)
    <2>1. RunOf(q, next, hi)'
      BY <1>6, ActsKeeps
    <2> QED
      BY <1>1, <1>5, <1>6, <2>1
  <1>8. Len(k.todo) = 0
    BY <1>1
  <1>9. \A n : Reaches(c, n)' <=> n <= top
    BY <1>1, <1>4, <1>5, <1>8 DEF Reaches
  <1>10. k.bound <= top
    BY <1>2, <1>4
  <1>11. next - 1 <= top \/ (Frozen' /\ next = Len(journal') + 1) \/ (k.after = None /\ top = 0)
    <2>1. CASE f.id = 0
      <3>1. next = lo /\ top = m /\ journal' = journal
        BY <1>4, <1>6, <2>1 DEF Acts, run
      <3> QED
        BY <1>3, <1>5, <3>1
    <2>2. CASE f.id # 0
      <3>1. next = lo + 1 /\ f.id = lo
        BY <1>3, <1>6, <2>2
      <3>2. top >= lo
        BY <1>2, <1>4, <2>2, <3>1
      <3> QED
        BY <1>2, <3>1, <3>2
    <2> QED
      BY <2>1, <2>2
  <1>12. Exempt(t)' \/ \A n \in Row : n <= top => n <= k.bound \/ n < next
    <2>1. Exempt(t) \/ top <= k.bound \/ top < next
      <3>1. CASE f.id = 0
        BY <1>2, <1>3, <1>4, <1>6, <3>1
      <3>2. CASE f.id # 0
        <4>1. next = lo + 1 /\ f.id = lo
          BY <1>3, <1>6, <3>2
        <4>2. CASE Exempt(t)
          BY <4>2
        <4>3. CASE m <= k.bound \/ m < lo
          BY <1>2, <1>3, <1>4, <3>2, <4>1, <4>3
        <4> QED
          BY <1>3, <4>2, <4>3
      <3> QED
        BY <3>1, <3>2
    <2>2. \A n \in Row : n \in Nat
      BY Rows0
    <2>3. next \in Nat
      BY <1>2, <1>6
    <2> QED
      BY <1>2, <1>5, <2>1, <2>2, <2>3
  <1>13. QueueOK(c)'
    <2>1. c \in chan'.subs
      BY SMTT(60), <1>2 DEF Acts
    <2>2. k.tab = t
      BY <1>1
    <2> QED
      BY <1>4, <1>5, <1>7, <1>9, <1>10, <1>11, <1>12, <2>1, <2>2 DEF QueueOK
  <1>14. TodoOK(c)'
    <2>1. top \in 0..top
      BY <1>4
    <2> QED
      BY <1>1, <1>4, <1>5, <1>8, <2>1 DEF TodoOK
  <1> QED
    BY <1>1, <1>5, <1>13, <1>14 DEF ConnOK, AskedOK, SnapOK, ServeOK

LEMMA DrainDelivers ==
  ASSUME PInv, PInv', CInv, DInv, Onward, NEW c \in Conn, Drain(c)
  PROVE  DInv'
  <1>1. PICK k, t, f : k = conn[c] /\ t = k.tab /\ f = Head(queue[c])
    OBVIOUS
  <1>2. /\ k.at = "serving" /\ k.todo = <<>> /\ queue[c] # <<>>
        /\ UNCHANGED <<run, fly, chan, side>>
    BY <1>1 DEF Drain
  <1>3. /\ k \in ConnRec /\ t \in Tab /\ Watched(t) /\ f \in Frames /\ Tail(queue[c]) \in Seq(Frames)
        /\ f.id \in Nat /\ k.bound \in Nat
        /\ conn \in [Conn -> ConnRec] /\ queue \in [Conn -> Seq(Frames)]
    BY <1>1, <1>2, DrainFacts DEF DInv, ShapeOK
  <1>4. CASE conn' = conn
    <2>1. queue' = [queue EXCEPT ![c] = Tail(queue[c])]
      BY <1>1, <1>2, <1>4 DEF Drain
    <2>2. queue' \in [Conn -> Seq(Frames)] /\ queue'[c] = Tail(queue[c])
          /\ \A d \in Conn \ {c} : queue'[d] = queue[d]
      BY <1>3, <2>1
    <2>3. conn' = [conn EXCEPT ![c] = k]
      BY <1>1, <1>3, <1>4
    <2>4. CASE Skipped(c, f)
      <3>1. UNCHANGED tabs
        BY <1>1, <2>4 DEF Drain
      <3>2. Acts(c, t, k)
        BY <1>1, <1>2, <1>3, <2>2, <2>3, <3>1 DEF Acts, DInv, ShapeOK, Open, tabs
      <3>3. f.id # 0 => f.id <= k.bound
        BY <1>1, <2>4 DEF Skipped, SentAs
      <3>4. cursor' = cursor
        BY <3>1 DEF tabs
      <3>5. ConnOK(c)'
        BY <1>1, <1>2, <1>3, <2>2, <3>2, <3>3, <3>4, DrainServes
      <3> QED
        BY <1>3, <3>1, <3>2, <3>5, ActsSilent
    <2>5. CASE ~Skipped(c, f)
      <3>1. PICK sent : sent = [f EXCEPT !.id = SentAs(f)]
        OBVIOUS
      <3>2. Render(c, sent) /\ conn' = IF Ends(f) THEN Closed(c) ELSE conn
        BY <1>1, <2>5, <3>1 DEF Drain
      <3>3. ~Ends(f)
        <4>1. ASSUME Ends(f) PROVE FALSE
          <5>1. conn' = Closed(c) /\ Closed(c)[c].at = "left"
            BY <1>3, <3>2, <4>1 DEF Closed, ConnRec
          <5> QED
            BY <1>1, <1>2, <1>4, <5>1
        <4> QED
          BY <4>1
      <3>4. Fits(t, sent) /\ ~Ends(sent) /\ f.id # 0 /\ sent.id = f.id
        <4>1. conn[c].at = "serving" /\ conn[c].todo = <<>> /\ t = conn[c].tab
          BY <1>1, <1>2
        <4>2. queue[c] # <<>> /\ f = Head(queue[c])
          BY <1>1, <1>2
        <4>3. Fits(t, sent)
          BY <2>5, <3>1, <4>1, <4>2, DrainFits
        <4>4. Ends(sent) <=> Ends(f)
          BY <2>5, <3>1, <4>1, <4>2, DrainFits
        <4>5. f.id # 0 /\ sent.id = f.id
          <5>1. Genuine(f)
            BY <4>1, <4>2, DrainFacts
          <5>2. f.id # 0
            BY <3>3, <5>1 DEF Genuine, Ends
          <5> QED
            BY <1>3, <3>1, <5>2 DEF SentAs, Frames
        <4> QED
          BY <3>3, <4>3, <4>4, <4>5
      <3>5. /\ cursor' \in [Tab -> Row] /\ shown' \in [Tab -> SUBSET Row] /\ twice' \in [Tab -> SUBSET Row]
            /\ \A u \in Tab \ {t} : cursor'[u] = cursor[u] /\ shown'[u] = shown[u] /\ twice'[u] = twice[u]
            /\ cursor'[t] = IF f.id > cursor[t] THEN f.id ELSE cursor[t]
            /\ told' \in {told, told \union {t}}
        <4>1. sent.id \in Row
          BY <3>4 DEF Fits
        <4> QED
          BY <1>1, <1>3, <3>2, <3>4, <4>1, RenderShape
      <3>6. Acts(c, t, k)
        BY <1>1, <1>2, <1>3, <2>2, <2>3, <3>5 DEF Acts, Open
      <3>7. k.bound < f.id
        BY <1>1, <1>3, <2>5, <3>4 DEF Skipped, SentAs
      <3>8. ConnOK(c)'
        BY <1>1, <1>2, <1>3, <2>2, <3>4, <3>5, <3>6, <3>7, DrainServes
      <3>9. Level' = Level /\ (Exempt(t) => Exempt(t)')
        BY <1>3, <3>6, ActsKeeps
      <3>10. TabOK(t)'
        BY <1>1, <1>2, <1>3, <1>4, <3>2, <3>4, <3>9, RenderTab DEF run
      <3> QED
        BY <1>3, <3>6, <3>8, <3>10, ActsDone
    <2> QED
      BY <2>4, <2>5
  <1>5. CASE conn' # conn
    <2>1. ~Skipped(c, f)
      BY <1>1, <1>5 DEF Drain
    <2>2. PICK sent : sent = [f EXCEPT !.id = SentAs(f)]
      OBVIOUS
    <2>3. Render(c, sent) /\ Ends(f) /\ conn' = Closed(c)
      BY <1>1, <1>5, <2>1, <2>2 DEF Drain
    <2>4. conn'[c].at = "left"
      BY <1>3, <2>3 DEF Closed, ConnRec
    <2>5. queue' = [queue EXCEPT ![c] = <<>>]
      BY <2>4 DEF Drain
    <2>6. Fits(t, sent) /\ Ends(sent)
      BY <1>1, <1>2, <2>1, <2>2, <2>3, DrainFits
    <2> QED
      BY <1>1, <1>2, <2>3, <2>5, <2>6, CloseDelivers DEF Sending
  <1> QED
    BY <1>4, <1>5

-----------------------------------------------------------------------------
(* The invariant.                                                          *)

\* The inductive invariant: the journal and its producers, the channel, the
\* connections and the tabs.
Inv == PInv /\ CInv /\ DInv

LEMMA InitInv == Init => Inv
  <1> SUFFICES ASSUME Init PROVE Inv
    OBVIOUS
  <1>1. /\ journal = <<>> /\ alive = TRUE /\ raised = FALSE /\ saved = FALSE
        /\ returned = FALSE /\ cancelled = FALSE
        /\ fly = [p \in Producer |-> Resting] /\ side = 0
        /\ chan = [subs |-> {}, buffer |-> <<>>, holed |-> FALSE, last |-> 0]
        /\ conn = [c \in Conn |-> Unused] /\ queue = [c \in Conn |-> <<>>]
        /\ cursor = [t \in Tab |-> 0] /\ shown = [t \in Tab |-> {}] /\ twice = [t \in Tab |-> {}]
        /\ told = {}
    BY DEF Init
  <1>2. /\ journal \in Seq(RowKind) /\ Len(journal) = 0 /\ <<>> \in Seq(Frames)
        /\ ~Has("done") /\ ~Has("end") /\ ~Terminal
    BY <1>1, NoRows DEF Has, Terminal
  <1>3. \A p \in Producer : fly[p] = Resting /\ fly[p].at = "idle" /\ fly[p].kind = "token"
                            /\ fly[p].id = 0 /\ fly[p].to = {}
    BY <1>1 DEF Resting
  <1>4. /\ "worker" \in Producer /\ "steer" \in Producer /\ "stop" \in Producer
        /\ fly["worker"].at = "idle" /\ fly["steer"].at = "idle" /\ fly["stop"].at = "idle"
        /\ fly["stop"].id = 0
    BY <1>3 DEF Producer
  <1>5. ~Behind /\ Level = 0 /\ Noted = 0 /\ Wants = 0 /\ ~WantsToken
    <2>1. ~Behind /\ ~(\E p \in Producer : Publishing(p) /\ fly[p].id # 0) /\ ~WantsToken
      BY <1>3, <1>4 DEF Behind, Publishing, WantsToken
    <2> QED
      BY <1>2, <2>1 DEF Level, Noted, Wants
  <1>6. JournalOK
    <2>1. \A m, n \in 1..Len(journal) : m < n /\ journal[m] \in LastRow => journal[n] \in LastRow
      BY <1>2
    <2>2. Len(journal) <= MaxRows + 1 + (IF Has("done") THEN 1 ELSE 0) + (IF Has("end") THEN 1 ELSE 0)
      BY <1>2, Rows0
    <2>3. \A m, n \in 1..Len(journal) : m < n => journal[m] # "end"
      BY <1>2
    <2> QED
      BY <1>1, <1>2, <2>1, <2>2, <2>3 DEF JournalOK
  <1>7. ProducersOK
    <2>1. Resting \in PubRec
      BY Rows0 DEF Resting, PubRec, Kind
    <2>2. fly \in [Producer -> PubRec]
      BY <1>1, <2>1
    <2>3. \A p \in Producer : ~Publishing(p)
      BY <1>3 DEF Publishing
    <2>4. WorkerOK /\ SteerOK /\ StopOK
      BY <1>4, <1>5 DEF WorkerOK, SteerOK, StopOK
    <2> QED
      BY <1>1, <1>5, <2>2, <2>3, <2>4, Rows0 DEF ProducersOK, PublishingOK
  <1>8. ChannelOK
    <2>1. /\ chan \in [subs : SUBSET Conn, buffer : Seq(Frames), holed : BOOLEAN, last : Row]
          /\ chan.buffer = <<>> /\ chan.last = 0
      BY <1>1, <1>2, Rows0
    <2>2. Len(chan.buffer) <= OfflineMax
      BY <2>1, ReplayAssumption
    <2>3. RunOf(chan.buffer, 1, Level) /\ 1 \in 1..(Level + 1)
      BY <1>5, <2>1, RunEmpty
    <2> QED
      BY <1>5, <2>1, <2>2, <2>3 DEF ChannelOK, LastOK
  <1>9. Unused \in ConnRec /\ Unused.at = "new"
    BY <1>2, Rows0 DEF Unused, ConnRec
  <1>10. \A c \in Conn : conn[c] = Unused /\ conn[c].at = "new"
    BY <1>1, <1>9
  <1>11. ShapeOK
    <2>1. conn \in [Conn -> ConnRec] /\ queue \in [Conn -> Seq(Frames)]
      BY <1>1, <1>2, <1>9
    <2>2. cursor \in [Tab -> Row] /\ shown \in [Tab -> SUBSET Row] /\ twice \in [Tab -> SUBSET Row]
      BY <1>1, Rows0
    <2> QED
      BY <1>1, <1>3, <1>10, <2>1, <2>2 DEF ShapeOK, Open
  <1>12. \A t \in Tab : TabOK(t)
    BY <1>1, <1>5 DEF TabOK, IsTop
  <1>13. \A c \in Conn : ConnOK(c)
    BY <1>10 DEF ConnOK, AskedOK, SnapOK, ServeOK, Sending
  <1> QED
    BY <1>6, <1>7, <1>8, <1>11, <1>12, <1>13 DEF Inv, PInv, CInv, DInv

LEMMA NextInv == Inv /\ [Next]_vars => Inv'
  <1> SUFFICES ASSUME Inv, [Next]_vars PROVE Inv'
    OBVIOUS
  <1>1. PInv /\ CInv /\ DInv
    BY DEF Inv
  <1>2. PInv' /\ Onward
    <2>1. chan.subs \subseteq Conn
      BY <1>1 DEF CInv, ChannelOK
    <2> QED
      BY <1>1, <2>1, ProducersStep
  <1>3. CInv'
    BY <1>1, <1>2, ChannelStep
  <1>4. DInv'
    <2>1. CASE UNCHANGED vars
      BY <1>1, <1>2, <2>1, SameRun DEF vars, run
    <2>2. CASE \/ PutToken \/ SaveTurn \/ PutDone \/ PutEnd \/ PutCancel \/ Teardown
               \/ Steer \/ StopDetach \/ StopRaise \/ StopReads \/ StopNotes
               \/ \E p \in Producer : Publish(p)
      BY <1>1, <1>2, <2>2, ProducersDeliver
    <2>3. ASSUME NEW c \in Conn, NEW t \in Tab, AttachLate(c, t) PROVE DInv'
      BY <1>1, <1>2, <2>3, AttachLateDelivers
    <2>4. ASSUME NEW c \in Conn, NEW t \in Tab, NEW after, Attach(c, t, after) PROVE DInv'
      BY <1>1, <1>2, <2>4, AttachDelivers
    <2>5. ASSUME NEW c \in Conn, Handle(c) \/ Break(c) PROVE DInv'
      BY <1>1, <1>2, <2>5, SubscribeDelivers, ReplayDelivers, EmitDelivers, DrainDelivers,
         UnsubscribeDelivers, LeaveDelivers DEF Handle
    <2> QED
      BY <2>1, <2>2, <2>3, <2>4, <2>5 DEF Next
  <1> QED
    BY <1>1, <1>2, <1>3, <1>4 DEF Inv

\* The invariant the other theorems rest on: whatever the producers, the
\* handlers of /api/chat/stream and the broken connections do, the channel's
\* buffer and the queues hold consecutive rows of the journal.
THEOREM Invariance == Spec => []Inv
  <1>1. Init => Inv
    BY InitInv
  <1>2. Inv /\ [Next]_vars => Inv'
    BY NextInv
  <1> QED
    BY <1>1, <1>2, PTL DEF Spec

LEMMA InvTypeOK == Inv => TypeOK
  <1> SUFFICES ASSUME Inv PROVE TypeOK
    OBVIOUS
  <1>1. PInv /\ CInv /\ DInv /\ JournalOK /\ ProducersOK /\ ChannelOK /\ ShapeOK
    BY DEF Inv, PInv, CInv, DInv
  <1>2. journal \in Seq(Kind) /\ Len(journal) \in Row
    <2>1. journal \in Seq(RowKind) /\ Len(journal) \in Row
      BY <1>1, JournalFacts DEF JournalOK
    <2>2. RowKind \subseteq Kind
      BY DEF RowKind, Kind
    <2> QED
      BY <2>1, <2>2
  <1>3. {alive, raised, saved, returned, cancelled} \subseteq BOOLEAN
    BY <1>1 DEF JournalOK
  <1>4. Cardinality({p \in Producer : Publishing(p)}) <= 1
    <2>1. CASE {p \in Producer : Publishing(p)} = {}
      BY <2>1, FS_EmptySet
    <2>2. CASE {p \in Producer : Publishing(p)} # {}
      <3>1. PICK q \in Producer : Publishing(q)
        BY <2>2
      <3>2. {p \in Producer : Publishing(p)} = {q}
        BY <1>1, <3>1 DEF ProducersOK
      <3>3. Cardinality({q}) = 1
        BY FS_Singleton
      <3> QED
        BY <3>2, <3>3
    <2> QED
      BY <2>1, <2>2
  <1>5. chan.last <= Len(journal)
    <2>1. chan.last = Level \/ chan.last = Level - 1
      BY <1>1 DEF ChannelOK, LastOK
    <2> QED
      BY <1>1, <2>1, LevelFacts
  <1>6. \A c \in Conn : /\ conn[c].at \in Open \union {"new", "left"}
                        /\ conn[c].tab \in Tab \union {None} /\ conn[c].bound \in Row
                        /\ conn[c].todo \in Seq(Frames) /\ queue[c] \in Seq(Frames)
    <2> SUFFICES ASSUME NEW c \in Conn
                 PROVE  /\ conn[c].at \in Open \union {"new", "left"}
                        /\ conn[c].tab \in Tab \union {None} /\ conn[c].bound \in Row
                        /\ conn[c].todo \in Seq(Frames) /\ queue[c] \in Seq(Frames)
      OBVIOUS
    <2>1. conn[c] \in ConnRec /\ queue[c] \in Seq(Frames)
      BY <1>1 DEF ShapeOK
    <2> QED
      BY <2>1 DEF ConnRec
  <1>7. fly \in [Producer -> [at : {"idle", "raises", "reads", "notes", "wants",
                                    "appended", "casting", "noting"},
                              kind : Kind, id : Row, to : SUBSET Conn]]
    BY <1>1 DEF ProducersOK, PubRec
  <1> QED
    BY <1>1, <1>2, <1>3, <1>4, <1>5, <1>6, <1>7 DEF TypeOK, ProducersOK, ChannelOK, ShapeOK

\* The types; one publication at a time between a row's append and the note
\* of its id; StreamChannel's buffer stays within _OFFLINE_BUFFER_MAXLEN, and
\* its last id never names a row that is not on disk.
THEOREM TypesAndChannel == Spec => []TypeOK
  <1>1. Spec => []Inv
    BY Invariance
  <1>2. Inv => TypeOK
    BY InvTypeOK
  <1> QED
    BY <1>1, <1>2, PTL

-----------------------------------------------------------------------------
(* What the tabs see.                                                      *)

\* A tab that waits on an empty queue with nothing out has seen the last row.
LEMMA WaitingHasAll ==
  ASSUME Inv, NEW t \in Tab, OutThere, Waiting(t), Terminal
  PROVE  /\ cursor[t] = Len(journal) /\ Len(journal) \in Nat \ {0}
         /\ journal[Len(journal)] # "end"
         /\ journal[Len(journal)] = "done" => t \in told
  <1>1. PICK c \in Watching(t) : /\ conn[c].at = "serving" /\ conn[c].todo = <<>> /\ queue[c] = <<>>
                                 /\ conn[c].after # None
    BY DEF Waiting
  <1>2. PInv /\ DInv /\ c \in Conn /\ conn[c].tab = t
    BY DEF Inv, Watching
  <1>3. Watched(t) /\ TabOK(t) /\ cursor[t] \in Row /\ (Doomed(c) \/ QueueOK(c))
    BY <1>1, <1>2 DEF DInv, ShapeOK, ConnOK, ServeOK, Open, Watched
  <1>4. Len(conn[c].todo) = 0
    BY <1>1
  <1>5. QueueOK(c)
    BY <1>3, <1>4 DEF Doomed
  <1>6. Pushed(c) = Len(journal) /\ Len(journal) \in Nat /\ cursor[t] \in Nat
    <2>1. ~Behind /\ ~Held(c)
      BY DEF OutThere, Behind, Held
    <2>2. cursor[t] \in Nat
      BY <1>3, Rows0, Zenon
    <2> QED
      BY <1>2, <2>1, <2>2, LevelFacts DEF Pushed, Level
  <1>7. ~Frozen
    BY <1>2, StoppedFacts DEF Frozen
  <1>8. PICK lo \in 1..(Pushed(c) + 1) : RunOf(queue[c], lo, Pushed(c)) /\ Reaches(c, lo - 1)
    BY <1>1, <1>5, <1>7 DEF QueueOK
  <1>9. lo = Len(journal) + 1
    <2>1. RunOf(<<>>, lo, Len(journal)) /\ lo \in Int
      BY <1>1, <1>6, <1>8
    <2>2. Len(journal) < lo
      BY <1>6, <2>1, EmptyRun
    <2> QED
      BY <1>6, <1>8, <2>2
  <1>10. Len(journal) <= cursor[t]
    <2>1. lo - 1 <= cursor[t]
      BY <1>2, <1>4, <1>8 DEF Reaches
    <2> QED
      BY <1>6, <1>9, <2>1
  <1>11. Len(journal) # 0
    BY <1>6 DEF Terminal, Has, Contains
  <1> QED
    BY <1>3, <1>6, <1>10, <1>11 DEF TabOK

LEMMA InvEndSurvives == Inv => EndSurvives
  <1> SUFFICES ASSUME Inv, NEW t \in Tab, OutThere, Waiting(t)
               PROVE  ~Has("end") /\ (Has("done") => t \in told)
    BY DEF EndSurvives
  <1>1. JournalOK
    BY DEF Inv, PInv
  <1>2. ASSUME Has("end") PROVE FALSE
    <2>1. /\ Len(journal) \in Nat \ {0} /\ journal[Len(journal)] # "end"
      BY <1>2, WaitingHasAll DEF Terminal
    <2>2. PICK n \in 1..Len(journal) : journal[n] = "end"
      BY <1>2 DEF Has, Contains
    <2>3. n < Len(journal)
      BY <2>1, <2>2
    <2> QED
      BY <1>1, <2>1, <2>2, <2>3 DEF JournalOK
  <1>3. ASSUME Has("done") PROVE t \in told
    <2>1. /\ Len(journal) \in Nat \ {0} /\ journal[Len(journal)] # "end"
          /\ journal[Len(journal)] = "done" => t \in told
      BY <1>3, WaitingHasAll DEF Terminal
    <2>2. PICK n \in 1..Len(journal) : journal[n] = "done"
      BY <1>3 DEF Has, Contains
    <2>3. journal[Len(journal)] \in LastRow
      BY <1>1, <2>1, <2>2 DEF JournalOK, LastRow
    <2> QED
      BY <2>1, <2>3 DEF LastRow
  <1> QED
    BY <1>2, <1>3

\* No tab that asked for a replay waits on an empty queue once "end" went out,
\* and none that was not told how the turn ended once "done" went out: what
\* _handle_sse_stream skips was replayed before.
THEOREM EndReachesEveryWaitingTab == Spec => []EndSurvives
  <1>1. Spec => []Inv
    BY Invariance
  <1>2. Inv => EndSurvives
    BY InvEndSurvives
  <1> QED
    BY <1>1, <1>2, PTL

\* No tab renders a row twice, by replay and queue or by two replays, unless
\* it subscribed before the channel had an id or a Stop was under way.
THEOREM NoRowTwice == Spec => []RenderedOnce
  <1>1. Spec => []Inv
    BY Invariance
  <1>2. Inv => RenderedOnce
    <2> SUFFICES ASSUME Inv, NEW t \in Tab
                 PROVE  twice[t] = {} \/ Blind(t) \/ ~Idle("stop") \/ cancelled
      BY DEF RenderedOnce
    <2>1. twice[t] = {} \/ Exempt(t)
      BY DEF Inv, DInv, TabOK
    <2>2. Stopped => cancelled \/ ~Idle("stop")
      BY DEF Stopped, Idle
    <2> QED
      BY <2>1, <2>2 DEF Exempt
  <1> QED
    BY <1>1, <1>2, PTL

LEMMA TopIsCursor ==
  ASSUME DInv, NEW t \in Tab, Watched(t)
  PROVE  Top(t) = cursor[t] /\ cursor[t] \in Nat /\ shown[t] \subseteq Nat
         /\ \A m \in shown[t] : m <= cursor[t]
  <1>1. IsTop(t, cursor[t]) /\ cursor[t] \in Row /\ shown[t] \subseteq Row
    BY DEF DInv, TabOK, ShapeOK
  <1>2. cursor[t] \in Nat /\ shown[t] \subseteq Nat
    BY <1>1, Rows0, Zenon
  <1>3. /\ {0} \union shown[t] \subseteq Int /\ cursor[t] \in {0} \union shown[t]
        /\ \A m \in {0} \union shown[t] : m <= cursor[t]
    BY <1>1, <1>2 DEF IsTop
  <1>4. Top(t) = cursor[t]
    BY <1>3, MaxIs DEF Top
  <1> QED
    BY <1>2, <1>3, <1>4

\* A row that is the next one at most moves the top by one.
LEMMA RenderTop ==
  ASSUME DInv, NEW c \in Conn, NEW t \in Tab, Watched(t), conn[c].tab = t, NEW f, f.id \in Row, Render(c, f),
         \/ f.kind \in {"cancel", "interrupted", "recover"}
         \/ f.id <= cursor[t] + 1
         \/ conn[c].after = None /\ cursor[t] = 0
  PROVE  Top(t)' \in {Top(t), Top(t) + 1} \/ (Top(t) = 0 /\ Fresh(t))
  <1>1. /\ Top(t) = cursor[t] /\ cursor[t] \in Nat /\ shown[t] \subseteq Nat
        /\ \A m \in shown[t] : m <= cursor[t]
    BY TopIsCursor
  <1>2. f.id \in Nat
    BY Rows0, Zenon
  <1>3. CASE f.kind \in {"cancel", "interrupted", "recover"}
    <2>1. shown' = shown
      BY <1>3 DEF Render
    <2> QED
      BY <2>1 DEF Top
  <1>4. CASE conn[c].after = None /\ cursor[t] = 0
    BY <1>1, <1>4 DEF Fresh
  <1>5. CASE f.kind \notin {"cancel", "interrupted", "recover"} /\ f.id <= cursor[t] + 1
    <2>1. shown'[t] = shown[t] \union {f.id}
      BY SMTT(60), <1>5, RenderShape
    <2>2. PICK n \in Nat : n = IF f.id > cursor[t] THEN f.id ELSE cursor[t]
      BY <1>1, <1>2
    <2>3. cursor[t] \in {0} \union shown[t]
      BY DEF DInv, TabOK, IsTop
    <2>4. /\ {0} \union shown'[t] \subseteq Int /\ n \in {0} \union shown'[t]
          /\ \A m \in {0} \union shown'[t] : m <= n
      BY <1>1, <1>2, <2>1, <2>2, <2>3
    <2>5. Max({0} \union shown'[t]) = n
      BY <2>4, MaxIs
    <2>6. Top(t)' = n
      BY <2>5 DEF Top
    <2>7. n \in {cursor[t], cursor[t] + 1}
      BY <1>1, <1>2, <1>5, <2>2
    <2> QED
      BY <1>1, <2>6, <2>7
  <1> QED
    BY <1>3, <1>4, <1>5

LEMMA StepNoHole ==
  ASSUME Inv, [Next]_vars, NEW t \in Tab
  PROVE  Top(t)' \in {Top(t), Top(t) + 1} \/ (Top(t) = 0 /\ Fresh(t))
  <1>1. PInv /\ DInv
    BY DEF Inv
  <1>2. CASE shown' = shown
    BY <1>2 DEF Top
  <1>3. ASSUME NEW c \in Conn, NEW f, f.id \in Row, conn[c].tab \in Tab, Watched(conn[c].tab), Render(c, f),
               \/ f.kind \in {"cancel", "interrupted", "recover"}
               \/ f.id <= cursor[conn[c].tab] + 1
               \/ conn[c].after = None /\ cursor[conn[c].tab] = 0
        PROVE  Top(t)' \in {Top(t), Top(t) + 1} \/ (Top(t) = 0 /\ Fresh(t))
    <2>1. CASE t = conn[c].tab
      BY <1>1, <1>3, <2>1, RenderTop
    <2>2. CASE t # conn[c].tab
      <3>1. PICK u \in Tab : u = conn[c].tab
        BY <1>3
      <3>2. shown'[t] = shown[t]
        BY <1>1, <1>3, <2>2, <3>1, RenderShape
      <3> QED
        BY <3>2 DEF Top
    <2> QED
      BY <2>1, <2>2
  <1>4. ASSUME NEW c \in Conn, EmitReplay(c)
        PROVE  Top(t)' \in {Top(t), Top(t) + 1} \/ (Top(t) = 0 /\ Fresh(t))
    <2>1. PICK h : h = Head(conn[c].todo)
      OBVIOUS
    <2>2. conn[c].at \in Sending /\ conn[c].todo # <<>> /\ Render(c, h)
      BY <1>4, <2>1 DEF EmitReplay, Sending
    <2>3. /\ Fits(conn[c].tab, h) /\ conn[c].tab \in Tab /\ Watched(conn[c].tab)
          /\ h.kind \in {"recover", "interrupted"} \/ h.id <= cursor[conn[c].tab] + 1
      BY <1>1, <2>1, <2>2, EmitFits
    <2>4. h.id \in Row
      BY <2>3 DEF Fits
    <2> QED
      BY <1>3, <2>2, <2>3, <2>4
  <1>5. ASSUME NEW c \in Conn, Drain(c)
        PROVE  Top(t)' \in {Top(t), Top(t) + 1} \/ (Top(t) = 0 /\ Fresh(t))
    <2>1. PICK u, f, sent : u = conn[c].tab /\ f = Head(queue[c]) /\ sent = [f EXCEPT !.id = SentAs(f)]
      OBVIOUS
    <2>2. conn[c].at = "serving" /\ conn[c].todo = <<>> /\ queue[c] # <<>>
      BY <1>5 DEF Drain
    <2>3. CASE Skipped(c, f)
      <3>1. UNCHANGED tabs
        BY <1>5, <2>1, <2>3 DEF Drain
      <3> QED
        BY <1>2, <3>1 DEF tabs
    <2>4. CASE ~Skipped(c, f)
      <3>1. Render(c, sent)
        BY <1>5, <2>1, <2>4 DEF Drain
      <3>2. u \in Tab /\ Watched(u)
        BY <1>1, <2>1, <2>2 DEF DInv, ShapeOK, Open, Watched
      <3>3. Fits(u, sent)
        BY <1>1, <2>1, <2>2, <2>4, DrainFits
      <3>4. \/ sent.kind \in {"cancel", "interrupted", "recover"} \/ sent.id <= cursor[u] + 1
            \/ conn[c].after = None /\ cursor[u] = 0
        BY <1>1, <2>1, <2>2, <2>4, DrainFits
      <3>5. sent.id \in Row
        BY <3>3 DEF Fits
      <3> QED
        BY <1>3, <2>1, <3>1, <3>2, <3>4, <3>5
    <2> QED
      BY <2>3, <2>4
  <1>6. ASSUME UNCHANGED tabs PROVE shown' = shown
    BY <1>6 DEF tabs
  <1>7. CASE UNCHANGED vars
    BY <1>2, <1>7 DEF vars, tabs
  <1>8. CASE \/ PutToken \/ SaveTurn \/ PutDone \/ PutEnd \/ PutCancel \/ Teardown
             \/ Steer \/ StopDetach \/ StopRaise \/ StopReads \/ StopNotes
             \/ \E p \in Producer : Publish(p)
    <2>1. ASSUME \E p \in Producer : Publish(p) PROVE UNCHANGED tabs
      BY Zenon, <2>1 DEF Publish, Refuse, AppendRow, Enter, Cast, NoteId
    <2>2. ASSUME Steer \/ StopDetach \/ StopRaise \/ StopReads \/ StopNotes PROVE UNCHANGED tabs
      BY Zenon, <2>2 DEF Steer, StopDetach, StopRaise, StopReads, StopNotes
    <2>3. ASSUME PutToken \/ SaveTurn \/ PutDone \/ PutEnd \/ PutCancel \/ Teardown PROVE UNCHANGED tabs
      BY Zenon, <2>3 DEF PutToken, SaveTurn, PutDone, PutEnd, PutCancel, Teardown
    <2>4. UNCHANGED tabs
      BY <1>8, <2>1, <2>2, <2>3
    <2> QED
      BY SMTT(60), <1>2, <1>6, <2>4
  <1>9. ASSUME NEW c \in Conn,
               \/ Subscribe(c) \/ Replay(c) \/ EndReplay(c) \/ Unsubscribe(c) \/ Break(c)
               \/ \E u \in Tab : AttachLate(c, u) \/ \E after : Attach(c, u, after)
        PROVE  shown' = shown
    <2>1. UNCHANGED tabs
      BY Zenon, <1>9 DEF Subscribe, Replay, EndReplay, Unsubscribe, Break, AttachLate, Attach
    <2> QED
      BY <1>6, <2>1
  <1> QED
    BY <1>2, <1>4, <1>5, <1>7, <1>8, <1>9 DEF Next, Handle

\* Across reconnects, an overflowing buffer and handlers that linger, a tab
\* renders the rows in order and skips none, but before the first row of a
\* tab that asked for no replay.
THEOREM RowsInOrder == Spec => NoHole
  <1>1. Spec => []Inv
    BY Invariance
  <1>2. Inv /\ [Next]_vars =>
          [\A t \in Tab : \/ Top(t)' \in {Top(t), Top(t) + 1}
                          \/ Top(t) = 0 /\ Fresh(t)]_vars
    BY StepNoHole
  <1> QED
    BY <1>1, <1>2, PTL DEF Spec, NoHole
====
