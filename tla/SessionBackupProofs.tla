------------------------ MODULE SessionBackupProofs ------------------------
(***************************************************************************)
(* Proofs about SessionBackup, for any number of rows, stamps, faults,     *)
(* crashes and repairs.  The stamps of the intentional shrinks grow from   *)
(* the backup to the sidecar to the object in memory (InOrder), so that a  *)
(* backup that still holds removed rows, or more rows than a file that     *)
(* only shrank on purpose, is older than the file and is superseded        *)
(* (RemovedOK, NothingToRestore).  A repair that looked keeps what it saw  *)
(* comparable with the file it will replace (RepairOK).  The object of a   *)
(* stray turn carries a stamp at least as new as the files, until another  *)
(* save overtakes it (StrayOK).  Where the last save only dropped rows,    *)
(* file and backup carry the same stamps, and the backup wins (LostOK).    *)
(***************************************************************************)
EXTENDS SessionBackup, FiniteSetTheorems, TLAPS

File == Record \union {NoFile}

Steps == {"idle", "backup", "swap", "tail", "unlink", "unlink_bak", "tombstone"}

\* A record: its rows were written, its stamp was given out, and its context
\* misses rows of the transcript only after a compression.
RecordOK(f) ==
  f # NoFile =>
    /\ \A r \in f.msgs : r < next
    /\ f.shrink <= marks
    /\ ~f.manual => f.msgs \subseteq f.ctx

Shape ==
  /\ live \in File /\ bak \in File /\ mem \in File /\ stray \in File
  /\ repair \in [on : BOOLEAN, seen : File, copy : File]
  /\ repair.on => repair.copy # NoFile
  /\ job \in [op : {"idle", "turn", "truncate", "clear", "compress", "heal", "fault", "stray", "delete"},
              at : Steps, had : BOOLEAN]
  /\ removed \in SUBSET Row /\ lost \in SUBSET Row
  /\ next \in Nat \ {0} /\ marks \in 0..MaxMark
  /\ up \in BOOLEAN /\ row \in BOOLEAN /\ tomb \in BOOLEAN
  /\ deleted \in BOOLEAN /\ unstamped \in BOOLEAN /\ raced \in BOOLEAN
  /\ running \in BOOLEAN /\ revived \in BOOLEAN
  /\ ~up => mem = NoFile /\ stray = NoFile /\ job = Idle /\ repair = NoRepair
  /\ running => stray = NoFile /\ mem # NoFile /\ mem.pending
  /\ RecordOK(live) /\ RecordOK(bak) /\ RecordOK(mem) /\ RecordOK(stray)
  /\ RecordOK(repair.seen) /\ RecordOK(repair.copy)
  /\ \A r \in removed : r < next

\* What the steps of an operation rely on.
JobOK ==
  /\ job.at = "idle" <=> job = Idle
  /\ job.at \in {"backup", "swap", "tail"} =>
       \/ job.op = "stray" /\ stray # NoFile
       \/ /\ mem # NoFile
          /\ job.op \in {"turn", "truncate", "clear", "compress", "heal", "fault"}
          /\ job.op = "turn" => stray = NoFile
  /\ job.at \in {"unlink", "unlink_bak", "tombstone"} => ~row /\ lost = {}
  /\ job.at = "backup" /\ job.op = "clear" => ~mem.pending
  /\ job.at = "backup" /\ job.op = "compress" => mem.msgs # {}
  /\ job.at = "tail" /\ job.op \in {"clear", "compress"} => lost = {}
  /\ live = NoFile =>
       /\ ~row \/ tomb
       /\ mem = NoFile
       /\ \/ job.at \in {"idle", "unlink_bak", "tombstone"}
          \/ job.op = "stray" /\ job.at \in {"backup", "swap"}
       /\ stray # NoFile => tomb \/ job.at \in {"unlink_bak", "tombstone"}

\* The stamps grow from the backup to the file to the object in memory; a
\* save that is under way writes as much as it finds, or a new stamp.
InOrder ==
  live # NoFile =>
    /\ bak # NoFile => bak.shrink <= live.shrink
    /\ mem # NoFile => live.shrink <= mem.shrink
    /\ job.at \in {"backup", "swap"} =>
         /\ job.op \in {"turn", "compress"} => Count(live) <= Count(mem)
         /\ job.op \in {"truncate", "clear"} => live.shrink < mem.shrink \/ live.msgs = {}

\* The object of a stray turn is as new as the files and as what a repair saw;
\* it saves over nothing but its own last save.
StrayOK ==
  stray # NoFile =>
    /\ bak # NoFile => bak.shrink <= stray.shrink
    /\ live # NoFile => live.shrink <= stray.shrink
    /\ repair.on /\ repair.seen # NoFile => repair.seen.shrink <= stray.shrink
    /\ removed \intersect stray.msgs = {}
    /\ job.op = "stray" /\ live # NoFile => live.shrink = stray.shrink

\* No save shrank the file without a stamp: there is nothing to restore.
NothingToRestore ==
  /\ live # NoFile /\ bak # NoFile => bak.shrink < live.shrink \/ Count(bak) <= Count(live)
  /\ repair.on => live = NoFile /\ bak \in {repair.copy, NoFile}

\* What a repair that looked has to find when it replaces.
RepairOK ==
  repair.on =>
    \/ /\ repair.seen = NoFile /\ live = NoFile /\ bak = repair.copy
       /\ job = Idle /\ ~tomb /\ (deleted => revived)
    \/ /\ repair.seen # NoFile
       /\ repair.copy.shrink = repair.seen.shrink
       /\ live # NoFile => repair.seen.shrink <= live.shrink
       /\ \/ removed \intersect repair.copy.msgs = {}
          \/ live # NoFile /\ repair.seen.shrink < live.shrink

\* The backup holds rows that were taken off only under an older stamp.
RemovedOK ==
  /\ live = NoFile => removed = {}
  /\ live # NoFile =>
       /\ removed \intersect live.msgs = {}
       /\ bak # NoFile /\ removed \intersect bak.msgs # {} => bak.shrink < live.shrink
  /\ mem # NoFile => removed \intersect mem.msgs = {}

DeleteOK ==
  /\ deleted =>
       \/ revived
       \/ live = NoFile /\ tomb /\ (job = Idle \/ job.op = "stray")
  /\ job.at \in {"unlink_bak", "tombstone"} => live = NoFile
  /\ job.at = "unlink" => live # NoFile

LostOK ==
  lost # {} =>
    /\ live # NoFile /\ bak # NoFile
    /\ lost \subseteq bak.msgs
    /\ live.msgs \subseteq bak.msgs /\ live.msgs # bak.msgs
    /\ live.shrink = bak.shrink /\ live.clear = bak.clear

IInv ==
  /\ Shape /\ JobOK
  /\ ~raced \/ ~unstamped => InOrder
  /\ ~unstamped => NothingToRestore
  /\ ~raced => StrayOK /\ RepairOK /\ RemovedOK /\ DeleteOK /\ LostOK

-----------------------------------------------------------------------------
(* Records and how many rows they hold.                                    *)
LEMMA CountFacts ==
  ASSUME NEW f \in Record
  PROVE  /\ Count(f) \in Nat /\ Count(f) = Cardinality(f.msgs) /\ f # NoFile
         /\ IsFiniteSet(f.msgs) /\ f.msgs \subseteq Row
         /\ Count(f) = 0 <=> f.msgs = {}
  <1>1. f # NoFile /\ f.msgs \in SUBSET Row
    BY FileAssumption DEF Record
  <1>2. IsFiniteSet(Row)
    BY FS_Interval, BackupAssumption DEF Row
  <1>3. IsFiniteSet(f.msgs)
    BY <1>1, <1>2, FS_Subset
  <1> QED
    BY <1>1, <1>3, FS_CardinalityType, FS_EmptySet DEF Count

LEMMA CountMonotone ==
  ASSUME NEW f \in Record, NEW g \in Record, f.msgs \subseteq g.msgs
  PROVE  /\ Count(f) <= Count(g)
         /\ f.msgs # g.msgs => Count(f) < Count(g)
  BY CountFacts, FS_Subset

LEMMA NoFileCount == Count(NoFile) = -1
  BY DEF Count

\* A record keeps its shape while rows are written and stamps given out.
LEMMA RecordKept ==
  ASSUME NEW f \in File, RecordOK(f), next \in Nat, next' \in Nat, next <= next',
         marks \in 0..MaxMark, marks' \in 0..MaxMark, marks <= marks'
  PROVE  f # NoFile =>
           /\ \A r \in f.msgs : r < next'
           /\ f.shrink <= marks'
           /\ ~f.manual => f.msgs \subseteq f.ctx
  <1> SUFFICES ASSUME f # NoFile
               PROVE  /\ \A r \in f.msgs : r < next'
                      /\ f.shrink <= marks'
                      /\ ~f.manual => f.msgs \subseteq f.ctx
    OBVIOUS
  <1>1. f.shrink \in 0..MaxMark /\ f.msgs \subseteq Row
    BY DEF File, Record
  <1> QED
    BY <1>1, BackupAssumption DEF RecordOK, Row

(* An operation starts: it has changed the object and will save it.        *)
Starts(op, rec, had) ==
  /\ mem' = rec /\ job' = [op |-> op, at |-> "backup", had |-> had]
  /\ UNCHANGED <<live, bak, tomb, repair, up, ghosts>>
  /\ running' \in BOOLEAN /\ (running' => running /\ rec.pending)
  /\ \/ stray' = stray
     \/ running /\ ~running' /\ stray' = mem
  /\ row' \in {row, TRUE} /\ next' \in Nat \ {0} /\ next <= next'
  /\ marks' \in 0..MaxMark /\ marks <= marks'

\* What the changed object may be, for each operation.
Savable(op, rec) ==
  /\ \A r \in rec.msgs : r < next'
  /\ rec.shrink <= marks'
  /\ ~rec.manual => rec.msgs \subseteq rec.ctx
  /\ op = "clear" => ~rec.pending
  /\ op = "turn" => stray' = NoFile
  /\ op = "compress" => rec.msgs # {}
  /\ ~raced \/ ~unstamped => live.shrink <= rec.shrink
  /\ op \in {"turn", "compress"} => Count(live) <= Count(rec)
  /\ op \in {"truncate", "clear"} =>
       (~raced \/ ~unstamped => live.shrink < rec.shrink \/ live.msgs = {})
  /\ ~raced => removed \intersect rec.msgs = {}

\* The object a worker keeps when the cache lets go of it.
LEMMA LetGoFacts ==
  ASSUME IInv, running, live # NoFile
  PROVE  /\ mem \in Record /\ mem # NoFile /\ RecordOK(mem) /\ stray = NoFile
         /\ ~raced =>
              /\ bak # NoFile => bak.shrink <= mem.shrink
              /\ live.shrink <= mem.shrink
              /\ repair.on /\ repair.seen # NoFile => repair.seen.shrink <= mem.shrink
              /\ removed \intersect mem.msgs = {}
  <1>1. /\ mem \in Record /\ mem # NoFile /\ RecordOK(mem) /\ live \in Record /\ stray = NoFile
        /\ bak # NoFile => bak \in Record
        /\ repair.seen # NoFile => repair.seen \in Record
    BY DEF IInv, Shape, File
  <1>2. SUFFICES ASSUME ~raced
                 PROVE  /\ bak # NoFile => bak.shrink <= mem.shrink
                        /\ live.shrink <= mem.shrink
                        /\ repair.on /\ repair.seen # NoFile => repair.seen.shrink <= mem.shrink
                        /\ removed \intersect mem.msgs = {}
    BY <1>1
  <1>3. /\ mem.shrink \in Int /\ live.shrink \in Int
        /\ bak # NoFile => bak.shrink \in Int
        /\ repair.seen # NoFile => repair.seen.shrink \in Int
    BY <1>1 DEF Record
  <1>4. live.shrink <= mem.shrink /\ (bak # NoFile => bak.shrink <= live.shrink)
    BY <1>1, <1>2 DEF IInv, InOrder
  <1>5. repair.on /\ repair.seen # NoFile => repair.seen.shrink <= live.shrink
    BY <1>2 DEF IInv, RepairOK
  <1>6. removed \intersect mem.msgs = {}
    BY <1>1, <1>2 DEF IInv, RemovedOK
  <1> QED
    BY <1>3, <1>4, <1>5, <1>6

LEMMA SavingPreserves ==
  ASSUME IInv, Free, live # NoFile, NEW rec \in Record, NEW had \in BOOLEAN,
         NEW op \in {"turn", "truncate", "clear", "compress", "heal", "fault"},
         Starts(op, rec, had), Savable(op, rec)
  PROVE  IInv'
  <1> USE DEF IInv
  <1>1. rec # NoFile /\ mem' = rec /\ job' # Idle
        /\ job' = [op |-> op, at |-> "backup", had |-> had]
    BY FileAssumption DEF Idle, Starts
  <1>2. /\ UNCHANGED <<live, bak, tomb, repair, up, removed, lost, deleted, revived, unstamped, raced>>
        /\ job = Idle /\ up
    BY DEF ghosts, Free, Starts
  <1>3. Shape'
    <2>1. next \in Nat /\ next' \in Nat \ {0} /\ next <= next' /\ marks \in 0..MaxMark
          /\ marks' \in 0..MaxMark /\ marks <= marks' /\ row' \in BOOLEAN
      BY DEF Starts, Shape
    <2>2. /\ RecordOK(live)' /\ RecordOK(bak)' /\ RecordOK(repair.seen)' /\ RecordOK(repair.copy)'
      BY <1>2, <2>1, RecordKept DEF Shape, RecordOK
    <2>3. RecordOK(mem)'
      BY <1>1 DEF RecordOK, Savable
    <2>4. \A r \in removed' : r < next'
      BY <1>2, <2>1 DEF Shape, Row
    <2>5. job' \in [op : {"idle", "turn", "truncate", "clear", "compress", "heal", "fault", "stray", "delete"},
              at : Steps, had : BOOLEAN]
      BY <1>1 DEF Steps
    <2>6. running' \in BOOLEAN /\ stray' \in File /\ RecordOK(stray)'
          /\ (running' => stray' = NoFile /\ mem' # NoFile /\ mem'.pending)
      <3>1. CASE stray' = stray
        <4>1. RecordOK(stray)'
          BY <2>1, <3>1, RecordKept DEF Shape, RecordOK
        <4> QED
          BY <1>1, <3>1, <4>1 DEF Starts, Shape
      <3>2. CASE running /\ ~running' /\ stray' = mem
        <4>1. mem \in File /\ RecordOK(mem)
          BY DEF Shape
        <4>2. RecordOK(stray)'
          BY <2>1, <3>2, <4>1, RecordKept DEF RecordOK
        <4> QED
          BY <3>2, <4>1, <4>2 DEF Starts
      <3> QED
        BY <3>1, <3>2 DEF Starts
    <2>7. mem' \in File
      BY <1>1 DEF File
    <2> HIDE DEF RecordOK
    <2> QED
      BY <1>1, <1>2, <2>1, <2>2, <2>3, <2>4, <2>5, <2>6, <2>7 DEF Shape
  <1>4. JobOK'
    BY <1>1, <1>2 DEF JobOK, Idle, Savable
  <1>5. (~raced \/ ~unstamped => InOrder)'
    BY <1>1, <1>2 DEF InOrder, Savable
  <1>6. (~unstamped => NothingToRestore)'
    BY <1>2 DEF NothingToRestore, Count
  <1>7. (~raced => RepairOK)'
    BY <1>2 DEF RepairOK
  <1>8. (~raced => RemovedOK)'
    BY <1>1, <1>2 DEF RemovedOK, Savable
  <1>9. (~raced => DeleteOK)'
    BY <1>1, <1>2 DEF DeleteOK, Idle
  <1>10. (~raced => LostOK)'
    BY <1>2 DEF LostOK
  <1>11. (~raced => StrayOK)'
    <2>1. CASE stray' = stray
      BY <1>1, <1>2, <2>1 DEF StrayOK
    <2>2. CASE running /\ stray' = mem
      BY <1>1, <1>2, <2>2, LetGoFacts DEF StrayOK
    <2> QED
      BY <2>1, <2>2 DEF Starts
  <1> QED
    BY <1>3, <1>4, <1>5, <1>6, <1>7, <1>8, <1>9, <1>10, <1>11

LEMMA LoadPreserves ==
  ASSUME IInv, Load
  PROVE  IInv'
  <1> USE DEF IInv
  <1>1. /\ UNCHANGED <<live, bak, row, tomb, job, repair, up, removed, lost, deleted, revived,
                       unstamped, raced>>
        /\ UNCHANGED <<next, marks>> /\ live # NoFile /\ mem' = live /\ job = Idle /\ up
        /\ running' = FALSE /\ stray' = IF running THEN mem ELSE stray
    BY DEF Load, LetGo, files, bounds, ghosts, Free
  <1>2. Shape'
    <2>1. RecordOK(live)' /\ RecordOK(bak)' /\ RecordOK(mem)' /\ RecordOK(stray)'
          /\ RecordOK(repair.seen)' /\ RecordOK(repair.copy)'
      BY <1>1 DEF Shape, RecordOK
    <2>2. stray' \in File /\ mem' \in File /\ running' = FALSE
      BY <1>1 DEF Shape
    <2> HIDE DEF RecordOK
    <2> QED
      BY ZenonT(60), <1>1, <2>1, <2>2 DEF Shape
  <1>3. JobOK'
    BY <1>1 DEF JobOK, Idle
  <1>4. (~raced \/ ~unstamped => InOrder)'
    BY <1>1 DEF InOrder, Idle, Shape, File, Record
  <1>5. (~unstamped => NothingToRestore)'
    BY <1>1 DEF NothingToRestore, Count
  <1>6. (~raced => RepairOK)'
    BY <1>1 DEF RepairOK
  <1>7. (~raced => RemovedOK)'
    BY <1>1 DEF RemovedOK
  <1>8. (~raced => DeleteOK)'
    BY <1>1 DEF DeleteOK
  <1>9. (~raced => LostOK)'
    BY <1>1 DEF LostOK
  <1>10. (~raced => StrayOK)'
    <2>1. CASE ~running
      BY <1>1, <2>1 DEF StrayOK
    <2>2. CASE running
      BY <1>1, <2>2, LetGoFacts DEF StrayOK, Idle
    <2> QED
      BY <2>1, <2>2
  <1> QED
    BY <1>2, <1>3, <1>4, <1>5, <1>6, <1>7, <1>8, <1>9, <1>10

LEMMA LoadHealsPreserves ==
  ASSUME IInv, LoadHeals
  PROVE  IInv'
  <1> DEFINE rec == [live EXCEPT !.msgs = Collapse(live.msgs)]
  <1>1. /\ live \in Record /\ RecordOK(live) /\ live # NoFile /\ next \in Nat \ {0} /\ marks \in 0..MaxMark
    BY DEF IInv, Shape, File, LoadHeals
  <1>2. Collapse(live.msgs) \subseteq live.msgs
    BY DEF Collapse
  <1>3. rec \in Record /\ rec.msgs = Collapse(live.msgs) /\ rec.shrink = live.shrink
        /\ rec.manual = live.manual /\ rec.ctx = live.ctx
    BY <1>1, <1>2 DEF Record
  <1>4. mem' = rec /\ job' = [op |-> "heal", at |-> "backup", had |-> FALSE]
        /\ Free /\ UNCHANGED <<live, bak, row, tomb, repair, up, ghosts, next, marks>>
        /\ running' = FALSE /\ stray' = IF running THEN mem ELSE stray
    BY DEF LoadHeals, LetGo, Saving, files, bounds
  <1> HIDE DEF rec
  <1>5. \A r \in rec.msgs : r < next'
    BY <1>1, <1>2, <1>3, <1>4 DEF RecordOK
  <1>6. rec.shrink <= marks' /\ live.shrink <= rec.shrink
    BY <1>1, <1>3, <1>4 DEF RecordOK, Record
  <1>7. ~rec.manual => rec.msgs \subseteq rec.ctx
    BY <1>1, <1>2, <1>3 DEF RecordOK
  <1>8. ~raced => removed \intersect rec.msgs = {}
    BY <1>1, <1>2, <1>3 DEF IInv, RemovedOK
  <1>9. Starts("heal", rec, FALSE)
    <2>1. running \in BOOLEAN
      BY DEF IInv, Shape
    <2>2. running' \in BOOLEAN /\ ~running'
      BY <1>4
    <2>3. \/ stray' = stray
          \/ running /\ stray' = mem
      <3>1. CASE running
        BY <1>4, <3>1
      <3>2. CASE ~running
        BY <1>4, <3>2
      <3> QED
        BY <3>1, <3>2
    <2> QED
      BY <1>1, <1>4, <2>2, <2>3 DEF Starts
  <1>10. Savable("heal", rec)
    BY <1>5, <1>6, <1>7, <1>8 DEF Savable
  <1> QED
    BY <1>1, <1>3, <1>4, <1>9, <1>10, SavingPreserves

LEMMA ReadyFacts ==
  ASSUME IInv, Ready
  PROVE  /\ live \in Record /\ mem \in Record /\ live # NoFile /\ mem # NoFile
         /\ Free /\ Count(live) <= Count(mem)
         /\ \A r \in mem.msgs : r < next /\ r \in Row
         /\ mem.shrink \in 0..MaxMark /\ live.shrink \in 0..MaxMark
         /\ mem.shrink <= marks /\ live.shrink <= marks
         /\ ~mem.manual => mem.msgs \subseteq mem.ctx
         /\ ~raced \/ ~unstamped => live.shrink <= mem.shrink
         /\ ~raced => removed \intersect mem.msgs = {}
         /\ next \in Nat \ {0} /\ marks \in 0..MaxMark
         /\ running \in BOOLEAN /\ (running => mem.pending)
  <1>1. live \in Record /\ mem \in Record /\ live # NoFile /\ mem # NoFile /\ Free
    BY DEF Ready, Lags, IInv, Shape, File
  <1>2. Count(live) <= Count(mem)
    BY <1>1, CountFacts DEF Ready, Lags
  <1>3. mem.msgs \subseteq Row /\ mem.shrink \in 0..MaxMark /\ live.shrink \in 0..MaxMark
    BY <1>1 DEF Record
  <1> QED
    BY <1>1, <1>2, <1>3 DEF IInv, Shape, RecordOK, InOrder, RemovedOK

LEMMA StartTurnPreserves ==
  ASSUME IInv, StartTurn
  PROVE  IInv'
  <1> DEFINE rec == [mem EXCEPT !.pending = TRUE]
  <1>1. Ready /\ mem' = rec /\ job' = [op |-> "turn", at |-> "backup", had |-> FALSE]
        /\ UNCHANGED <<live, bak, row, tomb, running, stray, repair, up, ghosts, next, marks>>
        /\ stray = NoFile
    BY DEF StartTurn, Saving, files, worker, bounds
  <1>2. rec \in Record /\ rec.msgs = mem.msgs /\ rec.shrink = mem.shrink
        /\ rec.manual = mem.manual /\ rec.ctx = mem.ctx /\ rec.pending
    BY <1>1, ReadyFacts DEF Record
  <1> HIDE DEF rec
  <1>3. Count(rec) = Count(mem)
    BY <1>1, <1>2, CountFacts, ReadyFacts
  <1>4. Starts("turn", rec, FALSE)
    BY <1>1, <1>2, ReadyFacts DEF Starts
  <1>5. Savable("turn", rec)
    BY <1>1, <1>2, <1>3, ReadyFacts DEF Savable
  <1> QED
    BY <1>1, <1>2, <1>4, <1>5, ReadyFacts, SavingPreserves

LEMMA CommitTurnPreserves ==
  ASSUME IInv, CommitTurn
  PROVE  IInv'
  <1> DEFINE rec == [mem EXCEPT !.msgs = @ \union {next}, !.ctx = @ \union {next}, !.pending = FALSE]
  <1>1. Ready /\ mem' = rec /\ job' = [op |-> "turn", at |-> "backup", had |-> FALSE]
        /\ row' = TRUE /\ next' = next + 1 /\ next <= MaxRow
        /\ UNCHANGED <<live, bak, tomb, stray, repair, up, ghosts, marks>>
        /\ stray = NoFile /\ running' = FALSE
    BY DEF CommitTurn, Written, Free
  <1>2. next \in Row
    <2>1. next \in Nat /\ next # 0
      BY DEF IInv, Shape
    <2> QED
      BY <1>1, <2>1, BackupAssumption DEF Row
  <1>3. /\ rec \in Record /\ rec.msgs = mem.msgs \union {next} /\ rec.shrink = mem.shrink
        /\ rec.manual = mem.manual /\ rec.ctx = mem.ctx \union {next}
    BY <1>1, <1>2, ReadyFacts DEF Record
  <1> HIDE DEF rec
  <1>4. Count(live) <= Count(rec)
    <2>1. Count(mem) <= Count(rec) /\ Count(live) <= Count(mem)
      BY <1>1, <1>3, CountMonotone, ReadyFacts
    <2>2. Count(mem) \in Nat /\ Count(rec) \in Nat /\ Count(live) \in Nat
      BY <1>1, <1>3, CountFacts, ReadyFacts
    <2> QED
      BY <2>1, <2>2
  <1>5. \A r \in rec.msgs : r < next'
    BY <1>1, <1>3, ReadyFacts DEF Row
  <1>6. ~raced => removed \intersect rec.msgs = {}
    <2>1. next \notin removed
      BY <1>2 DEF IInv, Shape, Row
    <2> QED
      BY <1>1, <1>3, <2>1, ReadyFacts
  <1>7. Starts("turn", rec, FALSE)
    <2>1. running' \in BOOLEAN /\ ~running'
      BY <1>1
    <2> QED
      BY <1>1, <2>1, ReadyFacts DEF Starts
  <1>8. Savable("turn", rec)
    BY <1>1, <1>3, <1>4, <1>5, <1>6, ReadyFacts DEF Savable
  <1> QED
    BY <1>1, <1>3, <1>7, <1>8, ReadyFacts, SavingPreserves

LEMMA PrefixFacts ==
  ASSUME NEW f \in Record, NEW kept \in Prefixes(f.msgs)
  PROVE  /\ kept \subseteq f.msgs /\ kept # f.msgs /\ kept \subseteq Row
         /\ f.msgs \subseteq f.ctx => kept \subseteq Cut(f.ctx, f.msgs \ kept)
         /\ Cut(f.ctx, f.msgs \ kept) \subseteq f.ctx
  <1>1. PICK k \in f.msgs : kept = {r \in f.msgs : r < k}
    BY DEF Prefixes
  <1>2. f.msgs \subseteq Row /\ f.msgs \subseteq Int
    BY DEF Record, Row
  <1>3. k \notin kept
    BY <1>1, <1>2
  <1>4. \A r \in kept, g \in f.msgs \ kept : r < g
    BY <1>1, <1>2
  <1>5. f.msgs \subseteq f.ctx => kept \subseteq Cut(f.ctx, f.msgs \ kept)
    BY <1>1, <1>4 DEF Cut
  <1>6. Cut(f.ctx, f.msgs \ kept) \subseteq f.ctx
    BY DEF Cut
  <1> QED
    BY <1>1, <1>2, <1>3, <1>5, <1>6

LEMMA ShrunkFacts ==
  ASSUME NEW f \in Record, NEW kept \in SUBSET f.msgs, NEW ctx \in SUBSET f.ctx,
         NEW mark \in 0..MaxMark
  PROVE  LET s == Shrunk(f, kept, ctx, mark)
         IN /\ s \in Record /\ s.msgs = kept /\ s.ctx = ctx /\ s.manual = f.manual
            /\ s.pending = f.pending
            /\ s.shrink = IF kept = f.msgs THEN f.shrink ELSE mark
  BY DEF Shrunk, Stamp, Record, Watermark

LEMMA TruncatePreserves ==
  ASSUME IInv, Truncate
  PROVE  IInv'
  <1>1. Ready /\ marks' = marks + 1 /\ marks < MaxMark
        /\ UNCHANGED <<live, bak, row, tomb, running, stray, repair, up, ghosts, next>>
    BY DEF Truncate, Saving, files, worker
  <1>2. PICK kept \in Prefixes(mem.msgs) :
          LET c == IF kept = {} THEN {} ELSE Cut(mem.ctx, mem.msgs \ kept)
          IN Saving("truncate", Shrunk(mem, kept, c, marks + 1), TRUE)
    BY DEF Truncate
  <1> DEFINE ctx == IF kept = {} THEN {} ELSE Cut(mem.ctx, mem.msgs \ kept)
             rec == Shrunk(mem, kept, ctx, marks + 1)
  <1>3. mem' = rec /\ job' = [op |-> "truncate", at |-> "backup", had |-> TRUE]
    BY <1>2 DEF Saving
  <1>4. marks + 1 \in 0..MaxMark
    BY <1>1, ReadyFacts, BackupAssumption
  <1>5. /\ kept \subseteq mem.msgs /\ kept # mem.msgs /\ ctx \subseteq mem.ctx
        /\ mem.msgs \subseteq mem.ctx => kept \subseteq ctx
    BY <1>1, ReadyFacts, PrefixFacts
  <1> HIDE DEF ctx
  <1>6. /\ rec \in Record /\ rec.msgs = kept /\ rec.ctx = ctx /\ rec.manual = mem.manual
        /\ rec.shrink = marks + 1 /\ rec.pending = mem.pending
    BY <1>1, <1>4, <1>5, ReadyFacts, ShrunkFacts
  <1> HIDE DEF rec
  <1>7. Starts("truncate", rec, TRUE)
    BY <1>1, <1>3, <1>4, <1>6, ReadyFacts DEF Starts
  <1>8. Savable("truncate", rec)
    BY <1>1, <1>5, <1>6, ReadyFacts DEF Savable
  <1> QED
    BY <1>1, <1>6, <1>7, <1>8, ReadyFacts, SavingPreserves

LEMMA ClearPreserves ==
  ASSUME IInv, Clear
  PROVE  IInv'
  <1>1. Ready /\ marks' = marks + 1 /\ marks < MaxMark
        /\ UNCHANGED <<live, bak, row, tomb, stray, repair, up, ghosts, next>>
        /\ running' = FALSE
    BY DEF Clear, Saving, files
  <1> DEFINE had == mem.msgs # {}
             cut == Shrunk(mem, {}, {}, marks + 1)
             rec == [cut EXCEPT !.pending = FALSE,
                                !.clear = IF had THEN marks + 1 ELSE 0]
  <1>2. mem' = rec /\ job' = [op |-> "clear", at |-> "backup", had |-> had]
    BY DEF Clear, Saving
  <1>3. marks + 1 \in 0..MaxMark
    BY <1>1, ReadyFacts, BackupAssumption
  <1>4. /\ cut \in Record /\ cut.msgs = {} /\ cut.ctx = {}
        /\ cut.shrink = IF {} = mem.msgs THEN mem.shrink ELSE marks + 1
    <2>1. PICK none : none = {}
      OBVIOUS
    <2>2. mem \in Record
      BY <1>1, ReadyFacts
    <2>3. none \in SUBSET mem.msgs /\ none \in SUBSET mem.ctx
      BY <2>1
    <2>4. LET s == Shrunk(mem, none, none, marks + 1)
          IN /\ s \in Record /\ s.msgs = none /\ s.ctx = none /\ s.manual = mem.manual
             /\ s.pending = mem.pending
             /\ s.shrink = IF none = mem.msgs THEN mem.shrink ELSE marks + 1
      BY <1>3, <2>2, <2>3, ShrunkFacts
    <2> QED
      BY <2>1, <2>4
  <1> HIDE DEF cut
  <1>5. /\ rec \in Record /\ rec.msgs = {} /\ rec.ctx = {} /\ ~rec.pending
        /\ rec.shrink = IF had THEN marks + 1 ELSE mem.shrink
    <2>1. PICK gen \in 0..MaxMark : gen = IF had THEN marks + 1 ELSE 0
      BY <1>3, BackupAssumption
    <2>2. rec = [cut EXCEPT !.pending = FALSE, !.clear = gen]
      BY <2>1
    <2>3. cut.shrink = IF had THEN marks + 1 ELSE mem.shrink
      BY <1>4
    <2> HIDE DEF rec, had
    <2> QED
      BY <1>4, <2>2, <2>3 DEF Record
  <1> HIDE DEF rec
  <1>6. ~had => live.msgs = {}
    <2>1. /\ Count(live) \in Nat /\ Count(mem) \in Nat /\ Count(live) <= Count(mem)
          /\ mem.msgs = {} => Count(mem) = 0
          /\ Count(live) = 0 => live.msgs = {}
      BY <1>1, CountFacts, ReadyFacts
    <2> QED
      BY <2>1
  <1>7. Starts("clear", rec, had)
    <2>1. running' \in BOOLEAN /\ ~running'
      BY <1>1
    <2> QED
      BY <1>1, <1>2, <1>3, <2>1, ReadyFacts DEF Starts
  <1>8. Savable("clear", rec)
    BY <1>1, <1>5, <1>6, ReadyFacts DEF Savable
  <1>9. had \in BOOLEAN
    OBVIOUS
  <1> HIDE DEF had
  <1> QED
    BY <1>1, <1>5, <1>7, <1>8, <1>9, ReadyFacts, SavingPreserves

LEMMA CompressPreserves ==
  ASSUME IInv, Compress
  PROVE  IInv'
  <1>1. Ready /\ mem.msgs # {} /\ ~mem.pending
        /\ UNCHANGED <<live, bak, row, tomb, running, stray, repair, up, ghosts, next, marks>>
    BY DEF Compress, Saving, files, worker, bounds
  <1>2. PICK newest \in mem.msgs :
          Saving("compress", [mem EXCEPT !.ctx = {Marker, newest},
                                         !.manual = TRUE, !.wm = "set"], TRUE)
    BY DEF Compress
  <1> DEFINE rec == [mem EXCEPT !.ctx = {Marker, newest}, !.manual = TRUE, !.wm = "set"]
  <1>3. mem' = rec /\ job' = [op |-> "compress", at |-> "backup", had |-> TRUE]
    BY <1>2 DEF Saving
  <1>4. rec \in Record /\ rec.msgs = mem.msgs /\ rec.shrink = mem.shrink /\ rec.manual
    BY ZenonT(60), <1>1, ReadyFacts DEF Record, Marker
  <1> HIDE DEF rec
  <1>5. Count(rec) = Count(mem)
    BY <1>1, <1>4, CountFacts, ReadyFacts
  <1>6. Starts("compress", rec, TRUE)
    BY <1>1, <1>3, ReadyFacts DEF Starts
  <1>7. Savable("compress", rec)
    BY <1>1, <1>4, <1>5, ReadyFacts DEF Savable
  <1> QED
    BY <1>1, <1>4, <1>6, <1>7, ReadyFacts, SavingPreserves

LEMMA SaveShortPreserves ==
  ASSUME IInv, SaveShort
  PROVE  IInv'
  <1>1. Ready /\ UNCHANGED <<live, bak, row, tomb, running, stray, repair, up, ghosts, next, marks>>
    BY DEF SaveShort, Saving, files, worker
  <1>2. PICK kept \in Prefixes(mem.msgs) :
          \E c \in {Cut(mem.ctx, mem.msgs \ kept)} \union (IF kept = {} THEN {{}} ELSE {mem.ctx}) :
             Saving("fault", [mem EXCEPT !.msgs = kept, !.ctx = c], FALSE)
    BY DEF SaveShort
  <1>3. PICK ctx \in {Cut(mem.ctx, mem.msgs \ kept)} \union (IF kept = {} THEN {{}} ELSE {mem.ctx}) :
             Saving("fault", [mem EXCEPT !.msgs = kept, !.ctx = ctx], FALSE)
    BY <1>2
  <1> DEFINE rec == [mem EXCEPT !.msgs = kept, !.ctx = ctx]
  <1>4. mem' = rec /\ job' = [op |-> "fault", at |-> "backup", had |-> FALSE]
    BY <1>3 DEF Saving
  <1>5. /\ kept \subseteq mem.msgs /\ kept \subseteq Row /\ ctx \subseteq mem.ctx
        /\ mem.msgs \subseteq mem.ctx => kept \subseteq ctx
    <2>1. /\ mem \in Record /\ kept \subseteq mem.msgs /\ kept \subseteq Row
          /\ mem.msgs \subseteq mem.ctx => kept \subseteq Cut(mem.ctx, mem.msgs \ kept)
          /\ Cut(mem.ctx, mem.msgs \ kept) \subseteq mem.ctx
      BY <1>1, ReadyFacts, PrefixFacts
    <2>2. \/ ctx = Cut(mem.ctx, mem.msgs \ kept)
          \/ kept = {} /\ ctx = {}
          \/ ctx = mem.ctx
      BY <1>3
    <2> QED
      BY <2>1, <2>2
  <1>6. rec \in Record /\ rec.msgs = kept /\ rec.ctx = ctx /\ rec.shrink = mem.shrink
        /\ rec.manual = mem.manual /\ rec.pending = mem.pending
    BY <1>1, <1>5, ReadyFacts DEF Record
  <1> HIDE DEF rec
  <1>7. Starts("fault", rec, FALSE)
    BY <1>1, <1>4, <1>6, ReadyFacts DEF Starts
  <1>8. Savable("fault", rec)
    BY <1>1, <1>5, <1>6, ReadyFacts DEF Savable
  <1> QED
    BY <1>1, <1>6, <1>7, <1>8, ReadyFacts, SavingPreserves

\* A save is of the worker's own object or of the cached one.
LEMMA SavedFacts ==
  ASSUME IInv, job.at \in {"backup", "swap", "tail"}
  PROVE  /\ Saved \in Record /\ Saved # NoFile /\ RecordOK(Saved) /\ job # Idle
         /\ job.op # "stray" => Saved = mem
         /\ job.op = "stray" => Saved = stray
  <1>1. job # Idle
    BY DEF Idle
  <1>2. CASE job.op = "stray"
    BY <1>1, <1>2 DEF IInv, Shape, JobOK, File, Saved
  <1>3. CASE job.op # "stray"
    BY <1>1, <1>3 DEF IInv, Shape, JobOK, File, Saved
  <1> QED
    BY <1>2, <1>3

\* What is left of the worker when a save returns.
LEMMA SettledFacts ==
  ASSUME IInv, Settled, job.at \in {"swap", "tail"}
  PROVE  /\ running' \in BOOLEAN /\ stray' \in {stray, NoFile}
         /\ running' => stray' = NoFile /\ mem # NoFile /\ mem.pending
  <1>1. stray' \in {stray, NoFile}
    BY DEF Settled, LeaveStray
  <1>2. CASE job.op = "turn"
    <2>1. stray = NoFile /\ mem \in Record /\ mem # NoFile
      BY <1>2 DEF IInv, Shape, JobOK, File
    <2> QED
      BY <1>1, <1>2, <2>1 DEF Settled, LeaveStray, Record
  <1>3. CASE job.op # "turn"
    BY <1>1, <1>3 DEF Settled, LeaveStray, IInv, Shape
  <1> QED
    BY <1>2, <1>3

LEMMA WriteBackupPreserves ==
  ASSUME IInv, WriteBackup
  PROVE  IInv'
  <1> USE DEF IInv
  <1>1. /\ job.at = "backup" /\ job \in [op : {"idle", "turn", "truncate", "clear", "compress", "heal", "fault", "stray", "delete"},
                                         at : Steps, had : BOOLEAN]
        /\ job # Idle
        /\ job' = [op |-> job.op, at |-> "swap", had |-> job.had] /\ job' # Idle
        /\ UNCHANGED <<live, mem, row, tomb, running, stray, repair, up, next, marks>>
        /\ UNCHANGED <<removed, deleted, revived, unstamped, raced>>
    BY DEF WriteBackup, worker, bounds, Shape, Idle
  <1>2. \/ bak' = bak /\ lost' = lost
        \/ bak' = live /\ live # NoFile /\ live \in Record /\ lost' = {}
    <2>1. bak' \in IF Shrinks THEN {bak, live} ELSE {bak}
      BY DEF WriteBackup
    <2>2. lost' = IF bak' = bak THEN lost ELSE {}
      BY DEF WriteBackup
    <2>3. Shrinks => live # NoFile
      BY <1>1, SavedFacts, CountFacts, NoFileCount DEF Shrinks
    <2> QED
      BY <2>1, <2>2, <2>3 DEF Shape, File
  <1>3. Shape'
    BY <1>1, <1>2 DEF Shape, RecordOK, File, Steps, Idle
  <1>4. JobOK'
    BY <1>1, <1>2 DEF JobOK, Idle, Steps, Shape
  <1>5. (~raced \/ ~unstamped => InOrder)'
    <2>1. live \in Record => live.shrink <= live.shrink
      BY DEF Record
    <2> QED
      BY <1>1, <1>2, <2>1 DEF InOrder
  <1>6. (~unstamped => NothingToRestore)'
    <2>1. live \in Record => Count(live) \in Nat
      BY CountFacts
    <2> QED
      BY <1>1, <1>2, <2>1 DEF NothingToRestore, InOrder, Count
  <1>7. (~raced => RepairOK)'
    BY <1>1, <1>2 DEF RepairOK
  <1>8. (~raced => RemovedOK)'
    BY <1>1, <1>2 DEF RemovedOK
  <1>9. (~raced => DeleteOK)'
    BY <1>1, <1>2 DEF DeleteOK, Idle
  <1>10. (~raced => LostOK)'
    BY <1>1, <1>2 DEF LostOK
  <1>11. (~raced => StrayOK)'
    BY <1>1, <1>2 DEF StrayOK
  <1> QED
    BY <1>3, <1>4, <1>5, <1>6, <1>7, <1>8, <1>9, <1>10, <1>11

LEMMA SkipSavePreserves ==
  ASSUME IInv, SkipSave
  PROVE  IInv'
  <1> USE DEF IInv
  <1>1. /\ job.at = "backup" /\ job \in [op : {"idle", "turn", "truncate", "clear", "compress", "heal", "fault", "stray", "delete"},
                                         at : Steps, had : BOOLEAN]
        /\ job # Idle /\ live # NoFile
        /\ job.op # "stray" => mem.msgs = {} /\ mem.pending
        /\ job' = [op |-> job.op, at |-> "tail", had |-> job.had] /\ job' # Idle
        /\ UNCHANGED <<live, bak, mem, row, tomb, running, stray, repair, up, next, marks>>
        /\ UNCHANGED <<removed, lost, deleted, revived, unstamped, raced>>
    BY SavedFacts DEF SkipSave, RefuseSave, files, worker, bounds, ghosts, Shape, Idle
  <1>2. Shape'
    BY <1>1 DEF Shape, RecordOK, File, Steps, Idle
  <1>3. JobOK'
    BY <1>1 DEF JobOK, Idle, Steps, Shape
  <1>4. (~raced \/ ~unstamped => InOrder)'
    BY <1>1 DEF InOrder, Idle
  <1>5. (~unstamped => NothingToRestore)'
    BY <1>1 DEF NothingToRestore, Count
  <1>6. (~raced => RepairOK)'
    BY <1>1 DEF RepairOK
  <1>7. (~raced => RemovedOK)'
    BY <1>1 DEF RemovedOK
  <1>8. (~raced => DeleteOK)'
    BY <1>1 DEF DeleteOK, Idle
  <1>9. (~raced => LostOK)'
    BY <1>1 DEF LostOK
  <1>10. (~raced => StrayOK)'
    BY <1>1 DEF StrayOK
  <1> QED
    BY <1>2, <1>3, <1>4, <1>5, <1>6, <1>7, <1>8, <1>9, <1>10

LEMMA ReplaceFailsPreserves ==
  ASSUME IInv, ReplaceFails
  PROVE  IInv'
  <1> USE DEF IInv
  <1>1. /\ job.at = "swap" /\ job' = Idle /\ job # Idle
        /\ UNCHANGED <<live, bak, mem, row, tomb, repair, up, next, marks, removed, lost, deleted,
                       revived, unstamped, raced>>
        /\ running' \in BOOLEAN /\ stray' \in {stray, NoFile}
        /\ running' => stray' = NoFile /\ mem # NoFile /\ mem.pending
    BY DEF ReplaceFails, LeaveStray, files, ghosts, Idle, Shape
  <1>2. Shape'
    BY <1>1 DEF Shape, RecordOK, File, Steps, Idle
  <1>3. JobOK'
    BY <1>1 DEF JobOK, Idle, Steps, Shape
  <1>4. (~raced \/ ~unstamped => InOrder)'
    BY <1>1 DEF InOrder, Idle
  <1>5. (~unstamped => NothingToRestore)'
    BY <1>1 DEF NothingToRestore, Count
  <1>6. (~raced => RepairOK)'
    BY <1>1 DEF RepairOK
  <1>7. (~raced => RemovedOK)'
    BY <1>1 DEF RemovedOK
  <1>8. (~raced => DeleteOK)'
    BY <1>1 DEF DeleteOK, Idle
  <1>9. (~raced => LostOK)'
    BY <1>1 DEF LostOK
  <1>10. (~raced => StrayOK)'
    BY <1>1 DEF StrayOK, Idle
  <1> QED
    BY <1>2, <1>3, <1>4, <1>5, <1>6, <1>7, <1>8, <1>9, <1>10

LEMMA EndSavePreserves ==
  ASSUME IInv, EndSave
  PROVE  IInv'
  <1> USE DEF IInv
  <1>1. /\ job.at = "tail" /\ job # Idle /\ job' = Idle /\ tomb' \in BOOLEAN
        /\ live # NoFile
        /\ UNCHANGED <<live, mem, row, repair, up, next, marks, removed, lost, deleted, revived,
                       unstamped, raced>>
        /\ running' \in BOOLEAN /\ stray' \in {stray, NoFile}
        /\ running' => stray' = NoFile /\ mem # NoFile /\ mem.pending
    BY SettledFacts DEF EndSave, bounds, ghosts, Idle, Shape, JobOK
  <1>2. \/ bak' = bak
        \/ bak' = NoFile /\ lost = {}
    <2>1. \/ bak' = bak
          \/ job.op \in {"clear", "compress"} /\ bak' = NoFile
      BY DEF EndSave, DropsBackup
    <2> QED
      BY <1>1, <2>1 DEF JobOK
  <1>3. Shape'
    BY <1>1, <1>2 DEF Shape, RecordOK, File, Steps, Idle
  <1>4. JobOK'
    BY <1>1, <1>2 DEF JobOK, Idle, Steps, Shape
  <1>5. (~raced \/ ~unstamped => InOrder)'
    BY <1>1, <1>2 DEF InOrder, Idle
  <1>6. (~unstamped => NothingToRestore)'
    BY <1>1, <1>2 DEF NothingToRestore, Count
  <1>7. (~raced => RepairOK)'
    BY <1>1, <1>2 DEF RepairOK
  <1>8. (~raced => RemovedOK)'
    BY <1>1, <1>2 DEF RemovedOK
  <1>9. (~raced => DeleteOK)'
    BY <1>1, <1>2 DEF DeleteOK, Idle
  <1>10. (~raced => LostOK)'
    BY <1>1, <1>2 DEF LostOK
  <1>11. (~raced => StrayOK)'
    BY <1>1, <1>2 DEF StrayOK, Idle
  <1> QED
    BY <1>3, <1>4, <1>5, <1>6, <1>7, <1>8, <1>9, <1>10, <1>11

LEMMA DeleteRowPreserves ==
  ASSUME IInv, DeleteRow
  PROVE  IInv'
  <1> USE DEF IInv
  <1>1. /\ job = Idle /\ up /\ live # NoFile /\ row' = FALSE /\ lost' = {}
        /\ job' = [op |-> "delete", at |-> "unlink", had |-> FALSE] /\ job' # Idle
        /\ UNCHANGED <<live, bak, mem, tomb, running, stray, repair, up, next, marks>>
        /\ UNCHANGED <<removed, deleted, revived, unstamped, raced>>
    BY DEF DeleteRow, worker, bounds, Free, Idle
  <1>2. Shape'
    <2>1. RecordOK(live)' /\ RecordOK(bak)' /\ RecordOK(mem)' /\ RecordOK(stray)'
          /\ RecordOK(repair.seen)' /\ RecordOK(repair.copy)'
      BY <1>1 DEF Shape, RecordOK
    <2>2. job' \in [op : {"idle", "turn", "truncate", "clear", "compress", "heal", "fault", "stray", "delete"},
                     at : Steps, had : BOOLEAN]
      BY <1>1 DEF Steps
    <2>3. lost' \in SUBSET Row
      BY <1>1
    <2> QED
      BY ZenonT(60), <1>1, <2>1, <2>2, <2>3 DEF Shape, File
  <1>3. JobOK'
    BY <1>1 DEF JobOK, Idle, Steps, Shape
  <1>4. (~raced \/ ~unstamped => InOrder)'
    BY <1>1 DEF InOrder, Idle
  <1>5. (~unstamped => NothingToRestore)'
    BY <1>1 DEF NothingToRestore, Count
  <1>6. (~raced => RepairOK)'
    BY <1>1 DEF RepairOK
  <1>7. (~raced => RemovedOK)'
    BY <1>1 DEF RemovedOK
  <1>8. (~raced => DeleteOK)'
    BY <1>1 DEF DeleteOK, Idle
  <1>9. (~raced => LostOK)'
    BY <1>1 DEF LostOK
  <1>10. (~raced => StrayOK)'
    BY <1>1 DEF StrayOK
  <1> QED
    BY <1>2, <1>3, <1>4, <1>5, <1>6, <1>7, <1>8, <1>9, <1>10

LEMMA UnlinkSidecarPreserves ==
  ASSUME IInv, UnlinkSidecar
  PROVE  IInv'
  <1> USE DEF IInv
  <1>1. /\ job.at = "unlink" /\ job # Idle /\ mem' = NoFile /\ live' = NoFile /\ removed' = {}
        /\ job \in [op : {"idle", "turn", "truncate", "clear", "compress", "heal", "fault", "stray", "delete"},
                    at : Steps, had : BOOLEAN]
        /\ job' = [op |-> job.op, at |-> "unlink_bak", had |-> job.had] /\ job' # Idle
        /\ ~row /\ lost = {} /\ live # NoFile
        /\ running' = FALSE /\ stray' = IF running THEN mem ELSE stray
        /\ UNCHANGED <<bak, row, tomb, repair, up, next, marks, lost, deleted, revived, unstamped, raced>>
    BY DEF UnlinkSidecar, LetGo, bounds, Idle, Shape, JobOK
  <1>2. Shape'
    <2>1. RecordOK(live)' /\ RecordOK(bak)' /\ RecordOK(mem)' /\ RecordOK(stray)'
          /\ RecordOK(repair.seen)' /\ RecordOK(repair.copy)'
      BY <1>1 DEF Shape, RecordOK
    <2>2. stray' \in File /\ mem' \in File /\ live' \in File
      BY <1>1 DEF Shape, File
    <2>3. job' \in [op : {"idle", "turn", "truncate", "clear", "compress", "heal", "fault", "stray", "delete"},
                     at : Steps, had : BOOLEAN]
      BY <1>1 DEF Steps
    <2>4. removed' \in SUBSET Row
      BY <1>1
    <2> HIDE DEF RecordOK
    <2> QED
      BY <1>1, <2>1, <2>2, <2>3, <2>4 DEF Shape
  <1>3. JobOK'
    BY <1>1 DEF JobOK, Idle, Steps, Shape
  <1>4. (~raced \/ ~unstamped => InOrder)'
    BY <1>1 DEF InOrder, Idle
  <1>5. (~unstamped => NothingToRestore)'
    BY <1>1 DEF NothingToRestore, Count
  <1>6. (~raced => RepairOK)'
    BY <1>1 DEF RepairOK
  <1>7. (~raced => RemovedOK)'
    BY <1>1 DEF RemovedOK
  <1>8. (~raced => DeleteOK)'
    BY <1>1 DEF DeleteOK, Idle
  <1>9. (~raced => LostOK)'
    BY <1>1 DEF LostOK
  <1>10. (~raced => StrayOK)'
    <2>1. CASE ~running
      BY <1>1, <2>1 DEF StrayOK
    <2>2. CASE running
      BY <1>1, <2>2, LetGoFacts DEF StrayOK
    <2> QED
      BY <2>1, <2>2
  <1> QED
    BY <1>2, <1>3, <1>4, <1>5, <1>6, <1>7, <1>8, <1>9, <1>10

LEMMA UnlinkBackupPreserves ==
  ASSUME IInv, UnlinkBackup
  PROVE  IInv'
  <1> USE DEF IInv
  <1>1. /\ job.at = "unlink_bak" /\ job # Idle /\ bak' \in {bak, NoFile}
        /\ job \in [op : {"idle", "turn", "truncate", "clear", "compress", "heal", "fault", "stray", "delete"},
                    at : Steps, had : BOOLEAN]
        /\ job' = [op |-> job.op, at |-> "tombstone", had |-> job.had] /\ job' # Idle
        /\ ~row /\ lost = {}
        /\ UNCHANGED <<live, mem, row, tomb, running, stray, repair, up, next, marks>>
        /\ UNCHANGED <<removed, lost, deleted, revived, unstamped, raced>>
    BY DEF UnlinkBackup, worker, bounds, ghosts, Idle, Shape, JobOK
  <1>2. Shape'
    BY <1>1 DEF Shape, RecordOK, File, Steps, Idle
  <1>3. JobOK'
    BY <1>1 DEF JobOK, Idle, Steps, Shape
  <1>4. (~raced \/ ~unstamped => InOrder)'
    BY <1>1 DEF InOrder, Idle
  <1>5. (~unstamped => NothingToRestore)'
    BY <1>1 DEF NothingToRestore, Count
  <1>6. (~raced => RepairOK)'
    BY <1>1 DEF RepairOK
  <1>7. (~raced => RemovedOK)'
    BY <1>1 DEF RemovedOK
  <1>8. (~raced => DeleteOK)'
    BY <1>1 DEF DeleteOK, Idle
  <1>9. (~raced => LostOK)'
    BY <1>1 DEF LostOK
  <1>10. (~raced => StrayOK)'
    BY <1>1 DEF StrayOK
  <1> QED
    BY <1>2, <1>3, <1>4, <1>5, <1>6, <1>7, <1>8, <1>9, <1>10

LEMMA EntombPreserves ==
  ASSUME IInv, Entomb
  PROVE  IInv'
  <1> USE DEF IInv
  <1>1. /\ job.at = "tombstone" /\ job # Idle /\ job' = Idle /\ tomb' = TRUE /\ deleted' = TRUE /\ revived' = FALSE
        /\ ~row /\ lost = {}
        /\ UNCHANGED <<live, bak, mem, row, running, stray, repair, up, next, marks, removed, lost,
                       unstamped, raced>>
    BY DEF Entomb, worker, bounds, Idle, JobOK
  <1>2. Shape'
    <2>1. RecordOK(live)' /\ RecordOK(bak)' /\ RecordOK(mem)' /\ RecordOK(stray)'
          /\ RecordOK(repair.seen)' /\ RecordOK(repair.copy)'
      BY <1>1 DEF Shape, RecordOK
    <2>2. job' \in [op : {"idle", "turn", "truncate", "clear", "compress", "heal", "fault", "stray", "delete"},
                    at : Steps, had : BOOLEAN]
      BY <1>1 DEF Idle, Steps
    <2>3. tomb' \in BOOLEAN /\ deleted' \in BOOLEAN /\ revived' \in BOOLEAN
      BY <1>1
    <2> HIDE DEF RecordOK
    <2> QED
      BY <1>1, <2>1, <2>2, <2>3 DEF Shape
  <1>3. JobOK'
    BY <1>1 DEF JobOK, Idle, Steps, Shape
  <1>4. (~raced \/ ~unstamped => InOrder)'
    BY <1>1 DEF InOrder, Idle
  <1>5. (~unstamped => NothingToRestore)'
    BY <1>1 DEF NothingToRestore, Count
  <1>6. (~raced => RepairOK)'
    BY <1>1 DEF RepairOK
  <1>7. (~raced => RemovedOK)'
    BY <1>1 DEF RemovedOK
  <1>8. (~raced => DeleteOK)'
    BY <1>1 DEF DeleteOK, Idle
  <1>9. (~raced => LostOK)'
    BY <1>1 DEF LostOK
  <1>10. (~raced => StrayOK)'
    BY <1>1 DEF StrayOK, Idle
  <1> QED
    BY <1>2, <1>3, <1>4, <1>5, <1>6, <1>7, <1>8, <1>9, <1>10

LEMMA CrashPreserves ==
  ASSUME IInv, Crash
  PROVE  IInv'
  <1> USE DEF IInv
  <1>1. /\ mem' = NoFile /\ job' = Idle /\ repair' = NoRepair /\ up' = FALSE
        /\ running' = FALSE /\ stray' = NoFile
        /\ UNCHANGED <<live, bak, row, tomb, next, marks, removed, lost, deleted, revived, unstamped, raced>>
    BY DEF Crash, files, ghosts
  <1>2. Shape'
    <2>1. RecordOK(live)' /\ RecordOK(bak)' /\ RecordOK(mem)' /\ RecordOK(stray)'
      BY <1>1 DEF Shape, RecordOK
    <2>2. /\ repair' \in [on : BOOLEAN, seen : File, copy : File] /\ ~repair'.on
          /\ RecordOK(repair.seen)' /\ RecordOK(repair.copy)'
      BY <1>1 DEF NoRepair, File, RecordOK
    <2>3. job' \in [op : {"idle", "turn", "truncate", "clear", "compress", "heal", "fault", "stray", "delete"},
                    at : Steps, had : BOOLEAN]
      BY <1>1 DEF Idle, Steps
    <2>4. mem' \in File /\ stray' \in File /\ NoFile \in File
      BY <1>1 DEF File
    <2> HIDE DEF RecordOK
    <2> QED
      BY <1>1, <2>1, <2>2, <2>3, <2>4 DEF Shape
  <1>3. JobOK'
    BY <1>1 DEF JobOK, Idle, Steps, Shape
  <1>4. (~raced \/ ~unstamped => InOrder)'
    BY <1>1 DEF InOrder, Idle
  <1>5. (~unstamped => NothingToRestore)'
    BY <1>1 DEF NothingToRestore, Count, NoRepair
  <1>6. (~raced => RepairOK)'
    BY <1>1 DEF RepairOK, NoRepair
  <1>7. (~raced => RemovedOK)'
    BY <1>1 DEF RemovedOK
  <1>8. (~raced => DeleteOK)'
    BY <1>1 DEF DeleteOK, Idle
  <1>9. (~raced => LostOK)'
    BY <1>1 DEF LostOK
  <1>10. (~raced => StrayOK)'
    BY <1>1 DEF StrayOK
  <1> QED
    BY <1>2, <1>3, <1>4, <1>5, <1>6, <1>7, <1>8, <1>9, <1>10

LEMMA ReplacesCached ==
  ASSUME IInv, ReplaceSidecar, job.op # "stray"
  PROVE  IInv'
  <1> USE DEF IInv
  <1> DEFINE lostRows == IF live = NoFile THEN {} ELSE live.msgs \ mem.msgs
  <1>1. PICK gone : gone = lostRows
    OBVIOUS
  <1>2. /\ job.at = "swap" /\ live' = mem /\ mem \in Record /\ mem # NoFile
        /\ job \in [op : {"idle", "turn", "truncate", "clear", "compress", "heal", "fault", "stray", "delete"},
                    at : Steps, had : BOOLEAN]
        /\ job.op \in {"turn", "truncate", "clear", "compress", "heal", "fault"}
        /\ job # Idle /\ job' # Idle /\ job' = [op |-> job.op, at |-> "tail", had |-> job.had]
        /\ UNCHANGED <<bak, mem, row, tomb, running, stray, repair, up, next, marks, deleted, revived>>
        /\ raced' = (raced \/ stray # NoFile) /\ live # NoFile
    <2>1. job.at = "swap" /\ Saved = mem
      BY SavedFacts DEF ReplaceSidecar
    <2>2. live' = mem /\ revived' = revived /\ raced' = (raced \/ stray # NoFile)
      BY <2>1 DEF ReplaceSidecar, Shape
    <2> QED
      BY <2>1, <2>2 DEF ReplaceSidecar, worker, bounds, Shape, JobOK, File, Idle
  <1>3. /\ removed' = IF job.op \in {"truncate", "clear"} THEN removed \union gone ELSE removed
        /\ lost' = gone \/ lost' = {}
        /\ lost' # {} => /\ job.op = "fault" /\ live # NoFile /\ bak = live
                         /\ mem.msgs \subseteq live.msgs
                         /\ mem.shrink = live.shrink /\ mem.clear = live.clear
        /\ unstamped' = (unstamped \/ (job.op \in {"fault", "heal"} /\ gone # {}))
    <2>1. job.at = "swap" /\ Saved = mem
      BY SavedFacts DEF ReplaceSidecar
    <2> QED
      BY <1>1, <2>1 DEF ReplaceSidecar
  <1>4. /\ live \in Record => gone = live.msgs \ mem.msgs
        /\ live = NoFile => gone = {}
        /\ gone \subseteq Row /\ \A r \in gone : r < next
    <2>1. live \in Record => live # NoFile /\ live.msgs \subseteq Row
      BY CountFacts
    <2> QED
      BY <1>1, <2>1 DEF Shape, File, RecordOK
  <1> HIDE DEF lostRows
  <1>5. Shape'
    <2>1. RecordOK(live)' /\ RecordOK(bak)' /\ RecordOK(mem)' /\ RecordOK(stray)'
          /\ RecordOK(repair.seen)' /\ RecordOK(repair.copy)'
      BY <1>2 DEF Shape, RecordOK
    <2>2. job' \in [op : {"idle", "turn", "truncate", "clear", "compress", "heal", "fault", "stray", "delete"},
                    at : Steps, had : BOOLEAN]
      BY <1>2 DEF Steps
    <2>3. lost' \in SUBSET Row /\ removed' \in SUBSET Row /\ \A r \in removed' : r < next
      BY <1>3, <1>4 DEF Shape
    <2>4. unstamped' \in BOOLEAN /\ raced' \in BOOLEAN
      BY <1>2, <1>3 DEF Shape
    <2> QED
      BY <1>2, <2>1, <2>2, <2>3, <2>4 DEF Shape, File
  <1>6. JobOK'
    BY <1>2, <1>3 DEF JobOK, Idle
  <1>7. ~raced \/ ~unstamped =>
          /\ live \in Record /\ live # NoFile
          /\ live.shrink \in Int /\ mem.shrink \in Int /\ live.shrink <= mem.shrink
          /\ gone = live.msgs \ mem.msgs
          /\ bak # NoFile => bak \in Record /\ bak.shrink \in Int /\ bak.shrink <= live.shrink
          /\ job.op \in {"truncate", "clear"} => live.shrink < mem.shrink \/ gone = {}
    BY <1>2, <1>4 DEF InOrder, Shape, File, Record
  <1>8. (~raced \/ ~unstamped => InOrder)'
    <2>1. SUFFICES ASSUME ~raced \/ ~unstamped PROVE InOrder'
      BY <1>2, <1>3
    <2>2. mem.shrink <= mem.shrink /\ (bak # NoFile => bak.shrink <= mem.shrink)
      BY <1>7, <2>1
    <2> QED
      BY <1>2, <2>2 DEF InOrder
  <1>9. (~unstamped => NothingToRestore)'
    <2>1. SUFFICES ASSUME ~unstamped, ~(job.op \in {"fault", "heal"} /\ gone # {})
                   PROVE  NothingToRestore'
      BY <1>3
    <2>2. ~repair.on
      BY <1>7, <2>1 DEF NothingToRestore
    <2>3. Count(live) \in Int /\ Count(mem) \in Nat
      BY <1>2, <1>7, <2>1, CountFacts
    <2>4. \/ Count(live) <= Count(mem)
          \/ live.shrink < mem.shrink
          \/ live.msgs = {}
      <3>1. CASE job.op \in {"turn", "compress"}
        BY <1>2, <1>7, <2>1, <3>1 DEF InOrder
      <3>2. CASE job.op \in {"truncate", "clear"}
        BY <1>2, <1>7, <2>1, <3>2 DEF InOrder
      <3>3. CASE job.op \in {"fault", "heal"}
        BY <1>2, <1>7, <2>1, <3>3, CountMonotone
      <3> QED
        BY <1>2, <3>1, <3>2, <3>3
    <2>5. live.msgs = {} => Count(live) = 0
      BY <1>7, <2>1, CountFacts
    <2>6. bak # NoFile => /\ Count(bak) \in Nat
                          /\ bak.shrink < mem.shrink \/ Count(bak) <= Count(mem)
      BY <1>7, <2>1, <2>3, <2>4, <2>5, CountFacts DEF NothingToRestore
    <2>7. Count(bak)' = Count(bak) /\ Count(live)' = Count(mem)
      BY <1>2 DEF Count
    <2> QED
      BY <1>2, <2>2, <2>6, <2>7 DEF NothingToRestore
  <1>10. (~raced => RepairOK)'
    <2>1. SUFFICES ASSUME ~raced, repair.on PROVE RepairOK'
      BY <1>2 DEF RepairOK
    <2>2. /\ repair.seen # NoFile /\ repair.copy.shrink = repair.seen.shrink
          /\ repair.seen.shrink <= live.shrink
          /\ removed \intersect repair.copy.msgs = {} \/ repair.seen.shrink < live.shrink
      BY <1>2, <1>7, <2>1 DEF RepairOK
    <2>3. repair.seen.shrink \in Int
      BY <2>2 DEF Shape, File, Record
    <2>4. /\ repair.seen.shrink <= mem.shrink
          /\ removed' \intersect repair.copy.msgs = {} \/ repair.seen.shrink < mem.shrink
      BY <1>3, <1>7, <2>1, <2>2, <2>3
    <2> QED
      BY <1>2, <2>2, <2>4 DEF RepairOK
  <1>11. (~raced => RemovedOK)'
    <2>1. SUFFICES ASSUME ~raced PROVE RemovedOK'
      BY <1>2
    <2>2. removed \intersect live.msgs = {} /\ removed \intersect mem.msgs = {}
      BY <1>2, <2>1 DEF RemovedOK
    <2>3. removed' \intersect mem.msgs = {}
      BY <1>3, <1>7, <2>1, <2>2
    <2>4. bak # NoFile /\ removed' \intersect bak.msgs # {} => bak.shrink < mem.shrink
      <3>1. CASE bak # NoFile /\ removed \intersect bak.msgs # {}
        BY <1>7, <2>1, <3>1 DEF RemovedOK
      <3>2. CASE removed \intersect bak.msgs = {}
        BY <1>3, <1>7, <2>1, <3>2
      <3> QED
        BY <3>1, <3>2
    <2> QED
      BY <1>2, <2>3, <2>4 DEF RemovedOK
  <1>12. (~raced => DeleteOK)'
    BY <1>2 DEF DeleteOK
  <1>13. (~raced => LostOK)'
    BY <1>2, <1>3, <1>4 DEF LostOK, Shape, File
  <1>14. (~raced => StrayOK)'
    BY <1>2 DEF StrayOK
  <1> QED
    BY <1>5, <1>6, <1>8, <1>9, <1>10, <1>11, <1>12, <1>13, <1>14


LEMMA ReplacesStray ==
  ASSUME IInv, ReplaceSidecar, job.op = "stray"
  PROVE  IInv'
  <1> USE DEF IInv
  <1>1. /\ job.at = "swap" /\ live' = stray /\ stray \in Record /\ stray # NoFile /\ RecordOK(stray)
        /\ job \in [op : {"idle", "turn", "truncate", "clear", "compress", "heal", "fault", "stray", "delete"},
                    at : Steps, had : BOOLEAN]
        /\ job # Idle /\ job' # Idle /\ job' = [op |-> "stray", at |-> "tail", had |-> job.had]
        /\ UNCHANGED <<bak, mem, row, tomb, running, stray, repair, up, next, marks, removed, deleted, raced>>
        /\ lost' = {} /\ unstamped' /\ revived'
        /\ unstamped' \in BOOLEAN /\ revived' \in BOOLEAN
    <2>1. /\ job.at = "swap" /\ Saved = stray /\ stray \in Record /\ stray # NoFile /\ RecordOK(stray)
          /\ job # Idle
      BY SavedFacts DEF ReplaceSidecar
    <2>2. job \in [op : {"idle", "turn", "truncate", "clear", "compress", "heal", "fault", "stray", "delete"},
                   at : Steps, had : BOOLEAN]
      BY DEF Shape
    <2>3. job' = [op |-> "stray", at |-> "tail", had |-> job.had]
      BY <2>2 DEF ReplaceSidecar
    <2>4. /\ live' = stray /\ lost' = {} /\ removed' = removed /\ unstamped' = TRUE /\ revived' = TRUE
          /\ raced' = raced
      BY <2>1 DEF ReplaceSidecar, Shape
    <2> QED
      BY <2>1, <2>2, <2>3, <2>4 DEF ReplaceSidecar, worker, bounds, Idle
  <1>2. Shape'
    <2>1. RecordOK(live)' /\ RecordOK(bak)' /\ RecordOK(mem)' /\ RecordOK(stray)'
          /\ RecordOK(repair.seen)' /\ RecordOK(repair.copy)'
      BY <1>1 DEF Shape, RecordOK
    <2>2. job' \in [op : {"idle", "turn", "truncate", "clear", "compress", "heal", "fault", "stray", "delete"},
                    at : Steps, had : BOOLEAN]
      BY <1>1 DEF Steps
    <2>3. lost' \in SUBSET Row /\ live' \in File
      BY <1>1 DEF File
    <2> HIDE DEF RecordOK
    <2> QED
      BY <1>1, <2>1, <2>2, <2>3 DEF Shape
  <1>3. JobOK'
    BY <1>1 DEF JobOK, Idle
  \* Unless it raced, the file is missing or holds the stray object's last save.
  <1>4. ~raced =>
          /\ live # NoFile => live.shrink = stray.shrink
          /\ bak # NoFile => bak.shrink <= stray.shrink
          /\ mem # NoFile => live # NoFile /\ stray.shrink <= mem.shrink
          /\ stray.shrink <= stray.shrink
    <2>1. mem # NoFile => live # NoFile
      BY DEF JobOK
    <2>2. stray.shrink \in Int
      BY <1>1 DEF Record
    <2> QED
      BY <1>1, <2>1, <2>2 DEF StrayOK, InOrder
  <1>5. (~raced \/ ~unstamped => InOrder)'
    BY <1>1, <1>4 DEF InOrder
  <1>6. (~raced => StrayOK)'
    BY <1>1, <1>4 DEF StrayOK
  <1>7. (~raced => RepairOK)'
    <2>1. SUFFICES ASSUME ~raced, repair.on PROVE RepairOK'
      BY <1>1 DEF RepairOK
    <2>2. /\ repair.seen # NoFile /\ repair.copy.shrink = repair.seen.shrink
          /\ \/ removed \intersect repair.copy.msgs = {}
             \/ live # NoFile /\ repair.seen.shrink < live.shrink
      BY <1>1, <2>1 DEF RepairOK
    <2>3. repair.seen.shrink <= stray.shrink
      BY <1>1, <2>1, <2>2 DEF StrayOK
    <2> QED
      BY <1>1, <1>4, <2>1, <2>2, <2>3 DEF RepairOK
  <1>8. (~raced => RemovedOK)'
    <2>1. SUFFICES ASSUME ~raced PROVE RemovedOK'
      BY <1>1
    <2>2. removed \intersect stray.msgs = {}
      BY <1>1, <2>1 DEF StrayOK
    <2> QED
      BY <1>1, <1>4, <2>1, <2>2 DEF RemovedOK
  <1>9. (~raced => DeleteOK)'
    BY <1>1 DEF DeleteOK
  <1>10. (~raced => LostOK)'
    BY <1>1 DEF LostOK
  <1> QED
    BY <1>1, <1>2, <1>3, <1>5, <1>6, <1>7, <1>8, <1>9, <1>10

\* A stray turn starts to save.
LEMMA StraySaves ==
  ASSUME IInv, SaveStray, stray' \in Record, row' \in {row, TRUE},
         next' \in Nat \ {0}, next <= next', \A r \in stray'.msgs : r < next',
         stray'.shrink = stray.shrink, stray'.manual = stray.manual,
         ~stray'.manual => stray'.msgs \subseteq stray'.ctx,
         ~raced => removed \intersect stray'.msgs = {}
  PROVE  IInv'
  <1> USE DEF IInv
  <1>1. /\ job = Idle /\ up /\ stray # NoFile /\ stray \in Record
        /\ job' = [op |-> "stray", at |-> "backup", had |-> FALSE] /\ job' # Idle
        /\ raced' = (raced \/ (live # NoFile /\ live # stray))
        /\ UNCHANGED <<live, bak, mem, tomb, running, repair, up, marks, removed, lost, deleted,
                       revived, unstamped>>
        /\ stray' # NoFile /\ ~running
    BY FileAssumption DEF SaveStray, Free, Idle, Shape, File
  <1>2. Shape'
    <2>1. next \in Nat /\ marks \in 0..MaxMark /\ marks <= marks'
      BY <1>1 DEF Shape
    <2>2. /\ RecordOK(live)' /\ RecordOK(bak)' /\ RecordOK(mem)'
          /\ RecordOK(repair.seen)' /\ RecordOK(repair.copy)'
      BY <1>1, <2>1, RecordKept DEF Shape, RecordOK
    <2>3. RecordOK(stray)'
      BY <1>1 DEF Shape, RecordOK
    <2>4. \A r \in removed' : r < next'
      BY <1>1, <2>1 DEF Shape, Row
    <2>5. job' \in [op : {"idle", "turn", "truncate", "clear", "compress", "heal", "fault", "stray", "delete"},
                    at : Steps, had : BOOLEAN]
      BY <1>1 DEF Steps
    <2>6. raced' \in BOOLEAN /\ row' \in BOOLEAN /\ stray' \in File
      BY <1>1 DEF Shape, File
    <2> HIDE DEF RecordOK
    <2> QED
      BY <1>1, <2>2, <2>3, <2>4, <2>5, <2>6 DEF Shape
  <1>3. JobOK'
    BY <1>1 DEF JobOK, Idle
  <1>4. (~raced \/ ~unstamped => InOrder)'
    BY <1>1 DEF InOrder
  <1>5. (~unstamped => NothingToRestore)'
    BY <1>1 DEF NothingToRestore, Count
  <1>6. (~raced => StrayOK)'
    BY <1>1 DEF StrayOK
  <1>7. (~raced => RepairOK)'
    BY <1>1 DEF RepairOK, JobOK, Idle
  <1>8. (~raced => RemovedOK)'
    BY <1>1 DEF RemovedOK
  <1>9. (~raced => DeleteOK)'
    BY <1>1 DEF DeleteOK, Idle
  <1>10. (~raced => LostOK)'
    BY <1>1 DEF LostOK
  <1> QED
    BY <1>2, <1>3, <1>4, <1>5, <1>6, <1>7, <1>8, <1>9, <1>10

LEMMA StrayFacts ==
  ASSUME IInv, SaveStray
  PROVE  /\ stray \in Record /\ stray.msgs \subseteq Row /\ next \in Nat \ {0}
         /\ \A r \in stray.msgs : r < next
         /\ ~stray.manual => stray.msgs \subseteq stray.ctx
         /\ ~raced => removed \intersect stray.msgs = {}
  <1>1. stray \in Record /\ stray # NoFile
    BY DEF IInv, Shape, File, SaveStray
  <1>2. stray.msgs \subseteq Row
    BY <1>1 DEF Record
  <1> QED
    BY <1>1, <1>2 DEF IInv, Shape, RecordOK, StrayOK

LEMMA CommitStrayPreserves ==
  ASSUME IInv, CommitStray
  PROVE  IInv'
  <1> DEFINE rec == Written(stray)
  <1>1. SaveStray /\ stray' = rec /\ row' \in {row, TRUE} /\ next' = next + 1 /\ next <= MaxRow
    BY DEF CommitStray
  <1>2. next \in Row
    <2>1. next \in Nat /\ next # 0
      BY DEF IInv, Shape
    <2> QED
      BY <1>1, <2>1, BackupAssumption DEF Row
  <1>3. /\ rec \in Record /\ rec.msgs = stray.msgs \union {next} /\ rec.shrink = stray.shrink
        /\ rec.manual = stray.manual /\ rec.ctx = stray.ctx \union {next}
    BY <1>1, <1>2, StrayFacts DEF Record, Written
  <1> HIDE DEF rec
  <1>4. \A r \in rec.msgs : r < next'
    BY <1>1, <1>2, <1>3, StrayFacts DEF Row
  <1>5. ~raced => removed \intersect rec.msgs = {}
    <2>1. next \notin removed
      BY <1>2 DEF IInv, Shape, Row
    <2> QED
      BY <1>1, <1>3, <2>1, StrayFacts
  <1>6. next' \in Nat \ {0} /\ next <= next'
    BY <1>1, StrayFacts
  <1>7. ~rec.manual => rec.msgs \subseteq rec.ctx
    BY <1>1, <1>3, StrayFacts
  <1> QED
    BY <1>1, <1>3, <1>4, <1>5, <1>6, <1>7, StraySaves

LEMMA CheckpointStrayPreserves ==
  ASSUME IInv, CheckpointStray
  PROVE  IInv'
  <1>1. SaveStray /\ UNCHANGED <<stray, next, row>>
    BY DEF CheckpointStray
  <1>2. next' \in Nat \ {0} /\ next <= next'
    BY <1>1, StrayFacts
  <1> QED
    BY <1>1, <1>2, StrayFacts, StraySaves

\* A backup that is older than the file is not restored over it.
LEMMA OlderIsSuperseded ==
  ASSUME NEW l \in Record, NEW b \in Record, Restores(l, b), b.shrink <= l.shrink
  PROVE  b.shrink = l.shrink /\ Count(b) > Count(l)
  <1>1. l # NoFile /\ l.shrink \in Nat /\ b.shrink \in Nat
    BY CountFacts DEF Record
  <1>2. ~ShrinkSuperseded(l, b) /\ Count(b) > Count(l)
    BY <1>1 DEF Restores
  <1> QED
    BY <1>1, <1>2 DEF ShrinkSuperseded

\* What a recovery that restores the backup relies on.
LEMMA RestoreFacts ==
  ASSUME IInv, NEW dbOk \in BOOLEAN, Candidate(dbOk), Restores(live, bak)
  PROVE  /\ bak \in Record /\ bak # NoFile
         /\ live = NoFile => ~tomb
         /\ (~raced \/ ~unstamped) /\ live # NoFile => bak.shrink = live.shrink
         /\ ~raced => removed \intersect bak.msgs = {} /\ (deleted => revived)
         /\ ~unstamped => live = NoFile
  <1> USE DEF IInv
  <1>1. bak # NoFile /\ (live = NoFile => ~tomb)
    BY DEF Candidate, Orphan
  <1>2. bak \in Record /\ (live # NoFile => live \in Record)
    BY <1>1 DEF Shape, File
  <1>3. (~raced \/ ~unstamped) /\ live # NoFile => bak.shrink = live.shrink
    BY <1>1, <1>2, OlderIsSuperseded DEF InOrder
  <1>4. live # NoFile => Count(bak) > Count(live) /\ Count(bak) \in Int /\ Count(live) \in Int
                         /\ bak.shrink \in Int
    <2>1. live # NoFile => Count(bak) > Count(live)
      BY DEF Restores
    <2> QED
      BY <1>1, <1>2, <2>1, CountFacts DEF Record
  <1>5. ~unstamped => live = NoFile
    BY <1>1, <1>3, <1>4 DEF NothingToRestore
  <1>6. ~raced => removed \intersect bak.msgs = {} /\ (deleted => revived)
    BY <1>1, <1>3, <1>4 DEF RemovedOK, DeleteOK
  <1> QED
    BY <1>1, <1>2, <1>3, <1>5, <1>6

LEMMA BootPreserves ==
  ASSUME IInv, Boot
  PROVE  IInv'
  <1> USE DEF IInv
  <1>1. /\ mem = NoFile /\ job = Idle /\ repair = NoRepair /\ up' = TRUE /\ lost' = {}
        /\ stray = NoFile /\ ~running
        /\ UNCHANGED <<bak, row, tomb, mem, job, running, stray, repair, next, marks>>
        /\ UNCHANGED <<removed, deleted, revived, unstamped, raced>>
    BY DEF Boot, worker, bounds, Shape
  <1>2. PICK dbOk \in BOOLEAN :
          live' = IF Candidate(dbOk) /\ Restores(live, bak) THEN bak ELSE live
    BY DEF Boot
  <1>3. \/ live' = live
        \/ /\ live' = bak /\ bak \in Record /\ bak # NoFile
           /\ ~raced => removed \intersect bak.msgs = {} /\ (deleted => revived)
    BY <1>2, RestoreFacts
  <1>4. Shape'
    <2>1. RecordOK(live)' /\ RecordOK(bak)' /\ RecordOK(mem)' /\ RecordOK(stray)'
          /\ RecordOK(repair.seen)' /\ RecordOK(repair.copy)'
      BY <1>1, <1>3 DEF Shape, RecordOK
    <2> QED
      BY <1>1, <1>3, <2>1 DEF Shape, File
  <1>5. JobOK'
    BY <1>1, <1>3 DEF JobOK, Idle
  <1>6. (~raced \/ ~unstamped => InOrder)'
    <2>1. bak \in Record => bak.shrink <= bak.shrink
      BY DEF Record
    <2> QED
      BY <1>1, <1>3, <2>1 DEF InOrder, Idle
  <1>7. (~unstamped => NothingToRestore)'
    <2>1. bak \in Record => Count(bak) <= Count(bak)
      BY CountFacts
    <2> QED
      BY <1>1, <1>3, <2>1 DEF NothingToRestore, NoRepair, Count
  <1>8. (~raced => RepairOK)'
    BY <1>1 DEF RepairOK, NoRepair
  <1>9. (~raced => RemovedOK)'
    <2>1. SUFFICES ASSUME ~raced PROVE RemovedOK'
      BY <1>1
    <2>2. CASE live' = live
      BY <1>1, <2>1, <2>2 DEF RemovedOK
    <2>3. CASE live' = bak /\ bak # NoFile /\ removed \intersect bak.msgs = {}
      BY <1>1, <2>1, <2>3 DEF RemovedOK
    <2> QED
      BY <1>3, <2>1, <2>2, <2>3
  <1>10. (~raced => DeleteOK)'
    BY <1>1, <1>3 DEF DeleteOK, Idle
  <1>11. (~raced => LostOK)'
    BY <1>1 DEF LostOK
  <1>12. (~raced => StrayOK)'
    BY <1>1 DEF StrayOK
  <1> QED
    BY <1>4, <1>5, <1>6, <1>7, <1>8, <1>9, <1>10, <1>11, <1>12

LEMMA RepairLooksPreserves ==
  ASSUME IInv, RepairLooks
  PROVE  IInv'
  <1> USE DEF IInv
  <1>1. /\ up /\ repair' = [on |-> TRUE, seen |-> live, copy |-> bak]
        /\ raced' = (raced \/ job # Idle)
        /\ UNCHANGED <<live, bak, row, tomb, mem, job, running, stray, up, next, marks>>
        /\ UNCHANGED <<removed, lost, deleted, revived, unstamped>>
    BY DEF RepairLooks, worker, files
  <1>2. PICK dbOk \in BOOLEAN : Candidate(dbOk) /\ Restores(live, bak)
    BY DEF RepairLooks
  <1>3. /\ bak \in Record /\ bak # NoFile
        /\ live = NoFile => ~tomb
        /\ (~raced \/ ~unstamped) /\ live # NoFile => bak.shrink = live.shrink
        /\ ~raced => removed \intersect bak.msgs = {} /\ (deleted => revived)
        /\ ~unstamped => live = NoFile
    BY <1>2, RestoreFacts
  <1>4. Shape'
    <2>1. RecordOK(live)' /\ RecordOK(bak)' /\ RecordOK(mem)' /\ RecordOK(stray)'
          /\ RecordOK(repair.seen)' /\ RecordOK(repair.copy)'
      BY <1>1 DEF Shape, RecordOK
    <2>2. repair' \in [on : BOOLEAN, seen : File, copy : File] /\ raced' \in BOOLEAN
      BY <1>1 DEF Shape
    <2> QED
      BY <1>1, <1>3, <2>1, <2>2 DEF Shape
  <1>5. JobOK'
    BY <1>1 DEF JobOK, Idle
  <1>6. (~raced \/ ~unstamped => InOrder)'
    BY <1>1 DEF InOrder
  <1>7. (~unstamped => NothingToRestore)'
    BY <1>1, <1>3 DEF NothingToRestore, Count
  <1>8. (~raced => RepairOK)'
    <2>1. SUFFICES ASSUME ~raced, job = Idle PROVE RepairOK'
      BY <1>1
    <2>2. live # NoFile => live.shrink <= live.shrink
      BY DEF Shape, File, Record
    <2> QED
      BY <1>1, <1>3, <2>1, <2>2 DEF RepairOK
  <1>9. (~raced => RemovedOK)'
    BY <1>1 DEF RemovedOK
  <1>10. (~raced => DeleteOK)'
    BY <1>1 DEF DeleteOK
  <1>11. (~raced => LostOK)'
    BY <1>1 DEF LostOK
  <1>12. (~raced => StrayOK)'
    BY <1>1 DEF StrayOK
  <1> QED
    BY <1>4, <1>5, <1>6, <1>7, <1>8, <1>9, <1>10, <1>11, <1>12

LEMMA RepairReplacesPreserves ==
  ASSUME IInv, RepairReplaces
  PROVE  IInv'
  <1> USE DEF IInv
  <1>1. /\ up /\ repair.on /\ live' = repair.copy /\ repair' = NoRepair /\ lost' = {}
        /\ repair.copy \in Record /\ repair.copy # NoFile
        /\ raced' = (raced \/ live # repair.seen \/ job # Idle)
        /\ UNCHANGED <<bak, row, tomb, mem, job, running, stray, up, next, marks>>
        /\ UNCHANGED <<removed, deleted, revived, unstamped>>
    BY DEF RepairReplaces, worker, bounds, Shape, File
  <1>2. Shape'
    <2>1. RecordOK(live)' /\ RecordOK(bak)' /\ RecordOK(mem)' /\ RecordOK(stray)'
          /\ RecordOK(repair.seen)' /\ RecordOK(repair.copy)'
      BY <1>1 DEF Shape, RecordOK, NoRepair
    <2>2. repair' \in [on : BOOLEAN, seen : File, copy : File] /\ raced' \in BOOLEAN
      BY <1>1 DEF Shape, NoRepair, File
    <2>3. ~repair'.on
      BY <1>1 DEF NoRepair
    <2> QED
      BY <1>1, <2>1, <2>2, <2>3 DEF Shape, File
  <1>3. JobOK'
    BY <1>1 DEF JobOK, Idle
  \* An undisturbed repair writes over the file it looked at.
  <1>4. ~raced' =>
          /\ ~raced /\ job = Idle /\ live = repair.seen /\ (deleted => revived)
          /\ removed \intersect repair.copy.msgs = {}
          /\ \/ live = NoFile /\ bak = repair.copy
             \/ live # NoFile /\ repair.copy.shrink = live.shrink
    <2>1. SUFFICES ASSUME ~raced, job = Idle, live = repair.seen
                   PROVE  /\ deleted => revived
                          /\ removed \intersect repair.copy.msgs = {}
                          /\ \/ live = NoFile /\ bak = repair.copy
                             \/ live # NoFile /\ repair.copy.shrink = live.shrink
      BY <1>1
    <2>2. live # NoFile => live.shrink \in Int
      BY DEF Shape, File, Record
    <2> QED
      BY <1>1, <2>1, <2>2 DEF RepairOK, RemovedOK, DeleteOK
  <1>5. (~raced \/ ~unstamped => InOrder)'
    <2>1. repair.copy.shrink <= repair.copy.shrink
      BY <1>1 DEF Record
    <2>2. CASE ~unstamped
      BY <1>1, <2>1, <2>2 DEF InOrder, NothingToRestore, JobOK
    <2>3. CASE ~raced'
      BY <1>1, <1>4, <2>1, <2>3 DEF InOrder, JobOK, Idle
    <2> QED
      BY <1>1, <2>2, <2>3
  <1>6. (~unstamped => NothingToRestore)'
    <2>1. Count(repair.copy) <= Count(repair.copy)
      BY <1>1, CountFacts
    <2> QED
      BY <1>1, <2>1 DEF NothingToRestore, NoRepair, Count
  <1>7. (~raced => RepairOK)'
    BY <1>1 DEF RepairOK, NoRepair
  <1>8. (~raced => RemovedOK)'
    <2>1. SUFFICES ASSUME ~raced' PROVE RemovedOK'
      OBVIOUS
    <2> QED
      BY <1>1, <1>4, <2>1 DEF RemovedOK
  <1>9. (~raced => DeleteOK)'
    BY <1>1, <1>4 DEF DeleteOK, Idle
  <1>10. (~raced => LostOK)'
    BY <1>1 DEF LostOK
  <1>11. (~raced => StrayOK)'
    <2>1. SUFFICES ASSUME ~raced', stray # NoFile PROVE StrayOK'
      BY <1>1 DEF StrayOK
    <2>2. live # NoFile
      BY <1>1, <1>4, <2>1 DEF RepairOK, JobOK, Idle
    <2>3. repair.copy.shrink <= stray.shrink
      BY <1>1, <1>4, <2>1, <2>2 DEF StrayOK
    <2> QED
      BY <1>1, <1>4, <2>1, <2>2, <2>3 DEF StrayOK, NoRepair, Idle
  <1> QED
    BY <1>2, <1>3, <1>5, <1>6, <1>7, <1>8, <1>9, <1>10, <1>11

LEMMA StutterPreserves ==
  ASSUME IInv, UNCHANGED vars
  PROVE  IInv'
  <1>1. UNCHANGED <<live, bak, row, tomb, mem, job, running, stray, repair, up, next, marks,
                  removed, lost, deleted, revived, unstamped, raced>>
    BY DEF vars, files, worker, bounds, ghosts
  <1>2. Shape'
    BY <1>1 DEF IInv, Shape, RecordOK
  <1>3. JobOK'
    BY <1>1 DEF IInv, JobOK
  <1>4. (~raced \/ ~unstamped => InOrder)'
    BY <1>1 DEF IInv, InOrder
  <1>5. (~unstamped => NothingToRestore)'
    BY <1>1 DEF IInv, NothingToRestore, Count
  <1>6. (~raced => StrayOK /\ RepairOK /\ RemovedOK /\ DeleteOK /\ LostOK)'
    BY <1>1 DEF IInv, StrayOK, RepairOK, RemovedOK, DeleteOK, LostOK
  <1> QED
    BY <1>2, <1>3, <1>4, <1>5, <1>6 DEF IInv

LEMMA InitEstablishes == Init => IInv
  <1> SUFFICES ASSUME Init PROVE IInv
    OBVIOUS
  <1>1. PICK rows \in {1..StartRows, (1..StartRows) \ Dup} :
          live = [msgs |-> rows, ctx |-> rows, manual |-> FALSE, wm |-> "unset",
                  clear |-> 0, shrink |-> 0, pending |-> FALSE]
    BY DEF Init
  <1>2. rows \in SUBSET Row /\ (\A r \in rows : r < StartRows + 1) /\ StartRows \in Nat
    BY BackupAssumption DEF Row
  <1>3. 0 \in 0..MaxMark /\ rows \in SUBSET (Row \union {Marker})
    BY <1>2, BackupAssumption
  <1>4. live \in Record
    BY <1>1, <1>2, <1>3 DEF Record
  <1>5. /\ live # NoFile /\ bak = NoFile /\ mem = NoFile /\ job = Idle
        /\ row /\ ~tomb /\ repair = NoRepair /\ up /\ next = StartRows + 1 /\ marks = 0
        /\ row \in BOOLEAN /\ tomb \in BOOLEAN /\ up \in BOOLEAN
        /\ removed = {} /\ lost = {} /\ deleted = FALSE /\ unstamped = FALSE /\ raced = FALSE
        /\ running = FALSE /\ stray = NoFile /\ revived = FALSE
    BY <1>4, FileAssumption DEF Init
  <1>6. Shape
    <2>1. RecordOK(live)
      BY <1>1, <1>2, <1>5 DEF RecordOK
    <2>2. RecordOK(NoFile)
      BY DEF RecordOK
    <2>3. job \in [op : {"idle", "turn", "truncate", "clear", "compress", "heal", "fault", "stray", "delete"},
                   at : Steps, had : BOOLEAN]
      BY <1>5 DEF Idle, Steps
    <2>4. /\ repair \in [on : BOOLEAN, seen : File, copy : File]
          /\ ~repair.on /\ repair.seen = NoFile /\ repair.copy = NoFile
      BY <1>5 DEF NoRepair, File
    <2>5. removed \in SUBSET Row /\ lost \in SUBSET Row /\ \A r \in removed : r < next
      BY <1>5
    <2>6. live \in File /\ bak \in File /\ mem \in File /\ stray \in File
      BY <1>4, <1>5 DEF File
    <2>7. RecordOK(bak) /\ RecordOK(mem) /\ RecordOK(stray) /\ RecordOK(repair.seen) /\ RecordOK(repair.copy)
      BY <1>5, <2>2, <2>4
    <2>8. next \in Nat \ {0} /\ marks \in 0..MaxMark
      BY <1>2, <1>3, <1>5
    <2> HIDE DEF RecordOK
    <2> QED
      BY <1>5, <2>1, <2>3, <2>4, <2>5, <2>6, <2>7, <2>8 DEF Shape
  <1>7. JobOK /\ InOrder
    BY <1>5 DEF JobOK, InOrder, Idle
  <1>8. NothingToRestore /\ StrayOK /\ RepairOK /\ RemovedOK /\ DeleteOK /\ LostOK
    BY <1>5 DEF NothingToRestore, StrayOK, RepairOK, RemovedOK, DeleteOK, LostOK, NoRepair, Idle
  <1> QED
    BY <1>6, <1>7, <1>8 DEF IInv

LEMMA NextPreserves == IInv /\ [Next]_vars => IInv'
  BY LoadPreserves, LoadHealsPreserves, StartTurnPreserves, CommitTurnPreserves,
     CommitStrayPreserves, CheckpointStrayPreserves,
     TruncatePreserves, ClearPreserves, CompressPreserves, SaveShortPreserves,
     WriteBackupPreserves, SkipSavePreserves, ReplacesCached, ReplacesStray, ReplaceFailsPreserves,
     EndSavePreserves, DeleteRowPreserves, UnlinkSidecarPreserves, UnlinkBackupPreserves,
     EntombPreserves, CrashPreserves, BootPreserves, RepairLooksPreserves,
     RepairReplacesPreserves, StutterPreserves
  DEF Next

-----------------------------------------------------------------------------
(* The theorems.                                                           *)

\* The invariant of the sidecar, its backup and the object in memory holds in
\* every state, for any number of rows, saves, crashes and repairs.
THEOREM BackupInvariantHolds == Spec => []IInv
  BY InitEstablishes, NextPreserves, PTL DEF Spec

\* The files and the objects are session records, a stopped server holds nothing,
\* and a turn that runs has its prompt in the object it runs on.
THEOREM BackupTypeCorrect == Spec => []BackupTypeOK
  <1>1. IInv => BackupTypeOK
    <2>1. SUFFICES ASSUME IInv PROVE BackupTypeOK
      OBVIOUS
    <2>2. Shape
      BY <2>1 DEF IInv
    <2> QED
      BY <2>2 DEF Shape, File, Steps, BackupTypeOK
  <1> QED
    BY <1>1, BackupInvariantHolds, PTL

\* What a clear, a truncation, an undo or a retry took off the file stays off it
\* through every save, crash and start, and through every repair that no other
\* operation overlaps (session_recovery.py, _session_records_intentional_message_shrink).
THEOREM RemovedStaysRemoved == Spec => []ShrinkStands
  <1>1. IInv => ShrinkStands
    BY DEF IInv, RemovedOK, ShrinkStands
  <1> QED
    BY <1>1, BackupInvariantHolds, PTL

\* An answered delete is final, but for a turn that ran through it: the tombstone
\* keeps the next starts from taking the backup that is left for an orphan
\* (session_recovery.py, _orphaned_backup_live_paths).
THEOREM DeletedStaysDeleted == Spec => []DeleteStands
  <1>1. IInv => DeleteStands
    BY DEF IInv, DeleteOK, DeleteStands
  <1> QED
    BY <1>1, BackupInvariantHolds, PTL

\* Only the start of the server brings it up.
LEMMA OnlyBootStarts ==
  ASSUME IInv, [Next]_vars, ~up, up'
  PROVE  Boot
  <1>1. up' # up
    BY DEF IInv, Shape
  <1>2. ~(UNCHANGED vars)
    BY <1>1 DEF vars
  <1>3. Next
    BY <1>2
  <1>4. ~(Load \/ LoadHeals \/ StartTurn \/ CommitTurn \/ CommitStray \/ CheckpointStray
          \/ Truncate \/ Clear \/ Compress \/ SaveShort)
    BY DEF Load, LoadHeals, StartTurn, CommitTurn, CommitStray, CheckpointStray, SaveStray, Truncate,
       Clear, Compress, SaveShort, Ready, Free
  <1>5. ~(WriteBackup \/ SkipSave \/ ReplaceSidecar \/ ReplaceFails \/ EndSave)
    BY <1>1 DEF WriteBackup, SkipSave, ReplaceSidecar, ReplaceFails, EndSave
  <1>6. ~(DeleteRow \/ UnlinkSidecar \/ UnlinkBackup \/ Entomb \/ Crash \/ RepairLooks \/ RepairReplaces)
    BY <1>1 DEF DeleteRow, UnlinkSidecar, UnlinkBackup, Entomb, Crash, RepairLooks, RepairReplaces, Free
  <1> QED
    BY <1>3, <1>4, <1>5, <1>6 DEF Next

\* A start changes nothing of a session whose file only shrank on purpose, after
\* any crash between two file operations (session_recovery.py, module comment).
THEOREM CleanStartChangesNothing == Spec => CleanBootIsNoOp
  <1>1. IInv /\ [Next]_vars => [~up /\ up' /\ ~unstamped /\ row => live' = live]_vars
    <2>1. SUFFICES ASSUME IInv, [Next]_vars, ~up, up', ~unstamped, row
                   PROVE  live' = live
      OBVIOUS
    <2>2. PICK dbOk \in BOOLEAN :
            live' = IF Candidate(dbOk) /\ Restores(live, bak) THEN bak ELSE live
      BY <2>1, OnlyBootStarts DEF Boot
    <2>3. Candidate(dbOk) => live # NoFile
      BY <2>1 DEF IInv, JobOK, Candidate, Orphan
    <2> QED
      BY <2>1, <2>2, <2>3, RestoreFacts
  <1> QED
    BY <1>1, BackupInvariantHolds, PTL DEF Spec, CleanBootIsNoOp

\* Rows that a save only dropped are restored over a file that keeps its stamps,
\* unless the session was compressed and its marker is gone.
LEMMA LossIsSeen ==
  ASSUME IInv, ~raced, lost # {}, ~(live.manual /\ Marker \notin bak.ctx)
  PROVE  Restores(live, bak) /\ live # NoFile /\ bak # NoFile /\ lost \subseteq bak.msgs
  <1>1. /\ live \in Record /\ bak \in Record /\ live # NoFile /\ bak # NoFile
        /\ lost \subseteq bak.msgs /\ live.msgs \subseteq bak.msgs /\ live.msgs # bak.msgs
        /\ live.shrink = bak.shrink /\ live.clear = bak.clear
        /\ ~live.manual => live.msgs \subseteq live.ctx
    BY DEF IInv, Shape, RecordOK, LostOK, File
  <1>2. Count(bak) > Count(live)
    <2>1. Count(live) < Count(bak)
      BY <1>1, CountMonotone
    <2>2. Count(live) \in Nat /\ Count(bak) \in Nat
      BY <1>1, CountFacts
    <2> QED
      BY <2>1, <2>2
  <1>3. ~ClearSentinel(live, bak) /\ ~ClearSuperseded(live, bak) /\ ~ShrinkSuperseded(live, bak)
    BY <1>1 DEF ClearSentinel, ClearSuperseded, ShrinkSuperseded
  <1>4. ~(CompressShrink(live) /\ BackupPredates(live, bak))
    <2>1. CASE live.manual
      BY <2>1 DEF BackupPredates
    <2>2. CASE ~live.manual
      <3>1. IsFiniteSet(live.ctx)
        <4>1. live.ctx \subseteq 0..MaxRow
          BY <1>1, BackupAssumption DEF Record, Row, Marker
        <4>2. IsFiniteSet(live.ctx)
          <5>1. 0 \in Int /\ MaxRow \in Int
            BY BackupAssumption
          <5>2. IsFiniteSet(0..MaxRow)
            BY <5>1, FS_Interval
          <5> QED
            BY <4>1, <5>2, FS_Subset
        <4> QED
          BY <4>2
      <3>2. /\ Cardinality(live.msgs) <= Cardinality(live.ctx)
            /\ Cardinality(live.ctx) \in Nat /\ Cardinality(live.msgs) \in Nat
        BY <1>1, <2>2, <3>1, FS_Subset, FS_CardinalityType, CountFacts
      <3> QED
        BY <2>2, <3>2 DEF CompressShrink
    <2> QED
      BY <2>1, <2>2
  <1> QED
    BY <1>1, <1>2, <1>3, <1>4 DEF Restores

\* What the last save dropped by mistake is back after the next start
\* (session_recovery.py, recover_all_sessions_on_startup).
THEOREM DroppedRowsComeBack == Spec => LossRecovered
  <1>1. IInv /\ [Next]_vars =>
          [~up /\ up' /\ lost # {} /\ ~raced
             => \/ lost \subseteq live'.msgs
                \/ live.manual /\ Marker \notin bak.ctx]_vars
    <2>1. SUFFICES ASSUME IInv, [Next]_vars, ~up, up', lost # {}, ~raced,
                          ~(live.manual /\ Marker \notin bak.ctx)
                   PROVE  lost \subseteq live'.msgs
      OBVIOUS
    <2>2. PICK dbOk \in BOOLEAN :
            live' = IF Candidate(dbOk) /\ Restores(live, bak) THEN bak ELSE live
      BY <2>1, OnlyBootStarts DEF Boot
    <2>3. Restores(live, bak) /\ live # NoFile /\ bak # NoFile /\ lost \subseteq bak.msgs
      BY <2>1, LossIsSeen
    <2>4. Candidate(dbOk)
      BY <2>3 DEF Candidate
    <2> QED
      BY <2>2, <2>3, <2>4
  <1> QED
    BY <1>1, BackupInvariantHolds, PTL DEF Spec, LossRecovered
====
