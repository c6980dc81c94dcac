--------------------------- MODULE SessionBackup ---------------------------
(***************************************************************************)
(* The sidecar file of one session, the ".json.bak" copy that a shrinking  *)
(* save leaves beside it, and the recovery that compares the two when the  *)
(* server starts or when a user asks for it (api/models.py,                *)
(* api/session_ops.py, api/routes.py, api/session_recovery.py).            *)
(*                                                                         *)
(* A row of the transcript is a number, in the order of writing; a turn    *)
(* writes one.  Row 0 is the compaction marker of the model's context.     *)
(* A save is the three file operations it performs, and the process may    *)
(* die between any two of them.                                            *)
(* A delete does not stop a turn that runs: the worker goes on with its    *)
(* own Session object, and its saves write the file again.                 *)
(***************************************************************************)
EXTENDS Integers, FiniteSets

CONSTANTS MaxRow,       \* rows ever written
          StartRows,    \* rows of the file the server finds at first
          Dup,          \* rows that repeat the partial row before them, if there
          MaxMark,      \* generations stamped by clears and truncations
          MaxFault,     \* saves that drop rows by mistake
          MaxCrash,     \* crashes of the server
          MaxRepair,    \* repairs asked of the running server
          NoFile        \* a file that does not exist, an empty cache

ASSUME BackupAssumption ==
    /\ MaxRow \in Nat /\ MaxMark \in Nat
    /\ StartRows \in 0..MaxRow
    /\ Dup \subseteq 2..MaxRow

VARIABLES
    live,     \* <sid>.json
    bak,      \* <sid>.json.bak
    mem,      \* the Session object in SESSIONS
    job,      \* the holder of the session lock and the save it is in
    row,      \* state.db has a row of this session
    tomb,     \* the durable tombstone of deleted sessions names it
    running,  \* a worker runs a turn on the cached object
    stray,    \* the object of a running turn that the cache let go of
    repair,   \* the recovery a user asked for, between decision and replace
    up,       \* the server runs
    next, marks, faults, crashes, repairs,                     \* bounds
    removed,  \* rows a user's clear, truncate, undo or retry took off disk
    lost,     \* rows the last save only dropped, by mistake, while its backup is there
    deleted,  \* a delete was answered
    revived,  \* since then, a turn that ran through the delete saved the session
    unstamped, \* some save shrank the file without a stamp, or was a stray turn's
    raced     \* a repair overlapped an operation, or a stray turn another's save

files  == <<live, bak, row, tomb>>
bounds == <<next, marks, faults, crashes, repairs>>
ghosts == <<removed, lost, deleted, revived, unstamped, raced>>
worker == <<running, stray>>
vars   == <<files, mem, job, worker, repair, up, bounds, ghosts>>

Row    == 1..MaxRow
Marker == 0
Record == [msgs : SUBSET Row, ctx : SUBSET (Row \cup {Marker}),
           manual : BOOLEAN, wm : {"unset", "reset", "set"},
           clear : 0..MaxMark, shrink : 0..MaxMark, pending : BOOLEAN]

ASSUME FileAssumption == NoFile \notin Record

Idle   == [op |-> "idle", at |-> "idle", had |-> FALSE]
NoRepair == [on |-> FALSE, seen |-> NoFile, copy |-> NoFile]

Count(f) == IF f = NoFile THEN -1 ELSE Cardinality(f.msgs)

(***************************************************************************)
(* What the operations do to the record.                                   *)
(***************************************************************************)
\* _truncation_watermark_for: 0.0 for an empty transcript.
Watermark(msgs) == IF msgs = {} THEN "reset" ELSE "set"

\* truncate_context_for_display_keep and _truncate_context_before_row.
Cut(ctx, gone) == {r \in ctx : \A g \in gone : r < g}

\* _stamp_intentional_shrink_generation
StampForgotten(r, kept, mark) == r
Stamp(r, kept, mark) == IF kept = r.msgs THEN r ELSE [r EXCEPT !.shrink = mark]

Shrunk(r, kept, ctx, mark) ==
    [Stamp(r, kept, mark) EXCEPT !.msgs = kept, !.ctx = ctx, !.wm = Watermark(kept)]

\* _collapse_adjacent_duplicate_partials
Collapse(msgs) == {r \in msgs : ~(r \in Dup /\ r - 1 \in msgs)}

\* The rows before a cut.
Prefixes(msgs) == {{r \in msgs : r < k} : k \in msgs}

(***************************************************************************)
(* Recovery: the verdict on a sidecar and its backup.                      *)
(***************************************************************************)
\* _session_records_clear_sentinel
ClearSentinel(l, b) ==
    /\ l.clear # 0 /\ b.clear # l.clear
    /\ l.msgs = {} /\ l.ctx = {} /\ l.wm = "reset" /\ ~l.pending

\* _live_supersedes_backup_by_clear_generation
ClearSuperseded(l, b) ==
    /\ l.clear # 0 /\ b.clear # l.clear
    /\ l.msgs # {} /\ l.wm = "reset"

\* _session_records_intentional_compress_shrink
CompressShrink(l) ==
    \/ l.manual
    \/ Cardinality(l.ctx) < Cardinality(l.msgs) /\ l.wm # "unset"

\* _backup_predates_intentional_shrink
BackupPredates(l, b) ==
    /\ Marker \notin b.ctx
    /\ Cardinality(b.ctx) > Cardinality(l.ctx)

\* _session_records_intentional_message_shrink
ShrinkSupersededOnce(l, b) == l.shrink # 0 /\ b.shrink = 0
ShrinkSupersededAlways(l, b) == l.shrink # 0
ShrinkSuperseded(l, b) == l.shrink # 0 /\ b.shrink # l.shrink

\* _inspect_session_recovery_snapshot: a sidecar that is missing is worth -1.
Restores(l, b) ==
    /\ Count(b) > Count(l)
    /\ l # NoFile => ~ \/ ClearSentinel(l, b)
                       \/ ClearSuperseded(l, b)
                       \/ CompressShrink(l) /\ BackupPredates(l, b)
                       \/ ShrinkSuperseded(l, b)

\* _orphaned_backup_live_paths; an unreadable state.db does not veto.
OrphanUnguarded(dbOk) == bak # NoFile /\ (row \/ ~dbOk)
Orphan(dbOk) == bak # NoFile /\ ~tomb /\ (row \/ ~dbOk)

\* The files recover_session is called for.
Candidate(dbOk) == IF live = NoFile THEN Orphan(dbOk) ELSE bak # NoFile

(***************************************************************************)
(* Reading the session, and starting an operation under its lock.          *)
(***************************************************************************)
Init ==
    /\ \E rows \in {1..StartRows, (1..StartRows) \ Dup} :
          live = [msgs |-> rows, ctx |-> rows, manual |-> FALSE, wm |-> "unset",
                  clear |-> 0, shrink |-> 0, pending |-> FALSE]
    /\ bak = NoFile /\ mem = NoFile /\ job = Idle
    /\ row = TRUE /\ tomb = FALSE /\ repair = NoRepair /\ up = TRUE
    /\ running = FALSE /\ stray = NoFile
    /\ next = StartRows + 1
    /\ marks = 0 /\ faults = 0 /\ crashes = 0 /\ repairs = 0
    /\ removed = {} /\ lost = {}
    /\ deleted = FALSE /\ revived = FALSE /\ unstamped = FALSE /\ raced = FALSE

\* _cached_session_lags_disk: only a longer file replaces the cached object.
Lags == mem = NoFile \/ Count(live) > Count(mem)
Free == up /\ job = Idle
Ready == Free /\ live # NoFile /\ ~Lags

\* The operation has changed the cached object and calls save().
Saving(op, rec, had) ==
    /\ mem' = rec
    /\ job' = [op |-> op, at |-> "backup", had |-> had]
    /\ UNCHANGED <<files, repair, up>>

\* The cache lets go of its object; a worker keeps the Session it runs on.
LetGo ==
    /\ stray' = IF running THEN mem ELSE stray
    /\ running' = FALSE

\* Session.load
Load ==
    /\ Free /\ live # NoFile /\ Lags
    /\ Collapse(live.msgs) = live.msgs
    /\ mem' = live
    /\ LetGo
    /\ UNCHANGED <<files, job, repair, up, bounds, ghosts>>

\* Session.load of a file with repeated partial rows saves what it collapsed.
LoadHeals ==
    /\ Free /\ live # NoFile /\ Lags
    /\ Collapse(live.msgs) # live.msgs
    /\ Saving("heal", [live EXCEPT !.msgs = Collapse(live.msgs)], FALSE)
    /\ LetGo
    /\ UNCHANGED <<bounds, ghosts>>

\* chat/start: the prompt waits in the record; refused while a worker runs.
StartTurn ==
    /\ Ready /\ ~mem.pending /\ stray = NoFile /\ next <= MaxRow
    /\ Saving("turn", [mem EXCEPT !.pending = TRUE], FALSE)
    /\ UNCHANGED <<worker, bounds, ghosts>>

Written(rec) == [rec EXCEPT !.msgs = @ \cup {next}, !.ctx = @ \cup {next}, !.pending = FALSE]

\* The turn is written; the Agent has its row in state.db by then.
CommitTurn ==
    /\ Ready /\ mem.pending /\ stray = NoFile /\ next <= MaxRow
    /\ mem' = Written(mem) /\ running' = FALSE
    /\ job' = [op |-> "turn", at |-> "backup", had |-> FALSE]
    /\ row' = TRUE /\ next' = next + 1
    /\ UNCHANGED <<live, bak, tomb, stray, repair, up, marks, faults, crashes, repairs, ghosts>>

\* A stray turn asks only whether its own object still names its stream: the
\* writeback of its rows, and the checkpoint while it runs, save that object over
\* whatever is there.
SaveStray ==
    /\ Free /\ stray # NoFile /\ stray.pending
    /\ job' = [op |-> "stray", at |-> "backup", had |-> FALSE]
    /\ raced' = (raced \/ (live # NoFile /\ live # stray))
    /\ UNCHANGED <<live, bak, tomb, mem, running, repair, up, marks, faults, crashes, repairs,
                   removed, lost, deleted, revived, unstamped>>

CommitStray ==
    /\ SaveStray /\ next <= MaxRow
    /\ stray' = Written(stray) /\ next' = next + 1
    /\ row' \in {row, TRUE}

CheckpointStray == SaveStray /\ UNCHANGED <<stray, next, row>>

\* /api/session/truncate, retry_last and undo_last keep a prefix.
Truncate ==
    /\ Ready /\ marks < MaxMark
    /\ \E kept \in Prefixes(mem.msgs) :
          LET ctx == IF kept = {} THEN {} ELSE Cut(mem.ctx, mem.msgs \ kept)
          IN Saving("truncate", Shrunk(mem, kept, ctx, marks + 1), TRUE)
    /\ marks' = marks + 1
    /\ UNCHANGED <<worker, next, faults, crashes, repairs, ghosts>>

\* /api/session/clear: a worker of the cached object finds its stream id gone.
Clear ==
    /\ Ready /\ marks < MaxMark
    /\ LET had == mem.msgs # {}
       IN Saving("clear", [Shrunk(mem, {}, {}, marks + 1) EXCEPT
                             !.pending = FALSE,
                             !.clear = IF had THEN marks + 1 ELSE 0], had)
    /\ marks' = marks + 1 /\ running' = FALSE
    /\ UNCHANGED <<stray, next, faults, crashes, repairs, ghosts>>

\* /api/session/compress: the transcript stays, the model's context shrinks to a
\* summary and the newest row.
Compress ==
    /\ Ready /\ ~mem.pending /\ mem.msgs # {}
    /\ Cardinality(mem.ctx) > 2
    /\ \E newest \in mem.msgs :
          /\ \A r \in mem.msgs : r <= newest
          /\ Saving("compress", [mem EXCEPT !.ctx = {Marker, newest},
                                            !.manual = TRUE, !.wm = "set"], TRUE)
    /\ UNCHANGED <<worker, bounds, ghosts>>

\* What #1558 stands for: an object that lost rows is saved, as a prefix or empty.
SaveShort ==
    /\ Ready /\ faults < MaxFault
    /\ \E kept \in Prefixes(mem.msgs) :
          \E ctx \in {Cut(mem.ctx, mem.msgs \ kept)} \cup (IF kept = {} THEN {{}} ELSE {mem.ctx}) :
             Saving("fault", [mem EXCEPT !.msgs = kept, !.ctx = ctx], FALSE)
    /\ faults' = faults + 1
    /\ UNCHANGED <<worker, next, marks, crashes, repairs, ghosts>>

(***************************************************************************)
(* Session._save_locked, one file operation at a time.                     *)
(***************************************************************************)
Saved == IF job.op = "stray" THEN stray ELSE mem
Shrinks == Count(live) > Count(Saved)
RefuseSave == live # NoFile /\ live.msgs # {} /\ Saved.msgs = {} /\ Saved.pending

\* A worker runs the turn from the save that holds its prompt; the one that saves
\* a stray turn's rows is its last.
LeaveStray == stray' = IF job.op = "stray" /\ ~stray.pending THEN NoFile ELSE stray

Settled ==
    /\ running' = IF job.op = "turn" THEN mem.pending ELSE running
    /\ LeaveStray

\* The previous file is copied when it holds more rows; failing to is no error.
WriteBackup ==
    /\ job.at = "backup" /\ ~RefuseSave
    /\ bak' \in IF Shrinks THEN {bak, live} ELSE {bak}
    /\ lost' = IF bak' = bak THEN lost ELSE {}
    /\ job' = [job EXCEPT !.at = "swap"]
    /\ UNCHANGED <<live, mem, row, tomb, worker, repair, up, bounds,
                   removed, deleted, revived, unstamped, raced>>

\* A turn is running and the object is empty: save() returns without writing.
\* A clear of a running session clears the turn first, so only "fault" and the
\* saves of a stray turn get here.
SkipSave ==
    /\ job.at = "backup" /\ RefuseSave
    /\ job' = [job EXCEPT !.at = "tail"]
    /\ UNCHANGED <<files, mem, worker, repair, up, bounds, ghosts>>

\* os.replace of the sidecar.
ReplaceSidecar ==
    /\ job.at = "swap"
    /\ live' = Saved
    /\ job' = [job EXCEPT !.at = "tail"]
    /\ LET gone == IF live = NoFile THEN {} ELSE live.msgs \ Saved.msgs
           short == /\ Saved.msgs \subseteq live.msgs
                    /\ Saved.shrink = live.shrink /\ Saved.clear = live.clear
           safe == live # NoFile /\ bak = live /\ short
       IN /\ removed' = IF job.op \in {"truncate", "clear"} THEN removed \cup gone ELSE removed
          /\ lost' = IF job.op = "fault" /\ safe THEN gone ELSE {}
          /\ unstamped' = \/ unstamped \/ job.op = "stray"
                          \/ job.op \in {"fault", "heal"} /\ gone # {}
    /\ revived' = (revived \/ job.op = "stray")
    /\ raced' = (raced \/ (job.op # "stray" /\ stray # NoFile))
    /\ UNCHANGED <<bak, mem, row, tomb, worker, repair, up, bounds, deleted>>

\* The replace raises: the handler answers 500, starts no worker, and the object
\* stays changed.
ReplaceFails ==
    /\ job.at = "swap" /\ faults < MaxFault
    /\ faults' = faults + 1
    /\ job' = Idle
    /\ running' = (running /\ job.op # "turn") /\ LeaveStray
    /\ UNCHANGED <<files, mem, repair, up, next, marks, crashes, repairs, ghosts>>

\* A transcript with rows lifts the tombstone.  A clear that finds its empty file
\* on disk, and a compress, drop the backup if they can; the operation is over.
DropsBackup == \/ job.op = "clear" /\ job.had /\ live # NoFile /\ live.msgs = {} /\ live.clear = mem.clear
               \/ job.op = "compress"
EndSave ==
    /\ job.at = "tail"
    /\ tomb' = (tomb /\ Saved.msgs = {})
    /\ bak' \in IF DropsBackup THEN {bak, NoFile} ELSE {bak}
    /\ job' = Idle
    /\ Settled
    /\ UNCHANGED <<live, mem, row, repair, up, bounds, ghosts>>

(***************************************************************************)
(* /api/session/delete: state.db first, then the user's files.             *)
(***************************************************************************)
DeleteRow ==
    /\ Free /\ live # NoFile
    /\ row' = FALSE /\ lost' = {}
    /\ job' = [op |-> "delete", at |-> "unlink", had |-> FALSE]
    /\ UNCHANGED <<live, bak, tomb, mem, worker, repair, up, bounds,
                   removed, deleted, revived, unstamped, raced>>

UnlinkSidecar ==
    /\ job.at = "unlink"
    /\ mem' = NoFile /\ live' = NoFile
    /\ LetGo
    /\ job' = [job EXCEPT !.at = "unlink_bak"]
    /\ removed' = {}
    /\ UNCHANGED <<bak, row, tomb, repair, up, bounds, lost, deleted, revived, unstamped, raced>>

UnlinkBackup ==
    /\ job.at = "unlink_bak"
    /\ bak' \in {bak, NoFile}
    /\ job' = [job EXCEPT !.at = "tombstone"]
    /\ UNCHANGED <<live, row, tomb, mem, worker, repair, up, bounds, ghosts>>

\* The sidecar is looked for when the unlink returns; the tombstone comes last.
Entomb ==
    /\ job.at = "tombstone"
    /\ tomb' = TRUE /\ deleted' = TRUE /\ revived' = FALSE
    /\ job' = Idle
    /\ UNCHANGED <<live, bak, row, mem, worker, repair, up, bounds, removed, lost, unstamped, raced>>

(***************************************************************************)
(* Crash, start, and the repair of a running server.                       *)
(***************************************************************************)
CrashWarm ==
    /\ up /\ crashes < MaxCrash
    /\ crashes' = crashes + 1
    /\ up' = FALSE
    /\ job' = Idle /\ repair' = NoRepair
    /\ UNCHANGED <<files, mem, worker, next, marks, faults, repairs, ghosts>>

Crash ==
    /\ up /\ crashes < MaxCrash
    /\ crashes' = crashes + 1
    /\ up' = FALSE
    /\ mem' = NoFile /\ job' = Idle /\ repair' = NoRepair
    /\ running' = FALSE /\ stray' = NoFile
    /\ UNCHANGED <<files, next, marks, faults, repairs, ghosts>>

\* recover_all_sessions_on_startup, before the server listens.
Boot ==
    /\ ~up
    /\ up' = TRUE
    /\ \E dbOk \in BOOLEAN :
          live' = IF Candidate(dbOk) /\ Restores(live, bak) THEN bak ELSE live
    /\ lost' = {}
    /\ UNCHANGED <<bak, row, tomb, mem, job, worker, repair, bounds,
                   removed, deleted, revived, unstamped, raced>>

\* recover_session reads both files without the session's locks ...
RepairLooks ==
    /\ up /\ ~repair.on /\ repairs < MaxRepair
    /\ repairs' = repairs + 1
    /\ \E dbOk \in BOOLEAN : Candidate(dbOk) /\ Restores(live, bak)
    /\ repair' = [on |-> TRUE, seen |-> live, copy |-> bak]
    /\ raced' = (raced \/ job # Idle)
    /\ UNCHANGED <<files, mem, job, worker, up, next, marks, faults, crashes,
                   removed, lost, deleted, revived, unstamped>>

\* ... and replaces the sidecar by the copy it read.
RepairReplaces ==
    /\ up /\ repair.on
    /\ live' = repair.copy
    /\ repair' = NoRepair
    /\ raced' = (raced \/ live # repair.seen \/ job # Idle)
    /\ lost' = {}
    /\ UNCHANGED <<bak, row, tomb, mem, job, worker, up, bounds,
                   removed, deleted, revived, unstamped>>

Next ==
    \/ Load \/ LoadHeals
    \/ StartTurn \/ CommitTurn \/ CommitStray \/ CheckpointStray
    \/ Truncate \/ Clear \/ Compress \/ SaveShort
    \/ WriteBackup \/ SkipSave \/ ReplaceSidecar \/ ReplaceFails \/ EndSave
    \/ DeleteRow \/ UnlinkSidecar \/ UnlinkBackup \/ Entomb
    \/ Crash \/ Boot \/ RepairLooks \/ RepairReplaces

Spec == Init /\ [][Next]_vars

(***************************************************************************)
(* Properties.                                                             *)
(***************************************************************************)
\* The files and the objects are session records; a stopped server holds nothing
\* in memory, and a turn that runs has its prompt in the object it runs on.
BackupTypeOK ==
    /\ live \in Record \cup {NoFile} /\ bak \in Record \cup {NoFile}
    /\ {mem, stray} \subseteq Record \cup {NoFile} /\ running \in BOOLEAN
    /\ job \in [op : {"idle", "turn", "truncate", "clear", "compress", "heal", "fault",
                      "stray", "delete"},
                at : {"idle", "backup", "swap", "tail", "unlink", "unlink_bak", "tombstone"},
                had : BOOLEAN]
    /\ {removed, lost} \subseteq SUBSET Row
    /\ ~up => mem = NoFile /\ stray = NoFile /\ job = Idle /\ repair = NoRepair
    /\ running => stray = NoFile /\ mem # NoFile /\ mem.pending

\* What a user took off disk with clear, truncate, retry or undo stays off it,
\* whatever crashes, saves and recoveries follow; only a repair that overlaps
\* a save can undo it (session_recovery.py, recover_session takes no lock).
ShrinkStands == raced \/ live = NoFile \/ removed \cap live.msgs = {}

\* A session whose delete was answered has no file, also after starts that find
\* its backup or cannot read state.db.
DeleteStands == deleted => raced \/ revived \/ live = NoFile

\* If the last save dropped rows by mistake, the next start brings them back. The
\* exception is a session that was compressed and whose marker is gone.
LossRecovered ==
    [][ ~up /\ up' /\ lost # {} /\ ~raced
          => \/ lost \subseteq live'.msgs
             \/ live.manual /\ Marker \notin bak.ctx ]_vars

\* Without the exception: what the comment of
\* _session_records_intentional_compress_shrink promises.
PostCompressLossRecovered ==
    [][ ~up /\ up' /\ lost # {} /\ ~raced => lost \subseteq live'.msgs ]_vars

\* A start changes nothing of a session whose file only ever shrank on purpose,
\* wherever the crash fell (module comment: a clean run is a no-op).
CleanBootIsNoOp == [][ ~up /\ up' /\ ~unstamped /\ row => live' = live ]_vars
=============================================================================
