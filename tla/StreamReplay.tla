---------------------------- MODULE StreamReplay ----------------------------
(***************************************************************************)
(* How the events of one turn reach the browser tabs that watch it: the    *)
(* run journal (api/run_journal.py), the broadcast channel with its        *)
(* offline buffer (StreamChannel, api/config.py), and the handler of       *)
(* /api/chat/stream that replays the journal after the tab's cursor and    *)
(* then drains its queue (_handle_sse_stream, api/routes.py).              *)
(*                                                                         *)
(* Three producers publish: the worker (its title thread sends the last    *)
(* row), a Steer and a Stop.  A publication appends its row, enters the    *)
(* channel, fills the queues and notes its id, all under the lock of the   *)
(* run's journal; readers take no part in that lock, so they may look in   *)
(* between.  Rows have a number and a kind, their text is left out, and a  *)
(* frame is a kind and a row number, 0 for a frame without an id.  Left    *)
(* out: appends that fail, queues of slow tabs that overflow (a queue is   *)
(* as large as the buffer), prompts and metering that replay skips, the    *)
(* archive of old journals, streams of an external runner, a turn that is  *)
(* saved without having published anything (its terminal is live only).    *)
(***************************************************************************)
EXTENDS Integers, Sequences, FiniteSets, SequencesExt

CONSTANTS
  Tab,        \* browser tabs
  Conn,       \* connections, each used once: bounds the reconnects
  None,
  MaxRows,    \* bound of the exploration: rows before a producer stops
  OfflineMax  \* _OFFLINE_BUFFER_MAXLEN

ASSUME ReplayAssumption ==
  /\ MaxRows \in Nat /\ OfflineMax \in Nat \ {0}
  /\ None \notin Tab \union Nat /\ Tab # {}

Producer == {"worker", "steer", "stop"}
Kind == {"token", "steer", "done", "end", "cancel", "interrupted", "recover"}

VARIABLES
  journal,   \* the kinds of the rows on disk, row 1 first
  alive,     \* is the stream in STREAMS
  raised,    \* the turn's cancel flag
  saved,     \* _success_writeback_committed
  returned,  \* has the worker left its finally
  cancelled, \* _SYNTHETIC_TERMINALS: was "cancel" published
  fly,       \* the publication each producer is busy with
  chan,      \* the StreamChannel
  side,      \* STREAM_LAST_EVENT_ID, 0 when absent
  conn,      \* the handler of each connection
  queue,     \* the queue of each subscriber
  cursor,    \* _lastRunJournalSeq of each tab
  shown,     \* history: the rows each tab has rendered
  twice,     \* history: the rows each tab has rendered more than once
  told       \* tabs that were told how the turn ended

run == <<journal, alive, raised, saved, returned, cancelled>>
tabs == <<cursor, shown, twice, told>>
vars == <<run, fly, chan, side, conn, queue, tabs>>

Frame(kind, id) == [kind |-> kind, id |-> id]
Resting == [at |-> "idle", kind |-> "token", id |-> 0, to |-> {}]
Unused == [at |-> "new", tab |-> None, after |-> None, snap |-> None,
           blind |-> FALSE, bound |-> 0, todo |-> <<>>]

Init ==
  /\ journal = <<>> /\ alive = TRUE
  /\ raised = FALSE /\ saved = FALSE /\ returned = FALSE /\ cancelled = FALSE
  /\ fly = [p \in Producer |-> Resting]
  /\ chan = [subs |-> {}, buffer |-> <<>>, holed |-> FALSE, last |-> 0]
  /\ side = 0
  /\ conn = [c \in Conn |-> Unused]
  /\ queue = [c \in Conn |-> <<>>]
  /\ cursor = [t \in Tab |-> 0]
  /\ shown = [t \in Tab |-> {}] /\ twice = shown
  /\ told = {}

Idle(p) == fly[p].at = "idle"
Has(kind) == Contains(journal, kind)
Terminal == Has("done") \/ Has("end")

\* The lock of the run's journal is held from the append to the last step.
Publishing(p) == fly[p].at \in {"appended", "casting", "noting"}
JournalFree == \A p \in Producer : ~Publishing(p)

\* publish_terminal: one terminal wins, stream_end may follow it.
\* accept_and_append_if_nonterminal: a Steer loses to any terminal.
Refused(kind) ==
  \/ kind \in {"steer", "done", "cancel"} /\ (Terminal \/ cancelled)
  \/ kind = "end" /\ Has("end")

-----------------------------------------------------------------------------
(* What the producers have to publish.                                     *)

\* put: once cancelled, everything but the rows of a saved turn is dropped.
Offer(kind) == fly' = [fly EXCEPT !["worker"] = [Resting EXCEPT !.at = "wants", !.kind = kind]]

PutToken ==
  /\ Idle("worker") /\ ~raised /\ ~saved /\ Len(journal) < MaxRows
  /\ Offer("token")
  /\ UNCHANGED <<run, chan, side, conn, queue, tabs>>

SaveTurn ==
  /\ Idle("worker") /\ ~raised /\ ~saved /\ journal # <<>>
  /\ saved' = TRUE
  /\ UNCHANGED <<journal, alive, raised, returned, cancelled, fly, chan, side, conn, queue, tabs>>

Settling == Has("done") \/ (~Idle("worker") /\ fly["worker"].kind = "done")

\* The first terminal row settles pending Steers: none is accepted after it.
PutDone ==
  /\ Idle("worker") /\ saved /\ ~Terminal
  /\ Idle("steer")
  /\ Offer("done")
  /\ UNCHANGED <<run, chan, side, conn, queue, tabs>>

\* Sent by the worker, or after its teardown by the title thread.
PutEnd ==
  /\ Idle("worker") /\ Has("done") /\ ~Has("end")
  /\ Offer("end")
  /\ UNCHANGED <<run, chan, side, conn, queue, tabs>>

\* A worker that finds its turn cancelled says so itself.
PutCancel ==
  /\ Idle("worker") /\ raised /\ ~saved /\ ~returned
  /\ Offer("cancel")
  /\ UNCHANGED <<run, chan, side, conn, queue, tabs>>

\* _steer_bound_stream, which holds STREAMS_LOCK until its frame is out.
Steer ==
  /\ alive /\ ~Settling /\ ~Has("steer") /\ Len(journal) < MaxRows
  /\ JournalFree /\ ~Refused("steer")
  /\ journal' = Append(journal, "steer")
  /\ fly' = [fly EXCEPT !["steer"] = [at |-> "appended", kind |-> "steer", id |-> Len(journal) + 1, to |-> {}]]
  /\ UNCHANGED <<alive, raised, saved, returned, cancelled, chan, side, conn, queue, tabs>>

\* cancel_stream takes the stream out of STREAMS, raises the flag, ...
StopDetach ==
  /\ Idle("stop") /\ alive /\ Idle("steer")
  /\ alive' = FALSE
  /\ fly' = [fly EXCEPT !["stop"].at = "raises"]
  /\ UNCHANGED <<journal, raised, saved, returned, cancelled, chan, side, conn, queue, tabs>>

StopRaise ==
  /\ fly["stop"].at = "raises"
  /\ raised' = TRUE
  /\ fly' = [fly EXCEPT !["stop"].at = "reads"]
  /\ UNCHANGED <<journal, alive, saved, returned, cancelled, chan, side, conn, queue, tabs>>

\* ... stays silent if the answer was saved first, else reads the last id, ...
StopReads ==
  /\ fly["stop"].at = "reads"
  /\ fly' = [fly EXCEPT !["stop"] =
       IF saved THEN Resting ELSE [Resting EXCEPT !.at = "notes", !.kind = "cancel", !.id = side]]
  /\ UNCHANGED <<run, chan, side, conn, queue, tabs>>

\* ... makes it the channel's last id, and publishes a frame that has none.
StopNotes ==
  /\ fly["stop"].at = "notes"
  /\ chan' = [chan EXCEPT !.last = IF fly["stop"].id = 0 THEN @ ELSE fly["stop"].id]
  /\ fly' = [fly EXCEPT !["stop"].at = "wants", !["stop"].id = 0]
  /\ UNCHANGED <<run, side, conn, queue, tabs>>

\* The worker's finally: every registry of the stream is emptied.
Teardown ==
  /\ Idle("worker") /\ Idle("steer") /\ (Has("done") \/ (raised /\ ~saved))
  /\ ~returned
  /\ returned' = TRUE /\ alive' = FALSE /\ side' = 0
  /\ UNCHANGED <<journal, raised, saved, cancelled, fly, chan, conn, queue, tabs>>

-----------------------------------------------------------------------------
(* A publication, under the lock of the run's journal from its append on.  *)

Refuse(p) ==
  /\ fly[p].at = "wants" /\ JournalFree /\ Refused(fly[p].kind)
  /\ fly' = [fly EXCEPT ![p] = Resting]
  /\ UNCHANGED <<run, chan, side, conn, queue, tabs>>

\* _append_event_transaction; "cancel" is live only and gets no row.
AppendRow(p) ==
  /\ fly[p].at = "wants" /\ JournalFree /\ ~Refused(fly[p].kind)
  /\ IF fly[p].kind = "cancel"
     THEN /\ cancelled' = TRUE
          /\ fly' = [fly EXCEPT ![p].at = "appended"]
          /\ UNCHANGED journal
     ELSE /\ journal' = journal \o <<fly[p].kind>>
          /\ fly' = [fly EXCEPT ![p].at = "appended", ![p].id = Len(journal) + 1]
          /\ UNCHANGED cancelled
  /\ UNCHANGED <<alive, raised, saved, returned, chan, side, conn, queue, tabs>>

\* Mutant: the buffer of a turn nobody watches has no cap.
EnteredUncapped(ch, frame) ==
  LET last == IF frame.id = 0 THEN ch.last ELSE frame.id
  IN IF ch.subs # {} THEN [ch EXCEPT !.last = last, !.buffer = <<>>, !.holed = FALSE]
     ELSE [ch EXCEPT !.last = last, !.buffer = Append(@, frame)]

\* With a tab attached the buffer is cleared, without one it keeps the tail.
Entered(ch, frame) ==
  LET last == IF frame.id = 0 THEN ch.last ELSE frame.id
      full == Len(ch.buffer) = OfflineMax
      kept == IF full THEN Tail(ch.buffer) ELSE ch.buffer
  IN IF ch.subs # {}
     THEN [ch EXCEPT !.last = last, !.buffer = <<>>, !.holed = FALSE]
     ELSE [ch EXCEPT !.last = last, !.buffer = Append(kept, frame),
                     !.holed = @ \/ full]

\* put_nowait under the channel's lock, and its copy of the subscribers.
Enter(p) ==
  /\ fly[p].at = "appended"
  /\ chan' = Entered(chan, Frame(fly[p].kind, fly[p].id))
  /\ fly' = [fly EXCEPT ![p].at = "casting", ![p].to = chan.subs]
  /\ UNCHANGED <<run, side, conn, queue, tabs>>

\* put_nowait after the channel's lock: the copied subscribers get the frame.
Cast(p) ==
  /\ fly[p].at = "casting"
  /\ queue' = [c \in Conn |->
       IF c \in fly[p].to /\ conn[c].at \in {"subscribed", "serving"}
       THEN queue[c] \o <<Frame(fly[p].kind, fly[p].id)>> ELSE queue[c]]
  /\ fly' = [fly EXCEPT ![p].at = "noting", ![p].to = {}]
  /\ UNCHANGED <<run, chan, side, conn, tabs>>

NoteId(p) ==
  /\ fly[p].at = "noting"
  /\ side' = IF fly[p].id = 0 THEN side ELSE fly[p].id
  /\ fly' = [fly EXCEPT ![p] = Resting]
  /\ UNCHANGED <<run, chan, conn, queue, tabs>>

Publish(p) == Refuse(p) \/ AppendRow(p) \/ Enter(p) \/ Cast(p) \/ NoteId(p)

-----------------------------------------------------------------------------
(* The handler of a connection, and the tab behind it.                     *)

\* A "late" connection found the stream gone and only replays its journal.
Open == {"peeked", "subscribed", "serving", "late"}
Watching(t) == {c \in Conn : conn[c].tab = t /\ conn[c].at \in Open}

\* SSE_RELAY_CLOSE_EVENTS: after these relay and tab close the connection.
\* "done" is not one of them: it tells the tab that the turn is over, and the
\* connection stays until "end".  A tab that was told does not reconnect.
Ends(frame) == frame.kind \notin {"token", "steer", "done"}
Settles(frame) == Ends(frame) \/ frame.kind = "done"

\* The tab renders a frame: a row without an id moves no cursor.

Render(c, frame) ==
  LET t == conn[c].tab
  IN /\ cursor' = [cursor EXCEPT ![t] = IF frame.id > @ THEN frame.id ELSE @]
     /\ IF frame.kind \in {"cancel", "interrupted", "recover"}
        THEN UNCHANGED <<shown, twice>>
        ELSE /\ shown' = [shown EXCEPT ![t] = @ \union {frame.id}]
             /\ twice' = [twice EXCEPT ![t] = @ \union (shown[t] \intersect {frame.id})]
     /\ told' = IF Settles(frame) THEN told \union {t} ELSE told

Closed(c) == [conn EXCEPT ![c].at = "left", ![c].snap = None, ![c].todo = <<>>, ![c].bound = 0]

\* The first connection of the tab that sent the turn asks for no replay;
\* every other one names the tab's cursor.
Attach(c, t, after) ==
  /\ conn[c].at = "new" /\ t \notin told /\ Watching(t) = {}
  /\ after = cursor[t] \/ (after = None /\ \A d \in Conn : conn[d].tab # t)
  /\ Idle("steer")
  /\ alive
  /\ conn' = [conn EXCEPT ![c] = [Unused EXCEPT !.at = "peeked", !.tab = t, !.after = after]]
  /\ UNCHANGED <<run, fly, chan, side, queue, tabs>>

\* subscribe_with_snapshot: the buffered tail is copied, not taken.
Subscribe(c) ==
  /\ conn[c].at = "peeked"
  /\ LET first == IF chan.buffer = <<>> THEN 0 ELSE chan.buffer[1].id
     IN conn' = [conn EXCEPT ![c].at = "subscribed",
                   ![c].snap = [holed |-> chan.holed, first |-> first, last |-> chan.last],
                   ![c].blind = chan.last = 0]
  /\ chan' = [chan EXCEPT !.subs = @ \union {c}]
  /\ queue' = [queue EXCEPT ![c] = chan.buffer]
  /\ UNCHANGED <<run, fly, side, tabs>>

\* _sse_replay_run_journal_gap_checked.  A cursor beyond the channel's last
\* id starts over.  The queue holds the rows from the first buffered one on.
From(after, snap) == IF after > snap.last THEN 0 ELSE after

\* Mutant: the replay stops a row too early.
UpToShort(snap) == IF snap.first # 0 THEN Max({0, snap.first - 2}) ELSE snap.last

UpTo(snap) == IF snap.first # 0
              THEN IF snap.last = 0 THEN snap.first - 1 ELSE Min({snap.first - 1, snap.last})
              ELSE IF snap.last # 0 THEN snap.last ELSE Len(journal)

\* Seqs are assigned without a gap: the journal covers what it reaches.
Covered(from, snap) ==
  /\ snap.first # 0 \/ snap.last # 0
  /\ UpTo(snap) <= Max({from, Len(journal)})

Rows(from, upto) == [i \in 1..Max({0, upto - from}) |-> Frame(journal[from + i], from + i)]

\* Mutant: everything on disk counts as replayed.
SkipBoundLatest(from, snap) == Max({from, Len(journal)})
\* Mutant: the cursor is forgotten.
SkipBoundReplayed(from, snap) == IF snap.first = 0 THEN snap.last ELSE snap.first - 1

\* What the drain loop skips: the rows replayed, and those the tab came with.
SkipBound(from, snap) ==
  LET replayed == IF journal = <<>> \/ (snap.first = 0 /\ snap.last = 0) THEN 0 ELSE UpTo(snap)
  IN Max({from, replayed})

Replay(c) ==
  /\ conn[c].at = "subscribed"
  /\ LET snap == conn[c].snap
         from == From(conn[c].after, snap)
         plan == IF conn[c].after = None THEN [bound |-> 0, todo |-> <<>>]
                 ELSE IF snap.holed /\ ~Covered(from, snap)
                 THEN [bound |-> 0, todo |-> <<Frame("recover", 0)>>]
                 ELSE [bound |-> SkipBound(from, snap),
                       todo |-> Rows(from, Min({UpTo(snap), Len(journal)}))]
     IN conn' = [conn EXCEPT ![c].at = "serving", ![c].bound = plan.bound,
                             ![c].todo = plan.todo, ![c].snap = None]
  /\ UNCHANGED <<run, fly, chan, side, queue, tabs>>

\* The stream is gone: the journal alone, and a notice if it has no end.
AttachLate(c, t) ==
  /\ conn[c].at = "new" /\ t \notin told /\ Watching(t) = {}
  /\ ~alive /\ journal # <<>>
  /\ LET from == IF cursor[t] > Len(journal) THEN 0 ELSE cursor[t]
         stale == IF Terminal THEN <<>> ELSE <<Frame("interrupted", Len(journal) + 1)>>
     IN conn' = [conn EXCEPT ![c] = [Unused EXCEPT !.at = "late", !.tab = t, !.after = cursor[t],
                                       !.todo = Rows(from, Len(journal)) \o stale]]
  /\ UNCHANGED <<run, fly, chan, side, queue, tabs>>

EmitReplay(c) ==
  /\ conn[c].at \in {"serving", "late"} /\ conn[c].todo # <<>>
  /\ Render(c, Head(conn[c].todo))
  /\ IF Ends(Head(conn[c].todo))
     THEN conn' = Closed(c) /\ queue' = [queue EXCEPT ![c] = <<>>]
     ELSE conn' = [conn EXCEPT ![c].todo = Tail(@)] /\ UNCHANGED queue
  /\ UNCHANGED <<run, fly, chan, side>>

\* Nothing follows the journal of a stream that is gone.
EndReplay(c) ==
  /\ conn[c].at = "late" /\ conn[c].todo = <<>>
  /\ conn' = Closed(c)
  /\ UNCHANGED <<run, fly, chan, side, queue, tabs>>

\* A frame without an id goes out under the id published last.
SentAs(frame) == IF frame.id = 0 THEN side ELSE frame.id
Skipped(c, frame) == SentAs(frame) # 0 /\ SentAs(frame) <= conn[c].bound

Drain(c) ==
  /\ conn[c].at = "serving" /\ conn[c].todo = <<>> /\ queue[c] # <<>>
  /\ LET frame == Head(queue[c])
     IN IF Skipped(c, frame)
        THEN UNCHANGED <<conn, tabs>>
        ELSE /\ Render(c, [frame EXCEPT !.id = SentAs(frame)])
             /\ conn' = IF Ends(frame) THEN Closed(c) ELSE conn
  /\ queue' = [queue EXCEPT ![c] = IF conn'[c].at = "left" THEN <<>> ELSE Tail(@)]
  /\ UNCHANGED <<run, fly, chan, side>>

\* The connection breaks; the handler notices later and unsubscribes.
Break(c) ==
  /\ conn[c].at \in Open
  /\ \E d \in Conn : conn[d].at = "new"
  /\ conn' = Closed(c)
  /\ queue' = [queue EXCEPT ![c] = <<>>]
  /\ UNCHANGED <<run, fly, chan, side, tabs>>

Unsubscribe(c) ==
  /\ conn[c].at = "left" /\ c \in chan.subs
  /\ chan' = [chan EXCEPT !.subs = @ \ {c}]
  /\ UNCHANGED <<run, fly, side, conn, queue, tabs>>

Handle(c) == Subscribe(c) \/ Replay(c) \/ EmitReplay(c) \/ EndReplay(c) \/ Drain(c) \/ Unsubscribe(c)

Next ==
  \/ PutToken \/ SaveTurn \/ PutDone \/ PutEnd \/ PutCancel \/ Teardown
  \/ Steer \/ StopDetach \/ StopRaise \/ StopReads \/ StopNotes
  \/ \E p \in Producer : Publish(p)
  \/ \E c \in Conn, t \in Tab : AttachLate(c, t) \/ \E after \in {None, cursor[t]} : Attach(c, t, after)
  \/ \E c \in Conn : Handle(c) \/ Break(c)

Spec == Init /\ [][Next]_vars

-----------------------------------------------------------------------------
Row == 0..(MaxRows + 4)
Frames == [kind : Kind, id : Row]

\* Types; one publication at a time; the buffer is capped, and the channel
\* never claims a row that is not on disk.
TypeOK ==
  /\ journal \in Seq(Kind) /\ Len(journal) \in Row
  /\ {alive, raised, saved, returned, cancelled} \subseteq BOOLEAN
  /\ fly \in [Producer -> [at : {"idle", "raises", "reads", "notes", "wants",
                                 "appended", "casting", "noting"},
                           kind : Kind, id : Row, to : SUBSET Conn]]
  /\ Cardinality({p \in Producer : Publishing(p)}) <= 1
  /\ chan \in [subs : SUBSET Conn, buffer : Seq(Frames), holed : BOOLEAN, last : Row]
  /\ Len(chan.buffer) <= OfflineMax /\ chan.last <= Len(journal)
  /\ side \in Row
  /\ \A c \in Conn : /\ conn[c].at \in Open \union {"new", "left"}
                     /\ conn[c].tab \in Tab \union {None} /\ conn[c].bound \in Row
                     /\ conn[c].todo \in Seq(Frames) /\ queue[c] \in Seq(Frames)
  /\ cursor \in [Tab -> Row] /\ shown \in [Tab -> SUBSET Row] /\ twice \in [Tab -> SUBSET Row]
  /\ told \subseteq Tab

Top(t) == Max({0} \union shown[t])
Fresh(t) == \E c \in Conn : conn[c].tab = t /\ conn[c].after = None

\* Across broken connections, an overflowing buffer and handlers that linger,
\* a tab never renders a row before the one that precedes it; only the first
\* row of a tab that asked for no replay may be a later one.
NoHole ==
  [][\A t \in Tab : \/ Top(t)' \in {Top(t), Top(t) + 1}
                    \/ Top(t) = 0 /\ Fresh(t)]_vars

\* No row reaches a tab twice, neither by replay and queue nor by two
\* replays, unless it subscribed before the channel had an id (its replay is
\* unbounded then) or a Stop moved the channel's last id back.
Blind(t) == \E c \in Conn : conn[c].tab = t /\ conn[c].blind
RenderedOnce ==
  \A t \in Tab : twice[t] = {} \/ Blind(t) \/ ~Idle("stop") \/ cancelled

OutThere == \A p \in Producer : fly[p].at \notin {"appended", "casting"}
Waiting(t) ==
  \E c \in Watching(t) : conn[c].at = "serving" /\ conn[c].todo = <<>> /\ queue[c] = <<>>
                         /\ conn[c].after # None

\* Neither the drain loop's filter nor a lost copy may eat the last rows: a
\* tab that asked for replay waits on an empty queue no longer once "end" went
\* out, and after "done" only if it was told.
EndSurvives ==
  \A t \in Tab : OutThere /\ Waiting(t) => ~Has("end") /\ (Has("done") => t \in told)

\* api/routes.py, on the filter's bound: "the terminal frame must always
\* survive".  The filter lets a frame through that ends the connection; a
\* Stop's frame has no id of its own.
TerminalSurvives ==
  \A c \in Conn :
    /\ conn[c].at = "serving" /\ conn[c].todo = <<>> /\ queue[c] # <<>>
    /\ Ends(Head(queue[c]))
    => ~Skipped(c, Head(queue[c]))
=============================================================================
