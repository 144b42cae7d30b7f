------------------------------ MODULE Transport ------------------------------
(***************************************************************************)
(* The WTP client: AEP-CAW/internal/store/watchtower/transport.  One       *)
(* goroutine (Run) moves through Connecting, Replaying, Live and Shutdown, *)
(* reads the WAL through a generation-scoped Reader and writes batches to  *)
(* a stream; the server's acks come back through the recv goroutine.       *)
(* Writers append to the WAL at any time, one may overtake another between *)
(* its stamp and its append, and the stream may break at any time.         *)
(*                                                                         *)
(* Abstractions: the WAL is `log`, every record ever written in file order *)
(* with the positions that have left the disk in `gone` (module Wal has    *)
(* the files).  `down` is the server's half of the stream together with    *)
(* recvSession.eventCh, both FIFO.  Every error that makes a state return  *)
(* to Connecting is Disconnect.  Payload bytes are left out: MaxBytes is   *)
(* reached whenever the choice `full` says so.                             *)
(***************************************************************************)
EXTENDS Integers, Sequences, FiniteSets, SequencesExt, FiniteSetsExt, Watermark, Ranks

CONSTANTS
    Gens,          \* generations
    MaxSeq,        \* bound: highest sequence of a generation
    MaxWrites,     \* bound: user records in a behaviour
    MaxMarkers,    \* bound: loss markers in a behaviour
    MaxRecords,    \* BatcherOptions.MaxRecords
    MaxInflight,   \* LiveOptions.MaxInflight
    EmitExtended,  \* Options.EmitExtendedLossReasons
    ServerClaims,  \* tuples the server may ack without having them
    MaxFaults      \* bound: disconnects, restarts, refused sessions, failed acks

ASSUME TransportConstants ==
    /\ Gens \subseteq Nat /\ 0 \in Gens
    /\ MaxSeq \in Nat /\ MaxWrites \in Nat /\ MaxMarkers \in Nat /\ MaxFaults \in Nat
    /\ MaxRecords \in Nat \ {0}
    /\ MaxInflight \in Nat \ {0}
    /\ EmitExtended \in BOOLEAN
    /\ ServerClaims \subseteq Gens \X (0..MaxSeq)

VARIABLES
    log,        \* WAL: every record appended so far, in file order
    gone,       \* WAL: positions of log that are no longer on disk
    dataHigh,   \* WAL: perGenDataHighWater, -1 for an absent entry
    meta,       \* WAL: the ack tuple in meta.json
    mirror,     \* WAL: the ack tuple in memory, what reclamation goes by
    st,         \* Run: the state, and where it is between states
    persisted,  \* t.persistedAck
    present,    \* t.persistedAckPresent
    cursor,     \* t.remoteReplayCursor
    plan,       \* Run: the stages still to replay
    rdr,        \* the open Reader
    tail,       \* Replayer.tail
    lastRep,    \* Replayer.lastReplayed
    pump,       \* runLive: in drainAvailable ("drain") or in select ("select")
    notified,   \* the token in Reader.notify
    batch,      \* Batcher.pending, or the batch NextBatch is filling
    inflight,   \* inflightTracker.pending
    up,         \* the client's half of the stream
    down,       \* the server's half of the stream, and eventCh
    received,   \* server: data records received
    told,       \* server: tuples covered by a received TransportLoss
    srvHigh,    \* server: its watermark
    wire,       \* history: the last data record sent on this connection
    faults      \* bound counter

walVars    == <<log, gone, dataHigh>>
ackVars    == <<meta, mirror, persisted, present, cursor>>
replayVars == <<plan, tail, lastRep>>
liveVars   == <<pump, notified, inflight>>
serverVars == <<received, told, srvHigh>>
vars == <<walVars, ackVars, st, replayVars, rdr, liveVars, batch, up, down,
          serverVars, wire, faults>>

-----------------------------------------------------------------------------
(* Tuples and records.                                                     *)

Seqs   == 0..MaxSeq
Tuples == Gens \X Seqs

Data(g, s) == [kind |-> "data", gen |-> g, from |-> s, to |-> s, file |-> g]

\* A loss marker, in a file of generation f.
Marker(kind, g, lo, hi, f) == [kind |-> kind, gen |-> g, from |-> lo, to |-> hi, file |-> f]

IsData(r)  == r.kind = "data"
Tuple(r)   == <<r.gen, r.from>>
Covered(r) == {<<r.gen, s>> : s \in {x \in Seqs : r.from <= x /\ x <= r.to}}

\* Record.Sequence, which the Reader leaves 0 in a loss record.
RecSeq(r) == IF IsData(r) THEN r.from ELSE 0

-----------------------------------------------------------------------------
(* The WAL as the transport sees it.                                       *)

OnDisk  == DOMAIN log \ gone
DataAt  == {i \in DOMAIN log : IsData(log[i])}
Markers == DOMAIN log \ DataAt

\* The generation of the live file, which a file for generation g would be.
LiveFile(g) == IF log = << >> THEN g ELSE log[Len(log)].file

DataOnDisk(g) == {i \in OnDisk \cap DataAt : log[i].gen = g}

\* WrittenDataHighWater has an entry for the generation, not below the tuple.
WrittenUpTo(a)   == dataHigh[a[1]] >= a[2]
HasDataBelow(g)  == \E h \in Gens : h < g /\ dataHigh[h] >= 0
HasReplayable(g) == \E i \in OnDisk : log[i].file = g
HighGeneration   == IF DataAt = {} THEN 0 ELSE log[Max(DataAt)].gen

\* The tuples with which a writer has come to the WAL.
Arrived == {Tuple(log[i]) : i \in {j \in DOMAIN log : log[j].kind # "overflow"}}

\* composite.AppendEvent stamps an event and hands it to the sinks under a read
\* lock, so that writers reach the WAL in any order of their stamps.
\* NextGeneration takes the lock itself and waits for them.
NextTuples == {t \in Tuples \ Arrived : \A u \in Arrived : u[1] <= t[1]}

\* The files are not in the state.  j..k may be a sealed one if it is a run of
\* one generation and user records open it and the file after it.
IsFile(j, k) ==
    /\ j..k \subseteq OnDisk /\ j <= k /\ k < Len(log)
    /\ j = 1 \/ IsData(log[j])
    /\ IsData(log[k + 1])
    /\ \A i \in j..k : log[i].file = log[k].file
DataOf(j, k) == j..k \cap DataAt

\* segmentFullyAckedLocked.
IsAcked(j, k) ==
    /\ mirror # NoAck
    /\ IF DataOf(j, k) = {} THEN log[k].file <= mirror[1]
       ELSE \A i \in DataOf(j, k) : TupleLeq(Tuple(log[i]), mirror)

\* prunePerGenMapsLocked drops the entries of generations without a file; it
\* leaves them all when it cannot read the directory.
Pruned(out) == [g \in Gens |-> IF \E i \in OnDisk \ out : log[i].file = g THEN dataHigh[g] ELSE -1]

\* A Reader still gets the records of a removed file if it has the file open.
Reading == st \in {"replaying", "live", "draining"}
RemoveFile(j, k) ==
    /\ gone' = gone \cup (j..k)
    /\ rdr' \in {rdr, [rdr EXCEPT !.missing = @ \cup (j..k)]}
    /\ Reading \/ rdr' = rdr

\* dropOldestLocked: from the first to the last user record, in file order.
DropMarker(j, k) ==
    Marker("overflow", log[k].file, log[Min(DataOf(j, k))].from, log[Max(DataOf(j, k))].from,
           LiveFile(log[k].file))

\* dataHigh d with the record of tuple t.
Raised(d, t) == [d EXCEPT ![t[1]] = IF t[2] > @ THEN t[2] ELSE @]

\* Append: over its budget the WAL drops the oldest file, if it is not acked,
\* and puts a marker for it before the record.
WalAppend(t) ==
    /\ t \in NextTuples /\ Cardinality(DataAt) < MaxWrites
    /\ \/ /\ log' = Append(log, Data(t[1], t[2]))
          /\ dataHigh' = Raised(dataHigh, t)
          /\ UNCHANGED <<gone, rdr>>
       \/ \E j, k \in DOMAIN log :
             /\ Cardinality(Markers) < MaxMarkers
             /\ IsFile(j, k) /\ j = Min(OnDisk)
             /\ ~IsAcked(j, k) /\ DataOf(j, k) # {}
             /\ log' = log \o <<DropMarker(j, k), Data(t[1], t[2])>>
             /\ RemoveFile(j, k)
             /\ \E d \in {dataHigh, Pruned(j..k)} : dataHigh' = Raised(d, t)
    /\ notified' = (notified \/ Reading)
    /\ UNCHANGED <<ackVars, st, replayVars, pump, inflight, batch, up, down, serverVars,
                   wire, faults>>

\* The event cannot be encoded: AppendLoss, if the extended reasons are on.
\* Else it never arrives and leaves a gap in the sequence.
WalAppendLoss(t) ==
    /\ EmitExtended
    /\ t \in NextTuples
    /\ Cardinality(Markers) < MaxMarkers
    /\ log' = Append(log, Marker("inflight", t[1], t[2], t[2], LiveFile(t[1])))
    /\ notified' = (notified \/ Reading)
    /\ UNCHANGED <<gone, dataHigh, rdr, ackVars, st, replayVars, pump, inflight, batch, up, down,
                   serverVars, wire, faults>>

\* The sweep of MarkAcked, of whatever file is acked, and gcAckedLocked.
Reclaim ==
    /\ \E j, k \in DOMAIN log :
          /\ IsFile(j, k) /\ IsAcked(j, k)
          /\ RemoveFile(j, k)
          /\ dataHigh' \in {dataHigh, Pruned(j..k)}
    /\ UNCHANGED <<log, ackVars, st, replayVars, liveVars, batch, up, down, serverVars, wire,
                   faults>>

-----------------------------------------------------------------------------
(* The ack clamp.                                                          *)

Fault == faults < MaxFaults /\ faults' = faults + 1

\* Slip: the tuple is not compared with the data that was written.
AdoptableUnwritten(a) == IF present THEN TupleLess(persisted, a) ELSE TRUE

\* Slip: sequences are compared without their generations.
AdoptableBySeq(a) ==
    IF present THEN persisted[2] < a[2] /\ WrittenUpTo(a)
    ELSE IF a[2] = 0 THEN ~HasDataBelow(a[1]) ELSE WrittenUpTo(a)

\* applyServerAckTuple: AckOutcomeAdopted.
Adoptable(a) ==
    IF present THEN TupleLess(persisted, a) /\ WrittenUpTo(a)
    ELSE IF a[2] = 0 THEN ~HasDataBelow(a[1]) ELSE WrittenUpTo(a)

\* applyServerAckTuple: AckOutcomeResendNeeded.
ResendNeeded(a) == present /\ a[1] = persisted[1] /\ a[2] < persisted[2]

Adopt(a) ==
    /\ Adoptable(a)
    /\ persisted' = a /\ cursor' = a /\ present' = TRUE
    /\ mirror' = TupleMax(mirror, a)
    /\ meta' = mirror'
    /\ UNCHANGED faults

\* wal.MarkAcked returned an error, before or after it replaced meta.json: the
\* cursors are rolled back, the WAL's mirror is not.
AdoptFails(a) ==
    /\ Adoptable(a)
    /\ Fault
    /\ mirror' = TupleMax(mirror, a)
    /\ meta' \in {meta, mirror'}
    /\ UNCHANGED <<persisted, present, cursor>>

\* Slip: the replay cursor follows every tuple, an anomalous one too.
ClampAlways(a) ==
    /\ ~Adoptable(a)
    /\ cursor' = a
    /\ UNCHANGED <<meta, mirror, persisted, present, faults>>

\* The outcomes that persist nothing: anomaly, resend needed, no-op.
Clamp(a) ==
    /\ ~Adoptable(a)
    /\ cursor' = IF ResendNeeded(a) THEN a ELSE cursor
    /\ UNCHANGED <<meta, mirror, persisted, present, faults>>

ApplyAck(a) == Adopt(a) \/ AdoptFails(a) \/ Clamp(a)

-----------------------------------------------------------------------------
(* Reader, encoder and window.                                             *)

OpenReader(g, s) == [gen |-> g, start |-> s, pos |-> 0, missing |-> gone]

\* A Reader is scoped to the files of one generation; only data is filtered by
\* the start.
Surfaces(i) == log[i].file = rdr.gen /\ (IsData(log[i]) => log[i].from >= rdr.start)
Readable    == {i \in DOMAIN log : i > rdr.pos /\ Surfaces(i) /\ i \notin rdr.missing}
CaughtUp    == Readable = {}
NextPos     == Min(Readable)

\* encodeBatchMessage: one EventBatch per run of data records, one
\* TransportLoss per marker.  Frame(b, i) is the message that ends at b[i].
Frame(b, i) ==
    IF IsData(b[i])
    THEN [kind |-> "events", gen |-> b[i].gen, to |-> b[i].from,
          has  |-> {Tuple(b[j]) : j \in {x \in 1..i : \A k \in x..i : IsData(b[k])}}]
    ELSE [kind |-> "loss", gen |-> b[i].gen, to |-> b[i].to, has |-> Covered(b[i])]
FrameEnds(b) ==
    {i \in DOMAIN b : IF IsData(b[i]) THEN i = Len(b) \/ ~IsData(b[i + 1])
                      ELSE b[i].kind = "inflight" => EmitExtended}
Encode(b) == [n \in 1..Cardinality(FrameEnds(b)) |-> Frame(b, Nth(FrameEnds(b), n))]

LastData(b) ==
    LET ds == {i \in DOMAIN b : IsData(b[i])}
    IN  IF ds = {} THEN wire ELSE Tuple(b[Max(ds)])

Send(b) == up' = up \o Encode(b) /\ wire' = LastData(b)

\* inflightTracker: a slot for every frame, released from the front.
Pushed(b) == inflight \o [i \in DOMAIN Encode(b) |-> <<Encode(b)[i].gen, Encode(b)[i].to>>]
Release(a) ==
    LET stay == {i \in DOMAIN inflight : TupleLess(a, inflight[i])}
    IN  IF stay = {} THEN << >> ELSE SubSeq(inflight, Min(stay), Len(inflight))

-----------------------------------------------------------------------------
(* Connecting.                                                             *)

\* What the server may name in SessionAck and in heartbeats.
Known == ServerClaims \cup {IF srvHigh = NoAck THEN <<0, 0>> ELSE srvHigh}

\* runConnecting: dial, SessionInit, SessionAck.
Connect ==
    /\ st = "connecting"
    /\ \E a \in Tuples : a \in Known /\ ApplyAck(a)
    /\ st' = "planning"
    /\ up' = << >> /\ down' = << >> /\ wire' = NoAck
    /\ UNCHANGED <<walVars, replayVars, rdr, liveVars, batch, serverVars>>

\* What a connection leaves behind when it ends.
Torn ==
    /\ plan' = << >> /\ tail' = <<0, 0>> /\ lastRep' = <<0, 0>>
    /\ rdr' = [gen |-> 0, start |-> 0, pos |-> 0, missing |-> {}]
    /\ pump' = "drain" /\ notified' = FALSE /\ inflight' = << >>
    /\ batch' = << >> /\ down' = << >> /\ wire' = NoAck

\* The server refuses the session: Run returns.
Rejected ==
    /\ st = "connecting"
    /\ Fault
    /\ st' = "stopped"
    /\ UNCHANGED <<walVars, ackVars, replayVars, rdr, liveVars, batch, up, down,
                   serverVars, wire>>

-----------------------------------------------------------------------------
(* Replaying.                                                              *)

\* computeReplayStart; the loss it makes up for a reclaimed prefix is dropped
\* by Run.
ReplayStart ==
    LET ds       == DataOnDisk(persisted[1])
        earliest == log[Min(ds)].from
    IN  IF ds # {} /\ earliest > cursor[2] + 1 THEN earliest ELSE cursor[2] + 1

LaterGens == {g \in Gens : /\ persisted[1] < g /\ g <= HighGeneration
                           /\ HasReplayable(g)}
ReplayPlan ==
    <<[gen |-> persisted[1], start |-> ReplayStart]>>
    \o [n \in 1..Cardinality(LaterGens) |-> [gen |-> Nth(LaterGens, n), start |-> 0]]

PlanReplay ==
    /\ st = "planning"
    /\ plan' = ReplayPlan
    /\ st' = "opening"
    /\ UNCHANGED <<walVars, ackVars, tail, lastRep, rdr, liveVars, batch, up, down,
                   serverVars, wire, faults>>

\* A Reader and a Replayer for the next stage.
OpenStage ==
    /\ st = "opening"
    /\ LET stage == Head(plan)
           high  == dataHigh[stage.gen]
       IN  /\ rdr' = OpenReader(stage.gen, stage.start)
           /\ tail' = <<stage.gen, IF high = -1 THEN 0 ELSE high>>
    /\ lastRep' = <<0, 0>> /\ notified' = FALSE
    /\ plan' = Tail(plan)
    /\ st' = "replaying"
    /\ UNCHANGED <<walVars, ackVars, pump, inflight, batch, up, down, serverVars, wire, faults>>

StageDone == st' = IF plan = << >> THEN "entering" ELSE "opening"

\* NextBatch takes one record; one past the tail ends the stage with the batch.
ReplayRead ==
    /\ st = "replaying"
    /\ Len(batch) < MaxRecords /\ ~CaughtUp
    /\ LET r == log[NextPos]
           filled == Append(batch, r)
       IN  /\ rdr' = [rdr EXCEPT !.pos = NextPos]
           /\ lastRep' = IF IsData(r) THEN Tuple(r) ELSE lastRep
           /\ IF IsData(r) /\ TupleLess(tail, Tuple(r))
              THEN Send(filled) /\ batch' = << >> /\ StageDone
              ELSE batch' = filled /\ UNCHANGED <<up, wire, st>>
    /\ UNCHANGED <<walVars, ackVars, plan, tail, liveVars, down, serverVars, faults>>

\* NextBatch returns a batch, full by records or by bytes.
ReplaySend ==
    /\ st = "replaying"
    /\ batch # << >>
    /\ Send(batch)
    /\ batch' = << >>
    /\ UNCHANGED <<walVars, ackVars, st, replayVars, rdr, liveVars, down, serverVars, faults>>

\* NextBatch met the end of the log.
ReplayDone ==
    /\ st = "replaying"
    /\ Len(batch) < MaxRecords /\ CaughtUp
    /\ Send(batch)
    /\ batch' = << >>
    /\ StageDone
    /\ UNCHANGED <<walVars, ackVars, replayVars, rdr, liveVars, down, serverVars, faults>>

\* The arm of runReplaying that takes an ack, between two batches.
ReplayRecv ==
    /\ st = "replaying" /\ batch = << >>
    /\ down # << >>
    /\ \E a \in Tuples : a = Head(down) /\ ApplyAck(a)
    /\ down' = Tail(down)
    /\ UNCHANGED <<walVars, st, replayVars, rdr, liveVars, batch, up, serverVars, wire>>

-----------------------------------------------------------------------------
(* Live.                                                                   *)

\* Slip: Live starts at the head of the log.
LiveStartAtHead == Max({log[i].from : i \in DataAt} \cup {cursor[2]}) + 1

\* Slip: Live starts past the ack and not past what was replayed.
LiveStartByCursor == cursor[2] + 1

\* The sequence Live starts at: past the cursor and past the last record
\* replayed, of whatever generation that was.
LiveStart == (IF lastRep[2] > cursor[2] THEN lastRep[2] ELSE cursor[2]) + 1

\* Slip: runLive waits for a notification before its first drain.
EnterLiveWaiting ==
    /\ st = "entering"
    /\ rdr' = OpenReader(HighGeneration, LiveStart)
    /\ notified' = FALSE /\ inflight' = << >> /\ pump' = "select"
    /\ st' = "live"
    /\ UNCHANGED <<walVars, ackVars, replayVars, batch, up, down, serverVars, wire, faults>>

EnterLive ==
    /\ st = "entering"
    /\ rdr' = OpenReader(HighGeneration, LiveStart)
    /\ notified' = FALSE /\ inflight' = << >> /\ pump' = "drain"
    /\ st' = "live"
    /\ UNCHANGED <<walVars, ackVars, replayVars, batch, up, down, serverVars, wire, faults>>

\* Batcher.Add: the batch that is flushed, and the one that stays.  `full`:
\* the payload does not fit in MaxBytes.
Joins(r) == r.gen = batch[1].gen /\ RecSeq(r) = RecSeq(Last(batch)) + 1
Add(r, full) ==
    LET joined == Append(batch, r) IN
    IF batch # << >> /\ (~Joins(r) \/ full) THEN [out |-> batch, stay |-> <<r>>]
    ELSE IF Len(joined) >= MaxRecords THEN [out |-> joined, stay |-> << >>]
    ELSE [out |-> << >>, stay |-> joined]

\* One turn of drainAvailable.
LiveDrain ==
    /\ st = "live" /\ pump = "drain"
    /\ Len(inflight) < MaxInflight /\ ~CaughtUp
    /\ \E full \in BOOLEAN :
          LET b == Add(log[NextPos], full)
          IN  batch' = b.stay /\ Send(b.out) /\ inflight' = Pushed(b.out)
    /\ rdr' = [rdr EXCEPT !.pos = NextPos]
    /\ UNCHANGED <<walVars, ackVars, st, replayVars, pump, notified, down, serverVars, faults>>

LiveDrained ==
    /\ st = "live" /\ pump = "drain"
    /\ Len(inflight) >= MaxInflight \/ CaughtUp
    /\ pump' = "select"
    /\ UNCHANGED <<walVars, ackVars, st, replayVars, rdr, notified, inflight, batch, up, down,
                   serverVars, wire, faults>>

\* runLive waits in select.
Selecting == st = "live" /\ pump = "select"

LiveNotify ==
    /\ Selecting /\ notified
    /\ notified' = FALSE /\ pump' = "drain"
    /\ UNCHANGED <<walVars, ackVars, st, replayVars, rdr, inflight, batch, up, down,
                   serverVars, wire, faults>>

\* Slip: the tick flushes into a full window.
LiveTickUngated ==
    /\ Selecting
    /\ batch # << >>
    /\ Send(batch) /\ inflight' = Pushed(batch) /\ batch' = << >>
    /\ UNCHANGED <<walVars, ackVars, st, replayVars, rdr, pump, notified, down, serverVars, faults>>

\* Batcher.Tick: the batch is older than MaxAge.
LiveTick ==
    /\ Selecting /\ Len(inflight) < MaxInflight
    /\ batch # << >>
    /\ Send(batch) /\ inflight' = Pushed(batch) /\ batch' = << >>
    /\ UNCHANGED <<walVars, ackVars, st, replayVars, rdr, pump, notified, down, serverVars, faults>>

\* A BatchAck or a heartbeat; only an adopted one releases slots and drains.
LiveRecv ==
    /\ Selecting
    /\ down # << >>
    /\ \E a \in Tuples :
          /\ a = Head(down)
          /\ \/ Adopt(a) /\ inflight' = Release(a) /\ pump' = "drain"
             \/ (AdoptFails(a) \/ Clamp(a)) /\ UNCHANGED <<inflight, pump>>
    /\ down' = Tail(down)
    /\ UNCHANGED <<walVars, st, replayVars, rdr, notified, batch, up, serverVars, wire>>

-----------------------------------------------------------------------------
(* Disconnects, shutdown and restart.                                      *)

\* Any error on the stream, or of the WAL under Replaying and Live.
Disconnect ==
    /\ st \notin {"connecting", "draining", "stopped"}
    /\ Fault
    /\ st' = "connecting"
    /\ up' = << >> /\ Torn
    /\ UNCHANGED <<walVars, ackVars, serverVars>>

\* Stop is served by Run's loop or by runReplaying: nothing is drained.
Stop ==
    /\ \/ st \in {"connecting", "planning", "entering"}
       \/ st = "replaying" /\ batch = << >>
    /\ st' = "stopped"
    /\ up' = << >> /\ Torn
    /\ UNCHANGED <<walVars, ackVars, serverVars, faults>>

\* Stop is served by runLive: runShutdown.
StopLive ==
    /\ Selecting
    /\ st' = "draining"
    /\ UNCHANGED <<walVars, ackVars, replayVars, rdr, liveVars, batch, up, down, serverVars,
                   wire, faults>>

\* One turn of the drain, with no window.
ShutdownDrain ==
    /\ st = "draining" /\ ~CaughtUp
    /\ \E full \in BOOLEAN :
          LET b == Add(log[NextPos], full) IN batch' = b.stay /\ Send(b.out)
    /\ rdr' = [rdr EXCEPT !.pos = NextPos]
    /\ UNCHANGED <<walVars, ackVars, st, replayVars, liveVars, down, serverVars, faults>>

\* The drain caught up, or its deadline passed or a send failed: the last
\* batch goes out and the connection is closed.
ShutdownFlush ==
    /\ st = "draining"
    /\ st' = "stopped"
    /\ up' \in {up, up \o Encode(batch)}
    /\ Torn
    /\ UNCHANGED <<walVars, ackVars, serverVars, faults>>

\* The process ends, at any point, and a new one opens the WAL: the cursors
\* are seeded from meta.json, dataHigh from the files.
Restart ==
    /\ Fault
    /\ dataHigh' = [g \in Gens |-> IF DataOnDisk(g) = {} THEN -1
                                  ELSE Max({log[i].from : i \in DataOnDisk(g)})]
    /\ mirror' = meta
    /\ present' = (meta # NoAck)
    /\ persisted' = (IF meta = NoAck THEN <<0, 0>> ELSE meta) /\ cursor' = persisted'
    /\ st' = "connecting"
    /\ up' = << >> /\ Torn
    /\ UNCHANGED <<log, gone, meta, serverVars>>

-----------------------------------------------------------------------------
(* The server, as the client's tests play it.                              *)

\* A frame arrives and is acked by its own (generation, last sequence).
ServerTake ==
    /\ up # << >>
    /\ LET f == Head(up) IN
       /\ IF f.kind = "events" THEN received' = received \cup f.has /\ UNCHANGED told
          ELSE told' = told \cup f.has /\ UNCHANGED received
       /\ srvHigh' = TupleMax(srvHigh, <<f.gen, f.to>>)
       /\ down' = IF st = "stopped" THEN down ELSE Append(down, <<f.gen, f.to>>)
    /\ up' = Tail(up)
    /\ UNCHANGED <<walVars, ackVars, st, replayVars, rdr, liveVars, batch, wire, faults>>

\* A heartbeat repeats what the server knows.
ServerHeartbeat ==
    /\ st \in {"planning", "opening", "replaying", "entering", "live"}
    /\ down = << >>
    /\ \E a \in Known : down' = <<a>>
    /\ UNCHANGED <<walVars, ackVars, st, replayVars, rdr, liveVars, batch, up, serverVars,
                   wire, faults>>

-----------------------------------------------------------------------------
Init ==
    /\ log = << >> /\ gone = {} /\ dataHigh = [g \in Gens |-> -1]
    /\ meta = NoAck /\ mirror = NoAck
    /\ st = "connecting"
    /\ persisted = <<0, 0>> /\ present = FALSE /\ cursor = <<0, 0>>
    /\ plan = << >> /\ tail = <<0, 0>> /\ lastRep = <<0, 0>>
    /\ rdr = [gen |-> 0, start |-> 0, pos |-> 0, missing |-> {}]
    /\ pump = "drain" /\ notified = FALSE /\ inflight = << >>
    /\ batch = << >> /\ up = << >> /\ down = << >>
    /\ received = {} /\ told = {} /\ srvHigh = NoAck
    /\ wire = NoAck /\ faults = 0

Writer == \E t \in Tuples : WalAppend(t) \/ WalAppendLoss(t)

\* The steps of the Run goroutine while the connection lasts.
Client ==
    \/ Connect \/ PlanReplay \/ OpenStage \/ ReplayRead \/ ReplaySend \/ ReplayDone
    \/ EnterLive \/ LiveDrain \/ LiveDrained
    \/ ShutdownDrain \/ ShutdownFlush

Next ==
    \/ Writer \/ Reclaim
    \/ Client \/ ReplayRecv \/ LiveNotify \/ LiveTick \/ LiveRecv
    \/ Disconnect \/ Rejected \/ Stop \/ StopLive \/ Restart
    \/ ServerTake \/ ServerHeartbeat

Spec == Init /\ [][Next]_vars

\* Run, the recv goroutine and the server keep running.  Go's select is random
\* among the ready arms, so an arm that stays ready is taken.  Nothing obliges
\* a stopped transport to be started again.
FairSpec ==
    /\ Spec
    /\ WF_vars(Client) /\ WF_vars(LiveNotify) /\ WF_vars(LiveTick) /\ WF_vars(LiveRecv)
    /\ WF_vars(ServerTake) /\ WF_vars(ServerHeartbeat)

-----------------------------------------------------------------------------
(* What the transport promises.                                            *)

States == {"connecting", "planning", "opening", "replaying", "entering", "live",
           "draining", "stopped"}
Records == [kind : {"data", "overflow", "inflight"}, gen : Gens, from : Seqs, to : Seqs,
            file : Gens]
Frames  == [kind : {"events", "loss"}, gen : Gens, to : Seqs, has : SUBSET Tuples]

\* Every variable has the type the code gives it.
TypeOK ==
    /\ log \in Seq(Records) /\ gone \subseteq DOMAIN log
    /\ dataHigh \in [Gens -> Seqs \cup {-1}]
    /\ meta \in Tuples \cup {NoAck} /\ mirror \in Tuples \cup {NoAck}
    /\ st \in States
    /\ persisted \in Tuples /\ cursor \in Tuples /\ present \in BOOLEAN
    /\ plan \in Seq([gen : Gens, start : Nat])
    /\ rdr \in [gen : Gens, start : Nat, pos : Nat, missing : SUBSET Nat]
    /\ tail \in Tuples /\ lastRep \in Tuples
    /\ pump \in {"drain", "select"} /\ notified \in BOOLEAN
    /\ batch \in Seq(Records) /\ inflight \in Seq(Tuples)
    /\ up \in Seq(Frames) /\ down \in Seq(Tuples)
    /\ received \subseteq Tuples /\ told \subseteq Tuples
    /\ srvHigh \in Tuples \cup {NoAck} /\ wire \in Tuples \cup {NoAck}
    /\ faults \in Nat

\* The watermarks of the ack path stay in order whatever the server claims and
\* acks, however late, stale or repeated, and whatever MarkAcked does: the
\* replay cursor is of the generation of persistedAck and never past it,
\* persistedAck is never past meta.json, meta.json never past the WAL's mirror.
AckChain ==
    /\ cursor[1] = persisted[1] /\ cursor[2] <= persisted[2]
    /\ IF present THEN TupleLeq(persisted, meta) ELSE persisted = <<0, 0>>
    /\ TupleLeq(meta, mirror)

\* No server, however wrong, makes the WAL or meta.json believe in an ack past
\* the data that was written: records written later would count as acked.  An
\* ack of sequence 0 is left out: the first one is adopted for a generation
\* without any data (NoOverAck).
AckWithinWritten ==
    \A a \in {meta, mirror} :
        a # NoAck /\ a[2] # 0 => \E i \in DataAt : log[i].gen = a[1] /\ a[2] <= log[i].from

\* persistedAck never goes back, not even through a restart.
PersistedNeverRegresses == [][TupleLeq(persisted, persisted')]_vars

\* The last tuple a record stands for.
End(r) == <<r.gen, r.to>>

\* No record that came before record i reaches past it, and no user record that
\* came after it falls short of it.
InPlace(i) ==
    /\ \A j \in 1..(i - 1) : TupleLess(End(log[j]), Tuple(log[i]))
    /\ \A j \in DataAt : j > i => TupleLess(Tuple(log[i]), Tuple(log[j]))

\* The client skips nothing: a record at or below the WAL's ack, which
\* reclamation may remove, has reached the server, or a loss marker was
\* written for it.  Two things are left out: sequence 0 (NoOverAck) and a record
\* that overtook or was overtaken on its way to the WAL.
Accounted(t) == t \in received \cup told \/ \E i \in Markers : t \in Covered(log[i])
AckedDelivered ==
    \A i \in DataAt :
        log[i].from # 0 /\ InPlace(i) /\ TupleLeq(Tuple(log[i]), mirror)
           => Accounted(Tuple(log[i]))

\* transport.go 733-735: "Same-gen (G, 0) with no lower-gen data is safe to adopt
\* unconditionally - no record can be over-acked."
NoOverAck ==
    \A i \in DataAt :
        InPlace(i) /\ TupleLeq(Tuple(log[i]), mirror) => Accounted(Tuple(log[i]))

\* The handoff from one stage to the next and from Replaying to Live repeats
\* nothing: on one connection a data record that was written in its place is
\* above the one sent before it.
NewData == UNION {up'[i].has : i \in {j \in DOMAIN up' : j > Len(up) /\ up'[j].kind = "events"}}
SentInOrder ==
    [][wire' # wire /\ wire' # NoAck =>
          \A i \in DataAt : InPlace(i) /\ Tuple(log[i]) \in NewData
                                => TupleLess(wire, Tuple(log[i]))]_vars

\* No wake-up is lost: runLive never waits in select with room in its window
\* and a record to read unless the notify token is there.
NoLostWakeup == Selecting /\ Len(inflight) < MaxInflight /\ ~CaughtUp => notified

\* The gates of drainAvailable and of the tick keep to the window.  Only a loss
\* marker makes it one slot more: to the batcher its sequence is 0, so that the
\* record with sequence 1 joins it and their batch goes out as two frames.
WithinWindow ==
    st = "live" => Len(inflight) <= MaxInflight + (IF Markers = {} THEN 0 ELSE 1)

\* transport.go 1157-1160: "The runLive recv arm releases one slot per
\* acknowledged batch [...], so the send path no longer stalls at MaxInflight."
NoStall == (Len(inflight) >= MaxInflight) ~> (Len(inflight) < MaxInflight)
=============================================================================
