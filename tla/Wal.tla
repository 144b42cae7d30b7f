-------------------------------- MODULE Wal --------------------------------
(***************************************************************************)
(* The write-ahead log of the watchtower (WTP) audit sink:                 *)
(* AEP-CAW/internal/store/watchtower/wal (wal.go, segment.go, meta.go).    *)
(*                                                                         *)
(* The log is a directory of segment files in index order.  The last one   *)
(* may be the live ".INPROGRESS" segment, the others are sealed.  Every    *)
(* operation runs under w.mu, so a running Append is one value of `op` and *)
(* no other operation is enabled until it returns; each of its file-system *)
(* effects is a step of its own, because the process may be killed, or the *)
(* effect may fail, between any two of them.                               *)
(*                                                                         *)
(* Abstractions: a payload is its (generation, sequence); every data frame *)
(* has DataSize bytes and every loss marker LossSize bytes; a torn frame   *)
(* at the end of the live segment, which recovery truncates, is the same   *)
(* as no frame.  The segment index is the position in `segs`.              *)
(*                                                                         *)
(* Nothing is assumed of the tuples that Append is given, because it checks*)
(* nothing: composite.AppendEvent stamps under a read lock, so that two    *)
(* writers may reach Append in the other order, and a daemon that starts   *)
(* its allocator anew stamps the same tuples again.                        *)
(***************************************************************************)
EXTENDS Integers, Sequences, FiniteSets, SequencesExt, FiniteSetsExt, Watermark

CONSTANTS
    Gens,            \* generations the allocator may stamp
    Seqs,            \* sequence numbers the allocator may stamp
    HeaderSize,      \* SegmentHeaderSize
    DataSize,        \* bytes of one framed data record
    LossSize,        \* bytes of one framed loss marker
    SegmentSize,     \* Options.SegmentSize
    MaxTotalBytes,   \* Options.MaxTotalBytes
    Stamps,          \* the tuples events come with, in any order
    MaxAppends,      \* bound: calls of Append in a behaviour
    MaxFaults        \* bound: crashes, failed I/O calls and events that
                     \* could not be encoded in a behaviour

ASSUME WalConstants ==
    /\ Gens \subseteq Nat
    /\ Seqs \subseteq Nat
    /\ HeaderSize \in Nat \ {0}
    /\ DataSize \in Nat \ {0}
    /\ LossSize \in Nat \ {0}
    /\ SegmentSize \in Nat
    /\ MaxTotalBytes \in Nat
    /\ HeaderSize + DataSize <= SegmentSize
    /\ Stamps \subseteq Gens \X Seqs
    /\ MaxAppends \in Nat /\ MaxFaults \in Nat

VARIABLES
    segs,        \* on disk: segment files in index order
    tip,         \* on disk: the last file is sealed ("none"), the live
                 \* .INPROGRESS one ("live"), or one without a header ("torn")
    meta,        \* on disk: the ack tuple of meta.json
    diskBytes,   \* on disk: the sum of the file sizes
    phase,       \* the WAL object: "open", "fatal", "closed" or "down"
    ack,         \* w.ackHighGen / w.ackHighSeq / w.ackPresent
    high,        \* w.highGen / w.highSeq
    dataHigh,    \* w.perGenDataHighWater, -1 for an absent entry
    replayable,  \* w.perGenAnyReplayable
    totalBytes,  \* w.totalBytes
    overlooked,  \* history: generations whose files a pruning could not open
    op,          \* the operation that holds w.mu, its pc "idle" if none does
    top,         \* history: the highest tuple handed to Append
    late,        \* history: tuples handed to Append not above the one before
    written,     \* history: records whose Append returned success
    acked,       \* history: the highest tuple handed to MarkAcked
    reported,    \* history: records covered by an overflow marker once durable
    interrupted, \* history: records dropped, their marker never written
    disordered,  \* history: records dropped in a file that held a late one
    faults,      \* bound counter
    appends      \* bound counter

disk    == <<segs, tip, meta, diskBytes>>
maps    == <<dataHigh, replayable, overlooked>>
memory  == <<ack, high, maps, totalBytes>>
history == <<top, late, written, acked, reported, interrupted, disordered>>
bounds  == <<faults, appends>>
vars    == <<disk, phase, memory, op, history, bounds>>

-----------------------------------------------------------------------------
(* Ack tuples, records and segments.                                       *)

Tuples == Gens \X Seqs

Data(g, s)      == [kind |-> "data", gen |-> g, from |-> s, to |-> s]
Loss(g, lo, hi) == [kind |-> "loss", gen |-> g, from |-> lo, to |-> hi]
Records  == [kind : {"data", "loss"}, gen : Gens, from : Seqs, to : Seqs]
Segments == [gen : Gens, recs : Seq(Records), bytes : Nat]

Covered(r)      == {<<r.gen, s>> : s \in {x \in Seqs : r.from <= x /\ x <= r.to}}
NewSegment(g)   == [gen |-> g, recs |-> << >>, bytes |-> HeaderSize]
RecordSize(r)   == IF r.kind = "data" THEN DataSize ELSE LossSize
AddRecord(seg, r) ==
    [gen |-> seg.gen, recs |-> Append(seg.recs, r), bytes |-> seg.bytes + RecordSize(r)]

\* segmentHighSeqAndGen: loss markers count neither as user records nor
\* towards the highest sequence.
DataAt(seg)  == {i \in DOMAIN seg.recs : seg.recs[i].kind = "data"}
HasUser(seg) == DataAt(seg) # {}
DataOf(seg)  == {<<seg.recs[i].gen, seg.recs[i].from>> : i \in DataAt(seg)}
SeqsOf(seg)  == {seg.recs[i].from : i \in DataAt(seg)}

DataIn(ss) == UNION {DataOf(ss[i]) : i \in DOMAIN ss}
OnDisk     == DataIn(segs)

\* A file's user records carry the generation of its header, and in the order
\* of the files each record that is not one of L is above all before it.
TupleAt(ss, i, p) == <<ss[i].recs[p].gen, ss[i].recs[p].from>>
Ordered(ss, L) ==
    /\ \A i \in DOMAIN ss : \A p \in DataAt(ss[i]) : ss[i].recs[p].gen = ss[i].gen
    /\ \A i, j \in DOMAIN ss : \A p \in DataAt(ss[i]), q \in DataAt(ss[j]) :
          (i < j \/ (i = j /\ p < q))
             => TupleAt(ss, j, q) \in L \/ TupleLess(TupleAt(ss, i, p), TupleAt(ss, j, q))

-----------------------------------------------------------------------------
(* The lock holder.                                                        *)

\* cut: this GC pass has removed a file, so its maps are to be pruned.  at: the
\* file MarkAcked's sweep has come to.
Idle == [pc |-> "idle", gen |-> 0, seq |-> 0, loss |-> Loss(0, 0, 0), cut |-> FALSE,
         at |-> 1]
At(pc)   == op.pc = pc
Goto(pc) == op' = [op EXCEPT !.pc = pc]
Holding(pcs) == phase = "open" /\ op.pc \in pcs
Fault == faults < MaxFaults /\ faults' = faults + 1

\* Slip: the live segment is counted with the sealed ones.
SealedCountWithLive == Len(segs)

SealedCount == IF tip = "none" THEN Len(segs) ELSE Len(segs) - 1
Live        == segs[Len(segs)]
OverBudget  == totalBytes + SegmentSize > MaxTotalBytes

\* Slip: the sequences of the acked generation are not compared.
FullyAckedByGen(seg) == ack # NoAck /\ seg.gen <= ack[1]

\* segmentFullyAckedLocked.
FullyAcked(seg) ==
    /\ ack # NoAck
    /\ IF HasUser(seg)
       THEN seg.gen < ack[1] \/ (seg.gen = ack[1] /\ \A s \in SeqsOf(seg) : s <= ack[2])
       ELSE seg.gen <= ack[1]

\* Slip: every entry goes, not only those of generations without a file.
PruneAll(ss) ==
    /\ dataHigh' = [g \in Gens |-> -1]
    /\ replayable' = {}
    /\ UNCHANGED <<overlooked, faults>>

\* prunePerGenMapsLocked: the maps keep only generations with a file left, but
\* not one none of whose files can be opened; if ReadDir fails they stay as they
\* are.
GensOf(ss) == {ss[i].gen : i \in DOMAIN ss}
Prune(ss) ==
    \/ UNCHANGED <<maps, faults>>
    \/ \E unread \in SUBSET GensOf(ss) :
          /\ IF unread = {} THEN UNCHANGED faults ELSE Fault
          /\ dataHigh' = [g \in Gens |-> IF g \in GensOf(ss) \ unread THEN dataHigh[g] ELSE -1]
          /\ replayable' = replayable \cap (GensOf(ss) \ unread)
          /\ overlooked' = overlooked \cup unread

\* The files but the one at position i.
Without(ss, i) == [j \in 1..(Len(ss) - 1) |-> ss[IF j < i THEN j ELSE j + 1]]

\* Removal of the sealed file at position i.
Unlink(i) ==
    /\ segs' = Without(segs, i)
    /\ diskBytes' = diskBytes - segs[i].bytes

\* One framed record at the end of the live segment.
WithRecord(ss, r) == [ss EXCEPT ![Len(ss)] = AddRecord(@, r)]
PutRecord(r) ==
    /\ segs' = WithRecord(segs, r)
    /\ diskBytes' = diskBytes + RecordSize(r)

-----------------------------------------------------------------------------
(* Append.                                                                 *)

\* Append up to the budget check.  A closed or fatal WAL fails cleanly before
\* it has changed anything.
AppendStart(g, s) ==
    /\ phase = "open" /\ At("idle")
    /\ appends < MaxAppends /\ appends' = appends + 1
    /\ top' = TupleMax(top, <<g, s>>)
    /\ late' = IF TupleLess(top, <<g, s>>) THEN late ELSE late \cup {<<g, s>>}
    /\ op' = [Idle EXCEPT !.pc = IF OverBudget THEN "gc" ELSE "place",
                          !.gen = g, !.seq = s]
    /\ UNCHANGED <<disk, phase, memory, written, acked, reported, interrupted, disordered,
                   faults>>

\* gcAckedLocked: remove the sealed prefix the receiver has, one file a step,
\* stopping at the first file that is not fully acked.
GcAcked ==
    /\ Holding({"gc"})
    /\ SealedCount > 0 /\ FullyAcked(segs[1])
    /\ Unlink(1)
    /\ totalBytes' = totalBytes - segs[1].bytes
    /\ op' = [op EXCEPT !.cut = TRUE]
    /\ UNCHANGED <<tip, meta, phase, ack, high, maps, history, bounds>>

GcAckedDone ==
    /\ Holding({"gc"})
    /\ ~(SealedCount > 0 /\ FullyAcked(segs[1]))
    /\ IF op.cut THEN Prune(segs) ELSE UNCHANGED <<maps, faults>>
    /\ Goto("drop")
    /\ UNCHANGED <<disk, phase, ack, high, totalBytes, history, appends>>

\* dropOldestLocked: the range of the marker is the first and the last user
\* record of the file, in file order.
DroppedRange(seg) ==
    Loss(seg.gen, seg.recs[Min(DataAt(seg))].from, seg.recs[Max(DataAt(seg))].from)

\* The records of a file that do not stand in the order they were stamped in.
Disorder(seg) == IF DataOf(seg) \cap late = {} THEN {} ELSE DataOf(seg)

\* Slip: the newest sealed file goes, with its marker, instead of the oldest.
DropNewestSealed ==
    /\ Holding({"drop"})
    /\ OverBudget /\ SealedCount > 0
    /\ Unlink(SealedCount)
    /\ totalBytes' = totalBytes - segs[SealedCount].bytes
    /\ Prune(segs')
    /\ op' = IF HasUser(segs[SealedCount])
             THEN [op EXCEPT !.pc = "mark", !.loss = DroppedRange(segs[SealedCount])]
             ELSE op
    /\ disordered' = disordered \cup Disorder(segs[SealedCount])
    /\ UNCHANGED <<tip, meta, phase, ack, high, top, late, written, acked, reported,
                   interrupted, appends>>

DropOldest ==
    /\ Holding({"drop"})
    /\ OverBudget /\ SealedCount > 0
    /\ Unlink(1)
    /\ totalBytes' = totalBytes - segs[1].bytes
    /\ Prune(segs')
    /\ op' = IF HasUser(segs[1])
             THEN [op EXCEPT !.pc = "mark", !.loss = DroppedRange(segs[1])]
             ELSE op
    /\ disordered' = disordered \cup Disorder(segs[1])
    /\ UNCHANGED <<tip, meta, phase, ack, high, top, late, written, acked, reported,
                   interrupted, appends>>

DropDone ==
    /\ Holding({"drop"})
    /\ ~(OverBudget /\ SealedCount > 0)
    /\ Goto("place")
    /\ UNCHANGED <<disk, phase, memory, history, bounds>>

\* openNewSegmentLocked: the header bytes never enter totalBytes.
OpenSegment ==
    /\ Holding({"mark", "note", "place"}) /\ tip = "none"
    /\ segs' = Append(segs, NewSegment(op.gen))
    /\ tip' = "live"
    /\ diskBytes' = diskBytes + HeaderSize
    /\ UNCHANGED <<meta, phase, memory, op, history, bounds>>

\* appendLossLocked on the overflow path, AppendLoss on the in-flight path.
WriteLoss ==
    /\ Holding({"mark", "note"}) /\ tip = "live"
    /\ PutRecord(op.loss)
    /\ totalBytes' = totalBytes + LossSize
    /\ replayable' = replayable \cup {Live.gen}
    /\ reported' = IF At("mark") THEN reported \cup Covered(op.loss) ELSE reported
    /\ op' = IF At("mark") THEN [op EXCEPT !.pc = "drop"] ELSE Idle
    /\ UNCHANGED <<tip, meta, phase, ack, high, dataHigh, overlooked, top, late, written, acked,
                   interrupted, disordered, bounds>>

\* Slip: a generation roll does not seal the live segment.
MustRollWhenFull == Live.bytes + DataSize > SegmentSize

\* The live segment is of another generation, or full.
MustRoll == Live.gen # op.gen \/ Live.bytes + DataSize > SegmentSize

SealCurrent ==
    /\ Holding({"place"}) /\ tip = "live" /\ MustRoll
    /\ tip' = "none"
    /\ UNCHANGED <<segs, meta, diskBytes, phase, memory, op, history, bounds>>

WriteRecord ==
    /\ Holding({"place"}) /\ tip = "live" /\ ~MustRoll
    /\ PutRecord(Data(op.gen, op.seq))
    /\ high' = <<op.gen, op.seq>>
    /\ dataHigh' = [dataHigh EXCEPT ![op.gen] = IF op.seq > @ THEN op.seq ELSE @]
    /\ replayable' = replayable \cup {op.gen}
    /\ totalBytes' = totalBytes + DataSize
    /\ written' = written \cup {<<op.gen, op.seq>>}
    /\ op' = Idle
    /\ UNCHANGED <<tip, meta, phase, ack, overlooked, top, late, acked, reported,
                   interrupted, disordered, bounds>>

\* AppendLoss: the marker of an event dropped before it reached the WAL.  It
\* goes into whatever segment is live, with no size and no budget check.
AppendLoss(g, s) ==
    /\ phase = "open" /\ At("idle")
    /\ Fault
    /\ op' = [Idle EXCEPT !.pc = "note", !.gen = g, !.loss = Loss(g, s, s)]
    /\ UNCHANGED <<disk, phase, memory, history, appends>>

-----------------------------------------------------------------------------
(* MarkAcked.                                                              *)

\* Slip: the new tuple is not compared with the one already acked.
MarkAckedAnyway(g, s) ==
    /\ phase \in {"open", "fatal", "closed"} /\ At("idle")
    /\ ack' = <<g, s>>
    /\ meta' = ack'
    /\ acked' = TupleMax(acked, <<g, s>>)
    /\ op' = [Idle EXCEPT !.pc = "sweep"]
    /\ UNCHANGED <<segs, tip, diskBytes, phase, high, maps, totalBytes,
                   top, late, written, reported, interrupted, disordered, bounds>>

\* The in-memory watermark advances first, then meta.json is replaced.  The
\* call is not refused on a fatal or closed WAL.
MarkAcked(g, s) ==
    /\ phase \in {"open", "fatal", "closed"} /\ At("idle")
    /\ ack' = TupleMax(ack, <<g, s>>)
    /\ meta' = ack'
    /\ acked' = TupleMax(acked, <<g, s>>)
    /\ op' = [Idle EXCEPT !.pc = "sweep"]
    /\ UNCHANGED <<segs, tip, diskBytes, phase, high, maps, totalBytes,
                   top, late, written, reported, interrupted, disordered, bounds>>

\* WriteMeta failed: the caller sees the error, the mirror has advanced.
MarkAckedFails(g, s) ==
    /\ phase \in {"open", "fatal", "closed"} /\ At("idle")
    /\ Fault
    /\ ack' = TupleMax(ack, <<g, s>>)
    /\ acked' = TupleMax(acked, <<g, s>>)
    /\ UNCHANGED <<disk, phase, high, maps, totalBytes, op,
                   top, late, written, reported, interrupted, disordered, appends>>

\* The files the sweep has still to remove: every fully acked sealed one,
\* wherever it stands in the order.
Sweepable == {i \in op.at..SealedCount : FullyAcked(segs[i])}

Sweep ==
    /\ At("sweep") /\ Sweepable # {}
    /\ Unlink(Min(Sweepable))
    /\ totalBytes' = totalBytes - segs[Min(Sweepable)].bytes
    /\ op' = [op EXCEPT !.cut = TRUE, !.at = Min(Sweepable)]
    /\ UNCHANGED <<tip, meta, phase, ack, high, maps, history, bounds>>

\* Slip: the loop goes on while any file is fully acked, the live one included.
SweepDoneNoneAcked ==
    /\ At("sweep") /\ \A i \in DOMAIN segs : ~FullyAcked(segs[i])
    /\ IF op.cut THEN Prune(segs) ELSE UNCHANGED <<maps, faults>>
    /\ op' = Idle
    /\ UNCHANGED <<disk, phase, ack, high, totalBytes, history, appends>>

SweepDone ==
    /\ At("sweep") /\ Sweepable = {}
    /\ IF op.cut THEN Prune(segs) ELSE UNCHANGED <<maps, faults>>
    /\ op' = Idle
    /\ UNCHANGED <<disk, phase, ack, high, totalBytes, history, appends>>

-----------------------------------------------------------------------------
(* Failures, shutdown and recovery.                                        *)

\* Records removed by the drop whose marker is still to be written.
Pending == IF At("mark") THEN Covered(op.loss) ELSE {}

\* failAmbiguousLocked: an I/O call of Append or AppendLoss failed, either
\* before its effect on the disk or after it.  The WAL latches fatal.
LateEffect ==
    \/ /\ At("gc") /\ SealedCount > 0 /\ FullyAcked(segs[1]) /\ Unlink(1)
       /\ UNCHANGED tip
    \/ /\ At("drop") /\ OverBudget /\ SealedCount > 0 /\ Unlink(1)
       /\ UNCHANGED tip
    \/ /\ op.pc \in {"mark", "note"} /\ tip = "live" /\ PutRecord(op.loss)
       /\ UNCHANGED tip
    \/ /\ At("place") /\ tip = "live" /\ ~MustRoll /\ PutRecord(Data(op.gen, op.seq))
       /\ UNCHANGED tip
    \/ /\ At("place") /\ tip = "live" /\ MustRoll /\ tip' = "none"
       /\ UNCHANGED <<segs, diskBytes>>

Removed == OnDisk \ (OnDisk)'

FailAmbiguous ==
    /\ Fault
    /\ Holding({"gc", "drop", "mark", "note", "place"})
    /\ \/ LateEffect
       \/ UNCHANGED <<segs, tip, diskBytes>>
    /\ phase' = "fatal"
    /\ op' = Idle
    /\ interrupted' = interrupted \cup Pending
                      \cup (IF At("drop") THEN Removed ELSE {})
    /\ UNCHANGED <<meta, memory, top, late, written, acked, reported, disordered, appends>>

\* A file that cannot be read or removed is left, and the sweep goes on behind
\* it.  No latch.
SweepSkips ==
    /\ Fault
    /\ At("sweep") /\ Sweepable # {}
    /\ op' = [op EXCEPT !.at = Min(Sweepable) + 1]
    /\ UNCHANGED <<disk, phase, memory, history, appends>>

\* MarkAcked returns an error: ReadDir failed before the first file or syncDir
\* after the last, and the maps are not pruned.
SweepFails ==
    /\ Fault
    /\ At("sweep")
    /\ IF op.cut THEN Sweepable = {} ELSE op.at = 1
    /\ op' = Idle
    /\ UNCHANGED <<disk, phase, memory, history, appends>>

\* The process dies.  A segment file created but not yet given its header is
\* left behind under its .INPROGRESS name.
Crash ==
    /\ Fault
    /\ phase # "down"
    /\ phase' = "down"
    /\ op' = Idle
    /\ interrupted' = interrupted \cup Pending
    /\ \/ UNCHANGED <<segs, tip>>
       \/ /\ op.pc \in {"mark", "note", "place"} /\ tip = "none"
          /\ segs' = Append(segs, NewSegment(op.gen))
          /\ tip' = "torn"
    /\ ack' = NoAck /\ high' = <<0, 0>> /\ totalBytes' = 0
    /\ dataHigh' = [g \in Gens |-> -1] /\ replayable' = {} /\ overlooked' = {}
    /\ UNCHANGED <<meta, diskBytes, top, late, written, acked, reported, disordered, appends>>

\* (*WAL).Close: the live segment keeps its .INPROGRESS name.
Close ==
    /\ phase \in {"open", "fatal"} /\ At("idle")
    /\ phase' = "closed"
    /\ UNCHANGED <<disk, memory, op, history, bounds>>

\* recover scans the last file only for the high watermark: its header names
\* the generation, its last user record the tuple.
RecoveredHigh ==
    IF segs = << >> THEN <<0, 0>>
    ELSE IF HasUser(Live)
         THEN LET r == Live.recs[Max(DataAt(Live))] IN <<r.gen, r.from>>
         ELSE <<Live.gen, 0>>

\* h is the highest user sequence on disk for generation g, -1 without any.
SeqsOnDisk(g) == UNION {SeqsOf(segs[i]) : i \in {j \in DOMAIN segs : segs[j].gen = g}}
IsDiskHigh(g, h) ==
    IF SeqsOnDisk(g) = {} THEN h = -1
    ELSE h \in SeqsOnDisk(g) /\ \A s \in SeqsOnDisk(g) : s <= h

\* Slip: the ack is taken from the records instead of meta.json.
OpenAckFromRecords ==
    /\ phase \in {"down", "closed"} /\ At("idle") /\ tip # "torn"
    /\ phase' = "open"
    /\ ack' = RecoveredHigh
    /\ high' = RecoveredHigh
    /\ \E dh \in [Gens -> Seqs \cup {-1}] :
          (\A g \in Gens : IsDiskHigh(g, dh[g])) /\ dataHigh' = dh
    /\ replayable' = {segs[i].gen : i \in {j \in DOMAIN segs : segs[j].recs # << >>}}
    /\ totalBytes' = diskBytes /\ overlooked' = {}
    /\ UNCHANGED <<disk, op, history, bounds>>

\* Open on an existing directory.  A last file without a header makes recover
\* return the error of ReadSegmentHeader, so Open never succeeds again.
Open ==
    /\ phase \in {"down", "closed"} /\ At("idle") /\ tip # "torn"
    /\ phase' = "open"
    /\ ack' = meta
    /\ high' = RecoveredHigh
    /\ \E dh \in [Gens -> Seqs \cup {-1}] :
          (\A g \in Gens : IsDiskHigh(g, dh[g])) /\ dataHigh' = dh
    /\ replayable' = {segs[i].gen : i \in {j \in DOMAIN segs : segs[j].recs # << >>}}
    /\ totalBytes' = diskBytes /\ overlooked' = {}
    /\ UNCHANGED <<disk, op, history, bounds>>

-----------------------------------------------------------------------------
Init ==
    /\ segs = << >> /\ tip = "none" /\ meta = NoAck /\ diskBytes = 0
    /\ phase = "open" /\ op = Idle
    /\ ack = NoAck /\ high = <<0, 0>> /\ dataHigh = [g \in Gens |-> -1]
    /\ replayable = {} /\ totalBytes = 0 /\ overlooked = {}
    /\ top = NoAck /\ late = {} /\ written = {} /\ acked = NoAck
    /\ reported = {} /\ interrupted = {} /\ disordered = {}
    /\ faults = 0 /\ appends = 0

\* The steps of the operation that holds the lock.
OpStep ==
    \/ GcAcked \/ GcAckedDone \/ DropOldest \/ DropDone
    \/ OpenSegment \/ WriteLoss \/ SealCurrent \/ WriteRecord
    \/ Sweep \/ SweepDone

Next ==
    \/ \E t \in Stamps : AppendStart(t[1], t[2]) \/ AppendLoss(t[1], t[2])
    \/ \E g \in Gens, s \in Seqs : MarkAcked(g, s) \/ MarkAckedFails(g, s)
    \/ OpStep
    \/ FailAmbiguous \/ SweepSkips \/ SweepFails \/ Crash \/ Close \/ Open

Spec == Init /\ [][Next]_vars

\* w.mu is held by a running goroutine, which the scheduler keeps running.
FairSpec == Spec /\ WF_vars(OpStep)

-----------------------------------------------------------------------------
(* What the log promises.                                                  *)

OpPcs   == {"idle", "gc", "drop", "mark", "note", "place", "sweep"}
OpTypes == [pc : OpPcs,
            gen : Gens \cup {0}, seq : Seqs \cup {0}, cut : BOOLEAN, at : Nat \ {0},
            loss : Records \cup {Loss(0, 0, 0)}]

\* Every variable has the type its declaration in wal.go gives it.
TypeOK ==
    /\ segs \in Seq(Segments)
    /\ tip \in {"none", "live", "torn"}
    /\ tip # "none" => segs # << >>
    /\ meta \in Tuples \cup {NoAck}
    /\ diskBytes \in Int
    /\ phase \in {"open", "fatal", "closed", "down"}
    /\ ack \in Tuples \cup {NoAck}
    /\ high \in (Gens \cup {0}) \X (Seqs \cup {0})
    /\ dataHigh \in [Gens -> Seqs \cup {-1}]
    /\ replayable \in SUBSET Gens /\ overlooked \in SUBSET Gens
    /\ totalBytes \in Int
    /\ op \in OpTypes
    /\ top \in Tuples \cup {NoAck} /\ late \in SUBSET Tuples
    /\ written \in SUBSET Tuples
    /\ acked \in Tuples \cup {NoAck}
    /\ reported \in SUBSET Tuples
    /\ interrupted \in SUBSET Tuples /\ disordered \in SUBSET Tuples
    /\ faults \in Nat /\ appends \in Nat

\* The WAL does not reorder: whatever was dropped, swept or interrupted by a
\* crash on the way, a record on disk that is not above all records before it
\* was handed to Append after a higher one.  And a file holds records of its
\* header's generation only, which is all the ack tuple is compared with.
SegmentsOrdered == Ordered(segs, late)

\* A record whose Append returned success is on disk until the receiver's ack
\* covers it or an overflow marker that names it has been made durable.  The
\* exceptions are the records of a drop that a crash or an I/O error cut off
\* from its marker, and those of a dropped file in which some record had
\* arrived late: its marker goes from the first record to the last.
LossAccounted ==
    \A t \in written :
        \/ t \in OnDisk
        \/ TupleLeq(t, acked)
        \/ t \in reported \cup interrupted \cup disordered \cup Pending

\* The ack watermark of a running WAL is never below the one in meta.json, and
\* never above what a caller of MarkAcked asked for: recovery can only forget
\* acks whose WriteMeta failed.
AckMirror ==
    /\ phase # "down" => TupleLeq(meta, ack) /\ TupleLeq(ack, acked)
    /\ TupleLeq(meta, acked)

\* WrittenDataHighWater and HasReplayableRecords never under-report, across
\* drops, sweeps, skipped files, failed sweeps and recovery: the map's entry of
\* a generation is not below any of its records on disk, and a generation with
\* a record or a marker on disk counts as replayable.  The exception is a
\* generation none of whose files could be opened when the maps were pruned.
WatermarksCoverDisk ==
    phase = "open" =>
        \A i \in {j \in DOMAIN segs : segs[j].gen \notin overlooked} :
            /\ \A s \in SeqsOf(segs[i]) : s <= dataHigh[segs[i].gen]
            /\ segs[i].recs # << >> => segs[i].gen \in replayable

\* meta.json never goes back, not even across crashes and reopenings.
MetaNeverRegresses == [][TupleLeq(meta, meta')]_vars

\* The directory and the file-by-file steps of Append, MarkAcked and recovery
\* implement the abstract log: an entry leaves the disk only acknowledged, or
\* with the oldest batch, whose marker is written before the record it made
\* room for and names all of it unless an entry of the batch arrived late.
Log == INSTANCE AuditLog WITH
    Entries <- Tuples, held <- OnDisk, acked <- acked,
    owed <- Pending, noticed <- reported, cutOff <- interrupted, missed <- disordered

ImplementsLog == Log!LogSpec

\* Append's reclamation loop and MarkAcked's sweep end: w.mu is released.
LockReleased == (op.pc # "idle") ~> (op.pc = "idle")
=============================================================================
