-------------------------- MODULE TransportProofs --------------------------
(***************************************************************************)
(* Theorems about Transport: types, the ack path, the wake-up of Live, the *)
(* inflight window and the order of what is sent, for every number of      *)
(* generations, sequences, records and faults, and for a server that may   *)
(* claim anything (ServerClaims is any set of tuples).  The last theorem,  *)
(* that the client skips no record written in its place, is for one        *)
(* generation and a server that acks what it has.                          *)
(***************************************************************************)
EXTENDS Transport, BaseProofs, SequenceTheorems

AckTuples == Tuples \cup {NoAck}

AckTypes ==
    /\ log \in Seq(Records)
    /\ persisted \in Tuples /\ cursor \in Tuples /\ present \in BOOLEAN
    /\ meta \in AckTuples /\ mirror \in AckTuples

\* perGenDataHighWater never names a sequence above the data.
HighWritten ==
    \A g \in Gens : dataHigh[g] # -1 => \E i \in DataAt : log[i].gen = g /\ dataHigh[g] <= log[i].from
HighInv == dataHigh \in [Gens -> Seqs \cup {-1}] /\ HighWritten

\* The inductive invariant.
AckCore == AckTypes /\ AckChain /\ AckWithinWritten
AckInv  == AckCore /\ HighInv

-----------------------------------------------------------------------------
(* Tuples.                                                                 *)

LEMMA TupleType ==
  ASSUME NEW t \in Tuples
  PROVE  t = <<t[1], t[2]>> /\ t[1] \in Gens /\ t[2] \in Seqs /\ t[1] \in Nat /\ t[2] \in Nat
<1>1. PICK g \in Gens, q \in Seqs : t = <<g, q>>
  BY DEF Tuples
<1>2. g \in Nat /\ q \in Nat
  BY TransportConstants DEF Seqs
<1> QED BY <1>1, <1>2

LEMMA AckTupleType ==
  ASSUME NEW t \in AckTuples
  PROVE  t \in Int \X Int
<1>1. CASE t \in Tuples
  BY <1>1, TupleType
<1>2. CASE t = NoAck
  BY <1>2 DEF NoAck
<1> QED BY <1>1, <1>2 DEF AckTuples

LEMMA ZeroTuple == <<0, 0>> \in Tuples /\ \A t \in Tuples : TupleLeq(<<0, 0>>, t)
<1>1. <<0, 0>> \in Tuples
  BY TransportConstants DEF Tuples, Seqs
<1>2. ASSUME NEW t \in Tuples PROVE TupleLeq(<<0, 0>>, t)
  <2>1. t = <<t[1], t[2]>> /\ t[1] \in Nat /\ t[2] \in Nat
    BY TupleType
  <2> QED BY <2>1 DEF TupleLeq, TupleLess
<1> QED BY <1>1, <1>2

LEMMA NotBelowNoAck ==
  ASSUME NEW t \in Tuples
  PROVE  ~TupleLeq(t, NoAck)
<1>1. t = <<t[1], t[2]>> /\ t[1] \in Nat /\ t[2] \in Nat
  BY TupleType
<1> QED BY <1>1 DEF TupleLeq, TupleLess, NoAck

LEMMA MaxTuple ==
  ASSUME NEW a \in AckTuples, NEW b \in AckTuples
  PROVE  /\ TupleMax(a, b) \in AckTuples
         /\ TupleMax(a, b) \in {a, b}
         /\ TupleLeq(a, TupleMax(a, b)) /\ TupleLeq(b, TupleMax(a, b))
<1>1. a \in Int \X Int /\ b \in Int \X Int
  BY AckTupleType
<1>2. TupleLeq(a, TupleMax(a, b)) /\ TupleLeq(b, TupleMax(a, b))
  BY <1>1, Lexicographic
<1> QED BY <1>2 DEF TupleMax

LEMMA TwoAppended ==
  ASSUME NEW s \in Seq(Records), NEW a \in Records, NEW b \in Records
  PROVE  s \o <<a, b>> = Append(Append(s, a), b)
<1> DEFINE u == s \o <<a, b>>
           v == Append(Append(s, a), b)
<1>1. /\ u \in Seq(Records) /\ v \in Seq(Records) /\ Len(s) \in Nat
      /\ Len(u) = Len(s) + 2 /\ Len(v) = Len(s) + 2
  OBVIOUS
<1>2. \A i \in 1..(Len(s) + 2) : u[i] = v[i]
  <2> TAKE i \in 1..(Len(s) + 2)
  <2>1. CASE i \in 1..Len(s)
    BY <2>1
  <2>2. CASE i = Len(s) + 1
    BY <2>2
  <2>3. CASE i = Len(s) + 2
    BY <2>3
  <2> QED BY <1>1, <2>1, <2>2, <2>3
<1> HIDE DEF u, v
<1>3. u = v
  BY <1>1, <1>2, SeqEqual
<1> QED BY <1>3 DEF u, v

-----------------------------------------------------------------------------
(* The log only grows.                                                     *)

Grows == /\ log' \in Seq(Records)
         /\ Len(log) <= Len(log')
         /\ \A i \in 1..Len(log) : log'[i] = log[i]

\* The steps that change what the WAL holds.
LEMMA WalSteps ==
  [Next]_vars => \/ \E t \in Tuples : WalAppend(t) \/ WalAppendLoss(t)
                 \/ Reclaim
                 \/ Restart
                 \/ UNCHANGED walVars
<1> SUFFICES ASSUME [Next]_vars
             PROVE  \/ \E t \in Tuples : WalAppend(t) \/ WalAppendLoss(t)
                    \/ Reclaim
                    \/ Restart
                    \/ UNCHANGED walVars
  OBVIOUS
<1>1. CASE Writer
  BY <1>1 DEF Writer
<1>2. CASE UNCHANGED vars
  BY <1>2 DEF vars
<1>3. CASE Client
  BY <1>3 DEF Client, Connect, PlanReplay, OpenStage, ReplayRead, ReplaySend,
     ReplayDone, EnterLive, LiveDrain, LiveDrained, ShutdownDrain, ShutdownFlush
<1>4. CASE ReplayRecv \/ LiveNotify \/ LiveTick \/ LiveRecv
  BY <1>4 DEF ReplayRecv, LiveNotify, LiveTick, LiveRecv
<1>5. CASE Disconnect \/ Rejected \/ Stop \/ StopLive
  BY <1>5 DEF Disconnect, Rejected, Stop, StopLive
<1>6. CASE ServerTake \/ ServerHeartbeat
  BY <1>6 DEF ServerTake, ServerHeartbeat
<1> QED BY <1>1, <1>2, <1>3, <1>4, <1>5, <1>6 DEF Next

\* The records a writer puts in the log.
LEMMA WrittenRecords ==
  ASSUME log \in Seq(Records)
  PROVE  /\ \A g \in Gens : LiveFile(g) \in Gens
         /\ \A t \in Tuples : /\ Data(t[1], t[2]) \in Records
                              /\ Marker("inflight", t[1], t[2], t[2], LiveFile(t[1])) \in Records
         /\ \A j, k \in DOMAIN log : DataOf(j, k) # {} => DropMarker(j, k) \in Records
<1>n. /\ Len(log) \in Nat /\ DOMAIN log = 1..Len(log)
      /\ \A i \in 1..Len(log) : log[i] \in Records
  OBVIOUS
<1>1. ASSUME NEW g \in Gens PROVE LiveFile(g) \in Gens
  <2>1. CASE log = << >>
    BY <2>1 DEF LiveFile
  <2>2. CASE log # << >>
    <3>1. Len(log) \in 1..Len(log)
      BY <2>2
    <3>2. log[Len(log)] \in Records
      BY <3>1
    <3> QED BY <2>2, <3>2 DEF LiveFile, Records
  <2> QED BY <2>1, <2>2
<1>2. ASSUME NEW t \in Tuples
      PROVE  /\ Data(t[1], t[2]) \in Records
             /\ Marker("inflight", t[1], t[2], t[2], LiveFile(t[1])) \in Records
  <2>1. t[1] \in Gens /\ t[2] \in Seqs
    BY TupleType
  <2>2. LiveFile(t[1]) \in Gens
    BY <2>1, <1>1
  <2> QED BY <2>1, <2>2 DEF Data, Marker, Records
<1>3. ASSUME NEW j \in DOMAIN log, NEW k \in DOMAIN log, DataOf(j, k) # {}
      PROVE  DropMarker(j, k) \in Records
  <2> DEFINE ds == DataOf(j, k)
  <2>1. ds \in SUBSET (0..Len(log)) /\ ds \in SUBSET Nat /\ ds # {} /\ ds \subseteq 1..Len(log)
    BY <1>3, <1>n DEF DataOf, DataAt
  <2> HIDE DEF ds
  <2>2. Min(ds) \in ds
    BY <2>1, MinIsLeast
  <2>3. Max(ds) \in ds
    BY <2>1, <1>n, MaxIsGreatest
  <2>4. log[Min(ds)].from \in Seqs /\ log[Max(ds)].from \in Seqs /\ log[k].file \in Gens
    <3>1. log[Min(ds)] \in Records /\ log[Max(ds)] \in Records /\ log[k] \in Records
      BY <2>1, <2>2, <2>3, <1>n
    <3> QED BY <3>1 DEF Records
  <2>5. DropMarker(j, k) = Marker("overflow", log[k].file, log[Min(ds)].from,
                                  log[Max(ds)].from, LiveFile(log[k].file))
    BY DEF DropMarker, ds
  <2>6. LiveFile(log[k].file) \in Gens
    BY <2>4, <1>1
  <2> QED BY <2>4, <2>5, <2>6 DEF Marker, Records
<1> QED BY <1>1, <1>2, <1>3

LEMMA LogStep == log \in Seq(Records) /\ [Next]_vars => Grows
<1> SUFFICES ASSUME log \in Seq(Records), [Next]_vars PROVE Grows
  OBVIOUS
<1>1. ASSUME NEW r \in Records, log' = Append(log, r) PROVE Grows
  BY <1>1 DEF Grows
<1>2. ASSUME NEW r \in Records, NEW q \in Records, log' = log \o <<r, q>> PROVE Grows
  <2>1. <<r, q>> \in Seq(Records) /\ Len(<<r, q>>) = 2
    OBVIOUS
  <2>2. /\ log' \in Seq(Records) /\ Len(log') = Len(log) + 2
        /\ \A i \in 1..Len(log) : log'[i] = log[i]
    BY <1>2, <2>1
  <2> QED BY <2>2 DEF Grows
<1>3. ASSUME log' = log PROVE Grows
  BY <1>3 DEF Grows
<1>4. ASSUME NEW t \in Tuples, WalAppend(t) PROVE Grows
  <2>1. CASE log' = Append(log, Data(t[1], t[2]))
    BY <2>1, <1>1, WrittenRecords
  <2>2. ASSUME NEW j \in DOMAIN log, NEW k \in DOMAIN log, DataOf(j, k) # {},
               log' = log \o <<DropMarker(j, k), Data(t[1], t[2])>>
        PROVE  Grows
    BY <2>2, <1>2, WrittenRecords
  <2> QED BY <1>4, <2>1, <2>2 DEF WalAppend
<1>5. ASSUME NEW t \in Tuples, WalAppendLoss(t) PROVE Grows
  BY <1>5, <1>1, WrittenRecords DEF WalAppendLoss
<1>6. CASE Reclaim \/ Restart \/ UNCHANGED walVars
  BY <1>6, <1>3 DEF Reclaim, Restart, walVars
<1> QED BY <1>4, <1>5, <1>6, WalSteps

\* What was written stays written.
LEMMA WrittenStays ==
  ASSUME log \in Seq(Records), Grows, NEW a \in AckTuples,
         \E i \in DataAt : log[i].gen = a[1] /\ a[2] <= log[i].from
  PROVE  \E i \in DataAt' : log'[i].gen = a[1] /\ a[2] <= log'[i].from
<1>1. PICK i \in DataAt : log[i].gen = a[1] /\ a[2] <= log[i].from
  OBVIOUS
<1>2. i \in 1..Len(log) /\ IsData(log[i])
  BY DEF DataAt
<1>3. log'[i] = log[i] /\ i \in DOMAIN log'
  BY <1>2 DEF Grows
<1>4. i \in DataAt'
  BY <1>2, <1>3 DEF DataAt, IsData
<1> QED BY <1>1, <1>3, <1>4

\* An entry kept from dataHigh is still written; Pruned only removes entries.
LEMMA HighKept ==
  ASSUME log \in Seq(Records), Grows, HighInv, NEW out
  PROVE  \A d \in {dataHigh, Pruned(out)} :
            /\ d \in [Gens -> Seqs \cup {-1}]
            /\ \A g \in Gens : d[g] # -1
                   => \E i \in DataAt' : log'[i].gen = g /\ d[g] <= log'[i].from
<1> TAKE d \in {dataHigh, Pruned(out)}
<1>1. d \in [Gens -> Seqs \cup {-1}] /\ \A g \in Gens : d[g] \in {dataHigh[g], -1}
  BY DEF HighInv, Pruned
<1>2. ASSUME NEW g \in Gens, d[g] # -1
      PROVE  \E i \in DataAt' : log'[i].gen = g /\ d[g] <= log'[i].from
  <2>1. d[g] = dataHigh[g] /\ d[g] \in Seqs
    BY <1>1, <1>2
  <2>2. PICK i \in DataAt : log[i].gen = g /\ dataHigh[g] <= log[i].from
    BY <1>2, <2>1 DEF HighInv, HighWritten
  <2>3. i \in 1..Len(log) /\ IsData(log[i])
    BY DEF DataAt
  <2>4. log'[i] = log[i] /\ i \in DOMAIN log'
    BY <2>3 DEF Grows
  <2>5. i \in DataAt'
    BY <2>3, <2>4 DEF DataAt, IsData
  <2> QED BY <2>1, <2>2, <2>4, <2>5
<1> QED BY <1>1, <1>2

LEMMA HighStep == log \in Seq(Records) /\ HighInv /\ [Next]_vars => HighInv'
<1> SUFFICES ASSUME log \in Seq(Records), HighInv, [Next]_vars PROVE HighInv'
  OBVIOUS
<1>g. Grows
  BY LogStep
<1>1. ASSUME NEW out, dataHigh' \in {dataHigh, Pruned(out)} PROVE HighInv'
  <2>1. \A d \in {dataHigh, Pruned(out)} :
            /\ d \in [Gens -> Seqs \cup {-1}]
            /\ \A g \in Gens : d[g] # -1
                   => \E i \in DataAt' : log'[i].gen = g /\ d[g] <= log'[i].from
    BY <1>g, HighKept
  <2>2. /\ dataHigh' \in [Gens -> Seqs \cup {-1}]
        /\ \A g \in Gens : dataHigh'[g] # -1
               => \E i \in DataAt' : log'[i].gen = g /\ dataHigh'[g] <= log'[i].from
    BY <1>1, <2>1
  <2> QED BY <2>2 DEF HighInv, HighWritten
<1>2. ASSUME NEW t \in Tuples, NEW out, NEW d \in {dataHigh, Pruned(out)},
             dataHigh' = Raised(d, t),
             \E i \in DataAt' : log'[i].gen = t[1] /\ t[2] <= log'[i].from
      PROVE  HighInv'
  <2>1. /\ d \in [Gens -> Seqs \cup {-1}]
        /\ \A g \in Gens : d[g] # -1
               => \E i \in DataAt' : log'[i].gen = g /\ d[g] <= log'[i].from
    BY <1>g, HighKept
  <2>2. t[1] \in Gens /\ t[2] \in Seqs
    BY TupleType
  <2>3. /\ dataHigh' \in [Gens -> Seqs \cup {-1}]
        /\ \A g \in Gens : dataHigh'[g] = d[g] \/ (g = t[1] /\ dataHigh'[g] = t[2])
    <3>1. \A v \in {t[2], d[t[1]]} : v \in Seqs \cup {-1}
      BY <2>1, <2>2
    <3>2. \E v \in {t[2], d[t[1]]} : dataHigh' = [d EXCEPT ![t[1]] = v]
      BY <1>2, <2>1, <2>2 DEF Raised
    <3>3. PICK v \in {t[2], d[t[1]]} : dataHigh' = [d EXCEPT ![t[1]] = v]
      BY <3>2
    <3>4. v \in Seqs \cup {-1} /\ v \in {t[2], d[t[1]]}
      BY <3>1
    <3>5. dataHigh' \in [Gens -> Seqs \cup {-1}]
      BY <2>1, <2>2, <3>3, <3>4
    <3>6. \A g \in Gens : dataHigh'[g] = IF g = t[1] THEN v ELSE d[g]
      BY <2>1, <3>3
    <3>7. ASSUME NEW g \in Gens PROVE dataHigh'[g] = d[g] \/ (g = t[1] /\ dataHigh'[g] = t[2])
      <4>1. CASE g = t[1]
        <5>1. dataHigh'[g] = v
          BY <3>6, <4>1
        <5>2. v = t[2] \/ v = d[g]
          BY <3>4, <4>1
        <5> QED BY <4>1, <5>1, <5>2
      <4>2. CASE g # t[1]
        BY <3>6, <4>2
      <4> QED BY <4>1, <4>2
    <3> QED BY <3>5, <3>7
  <2>4. ASSUME NEW g \in Gens, dataHigh'[g] # -1
        PROVE  \E i \in DataAt' : log'[i].gen = g /\ dataHigh'[g] <= log'[i].from
    <3>1. CASE dataHigh'[g] = d[g]
      BY <3>1, <2>1, <2>4
    <3>2. CASE g = t[1] /\ dataHigh'[g] = t[2]
      BY <3>2, <1>2
    <3> QED BY <3>1, <3>2, <2>3
  <2> QED BY <2>3, <2>4 DEF HighInv, HighWritten
<1>3. ASSUME NEW t \in Tuples, WalAppend(t) PROVE HighInv'
  <2>d. Data(t[1], t[2]) \in Records /\ IsData(Data(t[1], t[2]))
        /\ Data(t[1], t[2]).gen = t[1] /\ Data(t[1], t[2]).from = t[2] /\ t[2] \in Nat
    BY WrittenRecords, TupleType DEF Data, IsData
  <2>l. ASSUME NEW n \in Nat, log' \in Seq(Records), Len(log') = n, n # 0, log'[n] = Data(t[1], t[2])
        PROVE  \E i \in DataAt' : log'[i].gen = t[1] /\ t[2] <= log'[i].from
    <3>1. n \in DOMAIN log'
      BY <2>l
    <3>2. n \in DataAt'
      BY <3>1, <2>l, <2>d DEF DataAt
    <3> QED BY <3>2, <2>l, <2>d
  <2>1. CASE log' = Append(log, Data(t[1], t[2])) /\ dataHigh' = Raised(dataHigh, t)
    <3>1. log' \in Seq(Records) /\ Len(log') = Len(log) + 1 /\ Len(log) \in Nat
          /\ log'[Len(log) + 1] = Data(t[1], t[2])
      BY <2>1, <2>d
    <3>2. \E i \in DataAt' : log'[i].gen = t[1] /\ t[2] <= log'[i].from
      BY <3>1, <2>l
    <3> QED BY <2>1, <3>2, <1>2
  <2>2. ASSUME NEW j \in DOMAIN log, NEW k \in DOMAIN log, DataOf(j, k) # {},
               log' = log \o <<DropMarker(j, k), Data(t[1], t[2])>>,
               NEW d \in {dataHigh, Pruned(j..k)}, dataHigh' = Raised(d, t)
        PROVE  HighInv'
    <3>1. DropMarker(j, k) \in Records
      BY <2>2, WrittenRecords
    <3>2. log' = Append(Append(log, DropMarker(j, k)), Data(t[1], t[2]))
      BY <3>1, <2>d, <2>2, TwoAppended
    <3>3. Append(log, DropMarker(j, k)) \in Seq(Records) /\ Len(log) \in Nat
          /\ Len(Append(log, DropMarker(j, k))) = Len(log) + 1
      BY <3>1
    <3>4. log' \in Seq(Records) /\ Len(log') = Len(log) + 2
          /\ log'[Len(log) + 2] = Data(t[1], t[2])
      BY <3>2, <3>3, <2>d
    <3>5. \E i \in DataAt' : log'[i].gen = t[1] /\ t[2] <= log'[i].from
      BY <3>3, <3>4, <2>l
    <3> QED BY <2>2, <3>5, <1>2
  <2> QED BY <1>3, <2>1, <2>2 DEF WalAppend
<1>4. ASSUME NEW t \in Tuples, WalAppendLoss(t) PROVE HighInv'
  BY <1>4, <1>1 DEF WalAppendLoss
<1>5. CASE Reclaim
  BY <1>5, <1>1 DEF Reclaim
<1>6. CASE UNCHANGED walVars
  BY <1>6, <1>1 DEF walVars
<1>7. CASE Restart
  <2>1. /\ log' = log
        /\ dataHigh' = [g \in Gens |-> IF DataOnDisk(g) = {} THEN -1
                                      ELSE Max({log[i].from : i \in DataOnDisk(g)})]
    BY <1>7 DEF Restart
  <2>2. ASSUME NEW g \in Gens, DataOnDisk(g) # {}
        PROVE  \E i \in DataAt : /\ log[i].gen = g
                                 /\ Max({log[j].from : j \in DataOnDisk(g)}) = log[i].from
                                 /\ log[i].from \in Seqs
    <3> DEFINE S == {log[j].from : j \in DataOnDisk(g)}
    <3>1. \A i \in DataOnDisk(g) : i \in DataAt /\ log[i].gen = g /\ log[i].from \in Seqs
      <4>1. \A i \in DOMAIN log : log[i] \in Records
        OBVIOUS
      <4>2. \A r \in Records : r.from \in Seqs
        BY DEF Records
      <4> QED BY <4>1, <4>2 DEF DataOnDisk, DataAt
    <3>2. S \in SUBSET (0..MaxSeq) /\ S # {}
      BY <2>2, <3>1 DEF Seqs
    <3> HIDE DEF S
    <3>3. Max(S) \in S
      BY <3>2, MaxIsGreatest, TransportConstants
    <3> QED BY <3>1, <3>3 DEF S
  <2>3. \A g \in Gens : dataHigh'[g] = -1 \/ \E i \in DataAt : /\ log[i].gen = g
                                                             /\ dataHigh'[g] = log[i].from
                                                             /\ log[i].from \in Seqs
    BY <2>1, <2>2
  <2>4. dataHigh' \in [Gens -> Seqs \cup {-1}]
    <3>1. \A g \in Gens : dataHigh'[g] \in Seqs \cup {-1}
      BY <2>3
    <3>2. dataHigh' = [g \in Gens |-> dataHigh'[g]]
      BY <2>1
    <3> QED BY <3>1, <3>2
  <2>5. DataAt' = DataAt
    BY <2>1 DEF DataAt
  <2>6. ASSUME NEW g \in Gens, dataHigh'[g] # -1
        PROVE  \E i \in DataAt' : log'[i].gen = g /\ dataHigh'[g] <= log'[i].from
    <3>1. PICK i \in DataAt : log[i].gen = g /\ dataHigh'[g] = log[i].from /\ log[i].from \in Seqs
      BY <2>3, <2>6
    <3>2. dataHigh'[g] <= log[i].from
      BY <3>1, TransportConstants DEF Seqs
    <3> QED BY <3>1, <3>2, <2>1, <2>5
  <2> QED BY <2>4, <2>6 DEF HighInv, HighWritten
<1> QED BY <1>3, <1>4, <1>5, <1>6, <1>7, WalSteps

-----------------------------------------------------------------------------
(* The steps of the ack path.                                              *)

\* A step either leaves the ack state alone, or applies one ack, or restarts.
LEMMA AckSteps ==
  [Next]_vars => \/ UNCHANGED ackVars
                 \/ \E a \in Tuples : ApplyAck(a)
                 \/ Restart
<1> SUFFICES ASSUME [Next]_vars
             PROVE  \/ UNCHANGED ackVars
                    \/ \E a \in Tuples : ApplyAck(a)
                    \/ Restart
  OBVIOUS
<1>1. CASE Writer
  BY <1>1 DEF Writer, WalAppend, WalAppendLoss
<1>2. CASE Reclaim
  BY <1>2 DEF Reclaim
<1>3. CASE Connect
  BY <1>3 DEF Connect
<1>4. CASE PlanReplay \/ OpenStage \/ ReplayRead \/ ReplaySend \/ ReplayDone
  BY <1>4 DEF PlanReplay, OpenStage, ReplayRead, ReplaySend, ReplayDone
<1>5. CASE EnterLive \/ LiveDrain \/ LiveDrained \/ ShutdownDrain \/ ShutdownFlush
  BY <1>5 DEF EnterLive, LiveDrain, LiveDrained, ShutdownDrain, ShutdownFlush
<1>6. CASE ReplayRecv
  BY <1>6 DEF ReplayRecv
<1>7. CASE LiveRecv
  BY <1>7 DEF LiveRecv, ApplyAck
<1>8. CASE LiveNotify \/ LiveTick
  BY <1>8 DEF LiveNotify, LiveTick
<1>9. CASE Disconnect \/ Rejected \/ Stop \/ StopLive
  BY <1>9 DEF Disconnect, Rejected, Stop, StopLive
<1>10. CASE ServerTake \/ ServerHeartbeat
  BY <1>10 DEF ServerTake, ServerHeartbeat
<1>11. CASE UNCHANGED vars
  BY <1>11 DEF vars
<1> QED BY <1>1, <1>2, <1>3, <1>4, <1>5, <1>6, <1>7, <1>8, <1>9, <1>10, <1>11
        DEF Next, Client

\* An adopted ack is at the start of a generation or within what was written.
LEMMA AdoptableWritten ==
  ASSUME HighInv, log \in Seq(Records), NEW a \in Tuples, Adoptable(a), a[2] # 0
  PROVE  \E i \in DataAt : log[i].gen = a[1] /\ a[2] <= log[i].from
<1>1. a[1] \in Gens /\ a[2] \in Nat
  BY TupleType
<1>2. dataHigh[a[1]] >= a[2]
  BY DEF Adoptable, WrittenUpTo
<1>3. dataHigh[a[1]] \in Int /\ dataHigh[a[1]] # -1
  <2>1. dataHigh[a[1]] \in Seqs \cup {-1}
    BY <1>1 DEF HighInv
  <2>2. \A x \in Seqs \cup {-1} : x \in Int
    BY TransportConstants DEF Seqs
  <2> QED BY <1>1, <1>2, <2>1, <2>2
<1>4. PICK i \in DataAt : log[i].gen = a[1] /\ dataHigh[a[1]] <= log[i].from
  BY <1>1, <1>3 DEF HighInv, HighWritten
<1>5. log[i].from \in Int
  <2>1. log[i] \in Records
    BY DEF DataAt
  <2>2. \A r \in Records : r.from \in Int
    BY TransportConstants DEF Records, Seqs
  <2> QED BY <2>1, <2>2
<1> QED BY <1>1, <1>2, <1>3, <1>4, <1>5

\* An adopted ack is above persistedAck, or the first one there is.
LEMMA AdoptableAdvances ==
  ASSUME AckInv, NEW a \in Tuples, Adoptable(a)
  PROVE  TupleLeq(persisted, a)
<1>1. CASE present
  BY <1>1 DEF Adoptable, TupleLeq
<1>2. CASE ~present
  BY <1>2, ZeroTuple DEF AckInv, AckCore, AckChain
<1> QED BY <1>1, <1>2 DEF AckInv, AckCore, AckTypes

LEMMA AckStep == AckInv /\ [Next]_vars => AckInv' /\ TupleLeq(persisted, persisted')
<1> SUFFICES ASSUME AckInv, [Next]_vars
             PROVE  AckCore' /\ TupleLeq(persisted, persisted')
  BY HighStep DEF AckInv, AckCore, AckTypes
<1>l. log \in Seq(Records) /\ Grows
  BY LogStep DEF AckInv, AckCore, AckTypes
<1>t. /\ persisted \in Tuples /\ cursor \in Tuples /\ present \in BOOLEAN
      /\ meta \in AckTuples /\ mirror \in AckTuples
  BY DEF AckInv, AckCore, AckTypes
<1>w. ASSUME NEW a \in {meta, mirror}, a # NoAck, a[2] # 0
      PROVE  \E i \in DataAt' : log'[i].gen = a[1] /\ a[2] <= log'[i].from
  <2>1. \E i \in DataAt : log[i].gen = a[1] /\ a[2] <= log[i].from
    BY <1>w DEF AckInv, AckCore, AckWithinWritten
  <2>2. a \in AckTuples
    BY <1>t
  <2> QED BY <2>1, <2>2, <1>l, WrittenStays
<1>u. ASSUME meta' \in {meta, mirror}, mirror' \in {meta, mirror} PROVE AckWithinWritten'
  BY <1>u, <1>w DEF AckWithinWritten
<1>1. CASE UNCHANGED ackVars
  <2>1. UNCHANGED <<meta, mirror, persisted, present, cursor>>
    BY <1>1 DEF ackVars
  <2>2. AckTypes'
    BY <2>1, <1>l, <1>t DEF AckTypes, Grows
  <2>3. AckChain'
    BY <2>1 DEF AckInv, AckCore, AckChain
  <2>4. AckWithinWritten'
    BY <2>1, <1>u
  <2> QED BY <2>1, <2>2, <2>3, <2>4 DEF AckInv, AckCore, TupleLeq
<1>2. ASSUME NEW a \in Tuples, ApplyAck(a)
      PROVE  AckCore' /\ TupleLeq(persisted, persisted')
  <2>a. a \in AckTuples
    BY DEF AckTuples
  <2>m. /\ TupleMax(mirror, a) \in AckTuples /\ TupleMax(mirror, a) \in {mirror, a}
        /\ TupleLeq(mirror, TupleMax(mirror, a)) /\ TupleLeq(a, TupleMax(mirror, a))
    BY <1>t, <2>a, MaxTuple
  <2>w. ASSUME Adoptable(a), {meta', mirror'} \subseteq {meta, mirror, a}
        PROVE  AckWithinWritten'
    <3> SUFFICES ASSUME NEW b \in {meta', mirror'}, b # NoAck, b[2] # 0
                 PROVE  \E i \in DataAt' : log'[i].gen = b[1] /\ b[2] <= log'[i].from
      BY DEF AckWithinWritten
    <3>1. CASE b \in {meta, mirror}
      BY <3>1, <1>w
    <3>2. CASE b = a
      <4>1. \E i \in DataAt : log[i].gen = a[1] /\ a[2] <= log[i].from
        BY <2>w, <3>2, <1>l, AdoptableWritten DEF AckInv
      <4> QED BY <4>1, <3>2, <1>l, <2>a, WrittenStays
    <3> QED BY <2>w, <3>1, <3>2
  <2>1. CASE Adopt(a)
    <3>1. /\ persisted' = a /\ cursor' = a /\ present' = TRUE
          /\ mirror' = TupleMax(mirror, a) /\ meta' = TupleMax(mirror, a) /\ Adoptable(a)
      BY <2>1 DEF Adopt
    <3>2. AckTypes'
      BY <3>1, <1>l, <2>m DEF AckTypes, Grows
    <3>3. AckChain'
      <4>1. cursor'[1] = persisted'[1] /\ cursor'[2] <= persisted'[2]
        BY <3>1, TupleType
      <4>2. TupleLeq(persisted', meta')
        BY <3>1, <2>m
      <4>3. TupleLeq(meta', mirror')
        BY <3>1 DEF TupleLeq
      <4> QED BY <3>1, <4>1, <4>2, <4>3 DEF AckChain
    <3>4. AckWithinWritten'
      BY <3>1, <2>m, <2>w
    <3>5. TupleLeq(persisted, persisted')
      BY <3>1, AdoptableAdvances
    <3> QED BY <3>2, <3>3, <3>4, <3>5 DEF AckInv, AckCore
  <2>2. CASE AdoptFails(a)
    <3>1. /\ persisted' = persisted /\ cursor' = cursor /\ present' = present
          /\ mirror' = TupleMax(mirror, a) /\ meta' \in {meta, mirror'} /\ Adoptable(a)
      BY <2>2 DEF AdoptFails
    <3>2. AckTypes'
      BY <3>1, <1>l, <1>t, <2>m DEF AckTypes, Grows
    <3>3. AckChain'
      <4>i. /\ meta \in Int \X Int /\ mirror \in Int \X Int /\ mirror' \in Int \X Int
            /\ meta' \in Int \X Int /\ persisted \in Int \X Int
        BY <1>t, <3>2, AckTupleType DEF AckTypes, AckTuples
      <4>1. cursor'[1] = persisted'[1] /\ cursor'[2] <= persisted'[2]
        BY <3>1 DEF AckInv, AckCore, AckChain
      <4>2. TupleLeq(meta, mirror) /\ TupleLeq(mirror, mirror')
        BY <3>1, <2>m DEF AckInv, AckCore, AckChain
      <4>3. TupleLeq(meta, mirror')
        BY <4>2, <4>i, Lexicographic
      <4>4. TupleLeq(meta, meta') /\ TupleLeq(meta', mirror')
        BY <3>1, <4>3 DEF TupleLeq
      <4>5. ASSUME present PROVE TupleLeq(persisted, meta')
        <5>1. TupleLeq(persisted, meta)
          BY <4>5 DEF AckInv, AckCore, AckChain
        <5> QED BY <5>1, <4>4, <4>i, Lexicographic
      <4>6. ~present => persisted = <<0, 0>>
        BY DEF AckInv, AckCore, AckChain
      <4> QED BY <3>1, <4>1, <4>4, <4>5, <4>6 DEF AckChain
    <3>4. AckWithinWritten'
      BY <3>1, <2>m, <2>w
    <3> QED BY <3>1, <3>2, <3>3, <3>4 DEF AckInv, AckCore, TupleLeq
  <2>3. CASE Clamp(a)
    <3>1. /\ persisted' = persisted /\ present' = present /\ meta' = meta /\ mirror' = mirror
          /\ cursor' = IF ResendNeeded(a) THEN a ELSE cursor
      BY <2>3 DEF Clamp
    <3>2. AckTypes'
      BY <3>1, <1>l, <1>t DEF AckTypes, Grows
    <3>3. cursor'[1] = persisted'[1] /\ cursor'[2] <= persisted'[2]
      <4>1. CASE ResendNeeded(a)
        BY <3>1, <4>1, <1>t, TupleType DEF ResendNeeded
      <4>2. CASE ~ResendNeeded(a)
        BY <3>1, <4>2 DEF AckInv, AckCore, AckChain
      <4> QED BY <4>1, <4>2
    <3>4. AckChain'
      BY <3>1, <3>3 DEF AckInv, AckCore, AckChain
    <3>5. AckWithinWritten'
      BY <3>1, <1>u
    <3> QED BY <3>1, <3>2, <3>4, <3>5 DEF AckInv, AckCore, TupleLeq
  <2> QED BY <1>2, <2>1, <2>2, <2>3 DEF ApplyAck
<1>3. CASE Restart
  <2>1. /\ present' = (meta # NoAck) /\ mirror' = meta /\ meta' = meta
        /\ persisted' = (IF meta = NoAck THEN <<0, 0>> ELSE meta) /\ cursor' = persisted'
    BY <1>3 DEF Restart
  <2>2. persisted' \in Tuples
    BY <2>1, <1>t, ZeroTuple DEF AckTuples
  <2>3. AckTypes'
    BY <2>1, <2>2, <1>l, <1>t DEF AckTypes, Grows
  <2>4. AckChain'
    <3>1. cursor'[1] = persisted'[1] /\ cursor'[2] <= persisted'[2]
      <4>1. persisted'[2] \in Nat
        BY <2>2, TupleType
      <4> QED BY <2>1, <4>1
    <3>2. TupleLeq(meta', mirror')
      BY <2>1 DEF TupleLeq
    <3>3. IF present' THEN TupleLeq(persisted', meta') ELSE persisted' = <<0, 0>>
      BY <2>1 DEF TupleLeq
    <3> QED BY <3>1, <3>2, <3>3 DEF AckChain
  <2>5. AckWithinWritten'
    BY <2>1, <1>u
  <2>6. TupleLeq(persisted, persisted')
    <3>1. CASE present
      <4>1. TupleLeq(persisted, meta)
        BY <3>1 DEF AckInv, AckCore, AckChain
      <4>2. meta # NoAck
        BY <4>1, <1>t, NotBelowNoAck
      <4> QED BY <2>1, <4>1, <4>2
    <3>2. CASE ~present
      BY <3>2, <2>2, ZeroTuple DEF AckInv, AckCore, AckChain
    <3> QED BY <3>1, <3>2, <1>t
  <2> QED BY <2>3, <2>4, <2>5, <2>6 DEF AckInv, AckCore
<1> QED BY <1>1, <1>2, <1>3, AckSteps

-----------------------------------------------------------------------------
(* The theorems.                                                           *)

LEMMA AckInit == Init => AckInv
<1> SUFFICES ASSUME Init PROVE AckInv
  OBVIOUS
<1>1. AckTypes
  <2>1. << >> \in Seq(Records)
    OBVIOUS
  <2>2. log = << >> /\ persisted = <<0, 0>> /\ cursor = <<0, 0>> /\ present = FALSE
    BY DEF Init
  <2>3. meta = NoAck /\ mirror = NoAck
    BY DEF Init
  <2> QED BY <2>1, <2>2, <2>3, ZeroTuple, Zenon DEF AckTypes, AckTuples
<1>2. AckChain
  <2>1. cursor[1] = persisted[1] /\ cursor[2] <= persisted[2]
    BY DEF Init
  <2>2. TupleLeq(meta, mirror)
    BY DEF Init, TupleLeq
  <2> QED BY <2>1, <2>2 DEF Init, AckChain
<1>3. AckWithinWritten
  BY DEF Init, AckWithinWritten
<1>4. HighInv
  BY DEF Init, HighInv, HighWritten
<1> QED BY <1>1, <1>2, <1>3, <1>4 DEF AckInv, AckCore

LEMMA AckInvariance == Spec => []AckInv
BY AckInit, AckStep, PTL DEF Spec

\* The watermarks of the ack path stay in order for every server and whatever
\* wal.MarkAcked does (applyServerAckTuple, applyAckFromRecv, New).
THEOREM AckOrder == Spec => []AckChain
<1>1. AckInv => AckChain
  BY DEF AckInv, AckCore
<1> QED BY <1>1, AckInvariance, PTL

\* The clamp of applyServerAckTuple keeps every persisted ack of a sequence other
\* than 0 within what was written, for every server.  (G, 0) is not covered: the
\* first ack may be (G, 0) of a generation that was never written.
THEOREM NoAckPastWritten == Spec => []AckWithinWritten
<1>1. AckInv => AckWithinWritten
  BY DEF AckInv, AckCore
<1> QED BY <1>1, AckInvariance, PTL

\* persistedAck never goes back: not by a stale or wrong ack, not by the
\* rollback of a failed MarkAcked, not by a restart from meta.json.
THEOREM PersistedMonotonic == Spec => PersistedNeverRegresses
<1>1. AckInv /\ [Next]_vars => [TupleLeq(persisted, persisted')]_vars
  BY AckStep
<1> QED BY <1>1, AckInvariance, PTL DEF Spec, PersistedNeverRegresses

-----------------------------------------------------------------------------
(* Frames, batches and the window.                                         *)

\* A batch of records is sent as a sequence of frames.
LEMMA EncodeType ==
  ASSUME NEW b \in Seq(Records)
  PROVE  /\ IsFiniteSet(FrameEnds(b)) /\ Cardinality(FrameEnds(b)) \in Nat
         /\ Encode(b) \in Seq(Frames)
         /\ Len(Encode(b)) = Cardinality(FrameEnds(b))
<1>1. Len(b) \in Nat /\ DOMAIN b = 1..Len(b) /\ FrameEnds(b) \subseteq 1..Len(b)
      /\ FrameEnds(b) \in SUBSET (0..Len(b))
  BY DEF FrameEnds
<1>2. ASSUME NEW i \in 1..Len(b) PROVE Frame(b, i) \in Frames
  <2>1. \A j \in 1..i : b[j] \in Records
    BY <1>1
  <2>2. \A j \in 1..i : b[j].gen \in Gens /\ b[j].from \in Seqs /\ b[j].to \in Seqs
    BY <2>1 DEF Records
  <2>3. i \in 1..i
    OBVIOUS
  <2>4. CASE IsData(b[i])
    <3> DEFINE h == {Tuple(b[j]) : j \in {x \in 1..i : \A k \in x..i : IsData(b[k])}}
    <3>1. h \in SUBSET Tuples
      BY <2>2 DEF Tuple, Tuples
    <3> HIDE DEF h
    <3>2. Frame(b, i) = [kind |-> "events", gen |-> b[i].gen, to |-> b[i].from, has |-> h]
      BY <2>4 DEF Frame, h
    <3> QED BY <2>2, <2>3, <3>1, <3>2 DEF Frames
  <2>5. CASE ~IsData(b[i])
    <3>1. Covered(b[i]) \in SUBSET Tuples
      BY <2>2, <2>3 DEF Covered, Tuples
    <3>2. Frame(b, i) = [kind |-> "loss", gen |-> b[i].gen, to |-> b[i].to, has |-> Covered(b[i])]
      BY <2>5 DEF Frame
    <3> QED BY <2>2, <2>3, <3>1, <3>2 DEF Frames
  <2> QED BY <2>4, <2>5
<1> DEFINE E == FrameEnds(b)
           c == Cardinality(E)
<1>3. IsFiniteSet(E) /\ c \in Nat /\ \A n \in 1..c : Nth(E, n) \in E
  BY <1>1, NthElement
<1>4. \A n \in 1..c : Frame(b, Nth(E, n)) \in Frames
  BY <1>1, <1>2, <1>3
<1>5. Encode(b) = [n \in 1..c |-> Frame(b, Nth(E, n))]
  BY DEF Encode
<1> HIDE DEF E, c
<1>6. Encode(b) \in Seq(Frames) /\ Len(Encode(b)) = c
  BY <1>3, <1>4, <1>5
<1> QED BY <1>3, <1>6 DEF c, E

LEMMA EncodeNothing == Encode(<< >>) = << >>
<1>1. FrameEnds(<< >>) = {}
  BY DEF FrameEnds
<1>2. Cardinality(FrameEnds(<< >>)) = 0
  BY <1>1, FS_EmptySet
<1> QED BY <1>2 DEF Encode

LEMMA SendType ==
  ASSUME up \in Seq(Frames), wire \in AckTuples, NEW b \in Seq(Records), Send(b)
  PROVE  up' \in Seq(Frames) /\ wire' \in AckTuples
<1>1. up' \in Seq(Frames)
  BY EncodeType DEF Send
<1>2. LastData(b) \in AckTuples
  <2> DEFINE ds == {i \in DOMAIN b : IsData(b[i])}
  <2>1. CASE ds = {}
    BY <2>1 DEF LastData
  <2>2. CASE ds # {}
    <3>1. Len(b) \in Nat /\ ds \in SUBSET (0..Len(b)) /\ ds \subseteq 1..Len(b)
      OBVIOUS
    <3> HIDE DEF ds
    <3>2. Max(ds) \in ds
      BY <2>2, <3>1, MaxIsGreatest
    <3>3. b[Max(ds)] \in Records
      <4>1. Max(ds) \in 1..Len(b)
        BY <3>1, <3>2
      <4> QED BY <4>1
    <3>4. LastData(b) = Tuple(b[Max(ds)])
      BY <2>2 DEF LastData, ds
    <3> QED BY <3>3, <3>4 DEF Tuple, Tuples, AckTuples, Records
  <2> QED BY <2>1, <2>2
<1> QED BY <1>1, <1>2 DEF Send

LEMMA PushedType ==
  ASSUME inflight \in Seq(Tuples), NEW b \in Seq(Records)
  PROVE  /\ Pushed(b) \in Seq(Tuples)
         /\ Len(Pushed(b)) = Len(inflight) + Cardinality(FrameEnds(b))
<1> DEFINE e == Encode(b)
           s == [i \in DOMAIN e |-> <<e[i].gen, e[i].to>>]
<1>1. e \in Seq(Frames) /\ Len(e) = Cardinality(FrameEnds(b)) /\ Len(e) \in Nat
  BY EncodeType
<1> HIDE DEF e
<1>2. \A i \in 1..Len(e) : <<e[i].gen, e[i].to>> \in Tuples
  <2> TAKE i \in 1..Len(e)
  <2>1. e[i] \in Frames
    BY <1>1
  <2> QED BY <2>1 DEF Frames, Tuples
<1>3. DOMAIN e = 1..Len(e)
  BY <1>1
<1>4. s \in Seq(Tuples) /\ Len(s) = Len(e)
  BY <1>1, <1>2, <1>3
<1>5. Pushed(b) = inflight \o s
  BY DEF Pushed, e
<1> HIDE DEF s
<1>6. inflight \o s \in Seq(Tuples) /\ Len(inflight \o s) = Len(inflight) + Len(s)
  BY <1>4
<1> QED BY <1>1, <1>4, <1>5, <1>6

LEMMA ReleaseType ==
  ASSUME inflight \in Seq(Tuples), NEW a
  PROVE  Release(a) \in Seq(Tuples) /\ Len(Release(a)) <= Len(inflight)
<1> DEFINE stay == {i \in DOMAIN inflight : TupleLess(a, inflight[i])}
<1>1. CASE stay = {}
  BY <1>1 DEF Release
<1>2. CASE stay # {}
  <2>1. stay \in SUBSET Nat /\ stay \subseteq 1..Len(inflight) /\ Len(inflight) \in Nat
    OBVIOUS
  <2> HIDE DEF stay
  <2>2. Min(stay) \in 1..Len(inflight)
    BY <1>2, <2>1, MinIsLeast
  <2>3. Release(a) = SubSeq(inflight, Min(stay), Len(inflight))
    BY <1>2 DEF Release, stay
  <2> HIDE DEF stay
  <2> QED BY <2>1, <2>2, <2>3
<1> QED BY <1>1, <1>2

LEMMA NextRead ==
  ASSUME log \in Seq(Records), ~CaughtUp
  PROVE  NextPos \in DOMAIN log /\ NextPos \in Nat /\ log[NextPos] \in Records
<1>1. Readable \in SUBSET Nat /\ Readable # {} /\ Readable \subseteq 1..Len(log)
  BY DEF CaughtUp, Readable
<1>2. NextPos \in Readable
  BY <1>1, MinIsLeast DEF NextPos
<1> QED BY <1>1, <1>2

LEMMA AddType ==
  ASSUME batch \in Seq(Records), NEW r \in Records, NEW full \in BOOLEAN
  PROVE  Add(r, full).out \in Seq(Records) /\ Add(r, full).stay \in Seq(Records)
<1>1. Append(batch, r) \in Seq(Records) /\ <<r>> \in Seq(Records) /\ << >> \in Seq(Records)
  OBVIOUS
<1> QED BY <1>1 DEF Add

-----------------------------------------------------------------------------
(* Types, and what is at hand between the states of Run.                   *)

ReaderType == [gen : Gens, start : Nat, pos : Nat, missing : SUBSET Nat]

WalTypes    == gone \subseteq DOMAIN log /\ dataHigh \in [Gens -> Seqs \cup {-1}]
ReplayTypes == /\ plan \in Seq([gen : Gens, start : Nat])
               /\ tail \in Tuples /\ lastRep \in Tuples
               /\ rdr \in ReaderType
LiveTypes   == pump \in {"drain", "select"} /\ notified \in BOOLEAN /\ inflight \in Seq(Tuples)
StreamTypes == /\ batch \in Seq(Records)
               /\ up \in Seq(Frames) /\ down \in Seq(Tuples) /\ wire \in AckTuples
ServerTypes == received \subseteq Tuples /\ told \subseteq Tuples /\ srvHigh \in AckTuples
RunTypes    == st \in States /\ faults \in Nat

RestTypes == WalTypes /\ ReplayTypes /\ LiveTypes /\ StreamTypes /\ ServerTypes /\ RunTypes

LEMMA TypesTogether == TypeOK <=> AckTypes /\ RestTypes
BY DEF TypeOK, AckTypes, AckTuples, RestTypes, WalTypes, ReplayTypes, LiveTypes, StreamTypes,
       ServerTypes, RunTypes, ReaderType

\* Run opens a stage only if the plan has one, and enters a state with an empty
\* batch.
Handoffs ==
    /\ st = "opening" => plan # << >>
    /\ st \notin {"replaying", "live", "draining"} => batch = << >>

TransInv == AckInv /\ RestTypes /\ Handoffs

LEMMA HighGenerationType ==
  ASSUME log \in Seq(Records)
  PROVE  HighGeneration \in Gens
<1>1. CASE DataAt = {}
  BY <1>1, TransportConstants DEF HighGeneration
<1>2. CASE DataAt # {}
  <2>1. Len(log) \in Nat /\ DataAt \in SUBSET (0..Len(log)) /\ DataAt \subseteq 1..Len(log)
    BY DEF DataAt
  <2>2. Max(DataAt) \in 1..Len(log)
    BY <1>2, <2>1, MaxIsGreatest
  <2>3. log[Max(DataAt)] \in Records
    BY <2>2
  <2> QED BY <1>2, <2>3 DEF HighGeneration, Records
<1> QED BY <1>1, <1>2

LEMMA DataOnDiskType ==
  ASSUME log \in Seq(Records), NEW g
  PROVE  /\ DataOnDisk(g) \in SUBSET Nat
         /\ \A i \in DataOnDisk(g) : log[i].from \in Nat
<1>1. \A i \in DOMAIN log : log[i] \in Records /\ i \in Nat
  OBVIOUS
<1>2. \A q \in Records : q.from \in Nat
  BY TransportConstants DEF Records, Seqs
<1> QED BY <1>1, <1>2 DEF DataOnDisk, OnDisk

LEMMA PlanType ==
  ASSUME log \in Seq(Records), persisted \in Tuples, cursor \in Tuples
  PROVE  ReplayPlan \in Seq([gen : Gens, start : Nat]) /\ ReplayPlan # << >>
<1> DEFINE Stages == [gen : Gens, start : Nat]
           c == Cardinality(LaterGens)
           s == [n \in 1..c |-> [gen |-> Nth(LaterGens, n), start |-> 0]]
           a == <<[gen |-> persisted[1], start |-> ReplayStart]>>
<1>1. ReplayStart \in Nat
  <2>1. cursor[2] + 1 \in Nat
    BY TupleType
  <2>2. DataOnDisk(persisted[1]) # {} => log[Min(DataOnDisk(persisted[1]))].from \in Nat
    <3>1. DataOnDisk(persisted[1]) # {} => Min(DataOnDisk(persisted[1])) \in DataOnDisk(persisted[1])
      BY DataOnDiskType, MinIsLeast
    <3> QED BY <3>1, DataOnDiskType
  <2> QED BY <2>1, <2>2 DEF ReplayStart
<1>2. a \in Seq(Stages) /\ Len(a) = 1
  BY <1>1, TupleType
<1>3. HighGeneration \in Nat /\ LaterGens \in SUBSET (0..HighGeneration) /\ LaterGens \subseteq Gens
  <2>1. HighGeneration \in Gens /\ HighGeneration \in Nat
    BY HighGenerationType, TransportConstants
  <2>2. \A g \in LaterGens : g \in Gens /\ g \in Nat /\ g <= HighGeneration
    BY TransportConstants DEF LaterGens
  <2>3. \A g \in LaterGens : g \in 0..HighGeneration
    BY <2>1, <2>2
  <2> QED BY <2>1, <2>2, <2>3
<1>4. c \in Nat /\ \A n \in 1..c : Nth(LaterGens, n) \in Gens
  BY <1>3, NthElement
<1>5. s \in Seq(Stages)
  <2>1. \A n \in 1..c : [gen |-> Nth(LaterGens, n), start |-> 0] \in Stages
    BY <1>4
  <2> HIDE DEF c, Stages
  <2> QED BY <1>4, <2>1
<1>6. ReplayPlan = a \o s
  BY DEF ReplayPlan
<1> HIDE DEF a, s, Stages
<1>7. a \o s \in Seq(Stages) /\ Len(a \o s) = Len(a) + Len(s) /\ Len(s) \in Nat
  <2>1. a \in Seq(Stages) /\ s \in Seq(Stages)
    BY <1>2, <1>5
  <2> HIDE DEF a, s
  <2>2. a \o s \in Seq(Stages) /\ Len(a \o s) = Len(a) + Len(s)
    BY <2>1, ConcatProperties, Zenon
  <2>3. Len(s) \in Nat
    BY <2>1, LenProperties, Zenon
  <2> QED BY <2>2, <2>3
<1>8. ReplayPlan # << >>
  BY <1>2, <1>6, <1>7
<1> QED BY <1>6, <1>7, <1>8 DEF Stages

LEMMA ReaderTypes ==
  ASSUME log \in Seq(Records), gone \subseteq DOMAIN log
  PROVE  /\ \A g \in Gens, n \in Nat : OpenReader(g, n) \in ReaderType
         /\ rdr \in ReaderType => \A n \in Nat : [rdr EXCEPT !.pos = n] \in ReaderType
         /\ [gen |-> 0, start |-> 0, pos |-> 0, missing |-> {}] \in ReaderType
<1>1. gone \in SUBSET Nat
  OBVIOUS
<1> QED BY <1>1, TransportConstants DEF OpenReader, ReaderType

LEMMA RemoveType ==
  ASSUME log \in Seq(Records), gone \subseteq DOMAIN log, rdr \in ReaderType,
         NEW j, NEW k, j..k \subseteq OnDisk, RemoveFile(j, k)
  PROVE  gone' \subseteq DOMAIN log /\ rdr' \in ReaderType
<1>1. j..k \subseteq DOMAIN log /\ j..k \subseteq Nat
  BY DEF OnDisk
<1> DEFINE S == j..k
<1>2. gone' = gone \cup S /\ rdr' \in {rdr, [rdr EXCEPT !.missing = @ \cup S]}
  BY DEF RemoveFile
<1> HIDE DEF S
<1>3. S \subseteq DOMAIN log /\ S \subseteq Nat
  BY <1>1 DEF S
<1> QED BY <1>2, <1>3 DEF ReaderType

\* What a connection leaves behind has its type, and an empty batch.
LEMMA TornType ==
  ASSUME Torn, st' \in {"connecting", "stopped"}, up' \in Seq(Frames)
  PROVE  ReplayTypes' /\ LiveTypes' /\ StreamTypes' /\ Handoffs'
<1>1. << >> \in Seq([gen : Gens, start : Nat]) /\ << >> \in Seq(Tuples) /\ << >> \in Seq(Records)
  OBVIOUS
<1>2. [gen |-> 0, start |-> 0, pos |-> 0, missing |-> {}] \in ReaderType
  BY TransportConstants DEF ReaderType
<1>3. /\ plan' = << >> /\ tail' = <<0, 0>> /\ lastRep' = <<0, 0>>
      /\ rdr' = [gen |-> 0, start |-> 0, pos |-> 0, missing |-> {}]
      /\ pump' = "drain" /\ notified' = FALSE /\ inflight' = << >>
      /\ batch' = << >> /\ down' = << >> /\ wire' = NoAck
  BY DEF Torn
<1>4. ReplayTypes'
  BY <1>1, <1>2, <1>3, ZeroTuple DEF ReplayTypes
<1>5. LiveTypes'
  BY <1>1, <1>3, Zenon DEF LiveTypes
<1>6. StreamTypes'
  BY <1>1, <1>3 DEF StreamTypes, AckTuples
<1> QED BY <1>3, <1>4, <1>5, <1>6 DEF Handoffs

LEMMA FaultType ==
  ASSUME faults \in Nat
  PROVE  /\ Fault => faults' \in Nat
         /\ \A a : ApplyAck(a) => faults' \in Nat
BY DEF Fault, ApplyAck, Adopt, AdoptFails, Clamp

LEMMA TransStep == TransInv /\ [Next]_vars => TransInv'
<1> SUFFICES ASSUME TransInv, [Next]_vars PROVE TransInv'
  OBVIOUS
<1>a. AckInv /\ AckInv'
  BY AckStep DEF TransInv
<1>g. log \in Seq(Records) /\ Grows /\ persisted \in Tuples /\ cursor \in Tuples
  BY <1>a, LogStep DEF AckInv, AckCore, AckTypes
<1>t. WalTypes /\ ReplayTypes /\ LiveTypes /\ StreamTypes /\ ServerTypes /\ RunTypes
  BY DEF TransInv, RestTypes
<1>h. Handoffs
  BY DEF TransInv
<1> SUFFICES RestTypes' /\ Handoffs'
  BY <1>a DEF TransInv
<1>i. dataHigh' \in [Gens -> Seqs \cup {-1}]
  BY <1>a DEF AckInv, AckCore, HighInv
<1>d. DOMAIN log \subseteq DOMAIN log'
  BY <1>g DEF Grows
<1>f. faults \in Nat
  BY <1>t DEF RunTypes
\* Groups a step leaves alone.
<1>w. UNCHANGED walVars => WalTypes'
  BY <1>t DEF walVars, WalTypes
<1>r. UNCHANGED <<replayVars, rdr>> => ReplayTypes'
  BY <1>t DEF replayVars, ReplayTypes
<1>l. UNCHANGED liveVars => LiveTypes'
  BY <1>t DEF liveVars, LiveTypes
<1>s. UNCHANGED serverVars => ServerTypes'
  BY <1>t DEF serverVars, ServerTypes
<1>u. UNCHANGED <<batch, up, down, wire>> => StreamTypes'
  BY <1>t DEF StreamTypes
<1>q. UNCHANGED <<st, faults>> => RunTypes'
  BY <1>t DEF RunTypes
<1>k. UNCHANGED <<st, plan, batch>> => Handoffs'
  BY <1>h DEF Handoffs
<1>0. CASE UNCHANGED vars
  BY <1>0, <1>w, <1>r, <1>l, <1>s, <1>u, <1>q, <1>k DEF vars, replayVars, RestTypes
<1>1. ASSUME NEW t \in Tuples, WalAppend(t) PROVE RestTypes' /\ Handoffs'
  <2>1. WalTypes' /\ rdr' \in ReaderType
    <3>2. (UNCHANGED <<gone, rdr>>) \/ \E j, k : j..k \subseteq OnDisk /\ RemoveFile(j, k)
      BY <1>1 DEF WalAppend, IsFile
    <3>3. gone' \subseteq DOMAIN log /\ rdr' \in ReaderType
      BY <3>2, <1>g, <1>t, RemoveType DEF WalTypes, ReplayTypes
    <3> QED BY <3>3, <1>d, <1>i DEF WalTypes
  <2>2. notified' \in BOOLEAN
    BY <1>1, Zenon DEF WalAppend
  <2>3. LiveTypes'
    BY <1>1, <1>t, <2>2 DEF WalAppend, LiveTypes
  <2>4. ReplayTypes'
    BY <1>1, <1>t, <2>1 DEF WalAppend, replayVars, ReplayTypes
  <2> QED BY <1>1, <2>1, <2>3, <2>4, <1>s, <1>u, <1>q, <1>k DEF WalAppend, replayVars, RestTypes
<1>2. ASSUME NEW t \in Tuples, WalAppendLoss(t) PROVE RestTypes' /\ Handoffs'
  <2>1. WalTypes'
    BY <1>2, <1>d, <1>i, <1>t DEF WalAppendLoss, WalTypes
  <2>2. notified' \in BOOLEAN
    <3>1. notified' = (notified \/ Reading) \/ notified' = notified
      BY <1>2, Zenon DEF WalAppendLoss
    <3> QED BY <3>1, <1>t, Zenon DEF LiveTypes
  <2>3. LiveTypes'
    BY <1>2, <1>t, <2>2 DEF WalAppendLoss, LiveTypes
  <2> QED BY <1>2, <2>1, <2>3, <1>r, <1>s, <1>u, <1>q, <1>k DEF WalAppendLoss, replayVars, RestTypes
<1>3. CASE Reclaim
  <2>1. PICK j, k : j..k \subseteq OnDisk /\ RemoveFile(j, k)
    BY <1>3 DEF Reclaim, IsFile
  <2>2. gone' \subseteq DOMAIN log /\ rdr' \in ReaderType
    BY <2>1, <1>g, <1>t, RemoveType DEF WalTypes, ReplayTypes
  <2>3. WalTypes' /\ ReplayTypes'
    BY <1>3, <1>t, <1>i, <2>2 DEF Reclaim, WalTypes, ReplayTypes, replayVars
  <2> QED BY <1>3, <2>3, <1>l, <1>s, <1>u, <1>q, <1>k DEF Reclaim, replayVars, RestTypes
<1>4. CASE Connect
  <2>1. faults' \in Nat /\ st' = "planning" /\ batch' = batch /\ st = "connecting"
    BY <1>4, <1>f, FaultType DEF Connect
  <2>2. RunTypes' /\ Handoffs'
    BY <2>1, <1>h DEF RunTypes, States, Handoffs
  <2>3. StreamTypes'
    <3>1. up' = << >> /\ down' = << >> /\ wire' = NoAck
      BY <1>4 DEF Connect
    <3> QED BY <2>1, <3>1, <1>t DEF StreamTypes, AckTuples
  <2> QED BY <1>4, <2>2, <2>3, <1>w, <1>r, <1>l, <1>s DEF Connect, RestTypes
<1>5. CASE PlanReplay
  <2>1. plan' \in Seq([gen : Gens, start : Nat]) /\ plan' # << >>
    BY <1>5, <1>g, PlanType DEF PlanReplay
  <2>2. st' = "opening" /\ batch' = batch /\ st = "planning" /\ faults' = faults
    BY <1>5 DEF PlanReplay
  <2>3. ReplayTypes' /\ RunTypes' /\ Handoffs'
    <3>1. ReplayTypes'
      BY <1>5, <2>1, <1>t DEF PlanReplay, ReplayTypes
    <3> QED BY <2>1, <2>2, <3>1, <1>h, <1>f DEF RunTypes, States, Handoffs
  <2> QED BY <1>5, <2>3, <1>w, <1>l, <1>s, <1>u DEF PlanReplay, RestTypes
<1>6. CASE OpenStage
  <2>1. plan \in Seq([gen : Gens, start : Nat]) /\ plan # << >>
    BY <1>6, <1>h, <1>t DEF OpenStage, Handoffs, ReplayTypes
  <2>2. Head(plan) \in [gen : Gens, start : Nat] /\ Tail(plan) \in Seq([gen : Gens, start : Nat])
    BY <2>1, HeadTailProperties
  <2>3. Head(plan).gen \in Gens /\ Head(plan).start \in Nat
    BY <2>2
  <2> DEFINE high == dataHigh[Head(plan).gen]
  <2>4. rdr' = OpenReader(Head(plan).gen, Head(plan).start)
        /\ tail' = <<Head(plan).gen, IF high = -1 THEN 0 ELSE high>>
    BY <1>6 DEF OpenStage
  <2>5. rdr' \in ReaderType
    BY <2>3, <2>4, <1>g, <1>t, ReaderTypes DEF WalTypes
  <2>6. high # -1 => high \in Seqs
    BY <2>3, <1>t DEF WalTypes
  <2>7. 0 \in Seqs
    BY TransportConstants DEF Seqs
  <2> HIDE DEF high
  <2>8. tail' \in Tuples
    BY <2>3, <2>4, <2>6, <2>7 DEF Tuples
  <2>9. ReplayTypes'
    BY <1>6, <2>2, <2>5, <2>8, ZeroTuple DEF OpenStage, ReplayTypes
  <2>10. LiveTypes'
    <3>1. notified' = FALSE /\ pump' = pump /\ inflight' = inflight
      BY <1>6 DEF OpenStage
    <3> QED BY <3>1, <1>t, Zenon DEF LiveTypes
  <2>11. RunTypes' /\ Handoffs'
    BY <1>6, <1>f DEF OpenStage, RunTypes, States, Handoffs
  <2> QED BY <1>6, <2>9, <2>10, <2>11, <1>w, <1>s, <1>u DEF OpenStage, RestTypes
\* The parts the reading steps share.
<1>n. ASSUME ~CaughtUp, rdr' = [rdr EXCEPT !.pos = NextPos]
      PROVE  rdr' \in ReaderType /\ log[NextPos] \in Records
  BY <1>n, <1>g, <1>t, NextRead, ReaderTypes DEF WalTypes, ReplayTypes
<1>e. ASSUME NEW b \in Seq(Records), Send(b), batch' \in Seq(Records), down' = down PROVE StreamTypes'
  BY <1>e, <1>t, SendType DEF StreamTypes
<1>b. batch \in Seq(Records) /\ << >> \in Seq(Records)
  BY <1>t DEF StreamTypes
<1>7. CASE ReplayRead
  <2> DEFINE r == log[NextPos]
             filled == Append(batch, r)
  <2>1. rdr' \in ReaderType /\ r \in Records
    BY <1>7, <1>n DEF ReplayRead
  <2>2. filled \in Seq(Records)
    BY <2>1, <1>b
  <2>3. lastRep' \in Tuples
    BY <1>7, <1>t, <2>1 DEF ReplayRead, ReplayTypes, Tuple, Tuples, Records
  <2> HIDE DEF r
  <2>4. \/ Send(filled) /\ batch' = << >> /\ StageDone
        \/ batch' = filled /\ UNCHANGED <<up, wire, st>>
    BY <1>7 DEF ReplayRead, r
  <2>5. StreamTypes'
    BY <1>7, <2>2, <2>4, <1>b, <1>e, <1>t DEF ReplayRead, StreamTypes
  <2>6. RunTypes' /\ Handoffs'
    BY <1>7, <2>4, <1>t DEF ReplayRead, StageDone, RunTypes, States, Handoffs
  <2>7. ReplayTypes'
    BY <1>7, <2>1, <2>3, <1>t DEF ReplayRead, ReplayTypes
  <2> QED BY <1>7, <2>5, <2>6, <2>7, <1>w, <1>l, <1>s DEF ReplayRead, RestTypes
<1>8. CASE ReplaySend
  <2>1. StreamTypes'
    BY <1>8, <1>b, <1>e DEF ReplaySend
  <2>2. Handoffs'
    BY <1>8, <1>h DEF ReplaySend, Handoffs, replayVars
  <2> QED BY <1>8, <2>1, <2>2, <1>w, <1>r, <1>l, <1>s, <1>q DEF ReplaySend, RestTypes
<1>9. CASE ReplayDone
  <2>1. StreamTypes'
    BY <1>9, <1>b, <1>e DEF ReplayDone
  <2>2. RunTypes' /\ Handoffs'
    BY <1>9, <1>f DEF ReplayDone, StageDone, Handoffs, RunTypes, States, replayVars
  <2> QED BY <1>9, <2>1, <2>2, <1>w, <1>r, <1>l, <1>s DEF ReplayDone, RestTypes
<1>10. CASE ReplayRecv
  <2>1. faults' \in Nat
    BY <1>10, <1>f, FaultType DEF ReplayRecv
  <2>2. StreamTypes'
    BY <1>10, <1>t DEF ReplayRecv, StreamTypes
  <2>3. RunTypes'
    BY <1>10, <2>1, <1>t DEF ReplayRecv, RunTypes
  <2> QED BY <1>10, <2>2, <2>3, <1>w, <1>r, <1>l, <1>s, <1>k DEF ReplayRecv, RestTypes, replayVars
<1>11. CASE EnterLive
  <2>1. LiveStart \in Nat
    <3>1. lastRep[2] \in Nat /\ cursor[2] \in Nat
      BY <1>g, <1>t, TupleType DEF ReplayTypes
    <3> QED BY <3>1 DEF LiveStart
  <2>2. rdr' \in ReaderType
    BY <1>11, <2>1, <1>g, <1>t, HighGenerationType, ReaderTypes DEF EnterLive, WalTypes
  <2>3. ReplayTypes'
    BY <1>11, <2>2, <1>t DEF EnterLive, ReplayTypes, replayVars
  <2>4. LiveTypes'
    <3>1. notified' = FALSE /\ inflight' = << >> /\ pump' = "drain" /\ << >> \in Seq(Tuples)
      BY <1>11 DEF EnterLive
    <3> QED BY <3>1, Zenon DEF LiveTypes
  <2>5. RunTypes' /\ Handoffs'
    BY <1>11, <1>f DEF EnterLive, RunTypes, States, Handoffs
  <2> QED BY <1>11, <2>3, <2>4, <2>5, <1>w, <1>s, <1>u DEF EnterLive, RestTypes
<1>12. CASE LiveDrain
  <2>1. rdr' \in ReaderType /\ log[NextPos] \in Records
    BY <1>12, <1>n DEF LiveDrain
  <2>2. PICK full \in BOOLEAN : LET b == Add(log[NextPos], full)
                                IN  batch' = b.stay /\ Send(b.out) /\ inflight' = Pushed(b.out)
    BY <1>12 DEF LiveDrain
  <2> DEFINE b == Add(log[NextPos], full)
  <2>3. b.out \in Seq(Records) /\ b.stay \in Seq(Records)
    BY <2>1, <1>b, AddType
  <2> HIDE DEF b
  <2>4. batch' = b.stay /\ Send(b.out) /\ inflight' = Pushed(b.out)
    BY <2>2 DEF b
  <2>5. StreamTypes'
    BY <1>12, <2>3, <2>4, <1>e DEF LiveDrain
  <2>6. inflight' \in Seq(Tuples)
    BY <2>3, <2>4, <1>t, PushedType DEF LiveTypes
  <2>7. LiveTypes'
    BY <1>12, <2>6, <1>t DEF LiveDrain, LiveTypes
  <2>8. ReplayTypes' /\ Handoffs'
    BY <1>12, <2>1, <1>t DEF LiveDrain, ReplayTypes, replayVars, Handoffs
  <2> QED BY <1>12, <2>5, <2>7, <2>8, <1>w, <1>s, <1>q DEF LiveDrain, RestTypes
<1>13. CASE LiveDrained \/ LiveNotify
  <2>1. LiveTypes'
    <3>1. /\ pump' \in {"drain", "select"} /\ inflight' = inflight
          /\ (notified' = notified \/ notified' = FALSE)
      BY <1>13 DEF LiveDrained, LiveNotify
    <3> QED BY <3>1, <1>t, Zenon DEF LiveTypes
  <2> QED BY <1>13, <2>1, <1>w, <1>r, <1>s, <1>u, <1>q, <1>k
          DEF LiveDrained, LiveNotify, RestTypes, replayVars
<1>14. CASE LiveTick
  <2>1. StreamTypes'
    BY <1>14, <1>b, <1>e DEF LiveTick
  <2>2. inflight' \in Seq(Tuples)
    BY <1>14, <1>b, <1>t, PushedType DEF LiveTick, LiveTypes
  <2>3. LiveTypes' /\ Handoffs'
    BY <1>14, <2>2, <1>t DEF LiveTick, LiveTypes, Selecting, Handoffs
  <2> QED BY <1>14, <2>1, <2>3, <1>w, <1>r, <1>s, <1>q DEF LiveTick, RestTypes
<1>15. CASE LiveRecv
  <2>1. PICK a \in Tuples :
           \/ Adopt(a) /\ inflight' = Release(a) /\ pump' = "drain"
           \/ (AdoptFails(a) \/ Clamp(a)) /\ UNCHANGED <<inflight, pump>>
    BY <1>15 DEF LiveRecv
  <2>2. faults' \in Nat
    BY <2>1, <1>f, FaultType DEF ApplyAck
  <2>3. inflight' \in Seq(Tuples) /\ pump' \in {"drain", "select"}
    BY <2>1, <1>t, ReleaseType DEF LiveTypes
  <2>4. LiveTypes'
    BY <1>15, <2>3, <1>t DEF LiveRecv, LiveTypes
  <2>5. StreamTypes'
    BY <1>15, <1>t DEF LiveRecv, StreamTypes
  <2>6. RunTypes'
    BY <1>15, <2>2, <1>t DEF LiveRecv, RunTypes
  <2> QED BY <1>15, <2>4, <2>5, <2>6, <1>w, <1>r, <1>s, <1>k DEF LiveRecv, RestTypes, replayVars
<1>16. CASE Disconnect \/ Stop \/ Restart
  <2>1. Torn /\ st' \in {"connecting", "stopped"} /\ up' = << >>
    BY <1>16 DEF Disconnect, Stop, Restart
  <2>2. ReplayTypes' /\ LiveTypes' /\ StreamTypes' /\ Handoffs'
    BY <2>1, TornType
  <2>3. RunTypes'
    BY <1>16, <2>1, <1>f, FaultType DEF Disconnect, Stop, Restart, RunTypes, States
  <2>4. WalTypes'
    <3>1. UNCHANGED <<log, gone>>
      BY <1>16 DEF Disconnect, Stop, Restart, walVars
    <3> QED BY <3>1, <1>i, <1>t DEF WalTypes
  <2> QED BY <1>16, <2>2, <2>3, <2>4, <1>s DEF Disconnect, Stop, Restart, RestTypes
<1>17. CASE Rejected
  <2>1. RunTypes' /\ Handoffs'
    BY <1>17, <1>f, <1>h, FaultType DEF Rejected, RunTypes, States, Handoffs
  <2> QED BY <1>17, <2>1, <1>w, <1>r, <1>l, <1>s, <1>u DEF Rejected, RestTypes
<1>18. CASE StopLive
  <2>1. RunTypes' /\ Handoffs'
    BY <1>18, <1>f DEF StopLive, RunTypes, States, Handoffs
  <2> QED BY <1>18, <2>1, <1>w, <1>r, <1>l, <1>s, <1>u DEF StopLive, RestTypes
<1>19. CASE ShutdownDrain
  <2>1. rdr' \in ReaderType /\ log[NextPos] \in Records
    BY <1>19, <1>n DEF ShutdownDrain
  <2>2. PICK full \in BOOLEAN : LET b == Add(log[NextPos], full) IN batch' = b.stay /\ Send(b.out)
    BY <1>19 DEF ShutdownDrain
  <2> DEFINE b == Add(log[NextPos], full)
  <2>3. b.out \in Seq(Records) /\ b.stay \in Seq(Records)
    BY <2>1, <1>b, AddType
  <2> HIDE DEF b
  <2>4. batch' = b.stay /\ Send(b.out)
    BY <2>2 DEF b
  <2>5. StreamTypes'
    BY <1>19, <2>3, <2>4, <1>e DEF ShutdownDrain
  <2>6. ReplayTypes' /\ Handoffs'
    BY <1>19, <2>1, <1>t DEF ShutdownDrain, ReplayTypes, replayVars, Handoffs
  <2> QED BY <1>19, <2>5, <2>6, <1>w, <1>l, <1>s, <1>q DEF ShutdownDrain, RestTypes
<1>20. CASE ShutdownFlush
  <2>1. up' \in Seq(Frames)
    <3>1. up \in Seq(Frames) /\ Encode(batch) \in Seq(Frames)
      BY <1>b, <1>t, EncodeType DEF StreamTypes
    <3>2. up \o Encode(batch) \in Seq(Frames)
      BY <3>1, ConcatProperties
    <3> QED BY <1>20, <3>1, <3>2 DEF ShutdownFlush
  <2>2. ReplayTypes' /\ LiveTypes' /\ StreamTypes' /\ Handoffs'
    BY <1>20, <2>1, TornType DEF ShutdownFlush
  <2>3. RunTypes'
    BY <1>20, <1>f DEF ShutdownFlush, RunTypes, States
  <2> QED BY <1>20, <2>2, <2>3, <1>w, <1>s DEF ShutdownFlush, RestTypes
<1>21. CASE ServerTake
  <2>1. Head(up) \in Frames /\ Tail(up) \in Seq(Frames)
    BY <1>21, <1>t DEF ServerTake, StreamTypes
  <2> DEFINE f == Head(up)
  <2>2. f.has \subseteq Tuples /\ <<f.gen, f.to>> \in Tuples
    BY <2>1 DEF Frames, Tuples
  <2> HIDE DEF f
  <2>3. /\ received' \in {received, received \cup f.has} /\ told' \in {told, told \cup f.has}
        /\ srvHigh' = TupleMax(srvHigh, <<f.gen, f.to>>)
        /\ down' \in {down, Append(down, <<f.gen, f.to>>)}
        /\ up' = Tail(up)
    BY <1>21 DEF ServerTake, f
  <2>4. ServerTypes'
    <3>1. srvHigh' \in AckTuples
      BY <2>2, <2>3, <1>t, MaxTuple DEF ServerTypes, AckTuples
    <3> QED BY <2>2, <2>3, <3>1, <1>t DEF ServerTypes
  <2>5. StreamTypes'
    <3>1. down \in Seq(Tuples)
      BY <1>t DEF StreamTypes
    <3>2. Append(down, <<f.gen, f.to>>) \in Seq(Tuples)
      BY <2>2, <3>1, AppendProperties
    <3>3. down' \in Seq(Tuples)
      BY <2>3, <3>1, <3>2
    <3>4. batch' = batch /\ wire' = wire
      BY <1>21 DEF ServerTake
    <3> QED BY <2>1, <2>3, <3>3, <3>4, <1>t DEF StreamTypes
  <2> QED BY <1>21, <2>4, <2>5, <1>w, <1>r, <1>l, <1>q, <1>k DEF ServerTake, RestTypes, replayVars
<1>22. CASE ServerHeartbeat
  <2>1. Known \subseteq Tuples
    BY <1>t, ZeroTuple, TransportConstants DEF Known, ServerTypes, AckTuples, Tuples, Seqs
  <2>2. down' \in Seq(Tuples)
    BY <1>22, <2>1 DEF ServerHeartbeat
  <2>3. StreamTypes'
    BY <1>22, <2>2, <1>t DEF ServerHeartbeat, StreamTypes
  <2> QED BY <1>22, <2>3, <1>w, <1>r, <1>l, <1>s, <1>q, <1>k DEF ServerHeartbeat, RestTypes, replayVars
<1> QED BY <1>0, <1>1, <1>2, <1>3, <1>4, <1>5, <1>6, <1>7, <1>8, <1>9, <1>10, <1>11, <1>12, <1>13,
           <1>14, <1>15, <1>16, <1>17, <1>18, <1>19, <1>20, <1>21, <1>22 DEF Next, Client, Writer

LEMMA TransInit == Init => TransInv
<1> SUFFICES ASSUME Init PROVE TransInv
  OBVIOUS
<1>1. AckInv
  BY AckInit
<1>2. << >> \in Seq([gen : Gens, start : Nat]) /\ << >> \in Seq(Tuples) /\ << >> \in Seq(Records)
      /\ << >> \in Seq(Frames)
  OBVIOUS
<1>3. WalTypes
  BY TransportConstants DEF Init, WalTypes
<1>4. ReplayTypes
  BY <1>2, ZeroTuple, TransportConstants DEF Init, ReplayTypes, ReaderType
<1>5. LiveTypes
  <2>1. pump = "drain" /\ notified = FALSE /\ inflight = << >>
    BY DEF Init
  <2> QED BY <2>1, <1>2, Zenon DEF LiveTypes
<1>6. StreamTypes /\ ServerTypes /\ RunTypes /\ Handoffs
  BY <1>2 DEF Init, StreamTypes, ServerTypes, RunTypes, States, Handoffs, AckTuples
<1> QED BY <1>1, <1>3, <1>4, <1>5, <1>6 DEF TransInv, RestTypes

LEMMA TransInvariance == Spec => []TransInv
BY TransInit, TransStep, PTL DEF Spec

\* Every variable of the transport keeps its type.
THEOREM TypeCorrect == Spec => []TypeOK
<1>1. TransInv => TypeOK
  BY TypesTogether DEF TransInv, AckInv, AckCore
<1> QED BY <1>1, TransInvariance, PTL

-----------------------------------------------------------------------------
(* The wake-up.                                                            *)

\* A Reader whose file is removed under it has no more to read.
LEMMA ReadableShrinks ==
  ASSUME log' = log, rdr \in ReaderType,
         rdr' = rdr \/ \E X : rdr' = [rdr EXCEPT !.missing = @ \cup X]
  PROVE  CaughtUp => CaughtUp'
<1>1. rdr'.gen = rdr.gen /\ rdr'.start = rdr.start /\ rdr'.pos = rdr.pos
      /\ rdr.missing \subseteq rdr'.missing
  BY DEF ReaderType
<1>2. Readable' \subseteq Readable
  BY <1>1 DEF Readable, Surfaces
<1> QED BY <1>2 DEF CaughtUp

LEMMA WakeStep == TransInv /\ NoLostWakeup /\ [Next]_vars => NoLostWakeup'
<1> SUFFICES ASSUME TransInv, NoLostWakeup, [Next]_vars,
                    st' = "live", pump' = "select", Len(inflight') < MaxInflight, ~CaughtUp'
             PROVE  notified'
  BY Zenon DEF NoLostWakeup, Selecting
<1>r. rdr \in ReaderType
  BY DEF TransInv, RestTypes, ReplayTypes
<1>1. CASE st = "live" /\ pump = "select" /\ inflight' = inflight /\ notified' = notified
           /\ log' = log /\ (rdr' = rdr \/ \E X : rdr' = [rdr EXCEPT !.missing = @ \cup X])
  <2>1. ~CaughtUp
    BY <1>1, <1>r, ReadableShrinks, Zenon
  <2> QED BY <1>1, <2>1, Zenon DEF NoLostWakeup, Selecting
<1>2. ASSUME NEW t \in Tuples, WalAppend(t) PROVE notified'
  <2>1. st = "live" /\ notified' = (notified \/ Reading)
    BY <1>2 DEF WalAppend
  <2>2. Reading
    BY <2>1 DEF Reading
  <2> QED BY <2>1, <2>2, Zenon
<1>3. ASSUME NEW t \in Tuples, WalAppendLoss(t) PROVE notified'
  <2>1. st = "live" /\ notified' = (notified \/ Reading)
    BY <1>3 DEF WalAppendLoss
  <2>2. Reading
    BY <2>1 DEF Reading
  <2> QED BY <1>3, <2>1, <2>2, Zenon DEF WalAppendLoss
<1>4. CASE Reclaim
  <2>1. UNCHANGED <<st, pump, inflight, log, notified>>
    BY <1>4 DEF Reclaim, liveVars
  <2>2. rdr' = rdr \/ \E X : rdr' = [rdr EXCEPT !.missing = @ \cup X]
    BY <1>4 DEF Reclaim, RemoveFile
  <2> QED BY <1>1, <2>1, <2>2
<1>5. CASE LiveDrained
  <2>1. UNCHANGED <<inflight, log, rdr>> /\ (Len(inflight) >= MaxInflight \/ CaughtUp)
    BY <1>5 DEF LiveDrained, walVars
  <2>2. CaughtUp => CaughtUp'
    BY <2>1, <1>r, ReadableShrinks
  <2>3. Len(inflight) \in Nat /\ MaxInflight \in Nat
    BY TransportConstants DEF TransInv, RestTypes, LiveTypes
  <2> QED BY <2>1, <2>2, <2>3
<1>6. CASE LiveTick
  <2>1. /\ st = "live" /\ pump = "select" /\ Len(inflight) < MaxInflight
        /\ UNCHANGED <<log, rdr, notified>>
    BY <1>6 DEF LiveTick, Selecting, walVars
  <2>2. ~CaughtUp
    BY <2>1, <1>r, ReadableShrinks, Zenon
  <2> QED BY <2>1, <2>2, Zenon DEF NoLostWakeup, Selecting
<1>7. CASE LiveRecv
  <2>1. UNCHANGED <<log, rdr, notified, st>> /\ st = "live" /\ pump = "select"
    BY <1>7 DEF LiveRecv, Selecting, walVars
  <2>2. inflight' = inflight
    BY <1>7 DEF LiveRecv
  <2> QED BY <1>1, <2>1, <2>2
<1>8. CASE ServerTake \/ ServerHeartbeat \/ UNCHANGED vars
  <2>1. UNCHANGED <<st, pump, inflight, rdr, log, notified>>
    BY <1>8 DEF ServerTake, ServerHeartbeat, vars, walVars, liveVars
  <2> QED BY <1>1, <2>1
<1>9. ~(Connect \/ PlanReplay \/ OpenStage \/ ReplayRead \/ ReplaySend \/ ReplayDone \/ ReplayRecv
        \/ EnterLive \/ LiveDrain \/ LiveNotify)
  BY DEF Connect, PlanReplay, OpenStage, ReplayRead, ReplaySend, ReplayDone, ReplayRecv, StageDone,
         EnterLive, LiveDrain, LiveNotify
<1>10. ~(ShutdownDrain \/ ShutdownFlush \/ Disconnect \/ Rejected \/ Stop \/ StopLive \/ Restart)
  BY DEF ShutdownDrain, ShutdownFlush, Disconnect, Rejected, Stop, StopLive, Restart
<1> QED BY <1>2, <1>3, <1>4, <1>5, <1>6, <1>7, <1>8, <1>9, <1>10 DEF Next, Client, Writer

\* runLive never waits while there is room and a record, unless the token is
\* there, however appends, reclamation, acks and ticks interleave.
THEOREM WakeupKept == Spec => []NoLostWakeup
<1>1. Init => NoLostWakeup
  BY DEF Init, NoLostWakeup, Selecting
<1> QED BY <1>1, WakeStep, TransInvariance, PTL DEF Spec

-----------------------------------------------------------------------------
(* The window.                                                             *)

\* Only the first record of a batch can be a loss marker, and only if the WAL
\* had one.
ShapeOf(b) == /\ \A i \in DOMAIN b : i # 1 => IsData(b[i])
              /\ (\E i \in DOMAIN b : ~IsData(b[i])) => Markers # {}

WindowInv == WithinWindow /\ (st = "live" => ShapeOf(batch))

Slots == IF Markers = {} THEN 1 ELSE 2

\* Such a batch is one frame, or two if there is a marker.
LEMMA FrameCount ==
  ASSUME NEW b \in Seq(Records), ShapeOf(b)
  PROVE  Cardinality(FrameEnds(b)) \in Nat /\ Cardinality(FrameEnds(b)) <= Slots
<1>1. DOMAIN b = 1..Len(b) /\ Len(b) \in Nat
  OBVIOUS
<1>2. IsFiniteSet(FrameEnds(b)) /\ Cardinality(FrameEnds(b)) \in Nat
  BY EncodeType
<1>3. FrameEnds(b) \subseteq {1, Len(b)}
  BY <1>1 DEF FrameEnds, ShapeOf
<1>4. Markers = {} => FrameEnds(b) \subseteq {Len(b)}
  BY <1>1 DEF FrameEnds, ShapeOf
<1>5. IsFiniteSet({Len(b)}) /\ Cardinality({Len(b)}) = 1
  BY FS_Singleton
<1>6. IsFiniteSet({Len(b)} \cup {1}) /\ Cardinality({Len(b)} \cup {1}) <= 2
  <2>1. IsFiniteSet({Len(b)} \cup {1})
        /\ Cardinality({Len(b)} \cup {1})
             = IF 1 \in {Len(b)} THEN Cardinality({Len(b)}) ELSE Cardinality({Len(b)}) + 1
    BY <1>5, FS_AddElement, Zenon
  <2>2. \A c \in {1} : \A d : d = (IF 1 \in {Len(b)} THEN c ELSE c + 1) => d <= 2
    OBVIOUS
  <2>3. Cardinality({Len(b)}) \in {1}
    BY <1>5, Zenon
  <2>4. Cardinality({Len(b)} \cup {1}) <= 2
    BY <2>1, <2>2, <2>3, Zenon
  <2> QED BY <2>1, <2>4, Zenon
<1>7. {Len(b)} \cup {1} = {1, Len(b)}
  OBVIOUS
<1>8. Cardinality({1, Len(b)}) \in Nat
  BY <1>6, <1>7, FS_CardinalityType
<1>9. Cardinality(FrameEnds(b)) <= Cardinality({1, Len(b)})
  BY <1>3, <1>6, <1>7, FS_Subset
<1>10. Markers = {} => Cardinality(FrameEnds(b)) <= 1
  BY <1>4, <1>5, FS_Subset
<1> QED BY <1>2, <1>6, <1>7, <1>8, <1>9, <1>10 DEF Slots

LEMMA AddShape ==
  ASSUME batch \in Seq(Records), ShapeOf(batch), NEW r \in Records, NEW full \in BOOLEAN,
         ~IsData(r) => Markers # {}
  PROVE  ShapeOf(Add(r, full).out) /\ ShapeOf(Add(r, full).stay)
<1> DEFINE joined == Append(batch, r)
<1>1. ShapeOf(<< >>) /\ ShapeOf(<<r>>)
  BY DEF ShapeOf
<1>2. batch = << >> \/ Joins(r) => ShapeOf(joined)
  <2>1. DOMAIN batch = 1..Len(batch) /\ Len(batch) \in Nat
    OBVIOUS
  <2>2. /\ DOMAIN joined = 1..(Len(batch) + 1) /\ joined[Len(batch) + 1] = r
        /\ \A i \in 1..Len(batch) : joined[i] = batch[i]
    OBVIOUS
  <2>3. ASSUME batch # << >>, Joins(r) PROVE IsData(r)
    <3>1. Last(batch) \in Records
      BY <2>3 DEF Last
    <3>2. RecSeq(Last(batch)) \in Nat
      BY <3>1, TransportConstants DEF RecSeq, Records, Seqs
    <3>3. RecSeq(r) # 0
      BY <2>3, <3>2 DEF Joins
    <3> QED BY <3>3 DEF RecSeq
  <2> HIDE DEF joined
  <2> QED BY <2>1, <2>2, <2>3 DEF ShapeOf
<1> HIDE DEF joined
<1>3. \/ Add(r, full) = [out |-> batch, stay |-> <<r>>]
      \/ (batch = << >> \/ Joins(r)) /\ Add(r, full) = [out |-> joined, stay |-> << >>]
      \/ (batch = << >> \/ Joins(r)) /\ Add(r, full) = [out |-> << >>, stay |-> joined]
  BY DEF Add, joined
<1> QED BY <1>1, <1>2, <1>3

\* Markers stay in the history of the WAL.
LEMMA MarkersStay ==
  ASSUME log \in Seq(Records), Grows
  PROVE  Markers # {} => Markers' # {}
BY DEF Grows, Markers, DataAt

LEMMA WindowStep == TransInv /\ WindowInv /\ [Next]_vars => WindowInv'
<1> SUFFICES ASSUME TransInv, WindowInv, [Next]_vars, st' = "live"
             PROVE  /\ Len(inflight') <= MaxInflight + (IF Markers' = {} THEN 0 ELSE 1)
                    /\ ShapeOf(batch)'
  BY DEF WindowInv, WithinWindow
<1>g. log \in Seq(Records) /\ Grows
  BY LogStep DEF TransInv, AckInv, AckCore, AckTypes
<1>m. Markers # {} => Markers' # {}
  BY <1>g, MarkersStay
<1>t. batch \in Seq(Records) /\ inflight \in Seq(Tuples) /\ Len(inflight) \in Nat
      /\ MaxInflight \in Nat
  BY TransportConstants DEF TransInv, RestTypes, StreamTypes, LiveTypes
<1>b. \A b : b = batch' /\ ShapeOf(b) => ShapeOf(batch)'
  BY <1>m DEF ShapeOf
<1>l. st = "live" => ShapeOf(batch) /\ Len(inflight) <= MaxInflight + (IF Markers = {} THEN 0 ELSE 1)
  BY DEF WindowInv, WithinWindow
<1>1. CASE st = "live" /\ batch' = batch /\ Len(inflight') \in Nat /\ Len(inflight') <= Len(inflight)
  BY <1>1, <1>l, <1>b, <1>m, <1>t
\* A batch goes out into a window that has room.
<1>2. ASSUME NEW out \in Seq(Records), ShapeOf(out), Len(inflight) < MaxInflight,
             inflight' = Pushed(out)
      PROVE  Len(inflight') <= MaxInflight + (IF Markers' = {} THEN 0 ELSE 1)
  <2>1. Len(inflight') = Len(inflight) + Cardinality(FrameEnds(out))
    BY <1>2, <1>t, PushedType
  <2>2. Cardinality(FrameEnds(out)) \in Nat /\ Cardinality(FrameEnds(out)) <= Slots
    BY <1>2, FrameCount
  <2> QED BY <1>2, <1>t, <1>m, <2>1, <2>2 DEF Slots
<1>3. CASE EnterLive
  <2>1. batch' = << >> /\ inflight' = << >>
    BY <1>3 DEF EnterLive, TransInv, Handoffs
  <2>2. ShapeOf(<< >>)
    BY DEF ShapeOf
  <2> QED BY <2>1, <2>2, <1>b, <1>t
<1>4. CASE LiveDrain
  <2>1. PICK full \in BOOLEAN : /\ batch' = Add(log[NextPos], full).stay
                                /\ inflight' = Pushed(Add(log[NextPos], full).out)
    BY <1>4 DEF LiveDrain
  <2>2. st = "live" /\ Len(inflight) < MaxInflight /\ ~CaughtUp
    BY <1>4 DEF LiveDrain
  <2>3. NextPos \in DOMAIN log /\ log[NextPos] \in Records
    BY <2>2, <1>g, NextRead
  <2>4. ~IsData(log[NextPos]) => Markers # {}
    BY <2>3 DEF Markers, DataAt
  <2>5. ShapeOf(Add(log[NextPos], full).out) /\ ShapeOf(Add(log[NextPos], full).stay)
    BY <2>2, <2>3, <2>4, <1>l, <1>t, AddShape
  <2>6. Add(log[NextPos], full).out \in Seq(Records)
    BY <2>3, <1>t, AddType
  <2> QED BY <2>1, <2>2, <2>5, <2>6, <1>2, <1>b
<1>5. CASE LiveTick
  <2>1. st = "live" /\ Len(inflight) < MaxInflight /\ inflight' = Pushed(batch) /\ batch' = << >>
    BY <1>5 DEF LiveTick, Selecting
  <2>2. ShapeOf(<< >>)
    BY DEF ShapeOf
  <2> QED BY <2>1, <2>2, <1>2, <1>b, <1>l, <1>t
<1>6. CASE LiveRecv
  <2>1. st = "live" /\ batch' = batch /\ (inflight' = inflight \/ \E a : inflight' = Release(a))
    BY <1>6 DEF LiveRecv, Selecting
  <2>2. \A a : Release(a) \in Seq(Tuples) /\ Len(Release(a)) <= Len(inflight)
    BY <1>t, ReleaseType
  <2>3. Len(inflight') \in Nat /\ Len(inflight') <= Len(inflight)
    BY <2>1, <2>2, <1>t
  <2> QED BY <2>1, <2>3, <1>1
<1>7. CASE UNCHANGED <<st, batch, inflight>>
  BY <1>7, <1>1, <1>t
<1>8. ASSUME NEW t \in Tuples, WalAppend(t) \/ WalAppendLoss(t) PROVE UNCHANGED <<st, batch, inflight>>
  BY <1>8 DEF WalAppend, WalAppendLoss
<1>9. Reclaim \/ LiveDrained \/ LiveNotify \/ ServerTake \/ ServerHeartbeat \/ UNCHANGED vars
      => UNCHANGED <<st, batch, inflight>>
  BY DEF Reclaim, LiveDrained, LiveNotify, ServerTake, ServerHeartbeat, vars, liveVars
<1>10. ~(Connect \/ PlanReplay \/ OpenStage \/ ReplayRead \/ ReplaySend \/ ReplayDone \/ ReplayRecv)
  BY DEF Connect, PlanReplay, OpenStage, ReplayRead, ReplaySend, ReplayDone, ReplayRecv, StageDone
<1>11. ~(ShutdownDrain \/ ShutdownFlush \/ Disconnect \/ Rejected \/ Stop \/ StopLive \/ Restart)
  BY DEF ShutdownDrain, ShutdownFlush, Disconnect, Rejected, Stop, StopLive, Restart
<1> QED BY <1>3, <1>4, <1>5, <1>6, <1>7, <1>8, <1>9, <1>10, <1>11 DEF Next, Client, Writer

\* The window holds MaxInflight frames, and one more only once the WAL has had
\* a loss marker, for every size of window and batch.
THEOREM WindowKept == Spec => []WithinWindow
<1>1. Init => WindowInv
  BY DEF Init, WindowInv, WithinWindow
<1>2. WindowInv => WithinWindow
  BY DEF WindowInv
<1> QED BY <1>1, <1>2, WindowStep, TransInvariance, PTL DEF Spec

-----------------------------------------------------------------------------
(* The log is in order.                                                    *)

\* Generations go up through the log.  A drop's marker is of the generation of a
\* record that arrived.
Sorted(s) ==
    /\ \A i, j \in 1..Len(s) : i < j /\ IsData(s[j]) => s[i].gen <= s[j].gen
    /\ \A i \in 1..Len(s) : IsData(s[i]) => s[i].to = s[i].from /\ s[i].file = s[i].gen
    /\ \A i \in 1..Len(s) : s[i].kind = "overflow" =>
          \E j \in 1..Len(s) : s[j].kind # "overflow" /\ s[j].gen = s[i].gen

LEMMA RecordTuples ==
  ASSUME NEW r \in Records
  PROVE  /\ End(r) \in Tuples /\ Tuple(r) \in Tuples
         /\ End(r) \in Int \X Int /\ Tuple(r) \in Int \X Int
<1>1. End(r) \in Tuples /\ Tuple(r) \in Tuples
  BY DEF End, Tuple, Tuples, Records
<1> QED BY <1>1, AckTupleType DEF AckTuples

LEMMA AppendSorted ==
  ASSUME NEW s \in Seq(Records), NEW r \in Records, Sorted(s),
         IsData(r) => /\ \A i \in 1..Len(s) : s[i].gen <= r.gen
                      /\ r.to = r.from /\ r.file = r.gen,
         r.kind = "overflow" => \E j \in 1..Len(s) : s[j].kind # "overflow" /\ s[j].gen = r.gen
  PROVE  Sorted(Append(s, r))
<1> DEFINE t == Append(s, r)
<1>1. /\ Len(t) = Len(s) + 1 /\ Len(s) \in Nat /\ t[Len(s) + 1] = r
      /\ \A i \in 1..Len(s) : t[i] = s[i] /\ s[i] \in Records
  OBVIOUS
<1> HIDE DEF t
<1>2. ASSUME NEW i \in 1..Len(t), NEW j \in 1..Len(t), i < j, IsData(t[j])
      PROVE  t[i].gen <= t[j].gen
  <2>0. i \in 1..Len(s)
    BY <1>1, <1>2
  <2>1. CASE j = Len(s) + 1
    BY <1>1, <1>2, <2>0, <2>1
  <2>2. CASE j \in 1..Len(s)
    BY <1>1, <1>2, <2>0, <2>2 DEF Sorted
  <2> QED BY <1>1, <2>1, <2>2
<1>3. ASSUME NEW i \in 1..Len(t), IsData(t[i]) PROVE t[i].to = t[i].from /\ t[i].file = t[i].gen
  BY <1>1, <1>3 DEF Sorted
<1>4. ASSUME NEW i \in 1..Len(t), t[i].kind = "overflow"
      PROVE  \E j \in 1..Len(t) : t[j].kind # "overflow" /\ t[j].gen = t[i].gen
  <2>1. PICK j \in 1..Len(s) : s[j].kind # "overflow" /\ s[j].gen = t[i].gen
    BY <1>1, <1>4 DEF Sorted
  <2>2. j \in 1..Len(t) /\ t[j] = s[j]
    BY <1>1
  <2> QED BY <2>1, <2>2
<1> QED BY <1>2, <1>3, <1>4 DEF Sorted, t

\* A writer comes with a generation that is not below any in the log.
LEMMA NextTupleAbove ==
  ASSUME log \in Seq(Records), Sorted(log), NEW t \in NextTuples
  PROVE  t \in Tuples /\ \A i \in 1..Len(log) : log[i].gen <= t[1]
<1>1. t \in Tuples /\ \A u \in Arrived : u[1] <= t[1]
  BY DEF NextTuples
<1>2. ASSUME NEW i \in 1..Len(log), log[i].kind # "overflow" PROVE log[i].gen <= t[1]
  <2>1. Tuple(log[i]) \in Arrived
    BY <1>2 DEF Arrived
  <2> QED BY <1>1, <2>1 DEF Tuple
<1>3. ASSUME NEW i \in 1..Len(log), log[i].kind = "overflow" PROVE log[i].gen <= t[1]
  <2>1. PICK j \in 1..Len(log) : log[j].kind # "overflow" /\ log[j].gen = log[i].gen
    BY <1>3 DEF Sorted
  <2> QED BY <1>2, <2>1
<1> QED BY <1>1, <1>2, <1>3

\* The marker for a dropped file has its generation, and ends at one of its records.
LEMMA DropEnd ==
  ASSUME log \in Seq(Records), Sorted(log), NEW j \in DOMAIN log, NEW k \in DOMAIN log,
         IsFile(j, k), DataOf(j, k) # {}
  PROVE  /\ DropMarker(j, k) \in Records /\ ~IsData(DropMarker(j, k))
         /\ DropMarker(j, k).kind = "overflow"
         /\ \A i \in DataOf(j, k) : log[i].gen = DropMarker(j, k).gen
         /\ \E i \in DataOf(j, k) : log[i].to = DropMarker(j, k).to
         /\ \A i \in DataOf(j, k) : InPlace(i) => Tuple(log[i]) \in Covered(DropMarker(j, k))
<1> DEFINE ds == DataOf(j, k)
           n  == Len(log)
<1>1. n \in Nat /\ ds \subseteq 1..n /\ ds \in SUBSET (0..n) /\ ds \in SUBSET Nat
      /\ \A i \in 1..n : log[i] \in Records
  BY DEF DataOf, DataAt
<1>2. \A i \in ds : log[i].file = log[k].file /\ IsData(log[i])
  BY DEF IsFile, DataOf, DataAt
<1>a. \A i \in ds : i \in DataAt
  BY DEF DataOf
<1> HIDE DEF ds, n
<1>3. Max(ds) \in ds /\ Min(ds) \in ds /\ \A i \in ds : Min(ds) <= i /\ i <= Max(ds)
  BY <1>1, MaxIsGreatest, MinIsLeast DEF ds
<1> DEFINE lo == log[Min(ds)].from
           hi == log[Max(ds)].from
           g  == log[k].file
<1>5. lo \in Seqs /\ hi \in Seqs
  <2>1. log[Min(ds)] \in Records /\ log[Max(ds)] \in Records
    BY <1>1, <1>3
  <2> QED BY <2>1 DEF Records
<1>6. DropMarker(j, k) = [kind |-> "overflow", gen |-> g, from |-> lo, to |-> hi,
                          file |-> LiveFile(log[k].file)]
  BY DEF DropMarker, Marker, ds
<1>7. DropMarker(j, k) \in Records /\ ~IsData(DropMarker(j, k)) /\ DropMarker(j, k).kind = "overflow"
  BY <1>6, WrittenRecords DEF IsData
<1>s. \A i \in ds : log[i].gen = g /\ log[i].to = log[i].from /\ log[i] \in Records
  BY <1>1, <1>2 DEF Sorted, n
<1>8. ASSUME NEW i \in ds, InPlace(i) PROVE Tuple(log[i]) \in Covered(DropMarker(j, k))
  <2>1. i \in 1..n /\ Min(ds) \in 1..n /\ Max(ds) \in 1..n
    BY <1>1, <1>3
  <2>2. log[i] \in Records /\ Min(ds) \in Nat /\ Max(ds) \in Nat /\ i \in Nat /\ 1 <= Min(ds)
    <3>1. log[i] \in Records
      BY <1>s
    <3>2. n \in Nat
      BY DEF n
    <3>3. \A x \in 1..n : x \in Nat /\ 1 <= x
      BY <3>2
    <3> QED BY <2>1, <3>1, <3>3
  <2>3. log[i].from \in Seqs /\ log[i].from \in Int /\ log[i].gen \in Nat
    <3>1. log[i].from \in Seqs /\ log[i].gen \in Gens
      BY <2>2 DEF Records
    <3>2. \A x \in Seqs : x \in Int
      BY TransportConstants DEF Seqs
    <3>3. \A x \in Gens : x \in Nat
      BY TransportConstants
    <3> QED BY <3>1, <3>2, <3>3
  <2>4. lo \in Int /\ hi \in Int
    BY <1>5, TransportConstants DEF Seqs
  <2>5. lo <= log[i].from
    <3>1. CASE Min(ds) = i
      BY <3>1, <2>4
    <3>2. CASE Min(ds) # i
      <4>1. Min(ds) \in 1..(i - 1)
        BY <3>2, <2>2, <1>3
      <4>2. TupleLess(End(log[Min(ds)]), Tuple(log[i]))
        BY <4>1, <1>8 DEF InPlace
      <4> QED BY <4>2, <1>s, <1>3, <2>3, <2>4 DEF TupleLess, End, Tuple
    <3> QED BY <3>1, <3>2
  <2>6. log[i].from <= hi
    <3>1. CASE Max(ds) = i
      BY <3>1, <2>4
    <3>2. CASE Max(ds) # i
      <4>1. Max(ds) > i /\ Max(ds) \in DataAt
        BY <3>2, <2>2, <1>3, <1>a
      <4>2. TupleLess(Tuple(log[i]), Tuple(log[Max(ds)]))
        BY <4>1, <1>8 DEF InPlace
      <4> QED BY <4>2, <1>s, <1>3, <2>3, <2>4 DEF TupleLess, Tuple
    <3> QED BY <3>1, <3>2
  <2>7. Tuple(log[i]) = <<g, log[i].from>>
    BY <1>s DEF Tuple
  <2>8. DropMarker(j, k).gen = g /\ DropMarker(j, k).from = lo /\ DropMarker(j, k).to = hi
    BY <1>6
  <2> HIDE DEF lo, hi, g
  <2> QED BY <2>3, <2>5, <2>6, <2>7, <2>8 DEF Covered
<1>9. DropMarker(j, k).gen = g /\ DropMarker(j, k).to = hi
  BY <1>6
<1> QED BY <1>3, <1>7, <1>8, <1>9, <1>s DEF ds

LEMMA SortedStep == log \in Seq(Records) /\ Sorted(log) /\ [Next]_vars => Sorted(log')
<1> SUFFICES ASSUME log \in Seq(Records), Sorted(log), [Next]_vars PROVE Sorted(log')
  OBVIOUS
<1>t. Len(log) \in Nat
  OBVIOUS
<1>d. ASSUME NEW t \in Tuples
      PROVE  /\ Data(t[1], t[2]) \in Records /\ Data(t[1], t[2]).kind # "overflow"
             /\ Data(t[1], t[2]).gen = t[1]
             /\ Data(t[1], t[2]).to = Data(t[1], t[2]).from /\ Data(t[1], t[2]).file = t[1]
  BY WrittenRecords DEF Data
<1>1. ASSUME NEW t \in NextTuples, log' = Append(log, Data(t[1], t[2])) PROVE Sorted(log')
  BY <1>1, <1>d, NextTupleAbove, AppendSorted
<1>2. ASSUME NEW t \in NextTuples, NEW j \in DOMAIN log, NEW k \in DOMAIN log,
             IsFile(j, k), DataOf(j, k) # {},
             log' = log \o <<DropMarker(j, k), Data(t[1], t[2])>>
      PROVE  Sorted(log')
  <2> DEFINE m == DropMarker(j, k)
             d == Data(t[1], t[2])
             s == Append(log, m)
  <2>1. m \in Records /\ ~IsData(m) /\ m.kind = "overflow"
    BY <1>2, DropEnd
  <2>2. PICK i \in DataOf(j, k) : log[i].gen = m.gen
    BY <1>2, DropEnd
  <2>3. i \in 1..Len(log) /\ log[i].kind # "overflow"
    BY DEF DataOf, DataAt, IsData
  <2>4. t \in Tuples /\ \A p \in 1..Len(log) : log[p].gen <= t[1]
    BY NextTupleAbove
  <2>5. d \in Records /\ d.kind # "overflow" /\ d.gen = t[1] /\ d.to = d.from /\ d.file = t[1]
    BY <1>d, <2>4
  <2> HIDE DEF m, d
  <2>6. s \in Seq(Records) /\ Len(s) = Len(log) + 1 /\ s[Len(log) + 1] = m
        /\ \A p \in 1..Len(log) : s[p] = log[p]
    BY <2>1
  <2>7. Sorted(s)
    BY <2>1, <2>2, <2>3, AppendSorted
  <2>8. \A p \in 1..Len(s) : s[p].gen <= d.gen
    BY <1>t, <2>2, <2>3, <2>4, <2>5, <2>6
  <2> HIDE DEF s
  <2>9. Sorted(Append(s, d))
    BY <2>5, <2>6, <2>7, <2>8, AppendSorted
  <2>10. log' = Append(s, d)
    <3>1. log' = log \o <<m, d>>
      BY <1>2 DEF m, d
    <3> QED BY <2>1, <2>5, <3>1, TwoAppended DEF s
  <2> QED BY <2>9, <2>10
<1>3. ASSUME NEW t \in Tuples,
             log' = Append(log, Marker("inflight", t[1], t[2], t[2], LiveFile(t[1])))
      PROVE  Sorted(log')
  <2> DEFINE m == Marker("inflight", t[1], t[2], t[2], LiveFile(t[1]))
  <2>1. m \in Records /\ ~IsData(m) /\ m.kind # "overflow"
    BY WrittenRecords DEF Marker, IsData
  <2> HIDE DEF m
  <2>2. log' = Append(log, m)
    BY <1>3 DEF m
  <2> QED BY <2>1, <2>2, AppendSorted
<1>4. ASSUME NEW t \in Tuples, WalAppend(t) PROVE Sorted(log')
  BY <1>4, <1>1, <1>2 DEF WalAppend
<1>5. ASSUME NEW t \in Tuples, WalAppendLoss(t) PROVE Sorted(log')
  BY <1>5, <1>3 DEF WalAppendLoss
<1>6. CASE Reclaim \/ Restart \/ UNCHANGED walVars
  <2>1. log' = log
    BY <1>6 DEF Reclaim, Restart, walVars
  <2> QED BY <2>1
<1> QED BY <1>4, <1>5, <1>6, WalSteps

LEMMA SortedInit == Init => Sorted(log)
BY DEF Init, Sorted

\* A record that is in its place was in its place in a shorter log.
LEMMA PlacedBefore ==
  ASSUME log \in Seq(Records), Grows, NEW i \in DataAt, InPlace(i)'
  PROVE  i \in DataAt' /\ log'[i] = log[i] /\ InPlace(i)
<1>1. i \in 1..Len(log) /\ i \in Int /\ Len(log) \in Nat /\ IsData(log[i]) /\ Len(log') \in Nat
  BY DEF DataAt, Grows
<1>2. \A j \in 1..Len(log) : log'[j] = log[j] /\ j \in DOMAIN log'
  BY <1>1 DEF Grows
<1>3. i \in DataAt' /\ log'[i] = log[i] /\ \A j \in DataAt : j \in DataAt' /\ log'[j] = log[j]
  BY <1>1, <1>2 DEF DataAt, IsData
<1>4. \A j \in 1..(i - 1) : log'[j] = log[j]
  BY <1>1, <1>2
<1> QED BY <1>3, <1>4 DEF InPlace

\* Record i is in its place in log s.
Spot(s, i) ==
    /\ \A j \in 1..(i - 1) : TupleLess(End(s[j]), Tuple(s[i]))
    /\ \A j \in {k \in DOMAIN s : IsData(s[k])} : j > i => TupleLess(Tuple(s[i]), Tuple(s[j]))

LEMMA SpotIs == \A i : (InPlace(i) <=> Spot(log, i)) /\ (InPlace(i)' <=> Spot(log', i))
BY DEF InPlace, Spot, DataAt

\* No other user record has the tuple of a record that is in its place.
LEMMA PlacedOnce ==
  ASSUME NEW s \in Seq(Records), Sorted(s), NEW i \in DOMAIN s, Spot(s, i),
         NEW p \in DOMAIN s, IsData(s[p]), Tuple(s[p]) = Tuple(s[i])
  PROVE  p = i
<1>1. i \in 1..Len(s) /\ p \in 1..Len(s) /\ i \in Int /\ p \in Int /\ s[p] \in Records
  OBVIOUS
<1>2. Tuple(s[p]) \in Int \X Int /\ End(s[p]) = Tuple(s[p])
  BY <1>1, RecordTuples DEF Sorted, End, Tuple
<1>3. ~TupleLess(Tuple(s[p]), Tuple(s[p]))
  BY <1>2 DEF TupleLess
<1>4. CASE p < i
  <2>1. p \in 1..(i - 1)
    BY <1>1, <1>4
  <2> QED BY <2>1, <1>2, <1>3 DEF Spot
<1>5. CASE p > i
  BY <1>5, <1>3 DEF Spot
<1> QED BY <1>1, <1>4, <1>5

\* HighGeneration of any log s.
TopGen(s) == LET D == {i \in DOMAIN s : IsData(s[i])} IN IF D = {} THEN 0 ELSE s[Max(D)].gen

\* The generation of the newest data record is the highest.
LEMMA HighestGen ==
  ASSUME NEW s \in Seq(Records), Sorted(s)
  PROVE  TopGen(s) \in Gens /\ \A i \in DOMAIN s : IsData(s[i]) => s[i].gen <= TopGen(s)
<1> DEFINE D == {i \in DOMAIN s : IsData(s[i])}
           p == Max(D)
<1>1. CASE D = {}
  BY <1>1, TransportConstants DEF TopGen
<1>2. CASE D # {}
  <2>1. Len(s) \in Nat /\ D \in SUBSET (0..Len(s)) /\ D \subseteq 1..Len(s)
        /\ \A i \in D : IsData(s[i]) /\ s[i] \in Records
    OBVIOUS
  <2>2. TopGen(s) = s[p].gen
    BY <1>2 DEF TopGen
  <2>3. \A i \in DOMAIN s : IsData(s[i]) => i \in D
    OBVIOUS
  <2> HIDE DEF D
  <2>4. p \in D /\ \A i \in D : p >= i
    BY <1>2, <2>1, MaxIsGreatest
  <2> HIDE DEF p
  <2>5. \A i \in D : s[i].gen \in Gens /\ s[i].gen \in Nat
    BY <2>1, TransportConstants DEF Records
  <2>6. ASSUME NEW i \in D PROVE s[i].gen <= s[p].gen
    <3>1. i = p \/ s[i].gen <= s[p].gen
      BY <2>1, <2>4 DEF Sorted
    <3> QED BY <2>4, <2>5, <3>1
  <2> QED BY <2>2, <2>3, <2>4, <2>5, <2>6
<1> QED BY <1>1, <1>2

LEMMA HighIsTop == HighGeneration = TopGen(log) /\ HighGeneration' = TopGen(log')
BY DEF HighGeneration, TopGen, DataAt

LEMMA HighGrows ==
  ASSUME log \in Seq(Records), Grows, Sorted(log), Sorted(log')
  PROVE  HighGeneration \in Nat /\ HighGeneration' \in Nat /\ HighGeneration <= HighGeneration'
<1>1. log' \in Seq(Records) /\ DOMAIN log = 1..Len(log) /\ Len(log) \in Nat
      /\ \A i \in DOMAIN log : i \in DOMAIN log' /\ log'[i] = log[i]
  BY DEF Grows
<1>2. TopGen(log) \in Nat /\ TopGen(log') \in Nat
      /\ \A i \in DOMAIN log' : IsData(log'[i]) => log'[i].gen <= TopGen(log')
  BY <1>1, HighestGen, TransportConstants
<1> DEFINE D == {i \in DOMAIN log : IsData(log[i])}
<1>3. CASE D = {}
  BY <1>2, <1>3, HighIsTop DEF TopGen
<1>4. CASE D # {}
  <2>1. TopGen(log) = log[Max(D)].gen
    BY <1>4 DEF TopGen
  <2>2. D \in SUBSET (0..Len(log)) /\ \A i \in D : i \in DOMAIN log /\ IsData(log[i])
    BY <1>1
  <2> HIDE DEF D
  <2>3. Max(D) \in D
    BY <1>1, <1>4, <2>2, MaxIsGreatest
  <2> QED BY <1>1, <1>2, <2>1, <2>2, <2>3, HighIsTop
<1> QED BY <1>3, <1>4

-----------------------------------------------------------------------------
(* The order of what is sent.                                              *)

\* The data records sent last and waiting in the batch.
DataIn(b)     == {Tuple(b[j]) : j \in {k \in DOMAIN b : IsData(b[k])}}
TakenOf(w, b) == ({w} \ {NoAck}) \cup DataIn(b)
Taken         == TakenOf(wire, batch)

TakenWritten == \A x \in Taken : \E i \in DataAt : x = Tuple(log[i])
Placed       == {Tuple(log[i]) : i \in {j \in DataAt : InPlace(j)}}
BatchAbove   == \A x \in DataIn(batch) \cap Placed : TupleLess(wire, x)

\* What the open Reader has yet to return, if in its place, is above what was taken.
TakenBefore ==
    Reading => \A x \in Taken, i \in DataAt :
        i > rdr.pos /\ Surfaces(i) /\ InPlace(i) => TupleLess(x, Tuple(log[i]))

\* What was taken in earlier stages is of a lower generation, and the record
\* taken last in this one is lastReplayed.
Replayed ==
    st \in {"replaying", "entering"} =>
        /\ \A x \in Taken : \/ x[1] < rdr.gen /\ rdr.gen <= HighGeneration
                            \/ x[1] = rdr.gen
        /\ LastData(batch) # NoAck /\ LastData(batch)[1] = rdr.gen => LastData(batch) = lastRep

\* Stages go up in their generations, and all but the first are of generations
\* the log has.
Staged ==
    /\ st = "planning" => Taken = {}
    /\ \A m, n \in DOMAIN plan : m < n => plan[m].gen < plan[n].gen /\ plan[n].gen <= HighGeneration
    /\ st = "opening" =>
          \A x \in Taken, n \in DOMAIN plan : x[1] < plan[n].gen /\ plan[n].gen <= HighGeneration
    /\ st = "replaying" =>
          \A n \in DOMAIN plan : rdr.gen < plan[n].gen /\ plan[n].gen <= HighGeneration

OrdInv == Sorted(log) /\ TakenWritten /\ BatchAbove /\ TakenBefore /\ Replayed /\ Staged

LEMMA LastDataTaken ==
  ASSUME NEW b \in Seq(Records)
  PROVE  \/ LastData(b) = wire /\ DataIn(b) = {}
         \/ LastData(b) \in DataIn(b)
<1> DEFINE ds == {i \in DOMAIN b : IsData(b[i])}
<1>1. CASE ds = {}
  BY <1>1 DEF LastData, DataIn
<1>2. CASE ds # {}
  <2>1. Len(b) \in Nat /\ ds \in SUBSET (0..Len(b))
    OBVIOUS
  <2> HIDE DEF ds
  <2>2. Max(ds) \in ds
    BY <1>2, <2>1, MaxIsGreatest
  <2> QED BY <1>2, <2>2 DEF LastData, DataIn, ds
<1> QED BY <1>1, <1>2

LEMMA LastOfAppend ==
  ASSUME NEW b \in Seq(Records), NEW r \in Records
  PROVE  LastData(Append(b, r)) = IF IsData(r) THEN Tuple(r) ELSE LastData(b)
<1> DEFINE c == Append(b, r)
           D == {i \in DOMAIN b : IsData(b[i])}
           E == {i \in DOMAIN c : IsData(c[i])}
           n == Len(b)
<1>1. /\ n \in Nat /\ DOMAIN b = 1..n /\ DOMAIN c = 1..(n + 1) /\ c[n + 1] = r
      /\ \A i \in 1..n : c[i] = b[i]
  OBVIOUS
<1>2. LastData(c) = (IF E = {} THEN wire ELSE Tuple(c[Max(E)]))
      /\ LastData(b) = (IF D = {} THEN wire ELSE Tuple(b[Max(D)]))
  BY DEF LastData
<1> HIDE DEF c
<1>3. CASE IsData(r)
  <2> DEFINE m == n + 1
  <2>1. m \in Nat /\ m \in E /\ E \in SUBSET (0..m)
    BY <1>1, <1>3
  <2> HIDE DEF E, m
  <2>2. Max(E) \in E /\ \A y \in E : Max(E) >= y
    BY <2>1, MaxIsGreatest
  <2>3. Max(E) \in 0..m /\ Max(E) >= m
    BY <2>1, <2>2
  <2>4. Max(E) = m
    BY <2>1, <2>3
  <2>5. c[m] = r
    BY <1>1 DEF m
  <2> HIDE DEF n, D
  <2>6. E # {}
    BY <2>1
  <2>7. LastData(c) = Tuple(r)
    BY <1>2, <2>4, <2>5, <2>6
  <2> QED BY <1>3, <2>7 DEF c
<1>4. CASE ~IsData(r)
  <2>1. E = D
    <3>1. \A i \in 1..(n + 1) : i \in 1..n \/ i = n + 1
      BY <1>1
    <3> QED BY <1>1, <1>4, <3>1
  <2>2. D # {} => Max(D) \in 1..n
    <3>1. D \in SUBSET (0..n) /\ D \subseteq 1..n
      BY <1>1
    <3> HIDE DEF D, n
    <3> QED BY <1>1, <3>1, MaxIsGreatest
  <2> HIDE DEF D, E, n
  <2> QED BY <1>1, <1>2, <1>4, <2>1, <2>2 DEF c
<1> QED BY <1>3, <1>4

LEMMA DataInAppend ==
  ASSUME NEW b \in Seq(Records), NEW r \in Records
  PROVE  /\ DataIn(Append(b, r)) = DataIn(b) \cup (IF IsData(r) THEN {Tuple(r)} ELSE {})
         /\ DataIn(<<r>>) = IF IsData(r) THEN {Tuple(r)} ELSE {}
         /\ DataIn(<< >>) = {}
<1> DEFINE c == Append(b, r)
<1>1. /\ Len(b) \in Nat /\ DOMAIN b = 1..Len(b) /\ DOMAIN c = 1..(Len(b) + 1) /\ c[Len(b) + 1] = r
      /\ \A i \in 1..Len(b) : c[i] = b[i]
  OBVIOUS
<1> HIDE DEF c
<1>2. DataIn(c) \subseteq DataIn(b) \cup (IF IsData(r) THEN {Tuple(r)} ELSE {})
  <2> SUFFICES ASSUME NEW i \in 1..(Len(b) + 1), IsData(c[i])
               PROVE  Tuple(c[i]) \in DataIn(b) \cup (IF IsData(r) THEN {Tuple(r)} ELSE {})
    BY <1>1 DEF DataIn
  <2>1. CASE i = Len(b) + 1
    BY <1>1, <2>1
  <2>2. CASE i \in 1..Len(b)
    BY <1>1, <2>2 DEF DataIn
  <2> QED BY <1>1, <2>1, <2>2
<1>3. DataIn(b) \subseteq DataIn(c)
  BY <1>1 DEF DataIn
<1>4. IsData(r) => Tuple(r) \in DataIn(c)
  BY <1>1 DEF DataIn
<1>5. DataIn(<<r>>) = IF IsData(r) THEN {Tuple(r)} ELSE {}
  <2> DEFINE w == <<r>>
  <2>1. DOMAIN w = {1} /\ w[1] = r
    OBVIOUS
  <2> HIDE DEF w
  <2>2. DataIn(w) = IF IsData(r) THEN {Tuple(r)} ELSE {}
    BY <2>1 DEF DataIn
  <2> QED BY <2>2 DEF w
<1>6. DataIn(<< >>) = {}
  <2>1. DOMAIN << >> = {}
    OBVIOUS
  <2> QED BY <2>1 DEF DataIn
<1> QED BY <1>2, <1>3, <1>4, <1>5, <1>6 DEF c

\* The data records among the new frames are those of the batch that is sent.
LEMMA NewDataSent ==
  ASSUME up \in Seq(Frames), NEW b \in Seq(Records), up' = up \o Encode(b)
  PROVE  NewData \subseteq DataIn(b)
<1> DEFINE e == Encode(b)
           E == FrameEnds(b)
<1>1. e \in Seq(Frames) /\ Len(e) \in Nat /\ Len(e) = Cardinality(E) /\ Len(up) \in Nat
  BY EncodeType
<1>2. Len(b) \in Nat /\ DOMAIN b = 1..Len(b) /\ E \subseteq 1..Len(b) /\ E \in SUBSET (0..Len(b))
  BY DEF FrameEnds
<1>3. \A n \in 1..Len(e) : Nth(E, n) \in 1..Len(b) /\ e[n] = Frame(b, Nth(E, n))
  <2>1. \A n \in 1..Cardinality(E) : Nth(E, n) \in E
    BY <1>2, NthElement
  <2>2. e = [n \in 1..Cardinality(E) |-> Frame(b, Nth(E, n))]
    BY DEF Encode
  <2> QED BY <1>1, <1>2, <2>1, <2>2
<1> HIDE DEF e, E
<1>4. up' = up \o e
  BY DEF e
<1>5. /\ DOMAIN up' = 1..(Len(up) + Len(e))
      /\ \A i \in 1..(Len(up) + Len(e)) : i > Len(up) => up'[i] = e[i - Len(up)]
  BY <1>1, <1>4
<1> SUFFICES ASSUME NEW i \in DOMAIN up', i > Len(up), up'[i].kind = "events", NEW t \in up'[i].has
             PROVE  t \in DataIn(b)
  BY DEF NewData
<1>6. i - Len(up) \in 1..Len(e)
  BY <1>1, <1>5
<1>7. PICK k \in 1..Len(b) : up'[i] = Frame(b, k)
  BY <1>3, <1>5, <1>6
<1>8. IsData(b[k])
  BY <1>7 DEF Frame
<1>9. t \in {Tuple(b[j]) : j \in {x \in 1..k : \A l \in x..k : IsData(b[l])}}
  BY <1>7, <1>8 DEF Frame
<1>10. PICK j \in 1..k : t = Tuple(b[j]) /\ IsData(b[j])
  BY <1>9
<1>11. j \in DOMAIN b
  BY <1>2, <1>10
<1> QED BY <1>10, <1>11, Zenon DEF DataIn

\* A step of anyone but the sender.
LEMMA OrdQuiet ==
  ASSUME TransInv, OrdInv, [Next]_vars, UNCHANGED <<batch, wire, plan, lastRep>>,
         rdr'.gen = rdr.gen, rdr'.start = rdr.start, rdr'.pos = rdr.pos,
         st' = st \/ (st = "live" /\ st' = "draining") \/ st' = "stopped"
  PROVE  OrdInv'
<1>t. log \in Seq(Records) /\ Len(log) \in Nat
  BY DEF TransInv, AckInv, AckCore, AckTypes
<1>g. Grows /\ log' \in Seq(Records)
  BY <1>t, LogStep DEF Grows
<1>s. Sorted(log) /\ Sorted(log')
  BY <1>t, SortedStep DEF OrdInv
<1>k. Taken' = Taken
  BY DEF Taken
<1>d. /\ \A i \in DataAt : i \in DataAt' /\ log'[i] = log[i]
      /\ \A i \in DataAt' : i \in DataAt \/ i > Len(log)
      /\ \A i \in DataAt : log[i] \in Records /\ IsData(log[i]) /\ i \in 1..Len(log)
      /\ \A i \in DataAt' : log'[i] \in Records /\ IsData(log'[i]) /\ i \in Nat
  <2>1. /\ DOMAIN log = 1..Len(log) /\ DOMAIN log' = 1..Len(log') /\ Len(log') \in Nat
        /\ Len(log) <= Len(log') /\ \A i \in 1..Len(log) : log'[i] = log[i]
    BY <1>t, <1>g DEF Grows
  <2>2. \A i \in DataAt : log[i] \in Records /\ IsData(log[i]) /\ i \in 1..Len(log)
    BY <1>t DEF DataAt
  <2>3. \A i \in DataAt' : log'[i] \in Records /\ IsData(log'[i]) /\ i \in Nat
    BY <1>g DEF DataAt
  <2>4. \A i \in DataAt : i \in DataAt' /\ log'[i] = log[i]
    BY <1>t, <2>1, <2>2 DEF DataAt
  <2>5. \A i \in DataAt' : i \in DataAt \/ i > Len(log)
    BY <1>t, <2>1, <2>3 DEF DataAt
  <2> QED BY <2>2, <2>3, <2>4, <2>5
<1>h. HighGeneration \in Nat /\ HighGeneration' \in Nat /\ HighGeneration <= HighGeneration'
  BY <1>t, <1>g, <1>s, HighGrows
<1>1. TakenWritten'
  BY <1>k, <1>d DEF OrdInv, TakenWritten
<1>p. \A x \in Placed' : x \in Taken => x \in Placed
  <2> SUFFICES ASSUME NEW i \in DataAt', InPlace(i)', Tuple(log'[i]) \in Taken
               PROVE  Tuple(log'[i]) \in Placed
    BY DEF Placed
  <2>1. PICK p \in DataAt : Tuple(log'[i]) = Tuple(log[p])
    BY DEF OrdInv, TakenWritten
  <2>2. p \in DataAt' /\ log'[p] = log[p]
    BY <1>d
  <2>3. p = i
    <3>1. i \in DOMAIN log' /\ p \in DOMAIN log' /\ IsData(log'[p]) /\ Spot(log', i)
      BY <2>2, <1>d, SpotIs DEF DataAt
    <3> QED BY <2>1, <2>2, <3>1, <1>g, <1>s, PlacedOnce
  <2>4. InPlace(p)
    BY <1>t, <1>g, <2>3, PlacedBefore
  <2> QED BY <2>1, <2>4 DEF Placed
<1>2. BatchAbove'
  <2>1. DataIn(batch) \subseteq Taken
    BY DEF Taken, TakenOf
  <2> QED BY <2>1, <1>p DEF OrdInv, BatchAbove
<1>3. TakenBefore'
  <2> SUFFICES ASSUME Reading', NEW x \in Taken, NEW i \in DataAt', i > rdr'.pos, Surfaces(i)',
                      InPlace(i)'
               PROVE  TupleLess(x, Tuple(log'[i]))
    BY <1>k DEF TakenBefore
  <2>1. Reading
    BY DEF Reading
  <2>2. CASE i \in DataAt
    <3>1. log'[i] = log[i]
      BY <1>d, <2>2
    <3>2. Surfaces(i)
      BY <3>1 DEF Surfaces
    <3>3. InPlace(i)
      BY <2>2, <1>t, <1>g, PlacedBefore
    <3> QED BY <2>1, <2>2, <3>1, <3>2, <3>3 DEF OrdInv, TakenBefore
  <2>3. CASE i > Len(log)
    <3>1. PICK p \in DataAt : x = Tuple(log[p])
      BY DEF OrdInv, TakenWritten
    <3>2. p \in 1..(i - 1) /\ log'[p] = log[p] /\ IsData(log[p]) /\ p \in 1..Len(log)
      BY <1>d, <1>t, <2>3
    <3>3. End(log[p]) = x
      BY <1>s, <3>1, <3>2 DEF Sorted, End, Tuple
    <3>4. TupleLess(End(log'[p]), Tuple(log'[i]))
      BY <3>2 DEF InPlace
    <3> QED BY <3>2, <3>3, <3>4
  <2> QED BY <1>d, <2>2, <2>3
<1>r. rdr.gen \in Nat
  BY TransportConstants DEF TransInv, RestTypes, ReplayTypes, ReaderType
<1>4. Replayed'
  <2> SUFFICES ASSUME st' \in {"replaying", "entering"}, NEW x \in Taken
               PROVE  \/ x[1] < rdr'.gen /\ rdr'.gen <= HighGeneration'
                      \/ x[1] = rdr'.gen
    BY <1>k DEF OrdInv, Replayed, LastData
  <2>1. \/ x[1] < rdr.gen /\ rdr.gen <= HighGeneration
        \/ x[1] = rdr.gen
    BY DEF OrdInv, Replayed
  <2> QED BY <1>h, <1>r, <2>1
<1>5. Staged'
  <2>1. \A n \in DOMAIN plan : plan[n].gen \in Nat
    <3> DEFINE Stages == [gen : Gens, start : Nat]
    <3>1. plan \in Seq(Stages)
      BY DEF TransInv, RestTypes, ReplayTypes
    <3>2. \A x \in Stages : x.gen \in Nat
      BY TransportConstants
    <3> HIDE DEF Stages
    <3> QED BY <3>1, <3>2
  <2>2. \A n \in DOMAIN plan : plan[n].gen <= HighGeneration => plan[n].gen <= HighGeneration'
    BY <1>h, <2>1
  <2> QED BY <1>k, <2>2 DEF OrdInv, Staged
<1> QED BY <1>s, <1>1, <1>2, <1>3, <1>4, <1>5 DEF OrdInv

\* The Reader returns the first record past its position that it surfaces.
LEMMA ReadNext ==
  ASSUME log \in Seq(Records), ~CaughtUp
  PROVE  /\ NextPos \in DOMAIN log /\ NextPos \in Nat /\ log[NextPos] \in Records
         /\ NextPos > rdr.pos /\ Surfaces(NextPos)
         /\ \A j \in DOMAIN log : j > rdr.pos /\ j < NextPos => ~Surfaces(j) \/ j \in rdr.missing
<1>1. Readable \in SUBSET Nat /\ Readable # {} /\ Readable \subseteq 1..Len(log)
  BY DEF CaughtUp, Readable
<1>2. NextPos \in Readable /\ \A j \in Readable : NextPos <= j
  BY <1>1, MinIsLeast DEF NextPos
<1>3. \A j \in DOMAIN log : j < NextPos => j \notin Readable
  BY <1>1, <1>2
<1>4. NextPos > rdr.pos /\ Surfaces(NextPos)
  BY <1>2 DEF Readable
<1>5. \A j \in DOMAIN log : j > rdr.pos /\ j < NextPos => ~Surfaces(j) \/ j \in rdr.missing
  BY <1>3 DEF Readable
<1> QED BY <1>1, <1>2, <1>4, <1>5

\* `out` is sent and `stay` is the batch that remains, with what was read (X).
LEMMA OrdSend ==
  ASSUME TransInv, OrdInv, log' = log, NEW X,
         \A x \in X : /\ \E i \in DataAt : x = Tuple(log[i])
                      /\ x \in Placed => \A y \in Taken : TupleLess(y, x),
         NEW out \in Seq(Records), NEW stay \in Seq(Records), Send(out), batch' = stay,
         DataIn(out) \subseteq DataIn(batch) \cup X, DataIn(stay) \subseteq DataIn(batch) \cup X,
         \A y \in DataIn(out), x \in DataIn(stay) \cap Placed : TupleLess(y, x)
  PROVE  /\ Taken' \subseteq Taken \cup X
         /\ TakenWritten' /\ BatchAbove'
         /\ \A t \in NewData \cap Placed : TupleLess(wire, t)
<1>t. log \in Seq(Records) /\ up \in Seq(Frames) /\ wire \in AckTuples
  BY DEF TransInv, RestTypes, AckInv, AckCore, AckTypes, StreamTypes
<1>w. \/ wire' = wire /\ DataIn(out) = {}
      \/ wire' \in DataIn(out)
  BY LastDataTaken DEF Send
<1>1. Taken' \subseteq Taken \cup X
  <2>1. Taken' = ({wire'} \ {NoAck}) \cup DataIn(stay)
    BY DEF Taken, TakenOf
  <2>2. Taken = ({wire} \ {NoAck}) \cup DataIn(batch)
    BY DEF Taken, TakenOf
  <2> QED BY <1>w, <2>1, <2>2
<1>2. TakenWritten'
  <2>1. DataAt' = DataAt
    BY DEF DataAt
  <2> QED BY <1>1, <2>1 DEF OrdInv, TakenWritten
<1>p. Placed' = Placed
  BY SpotIs DEF Placed, DataAt
<1>3. ASSUME NEW x \in (DataIn(batch) \cup X) \cap Placed PROVE TupleLess(wire, x)
  <2>1. CASE x \in DataIn(batch)
    BY <2>1 DEF OrdInv, BatchAbove
  <2>2. CASE x \in X /\ wire # NoAck
    BY <2>2 DEF Taken, TakenOf
  <2>3. CASE x \in X /\ wire = NoAck
    <3>1. PICK i \in DataAt : x = Tuple(log[i])
      BY <2>3
    <3>2. log[i] \in Records
      BY <1>t DEF DataAt
    <3>3. x \in Tuples
      BY <3>1, <3>2, RecordTuples
    <3>4. x[1] \in Nat
      BY <3>3, TupleType
    <3> QED BY <2>3, <3>4 DEF TupleLess, NoAck
  <2> QED BY <1>3, <2>1, <2>2, <2>3
<1>4. BatchAbove'
  BY <1>w, <1>3, <1>p DEF BatchAbove
<1>5. \A t \in NewData \cap Placed : TupleLess(wire, t)
  <2>1. NewData \subseteq DataIn(out)
    BY <1>t, NewDataSent DEF Send
  <2> QED BY <1>3, <2>1
<1> QED BY <1>1, <1>2, <1>4, <1>5

\* A record is read and goes into the batch, and a batch may go out.
LEMMA OrdRead ==
  ASSUME TransInv, OrdInv, log' = log, Reading, ~CaughtUp,
         NEW out, NEW stay, Send(out), batch' = stay, rdr' = [rdr EXCEPT !.pos = NextPos],
         \/ out = << >> /\ stay = Append(batch, log[NextPos])
         \/ out = batch /\ stay = <<log[NextPos]>>
         \/ out = Append(batch, log[NextPos]) /\ stay = << >>
  PROVE  /\ IsData(log[NextPos]) => log[NextPos].gen = rdr.gen
         /\ Taken' \subseteq Taken \cup (IF IsData(log[NextPos]) THEN {Tuple(log[NextPos])} ELSE {})
         /\ TakenWritten' /\ BatchAbove' /\ TakenBefore'
         /\ \A t \in NewData \cap Placed : TupleLess(wire, t)
<1> DEFINE p == NextPos
           r == log[p]
           X == IF IsData(r) THEN {Tuple(r)} ELSE {}
<1>t. log \in Seq(Records) /\ batch \in Seq(Records) /\ rdr \in ReaderType /\ Sorted(log)
  BY DEF TransInv, RestTypes, AckInv, AckCore, AckTypes, StreamTypes, ReplayTypes, OrdInv
<1>p. p \in DOMAIN log /\ p \in Nat /\ r \in Records /\ p > rdr.pos /\ Surfaces(p)
  BY <1>t, ReadNext
<1>o. out \in Seq(Records) /\ stay \in Seq(Records)
  <2>1. Append(batch, r) \in Seq(Records) /\ <<r>> \in Seq(Records) /\ << >> \in Seq(Records)
    BY <1>t, <1>p
  <2> QED BY <1>t, <2>1
<1>i. DOMAIN log = 1..Len(log) /\ Len(log) \in Nat /\ DataAt \subseteq 1..Len(log)
      /\ \A i \in DataAt : IsData(log[i])
  BY <1>t DEF DataAt
<1>1. ASSUME IsData(r)
      PROVE  /\ p \in DataAt /\ r.gen = rdr.gen
             /\ Tuple(r) \in Placed => \A x \in Taken : TupleLess(x, Tuple(r))
  <2>1. p \in DataAt
    BY <1>1, <1>p DEF DataAt
  <2>2. r.gen = rdr.gen
    BY <1>1, <1>p, <1>t, <1>i DEF Surfaces, Sorted
  <2>3. ASSUME Tuple(r) \in Placed PROVE InPlace(p)
    <3>1. PICK i \in DataAt : InPlace(i) /\ Tuple(r) = Tuple(log[i])
      BY <2>3 DEF Placed
    <3>2. i \in DOMAIN log /\ Spot(log, i)
      BY <3>1, SpotIs DEF DataAt
    <3>3. p = i
      BY <1>1, <1>p, <1>t, <3>1, <3>2, PlacedOnce
    <3> QED BY <3>1, <3>3
  <2> QED BY <1>p, <2>1, <2>2, <2>3 DEF OrdInv, TakenBefore
<1> HIDE DEF p
<1>2. \A x \in X : /\ \E i \in DataAt : x = Tuple(log[i])
                   /\ x \in Placed => \A y \in Taken : TupleLess(y, x)
  BY <1>1
<1>3. /\ DataIn(Append(batch, r)) = DataIn(batch) \cup X /\ DataIn(<<r>>) = X /\ DataIn(<< >>) = {}
  BY <1>t, <1>p, DataInAppend
<1>c. \/ out = << >> /\ stay = Append(batch, r)
      \/ out = batch /\ stay = <<r>>
      \/ out = Append(batch, r) /\ stay = << >>
  BY DEF p
<1> HIDE DEF X, r
<1>4. DataIn(out) \subseteq DataIn(batch) \cup X /\ DataIn(stay) \subseteq DataIn(batch) \cup X
  BY <1>3, <1>c
<1>5. \A y \in DataIn(out), x \in DataIn(stay) \cap Placed : TupleLess(y, x)
  <2>1. DataIn(batch) \subseteq Taken
    BY DEF Taken, TakenOf
  <2> QED BY <1>2, <1>3, <1>c, <2>1
<1>6. /\ Taken' \subseteq Taken \cup X /\ TakenWritten' /\ BatchAbove'
      /\ \A t \in NewData \cap Placed : TupleLess(wire, t)
  BY <1>2, <1>4, <1>5, <1>o, OrdSend
<1>7. TakenBefore'
  <2> SUFFICES ASSUME NEW x \in Taken', NEW i \in DataAt, i > rdr'.pos, Surfaces(i)', InPlace(i)
               PROVE  TupleLess(x, Tuple(log[i]))
    BY SpotIs DEF TakenBefore, DataAt
  <2>1. rdr'.pos = p /\ rdr'.gen = rdr.gen /\ rdr'.start = rdr.start
    BY <1>t DEF ReaderType, p
  <2>2. Surfaces(i) /\ i > p /\ i > rdr.pos
    <3>1. rdr.pos \in Nat /\ i \in Nat
      BY <1>t, <1>i DEF ReaderType
    <3> QED BY <1>p, <2>1, <3>1 DEF Surfaces
  <2>3. CASE x \in Taken
    BY <2>2, <2>3 DEF OrdInv, TakenBefore
  <2>4. CASE IsData(r) /\ x = Tuple(r)
    <3>1. p \in 1..(i - 1) /\ i \in Nat
      BY <1>i, <1>p, <2>2
    <3>2. TupleLess(End(r), Tuple(log[i])) /\ End(r) = Tuple(r)
      BY <1>t, <1>i, <1>p, <2>4, <3>1 DEF Sorted, InPlace, End, Tuple, r
    <3> QED BY <2>4, <3>2
  <2> QED BY <1>6, <2>3, <2>4 DEF X
<1> QED BY <1>1, <1>6, <1>7 DEF X, r, p

\* The batch goes out.
LEMMA OrdFlush ==
  ASSUME TransInv, OrdInv, log' = log, Send(batch), batch' = << >>
  PROVE  /\ Taken' \subseteq Taken /\ TakenWritten' /\ BatchAbove'
         /\ \A t \in NewData \cap Placed : TupleLess(wire, t)
<1>1. batch \in Seq(Records) /\ << >> \in Seq(Records)
  BY DEF TransInv, RestTypes, StreamTypes
<1>2. DataIn(<< >>) = {}
  BY DEF DataIn
<1>3. /\ Taken' \subseteq Taken \cup {} /\ TakenWritten' /\ BatchAbove'
      /\ \A t \in NewData \cap Placed : TupleLess(wire, t)
  BY <1>1, <1>2, OrdSend
<1> QED BY <1>3

\* The stages of a replay go up in their generations.
LEMMA PlanOrder ==
  ASSUME log \in Seq(Records), persisted \in Tuples, cursor \in Tuples
  PROVE  \A m, n \in DOMAIN ReplayPlan :
             m < n => ReplayPlan[m].gen < ReplayPlan[n].gen /\ ReplayPlan[n].gen <= HighGeneration
<1> DEFINE Stages == [gen : Nat, start : Nat]
           c == Cardinality(LaterGens)
           s == [n \in 1..c |-> [gen |-> Nth(LaterGens, n), start |-> 0]]
           a == <<[gen |-> persisted[1], start |-> ReplayStart]>>
<1>1. HighGeneration \in Nat /\ LaterGens \in SUBSET (0..HighGeneration)
      /\ \A g \in LaterGens : g \in Nat /\ persisted[1] < g /\ g <= HighGeneration
  <2>1. HighGeneration \in Nat
    BY HighGenerationType, TransportConstants
  <2>2. \A g \in LaterGens : g \in Nat /\ persisted[1] < g /\ g <= HighGeneration
    BY TransportConstants DEF LaterGens
  <2>3. \A g \in LaterGens : g \in 0..HighGeneration
    BY <2>1, <2>2
  <2> QED BY <2>1, <2>2, <2>3
<1>2. c \in Nat /\ (\A n \in 1..c : Nth(LaterGens, n) \in LaterGens)
      /\ \A i, j \in 1..c : i < j => Nth(LaterGens, i) < Nth(LaterGens, j)
  BY <1>1, NthElement, NthOrder
<1>3. persisted[1] \in Nat
  BY TupleType
<1>4. ReplayPlan = a \o s
  BY DEF ReplayPlan
<1>5. s \in Seq(Stages) /\ Len(s) = c /\ \A n \in 1..c : s[n].gen = Nth(LaterGens, n)
  <2>1. \A n \in 1..c : [gen |-> Nth(LaterGens, n), start |-> 0] \in Stages
    BY <1>1, <1>2
  <2>2. \A n \in 1..c : s[n].gen = Nth(LaterGens, n)
    OBVIOUS
  <2> HIDE DEF c, Stages
  <2>3. s \in Seq(Stages) /\ Len(s) = c
    BY <1>2, <2>1
  <2> QED BY <2>2, <2>3
<1>6. Len(a) = 1 /\ a[1].gen = persisted[1] /\ a \in Seq(Stages)
  <2>1. cursor[2] + 1 \in Nat
    BY TupleType
  <2>2. DataOnDisk(persisted[1]) # {} => log[Min(DataOnDisk(persisted[1]))].from \in Nat
    <3>1. DataOnDisk(persisted[1]) # {} => Min(DataOnDisk(persisted[1])) \in DataOnDisk(persisted[1])
      BY DataOnDiskType, MinIsLeast
    <3> QED BY <3>1, DataOnDiskType
  <2>3. ReplayStart \in Nat
    BY <2>1, <2>2 DEF ReplayStart
  <2> QED BY <1>3, <2>3
<1> HIDE DEF a, s, c, Stages
<1>8. /\ DOMAIN ReplayPlan = 1..(1 + c)
      /\ \A i \in 1..(1 + c) : ReplayPlan[i] = IF i = 1 THEN a[1] ELSE s[i - 1]
  <2>1. /\ a \o s \in Seq(Stages) /\ Len(a \o s) = Len(a) + Len(s)
        /\ \A i \in 1..Len(a \o s) : (a \o s)[i] = IF i <= Len(a) THEN a[i] ELSE s[i - Len(a)]
    <3>1. a \in Seq(Stages) /\ s \in Seq(Stages)
      BY <1>5, <1>6, Zenon
    <3> QED BY <3>1, ConcatProperties
  <2>2. DOMAIN (a \o s) = 1..Len(a \o s)
    BY <2>1, LenProperties, Zenon
  <2> QED BY <1>2, <1>4, <1>5, <1>6, <2>1, <2>2
<1> SUFFICES ASSUME NEW m \in 1..(1 + c), NEW n \in 1..(1 + c), m < n
             PROVE  ReplayPlan[m].gen < ReplayPlan[n].gen /\ ReplayPlan[n].gen <= HighGeneration
  BY <1>8
<1>9. n - 1 \in 1..c /\ ReplayPlan[n].gen = Nth(LaterGens, n - 1)
  BY <1>2, <1>5, <1>8
<1>10. CASE m = 1
  BY <1>1, <1>2, <1>6, <1>8, <1>9, <1>10
<1>11. CASE m # 1
  <2>1. m - 1 \in 1..c /\ m - 1 < n - 1 /\ ReplayPlan[m].gen = Nth(LaterGens, m - 1)
    BY <1>2, <1>5, <1>8, <1>11
  <2> QED BY <1>1, <1>2, <1>9, <2>1
<1> QED BY <1>10, <1>11

\* A step to a state with nothing taken and no stage to come.
LEMMA OrdAnew ==
  ASSUME TransInv, OrdInv, log' = log, wire' = NoAck, batch' = << >>,
         plan' = << >> \/ plan' = plan, st' \in {"connecting", "planning", "stopped"}
  PROVE  OrdInv'
<1>1. Taken' = {} /\ DataIn(batch') = {}
  BY DEF Taken, TakenOf, DataIn
<1>2. HighGeneration' = HighGeneration
  BY DEF HighGeneration, DataAt
<1>3. DOMAIN << >> = {}
  OBVIOUS
<1>4. Staged'
  BY <1>1, <1>2, <1>3 DEF OrdInv, Staged
<1> QED BY <1>1, <1>4 DEF OrdInv, TakenWritten, BatchAbove, TakenBefore, Replayed

\* OpenStage: the Reader is of a generation above all that was taken.
LEMMA OrdStage ==
  ASSUME TransInv, OrdInv, OpenStage
  PROVE  OrdInv'
<1> DEFINE Stages == [gen : Gens, start : Nat]
<1>t. log \in Seq(Records) /\ plan \in Seq(Stages) /\ plan # << >> /\ st = "opening" /\ rdr \in ReaderType
      /\ Sorted(log)
  BY DEF TransInv, RestTypes, AckInv, AckCore, AckTypes, ReplayTypes, Handoffs, OpenStage, OrdInv
<1>s. \A x \in Stages : x.gen \in Nat
  BY TransportConstants
<1>1. /\ UNCHANGED <<log, batch, wire>> /\ plan' = Tail(plan) /\ st' = "replaying"
      /\ rdr' = OpenReader(Head(plan).gen, Head(plan).start)
  BY DEF OpenStage, walVars
<1>2. rdr'.gen = Head(plan).gen /\ rdr'.start = Head(plan).start /\ rdr'.pos = 0
  BY <1>1 DEF OpenReader
<1> HIDE DEF Stages
<1>3. /\ Head(plan) = plan[1] /\ 1 \in DOMAIN plan /\ Len(plan) \in Nat /\ Len(plan) # 0
      /\ DOMAIN plan = 1..Len(plan) /\ DOMAIN Tail(plan) = 1..(Len(plan) - 1)
      /\ \A n \in 1..(Len(plan) - 1) : Tail(plan)[n] = plan[n + 1] /\ n + 1 \in DOMAIN plan
  BY <1>t, HeadTailProperties
<1>4. Taken' = Taken /\ DataAt' = DataAt /\ HighGeneration' = HighGeneration
  BY <1>1 DEF Taken, DataAt, HighGeneration
<1>5. HighGeneration \in Nat /\ \A n \in DOMAIN plan : plan[n].gen \in Nat
  <2>1. HighGeneration \in Nat
    BY <1>t, HighGenerationType, TransportConstants
  <2> QED BY <1>s, <1>t, <2>1
<1>6. \A x \in Taken : x[1] < rdr'.gen /\ rdr'.gen <= HighGeneration
  BY <1>2, <1>3, <1>t DEF OrdInv, Staged
<1>7. TakenWritten' /\ BatchAbove'
  <2>1. Placed' = Placed
    BY <1>1, SpotIs DEF Placed, DataAt
  <2> QED BY <1>1, <1>4, <2>1 DEF OrdInv, TakenWritten, BatchAbove
<1>8. TakenBefore'
  <2> SUFFICES ASSUME NEW x \in Taken, NEW i \in DataAt, Surfaces(i)'
               PROVE  TupleLess(x, Tuple(log[i]))
    BY <1>1, <1>4 DEF TakenBefore
  <2>1. log[i].gen = rdr'.gen
    BY <1>1, <1>t DEF Surfaces, Sorted, DataAt
  <2> QED BY <1>6, <2>1 DEF TupleLess, Tuple
<1>9. Replayed'
  <2>1. batch = << >>
    BY <1>t DEF TransInv, Handoffs
  <2>2. LastData(batch)' = wire
    BY <1>1, <2>1 DEF LastData
  <2>3. wire # NoAck => wire \in Taken
    BY DEF Taken, TakenOf
  <2>4. wire # NoAck => wire[1] # rdr'.gen
    <3>1. ASSUME wire # NoAck PROVE wire[1] # rdr'.gen
      <4>1. wire[1] < rdr'.gen
        BY <3>1, <2>3, <1>6
      <4>2. rdr'.gen \in Nat
        BY <1>2, <1>3, <1>5
      <4>3. wire \in Tuples
        BY <3>1 DEF TransInv, RestTypes, StreamTypes, AckTuples
      <4> QED BY <4>1, <4>2, <4>3, TupleType
    <3> QED BY <3>1
  <2> QED BY <1>4, <1>6, <2>2, <2>4 DEF Replayed
<1>10. Staged'
  <2>1. \A m, n \in DOMAIN plan : m < n => plan[m].gen < plan[n].gen /\ plan[n].gen <= HighGeneration
    BY DEF OrdInv, Staged
  <2>2. ASSUME NEW n \in DOMAIN plan' PROVE /\ rdr'.gen < plan'[n].gen /\ plan'[n].gen <= HighGeneration'
    <3>1. n \in Nat /\ n + 1 \in DOMAIN plan /\ plan'[n] = plan[n + 1] /\ 1 < n + 1
      BY <1>1, <1>3
    <3> QED BY <1>2, <1>3, <1>4, <2>1, <3>1
  <2>3. ASSUME NEW m \in DOMAIN plan', NEW n \in DOMAIN plan', m < n
        PROVE  plan'[m].gen < plan'[n].gen
    <3>1. m + 1 \in DOMAIN plan /\ n + 1 \in DOMAIN plan /\ m + 1 < n + 1
          /\ plan'[n] = plan[n + 1] /\ plan'[m] = plan[m + 1]
      BY <1>1, <1>3, <2>3
    <3> QED BY <2>1, <3>1
  <2> QED BY <1>1, <2>2, <2>3 DEF Staged
<1> QED BY <1>1, <1>7, <1>8, <1>9, <1>10, <1>t DEF OrdInv

\* EnterLive: Live starts past all that was replayed of its generation.
LEMMA OrdEnter ==
  ASSUME TransInv, OrdInv, EnterLive
  PROVE  OrdInv'
<1>t. log \in Seq(Records) /\ st = "entering" /\ batch = << >> /\ Sorted(log)
      /\ cursor \in Tuples /\ lastRep \in Tuples /\ wire \in AckTuples
  BY DEF TransInv, RestTypes, AckInv, AckCore, AckTypes, ReplayTypes, StreamTypes, Handoffs, EnterLive, OrdInv
<1>1. /\ UNCHANGED <<log, batch, wire, plan>> /\ st' = "live"
      /\ rdr' = OpenReader(HighGeneration, LiveStart)
  BY DEF EnterLive, walVars, replayVars
<1>2. rdr'.gen = HighGeneration /\ rdr'.start = LiveStart /\ rdr'.pos = 0
  BY <1>1 DEF OpenReader
<1>4. Taken' = Taken /\ DataAt' = DataAt /\ HighGeneration' = HighGeneration
  BY <1>1 DEF Taken, DataAt, HighGeneration
<1>5. HighGeneration \in Nat /\ \A i \in DataAt : log[i].gen <= HighGeneration
  BY <1>t, HighestGen, HighIsTop, TransportConstants DEF DataAt
<1>6. TakenWritten' /\ BatchAbove'
  <2>1. Placed' = Placed
    BY <1>1, SpotIs DEF Placed, DataAt
  <2> QED BY <1>1, <1>4, <2>1 DEF OrdInv, TakenWritten, BatchAbove
<1>7. TakenBefore'
  <2> SUFFICES ASSUME NEW x \in Taken, NEW i \in DataAt, Surfaces(i)'
               PROVE  TupleLess(x, Tuple(log[i]))
    BY <1>1, <1>4 DEF TakenBefore
  <2>1. log[i].gen = HighGeneration /\ log[i].from >= LiveStart /\ log[i] \in Records
    BY <1>1, <1>2, <1>t DEF Surfaces, Sorted, DataAt
  <2>2. PICK p \in DataAt : x = Tuple(log[p])
    BY DEF OrdInv, TakenWritten
  <2>3. x \in Tuples /\ x[1] = log[p].gen
    <3>1. log[p] \in Records
      BY <1>t DEF DataAt
    <3> QED BY <2>2, <3>1, RecordTuples DEF Tuple
  <2>4. x[1] \in Nat /\ x[2] \in Nat /\ lastRep[2] \in Nat /\ cursor[2] \in Nat /\ log[i].from \in Nat
    <3>1. log[i].from \in Nat
      BY <2>1, TransportConstants DEF Records, Seqs
    <3> QED BY <1>t, <2>3, <3>1, TupleType
  <2>5. \/ x[1] < rdr.gen /\ rdr.gen <= HighGeneration
        \/ x[1] = rdr.gen /\ x[2] <= lastRep[2]
    <3>1. x = wire /\ wire # NoAck /\ LastData(batch) = wire
      BY <1>t DEF Taken, TakenOf, DataIn, LastData
    <3>2. \/ x[1] < rdr.gen /\ rdr.gen <= HighGeneration
          \/ x[1] = rdr.gen
      BY <1>t DEF OrdInv, Replayed
    <3>3. x[1] = rdr.gen => x = lastRep
      BY <1>t, <3>1 DEF OrdInv, Replayed
    <3> QED BY <2>4, <3>2, <3>3
  <2>6. rdr.gen \in Nat
    BY TransportConstants DEF TransInv, RestTypes, ReplayTypes, ReaderType
  <2>7. x[1] <= HighGeneration
    BY <1>5, <2>3
  <2>8. LiveStart > lastRep[2] /\ LiveStart \in Nat
    BY <2>4 DEF LiveStart
  <2>9. x[1] < HighGeneration \/ x[2] < log[i].from
    BY <1>5, <2>1, <2>4, <2>5, <2>6, <2>7, <2>8
  <2> QED BY <1>5, <2>1, <2>4, <2>7, <2>9 DEF TupleLess, Tuple
<1>8. Replayed' /\ Staged'
  BY <1>1, <1>4 DEF OrdInv, Replayed, Staged
<1> QED BY <1>1, <1>6, <1>7, <1>8, <1>t DEF OrdInv

\* What is sent, if in its place, is above all that was sent before, at each step.
Sends == wire' # wire /\ wire' # NoAck => \A t \in NewData \cap Placed : TupleLess(wire, t)

LEMMA AddCases ==
  ASSUME NEW r, NEW full
  PROVE  \/ Add(r, full).out = << >> /\ Add(r, full).stay = Append(batch, r)
         \/ Add(r, full).out = batch /\ Add(r, full).stay = <<r>>
         \/ Add(r, full).out = Append(batch, r) /\ Add(r, full).stay = << >>
BY DEF Add

\* A step of runReplaying, to the next batch, the next stage or to Live.
LEMMA OrdReplaying ==
  ASSUME TransInv, OrdInv, UNCHANGED <<log, plan>>, st = "replaying", rdr'.gen = rdr.gen, TakenWritten',
         st' \in {"replaying", "opening", "entering"},
         \A x \in Taken' : \/ x[1] < rdr.gen /\ rdr.gen <= HighGeneration
                           \/ x[1] = rdr.gen,
         LastData(batch)' # NoAck /\ LastData(batch)'[1] = rdr.gen => LastData(batch)' = lastRep'
  PROVE  Replayed' /\ Staged'
<1>t. log \in Seq(Records)
  BY DEF TransInv, AckInv, AckCore, AckTypes
<1>1. HighGeneration' = HighGeneration /\ rdr.gen \in Nat
  BY TransportConstants DEF HighGeneration, DataAt, TransInv, RestTypes, ReplayTypes, ReaderType
<1>2. Replayed'
  BY <1>1 DEF Replayed
<1>3. \A n \in DOMAIN plan : rdr.gen < plan[n].gen /\ plan[n].gen <= HighGeneration
  BY DEF OrdInv, Staged
<1>4. \A n \in DOMAIN plan : plan[n].gen \in Nat
  <2> DEFINE Stages == [gen : Gens, start : Nat]
  <2>1. plan \in Seq(Stages)
    BY DEF TransInv, RestTypes, ReplayTypes
  <2>2. \A x \in Stages : x.gen \in Nat
    BY TransportConstants
  <2> HIDE DEF Stages
  <2> QED BY <2>1, <2>2
<1>5. \A x \in Taken' : x[1] \in Nat /\ x[1] <= rdr.gen
  <2> TAKE x \in Taken'
  <2>1. PICK i \in DataAt' : x = Tuple(log'[i])
    BY DEF TakenWritten
  <2>2. log'[i] \in Records
    BY <1>t DEF DataAt
  <2>3. x[1] \in Nat
    BY <2>1, <2>2, RecordTuples, TupleType
  <2> QED BY <1>1, <2>3
<1>6. \A x \in Taken', n \in DOMAIN plan : x[1] < plan[n].gen
  BY <1>1, <1>3, <1>4, <1>5
<1>7. Staged'
  BY <1>1, <1>3, <1>6 DEF OrdInv, Staged
<1> QED BY <1>2, <1>7

LEMMA OrdReplayRead ==
  ASSUME TransInv, OrdInv, ReplayRead
  PROVE  OrdInv' /\ Sends
<1> DEFINE r == log[NextPos]
<1>t. log \in Seq(Records) /\ batch \in Seq(Records) /\ rdr \in ReaderType /\ lastRep \in Tuples
      /\ Sorted(log)
  BY DEF TransInv, RestTypes, AckInv, AckCore, AckTypes, StreamTypes, ReplayTypes, OrdInv
<1>1. /\ st = "replaying" /\ ~CaughtUp /\ UNCHANGED <<log, plan>>
      /\ rdr' = [rdr EXCEPT !.pos = NextPos]
      /\ lastRep' = IF IsData(r) THEN Tuple(r) ELSE lastRep
      /\ \/ Send(Append(batch, r)) /\ batch' = << >> /\ StageDone
         \/ batch' = Append(batch, r) /\ UNCHANGED <<up, wire, st>>
  BY DEF ReplayRead, walVars
<1>p. r \in Records
  BY <1>1, <1>t, ReadNext
<1>2. Reading
  BY <1>1 DEF Reading
<1> HIDE DEF r
<1>3. /\ IsData(r) => r.gen = rdr.gen
      /\ Taken' \subseteq Taken \cup (IF IsData(r) THEN {Tuple(r)} ELSE {})
      /\ TakenWritten' /\ BatchAbove' /\ TakenBefore' /\ Sends
  <2>1. CASE Send(Append(batch, r)) /\ batch' = << >>
    BY <1>1, <1>2, <2>1, OrdRead DEF r, Sends
  <2>2. CASE batch' = Append(batch, r) /\ UNCHANGED <<up, wire>>
    <3>1. Send(<< >>)
      <4>1. Encode(<< >>) = << >>
        BY EncodeNothing
      <4>2. up \o << >> = up
        <5>1. up \in Seq(Frames)
          BY DEF TransInv, RestTypes, StreamTypes
        <5> QED BY <5>1
      <4>3. LastData(<< >>) = wire
        BY DEF LastData
      <4> QED BY <2>2, <4>1, <4>2, <4>3 DEF Send
    <3> QED BY <1>1, <1>2, <2>2, <3>1, OrdRead DEF r, Sends
  <2> QED BY <1>1, <2>1, <2>2
<1>4. st' \in {"replaying", "opening", "entering"} /\ (st' = "opening" => plan' = plan)
      /\ (st' # "replaying" => batch' = << >>)
  BY <1>1 DEF StageDone
<1>5. /\ rdr'.gen = rdr.gen /\ HighGeneration' = HighGeneration /\ rdr.gen \in Nat
  BY <1>1, <1>t, TransportConstants DEF HighGeneration, DataAt, ReaderType
<1>6. ASSUME NEW x \in Taken'
      PROVE  \/ x[1] < rdr.gen /\ rdr.gen <= HighGeneration
             \/ x[1] = rdr.gen
  <2>1. CASE IsData(r) /\ x = Tuple(r)
    BY <1>3, <2>1 DEF Tuple
  <2>2. CASE x \in Taken
    BY <1>1, <2>2 DEF OrdInv, Replayed
  <2> QED BY <1>3, <2>1, <2>2
<1>8. LastData(batch)' # NoAck /\ LastData(batch)'[1] = rdr.gen => LastData(batch)' = lastRep'
  <2>1. LastData(batch)' = LastData(Append(batch, r))
    <3>1. CASE Send(Append(batch, r)) /\ batch' = << >>
      <4>1. wire' = LastData(Append(batch, r))
        BY <3>1 DEF Send
      <4>2. LastData(batch)' = wire'
        BY <3>1 DEF LastData
      <4> QED BY <4>1, <4>2
    <3>2. CASE batch' = Append(batch, r) /\ wire' = wire
      BY <3>2 DEF LastData
    <3> QED BY <1>1, <3>1, <3>2
  <2>2. LastData(Append(batch, r)) = IF IsData(r) THEN Tuple(r) ELSE LastData(batch)
    BY <1>t, <1>p, LastOfAppend
  <2>3. LastData(batch) # NoAck /\ LastData(batch)[1] = rdr.gen => LastData(batch) = lastRep
    BY <1>1 DEF OrdInv, Replayed
  <2> QED BY <1>1, <2>1, <2>2, <2>3
<1>7. Replayed' /\ Staged'
  BY <1>1, <1>3, <1>4, <1>5, <1>6, <1>8, OrdReplaying
<1> QED BY <1>1, <1>3, <1>7, <1>t DEF OrdInv

LEMMA OrdReplayFlush ==
  ASSUME TransInv, OrdInv, ReplaySend \/ ReplayDone
  PROVE  OrdInv' /\ Sends
<1>1. /\ st = "replaying" /\ UNCHANGED <<log, plan, lastRep, rdr>>
      /\ Send(batch) /\ batch' = << >> /\ (st' = st \/ StageDone)
  BY DEF ReplaySend, ReplayDone, walVars, replayVars
<1>2. st' \in {"replaying", "opening", "entering"}
  BY <1>1 DEF StageDone
<1>3. Taken' \subseteq Taken /\ TakenWritten' /\ BatchAbove' /\ Sends
  BY <1>1, OrdFlush DEF Sends
<1>4. Replayed' /\ Staged'
  <2>1. \A x \in Taken' : \/ x[1] < rdr.gen /\ rdr.gen <= HighGeneration
                          \/ x[1] = rdr.gen
    BY <1>1, <1>3 DEF OrdInv, Replayed
  <2>2. LastData(batch)' = LastData(batch)
    BY <1>1 DEF Send, LastData
  <2>3. LastData(batch) # NoAck /\ LastData(batch)[1] = rdr.gen => LastData(batch) = lastRep
    BY <1>1 DEF OrdInv, Replayed
  <2> QED BY <1>1, <1>2, <1>3, <2>1, <2>2, <2>3, OrdReplaying
<1>5. TakenBefore'
  <2> SUFFICES ASSUME NEW x \in Taken', NEW i \in DataAt, i > rdr.pos, Surfaces(i), InPlace(i)
               PROVE  TupleLess(x, Tuple(log[i]))
    BY <1>1, SpotIs DEF TakenBefore, Surfaces, DataAt
  <2>1. Reading
    BY <1>1 DEF Reading
  <2> QED BY <1>3, <2>1 DEF OrdInv, TakenBefore
<1> QED BY <1>1, <1>3, <1>4, <1>5 DEF OrdInv

\* The steps of runLive and of runShutdown that send.
LEMMA OrdLive ==
  ASSUME TransInv, OrdInv, LiveDrain \/ LiveTick \/ ShutdownDrain
  PROVE  OrdInv' /\ Sends
<1>1. /\ st \in {"live", "draining"} /\ st' = st /\ UNCHANGED <<log, plan>>
  BY DEF LiveDrain, LiveTick, ShutdownDrain, Selecting, walVars, replayVars
<1>2. Reading
  BY <1>1 DEF Reading
<1>3. TakenWritten' /\ BatchAbove' /\ TakenBefore' /\ Sends
  <2>1. CASE LiveDrain \/ ShutdownDrain
    <3> DEFINE r == log[NextPos]
    <3>1. ~CaughtUp /\ rdr' = [rdr EXCEPT !.pos = NextPos]
      BY <2>1 DEF LiveDrain, ShutdownDrain
    <3>2. PICK full : batch' = Add(r, full).stay /\ Send(Add(r, full).out)
      BY <2>1 DEF LiveDrain, ShutdownDrain
    <3>3. \/ Add(r, full).out = << >> /\ Add(r, full).stay = Append(batch, r)
          \/ Add(r, full).out = batch /\ Add(r, full).stay = <<r>>
          \/ Add(r, full).out = Append(batch, r) /\ Add(r, full).stay = << >>
      BY AddCases
    <3> QED BY <1>1, <1>2, <3>1, <3>2, <3>3, OrdRead DEF Sends
  <2>2. CASE LiveTick
    <3>1. Send(batch) /\ batch' = << >> /\ rdr' = rdr
      BY <2>2 DEF LiveTick
    <3>2. Taken' \subseteq Taken /\ TakenWritten' /\ BatchAbove' /\ Sends
      BY <1>1, <3>1, OrdFlush DEF Sends
    <3>3. TakenBefore'
      <4> SUFFICES ASSUME NEW x \in Taken', NEW i \in DataAt, i > rdr.pos, Surfaces(i), InPlace(i)
                   PROVE  TupleLess(x, Tuple(log[i]))
        BY <1>1, <3>1, SpotIs DEF TakenBefore, Surfaces, DataAt
      <4> QED BY <1>2, <3>2 DEF OrdInv, TakenBefore
    <3> QED BY <3>2, <3>3
  <2> QED BY <2>1, <2>2
<1>4. Replayed' /\ Staged'
  <2>1. HighGeneration' = HighGeneration
    BY <1>1 DEF HighGeneration, DataAt
  <2> QED BY <1>1, <2>1 DEF OrdInv, Replayed, Staged
<1> QED BY <1>1, <1>3, <1>4 DEF OrdInv

LEMMA OrdPlan ==
  ASSUME TransInv, OrdInv, PlanReplay
  PROVE  OrdInv'
<1>t. log \in Seq(Records) /\ persisted \in Tuples /\ cursor \in Tuples
  BY DEF TransInv, AckInv, AckCore, AckTypes
<1>1. st = "planning" /\ st' = "opening" /\ UNCHANGED <<log, batch, wire>> /\ plan' = ReplayPlan
  BY DEF PlanReplay, walVars
<1>2. Taken' = {} /\ HighGeneration' = HighGeneration
  BY <1>1 DEF Taken, HighGeneration, DataAt, OrdInv, Staged
<1>3. Staged'
  BY <1>1, <1>2, <1>t, PlanOrder DEF Staged
<1>4. BatchAbove'
  <2>1. Placed' = Placed
    BY <1>1, SpotIs DEF Placed, DataAt
  <2> QED BY <1>1, <2>1 DEF OrdInv, BatchAbove
<1> QED BY <1>1, <1>2, <1>3, <1>4 DEF OrdInv, TakenWritten, TakenBefore, Replayed

LEMMA OrdStep == TransInv /\ OrdInv /\ [Next]_vars => OrdInv' /\ Sends
<1> SUFFICES ASSUME TransInv, OrdInv, [Next]_vars PROVE OrdInv' /\ Sends
  OBVIOUS
<1>r. rdr \in ReaderType
  BY DEF TransInv, RestTypes, ReplayTypes
<1>1. CASE /\ UNCHANGED <<batch, wire, plan, lastRep>>
           /\ rdr' = rdr \/ \E X : rdr' = [rdr EXCEPT !.missing = @ \cup X]
           /\ st' = st \/ (st = "live" /\ st' = "draining") \/ st' = "stopped"
  <2>1. rdr'.gen = rdr.gen /\ rdr'.start = rdr.start /\ rdr'.pos = rdr.pos
    BY <1>1, <1>r DEF ReaderType
  <2> QED BY <1>1, <2>1, OrdQuiet DEF Sends
<1>2. ASSUME NEW t \in Tuples, WalAppend(t) \/ WalAppendLoss(t) PROVE OrdInv' /\ Sends
  <2>1. UNCHANGED <<batch, wire, plan, lastRep, st>>
    BY <1>2 DEF WalAppend, WalAppendLoss, replayVars
  <2>2. rdr' = rdr \/ \E X : rdr' = [rdr EXCEPT !.missing = @ \cup X]
    BY <1>2 DEF WalAppend, WalAppendLoss, RemoveFile
  <2> QED BY <1>1, <2>1, <2>2
<1>3. CASE Reclaim
  <2>1. UNCHANGED <<batch, wire, plan, lastRep, st>>
    BY <1>3 DEF Reclaim, replayVars
  <2>2. rdr' = rdr \/ \E X : rdr' = [rdr EXCEPT !.missing = @ \cup X]
    BY <1>3 DEF Reclaim, RemoveFile
  <2> QED BY <1>1, <2>1, <2>2
<1>4. CASE ReplayRecv \/ LiveDrained \/ LiveNotify \/ LiveRecv \/ StopLive \/ ServerTake
           \/ ServerHeartbeat \/ Rejected \/ UNCHANGED vars
  <2>1. /\ UNCHANGED <<batch, wire, plan, lastRep, rdr>>
        /\ st' = st \/ (st = "live" /\ st' = "draining") \/ st' = "stopped"
    BY <1>4 DEF ReplayRecv, LiveDrained, LiveNotify, LiveRecv, StopLive, Selecting, ServerTake,
                ServerHeartbeat, Rejected, vars, replayVars
  <2> QED BY <1>1, <2>1
<1>5. CASE Disconnect \/ Stop \/ Restart \/ ShutdownFlush
  <2>1. /\ log' = log /\ wire' = NoAck /\ batch' = << >> /\ plan' = << >>
        /\ st' \in {"connecting", "stopped"}
    BY <1>5 DEF Disconnect, Stop, Restart, ShutdownFlush, Torn, walVars
  <2> QED BY <2>1, OrdAnew DEF Sends
<1>6. CASE Connect
  <2>1. /\ UNCHANGED <<log, plan, batch>> /\ wire' = NoAck /\ st = "connecting" /\ st' = "planning"
    BY <1>6 DEF Connect, walVars, replayVars
  <2>2. batch = << >>
    BY <2>1 DEF TransInv, Handoffs
  <2> QED BY <2>1, <2>2, OrdAnew DEF Sends
<1>7. CASE PlanReplay \/ OpenStage \/ EnterLive
  <2>1. wire' = wire
    BY <1>7 DEF PlanReplay, OpenStage, EnterLive
  <2> QED BY <1>7, <2>1, OrdPlan, OrdStage, OrdEnter DEF Sends
<1>8. CASE ReplayRead \/ ReplaySend \/ ReplayDone \/ LiveDrain \/ LiveTick \/ ShutdownDrain
  BY <1>8, OrdReplayRead, OrdReplayFlush, OrdLive
<1> QED BY <1>2, <1>3, <1>4, <1>5, <1>6, <1>7, <1>8 DEF Next, Client, Writer

LEMMA OrdInit == Init => OrdInv
<1> SUFFICES ASSUME Init PROVE OrdInv
  OBVIOUS
<1>1. wire = NoAck /\ batch = << >> /\ plan = << >> /\ st = "connecting"
  BY DEF Init
<1>2. Taken = {} /\ DataIn(batch) = {}
  BY <1>1 DEF Taken, TakenOf, DataIn
<1>3. DOMAIN plan = {}
  BY <1>1
<1> QED BY <1>1, <1>2, <1>3, SortedInit
        DEF OrdInv, TakenWritten, BatchAbove, TakenBefore, Reading, Replayed, Staged

LEMMA OrdInvariance == Spec => []OrdInv
BY OrdInit, OrdStep, TransInvariance, PTL DEF Spec

\* On one connection no record that was written in its place is sent twice or
\* backwards: through all stages of a replay and the handoff to Live, for every
\* number of generations, whatever the server acks, and whatever other writers
\* overtake one another on their way to the WAL.
THEOREM NothingRepeated == Spec => SentInOrder
<1>1. TransInv /\ OrdInv /\ [Next]_vars =>
          [wire' # wire /\ wire' # NoAck =>
              \A i \in DataAt : InPlace(i) /\ Tuple(log[i]) \in NewData
                                   => TupleLess(wire, Tuple(log[i]))]_vars
  BY OrdStep DEF Sends, Placed
<1> QED BY <1>1, OrdInvariance, TransInvariance, PTL DEF Spec, SentInOrder

-----------------------------------------------------------------------------
(* What the server acks has been delivered, in one generation.             *)

\* The tuples in the first n frames, and the data in the first n records.
FramesTo(u, n) == UNION {u[m].has : m \in 1..n}
DataTo(b, n)   == {Tuple(b[j]) : j \in {k \in 1..n : IsData(b[k])}}

\* A frame stands for all data of the batch up to its end: each record is in
\* that frame or in an earlier one.
LEMMA EncodeCovers ==
  ASSUME NEW b \in Seq(Records), \A n \in 1..Len(b) : IsData(b[n]) => b[n].to = b[n].from
  PROVE  /\ \A n \in 1..Len(Encode(b)) : \E e \in 1..Len(b) :
               Encode(b)[n].to = b[e].to /\ DataTo(b, e) \subseteq FramesTo(Encode(b), n)
         /\ DataIn(b) \subseteq FramesTo(Encode(b), Len(Encode(b)))
<1> DEFINE u == Encode(b)
           E == FrameEnds(b)
           c == Cardinality(E)
<1>1. Len(b) \in Nat /\ DOMAIN b = 1..Len(b) /\ E \subseteq 1..Len(b) /\ E \in SUBSET (0..Len(b))
  BY DEF FrameEnds
<1>2. c \in Nat /\ Len(u) = c
  BY EncodeType
<1>3. /\ \A n \in 1..c : Nth(E, n) \in E
      /\ \A i, j \in 1..c : i < j => Nth(E, i) < Nth(E, j)
      /\ \A e \in E : \E n \in 1..c : Nth(E, n) = e
  BY <1>1, NthElement, NthOrder
<1>4. \A n \in 1..c : u[n] = Frame(b, Nth(E, n))
  BY <1>2 DEF Encode
<1>5. \A i \in 1..Len(b) : i \in E <=> IF IsData(b[i]) THEN i = Len(b) \/ ~IsData(b[i + 1])
                                       ELSE b[i].kind = "inflight" => EmitExtended
  BY <1>1 DEF FrameEnds
<1> HIDE DEF u, E, c
\* The run of data records that holds b[j] ends at x.
<1>6. ASSUME NEW j \in 1..Len(b), IsData(b[j])
      PROVE  \E x \in E : /\ Tuple(b[j]) \in Frame(b, x).has
                          /\ \A e \in E : j <= e => x <= e
  <2> DEFINE S == {i \in 1..Len(b) : j <= i /\ (i = Len(b) \/ ~IsData(b[i + 1]))}
  <2>0. j \in Nat /\ 1 <= j /\ j <= Len(b) /\ \A i \in 1..Len(b) : i \in Nat /\ i <= Len(b) /\ 1 <= i
    BY <1>1
  <2>1. S \in SUBSET Nat /\ Len(b) \in S
    BY <1>1, <2>0
  <2>2. PICK x \in S : \A y \in S : x <= y
    BY <2>1, NatMin
  <2>3. x \in 1..Len(b) /\ j <= x /\ (x = Len(b) \/ ~IsData(b[x + 1])) /\ x \in Nat
    BY <2>0, <2>2
  <2>n. \A i \in 1..Len(b) : j <= i /\ i < x => i # Len(b) /\ IsData(b[i + 1])
    BY <2>0, <2>2, <2>3
  <2>s. \A i \in 1..Len(b) : j <= i /\ (i = Len(b) \/ ~IsData(b[i + 1])) => x <= i
    BY <2>2
  <2> HIDE DEF S
  <2>4. \A k \in j..x : IsData(b[k])
    <3> TAKE k \in j..x
    <3>1. CASE k = j
      BY <1>6, <3>1
    <3>2. CASE k # j
      <4> DEFINE i == k - 1
      <4>0. k \in Int /\ j <= k /\ k <= x /\ x <= Len(b)
        BY <2>0, <2>3
      <4>i. i \in Int /\ i < k /\ i + 1 = k /\ j <= i
        BY <2>0, <3>2, <4>0
      <4>1. i \in 1..Len(b) /\ j <= i /\ i < x /\ i + 1 = k
        <5>a. Len(b) \in Int
          BY <1>1
        <5>b. x \in Int
          BY <2>3
        <5>c. j \in Int /\ 1 <= j
          BY <2>0
        <5>1. Len(b) \in Int /\ x \in Int /\ j \in Int /\ 1 <= j
          BY <5>a, <5>b, <5>c
        <5> HIDE DEF i
        <5>2. i < x /\ i <= Len(b) /\ 1 <= i
          BY <4>0, <4>i, <5>1
        <5> QED BY <4>i, <5>1, <5>2
      <4> HIDE DEF i
      <4>2. IsData(b[i + 1])
        BY <2>n, <4>1
      <4> QED BY <4>1, <4>2
    <3> QED BY <3>1, <3>2
  <2>x. x \in j..x
    BY <2>0, <2>3
  <2>5. x \in E /\ IsData(b[x])
    BY <1>5, <2>3, <2>4, <2>x
  <2>6. Tuple(b[j]) \in Frame(b, x).has
    <3>1. j \in {y \in 1..x : \A k \in y..x : IsData(b[k])}
      BY <2>0, <2>3, <2>4
    <3> QED BY <2>5, <3>1 DEF Frame
  <2>7. ASSUME NEW e \in E, j <= e PROVE x <= e
    <3>0. e \in 1..Len(b) /\ e \in Nat
      BY <1>1
    <3>1. CASE IsData(b[e])
      BY <1>5, <2>7, <2>s, <3>0, <3>1
    <3>2. CASE ~IsData(b[e])
      <4> DEFINE i == e - 1
      <4>1. i \in 1..Len(b) /\ j <= i /\ i + 1 = e /\ i \in Nat
        <5>1. e # j
          BY <1>6, <3>2
        <5> QED BY <1>1, <2>0, <2>7, <3>0, <5>1
      <4> HIDE DEF i
      <4>2. x <= i
        BY <2>s, <3>2, <4>1
      <4> QED BY <2>3, <3>0, <4>1, <4>2
    <3> QED BY <3>1, <3>2
  <2> QED BY <2>5, <2>6, <2>7
<1>7. ASSUME NEW n \in 1..c PROVE \E e \in 1..Len(b) : u[n].to = b[e].to /\ DataTo(b, e) \subseteq FramesTo(u, n)
  <2> DEFINE e == Nth(E, n)
  <2>1. e \in E /\ e \in 1..Len(b)
    BY <1>1, <1>3
  <2>2. u[n].to = b[e].to
    <3>1. u[n] = Frame(b, e)
      BY <1>4
    <3> HIDE DEF e
    <3>2. IsData(b[e]) => b[e].to = b[e].from
      BY <2>1
    <3>3. Frame(b, e).to = IF IsData(b[e]) THEN b[e].from ELSE b[e].to
      BY DEF Frame
    <3> QED BY <3>1, <3>2, <3>3
  <2>3. ASSUME NEW j \in 1..e, IsData(b[j]) PROVE Tuple(b[j]) \in FramesTo(u, n)
    <3>1. j \in 1..Len(b) /\ j <= e
      BY <1>1, <2>1
    <3>2. PICK x \in E : Tuple(b[j]) \in Frame(b, x).has /\ x <= e
      BY <1>6, <2>1, <2>3, <3>1
    <3>3. PICK m \in 1..c : Nth(E, m) = x
      BY <1>3
    <3>4. m <= n
      <4>1. x \in Nat /\ e \in Nat
        BY <1>1, <2>1
      <4>2. ~(n < m)
        BY <1>3, <3>2, <3>3, <4>1
      <4> QED BY <1>2, <4>2
    <3>5. m \in 1..n /\ Tuple(b[j]) \in u[m].has
      BY <1>2, <1>4, <3>2, <3>3, <3>4
    <3> QED BY <3>5 DEF FramesTo
  <2> HIDE DEF e
  <2> QED BY <2>1, <2>2, <2>3 DEF DataTo
<1>8. DataIn(b) \subseteq FramesTo(u, c)
  <2> SUFFICES ASSUME NEW j \in 1..Len(b), IsData(b[j]) PROVE Tuple(b[j]) \in FramesTo(u, c)
    BY <1>1 DEF DataIn
  <2>1. PICK x \in E : Tuple(b[j]) \in Frame(b, x).has
    BY <1>6
  <2>2. PICK m \in 1..c : Nth(E, m) = x
    BY <1>3
  <2> QED BY <1>4, <2>1, <2>2 DEF FramesTo
<1> QED BY <1>2, <1>7, <1>8 DEF u

\* What is accounted for, and what is or will be once the server has read the
\* stream.
Safe == {t \in Tuples : Accounted(t)}
Sent == Safe \cup FramesTo(up, Len(up))

\* All data of s up to sequence q that is in its place is in X, and so is what
\* will be written: the log has got to q.
Through(s, q, X) ==
    /\ q <= 0 \/ \E j \in 1..Len(s) : q <= s[j].to
    /\ \A i \in 1..Len(s) :
          IsData(s[i]) /\ Spot(s, i) /\ 0 < s[i].from /\ s[i].from <= q => Tuple(s[i]) \in X

\* Every watermark the client and the server hold or exchange stands for data
\* that is accounted for.
AcksThrough ==
    /\ Through(log, mirror[2], Safe)
    /\ Through(log, srvHigh[2], Safe)
    /\ \A n \in 1..Len(down) : Through(log, down[n][2], Safe)

\* A frame, and a record of the batch, has all data up to it before it.
FramesThrough(s, u, X) == \A n \in 1..Len(u) : Through(s, u[n].to, X \cup FramesTo(u, n))
BatchThrough(s, b, X) ==
    \A n \in 1..Len(b) : /\ IsData(b[n]) => b[n].to = b[n].from
                         /\ Through(s, b[n].to, X \cup DataTo(b, n))

\* Nothing below the start of a Reader, behind its position or at or below
\* lastReplayed was passed over.
ReplayThrough ==
    st \in {"replaying", "entering"} => Through(log, lastRep[2], Sent \cup DataIn(batch))
StartThrough ==
    /\ Reading => Through(log, rdr.start - 1, Sent)
    /\ st = "opening" => Through(log, plan[1].start - 1, Safe)
PosThrough ==
    Reading => /\ rdr.pos <= Len(log)
               /\ \A i \in DataAt : InPlace(i) /\ i <= rdr.pos /\ 0 < log[i].from
                                      => Tuple(log[i]) \in Sent \cup DataIn(batch)

\* What has left the disk is accounted for, and a Reader misses nothing else.
GoneSafe ==
    /\ \A i \in gone \cap DataAt : InPlace(i) /\ 0 < log[i].from => Tuple(log[i]) \in Safe
    /\ Reading => rdr.missing \subseteq gone

FlowInv ==
    /\ AcksThrough
    /\ FramesThrough(log, up, Safe) /\ BatchThrough(log, batch, Sent)
    /\ ReplayThrough /\ StartThrough /\ PosThrough /\ GoneSafe

\* What is accounted for stays so.
LEMMA SafeGrows ==
  ASSUME TransInv, [Next]_vars
  PROVE  Safe \subseteq Safe'
<1>1. received \subseteq received' /\ told \subseteq told'
  <2>1. CASE ServerTake
    BY <2>1 DEF ServerTake
  <2>2. CASE UNCHANGED <<received, told>>
    BY <2>2
  <2>3. ServerTake \/ UNCHANGED <<received, told>>
    BY DEF Next, vars, serverVars, Writer, WalAppend, WalAppendLoss, Reclaim, Client, Connect,
       PlanReplay, OpenStage, ReplayRead, ReplaySend, ReplayDone, EnterLive, LiveDrain,
       LiveDrained, ShutdownDrain, ShutdownFlush, ReplayRecv, LiveNotify, LiveTick, LiveRecv,
       Disconnect, Rejected, Stop, StopLive, Restart, ServerHeartbeat
  <2> QED BY <2>1, <2>2, <2>3
<1>2. log \in Seq(Records) /\ Grows
  BY LogStep DEF TransInv, AckInv, AckCore, AckTypes
<1>3. \A i \in Markers : i \in Markers' /\ log'[i] = log[i]
  <2> TAKE i \in Markers
  <2>1. i \in 1..Len(log) /\ ~IsData(log[i])
    BY <1>2 DEF Markers, DataAt
  <2>2. i \in DOMAIN log' /\ log'[i] = log[i]
    BY <1>2, <2>1 DEF Grows
  <2> QED BY <2>1, <2>2 DEF Markers, DataAt
<1>4. ASSUME NEW t \in Tuples, Accounted(t) PROVE Accounted(t)'
  <2>1. CASE t \in received \cup told
    BY <1>1, <2>1 DEF Accounted
  <2>2. ASSUME NEW i \in Markers, t \in Covered(log[i]) PROVE Accounted(t)'
    BY <1>3, <2>2 DEF Accounted
  <2> QED BY <1>4, <2>1, <2>2 DEF Accounted
<1> QED BY <1>4 DEF Safe

\* A record that is in its place is past every record before it.
LEMMA OneGenOrder ==
  ASSUME Gens = {0}, NEW s \in Seq(Records)
  PROVE  /\ \A i, j \in 1..Len(s) : i < j /\ Spot(s, j) => s[i].to < s[j].from
         /\ \A i, j \in 1..Len(s) : i < j /\ Spot(s, i) /\ IsData(s[j]) => s[i].from < s[j].from
         /\ \A i \in 1..Len(s) : s[i].to \in Nat /\ s[i].from \in Nat
         /\ \A i \in 1..Len(s) : s[i].file = 0 /\ s[i].gen = 0
<1>1. \A i \in 1..Len(s) : /\ s[i].gen = 0 /\ s[i].file = 0
                           /\ s[i].to \in Nat /\ s[i].from \in Nat
  <2> TAKE i \in 1..Len(s)
  <2>1. s[i] \in Records
    OBVIOUS
  <2> QED BY <2>1, TransportConstants DEF Records, Seqs
<1>2. ASSUME NEW i \in 1..Len(s), NEW j \in 1..Len(s), i < j, Spot(s, j) PROVE s[i].to < s[j].from
  <2>1. i \in 1..(j - 1)
    BY <1>2
  <2>2. TupleLess(End(s[i]), Tuple(s[j]))
    BY <1>2, <2>1 DEF Spot
  <2> QED BY <1>1, <2>2 DEF TupleLess, End, Tuple
<1>3. ASSUME NEW i \in 1..Len(s), NEW j \in 1..Len(s), i < j, Spot(s, i), IsData(s[j])
      PROVE  s[i].from < s[j].from
  <2>1. TupleLess(Tuple(s[i]), Tuple(s[j]))
    BY <1>3 DEF Spot
  <2> QED BY <1>1, <2>1 DEF TupleLess, Tuple
<1> QED BY <1>1, <1>2, <1>3

\* Through follows a log that grows.
LEMMA Carry ==
  ASSUME Gens = {0}, TransInv, [Next]_vars, NEW q \in Int, NEW X, NEW Y,
         X \subseteq Y, Through(log, q, X)
  PROVE  Through(log', q, Y)
<1>t. log \in Seq(Records) /\ Len(log) \in Nat /\ DOMAIN log = 1..Len(log)
  BY DEF TransInv, AckInv, AckCore, AckTypes
<1>g. Grows /\ log' \in Seq(Records) /\ Len(log') \in Nat /\ DOMAIN log' = 1..Len(log')
      /\ Len(log) <= Len(log') /\ \A i \in 1..Len(log) : log'[i] = log[i]
  BY <1>t, LogStep DEF Grows
<1>o. /\ \A i, j \in 1..Len(log') : i < j /\ Spot(log', j) => log'[i].to < log'[j].from
      /\ \A i \in 1..Len(log') : log'[i].to \in Nat /\ log'[i].from \in Nat
  BY <1>g, OneGenOrder
<1>i. \A i \in 1..Len(log) : i \in 1..Len(log')
  BY <1>t, <1>g
<1>2. q <= 0 \/ \E j \in 1..Len(log') : q <= log'[j].to
  BY <1>g, <1>i DEF Through
<1>3. ASSUME NEW i \in 1..Len(log'), IsData(log'[i]), Spot(log', i),
             0 < log'[i].from, log'[i].from <= q
      PROVE  Tuple(log'[i]) \in Y
  <2>1. CASE i \in 1..Len(log)
    <3>1. i \in DataAt /\ log'[i] = log[i]
      BY <1>g, <1>t, <1>3, <2>1 DEF DataAt
    <3>2. InPlace(i)'
      BY <1>3, SpotIs
    <3>3. InPlace(i)
      BY <1>t, <1>g, <3>1, <3>2, PlacedBefore
    <3>4. Spot(log, i)
      BY <3>3, SpotIs
    <3> QED BY <1>3, <2>1, <3>1, <3>4 DEF Through
  <2>2. CASE i > Len(log)
    <3>1. ~(q <= 0)
      BY <1>o, <1>3
    <3>2. PICK j \in 1..Len(log) : q <= log[j].to
      BY <3>1 DEF Through
    <3>3. j \in 1..Len(log') /\ j < i /\ log'[j].to = log[j].to
      BY <1>g, <1>i, <1>t, <2>2
    <3>4. log'[j].to < log'[i].from
      BY <1>o, <1>3, <3>3
    <3>5. log'[j].to \in Nat /\ log'[i].from \in Nat
      BY <1>o, <3>3
    <3> QED BY <1>3, <3>2, <3>3, <3>4, <3>5
  <2> QED BY <1>t, <1>g, <2>1, <2>2
<1> QED BY <1>2, <1>3 DEF Through

\* What holds up to a sequence holds up to a lower one.
LEMMA Lower ==
  ASSUME NEW s \in Seq(Records), NEW q \in Int, NEW p \in Int, NEW X, NEW Y,
         Through(s, q, X), p <= q, X \subseteq Y
  PROVE  Through(s, p, Y)
<1>1. \A i \in 1..Len(s) : s[i].from \in Int /\ s[i].to \in Int
  <2> TAKE i \in 1..Len(s)
  <2>1. s[i] \in Records
    OBVIOUS
  <2> QED BY <2>1, TransportConstants DEF Records, Seqs
<1>2. p <= 0 \/ \E j \in 1..Len(s) : p <= s[j].to
  BY <1>1 DEF Through
<1>3. \A i \in 1..Len(s) : s[i].from <= p => s[i].from <= q
  BY <1>1
<1> QED BY <1>2, <1>3 DEF Through

LEMMA Wider ==
  ASSUME NEW s, NEW q, NEW X, NEW Y, Through(s, q, X), X \subseteq Y
  PROVE  Through(s, q, Y)
BY DEF Through

\* A batch is sent.
LEMMA FramesSent ==
  ASSUME NEW s, NEW X, NEW u \in Seq(Frames), NEW b \in Seq(Records), NEW w,
         w = u \o Encode(b),
         FramesThrough(s, u, X), BatchThrough(s, b, X \cup FramesTo(u, Len(u)))
  PROVE  /\ FramesThrough(s, w, X)
         /\ FramesTo(u, Len(u)) \cup DataIn(b) \subseteq FramesTo(w, Len(w))
<1> DEFINE e == Encode(b)
<1>1. /\ e \in Seq(Frames) /\ Len(e) \in Nat /\ Len(u) \in Nat
  BY EncodeType
<1>2. /\ \A n \in 1..Len(e) : \E k \in 1..Len(b) : e[n].to = b[k].to /\ DataTo(b, k) \subseteq FramesTo(e, n)
      /\ DataIn(b) \subseteq FramesTo(e, Len(e))
  BY EncodeCovers DEF BatchThrough
<1>w. w = u \o e
  OBVIOUS
<1> HIDE DEF e
<1>3. /\ Len(w) = Len(u) + Len(e)
      /\ \A n \in 1..Len(u) : w[n] = u[n]
      /\ \A n \in 1..Len(w) : n > Len(u) => w[n] = e[n - Len(u)]
  BY <1>1, <1>w
<1>4. ASSUME NEW n \in 1..Len(u) PROVE FramesTo(u, n) \subseteq FramesTo(w, n)
  <2>1. \A m \in 1..n : m \in 1..Len(u)
    BY <1>1
  <2> QED BY <1>3, <2>1 DEF FramesTo
<1>5. ASSUME NEW n \in 0..Len(e) PROVE FramesTo(u, Len(u)) \cup FramesTo(e, n) \subseteq FramesTo(w, Len(u) + n)
  <2>1. ASSUME NEW m \in 1..Len(u) PROVE u[m].has \subseteq FramesTo(w, Len(u) + n)
    <3>1. m \in 1..(Len(u) + n)
      BY <1>1
    <3> QED BY <1>3, <3>1 DEF FramesTo
  <2>2. ASSUME NEW m \in 1..n PROVE e[m].has \subseteq FramesTo(w, Len(u) + n)
    <3> DEFINE k == Len(u) + m
    <3>1. k \in 1..(Len(u) + n) /\ k \in 1..Len(w) /\ k > Len(u) /\ k - Len(u) = m
      BY <1>1, <1>3
    <3> HIDE DEF k
    <3>2. w[k] = e[m]
      BY <1>3, <3>1
    <3> QED BY <3>1, <3>2 DEF FramesTo
  <2>3. FramesTo(u, Len(u)) \subseteq FramesTo(w, Len(u) + n)
    BY <2>1 DEF FramesTo
  <2>4. FramesTo(e, n) \subseteq FramesTo(w, Len(u) + n)
    BY <2>2 DEF FramesTo
  <2> QED BY <2>3, <2>4
<1>6. ASSUME NEW n \in 1..Len(w) PROVE Through(s, w[n].to, X \cup FramesTo(w, n))
  <2>1. CASE n \in 1..Len(u)
    <3>1. Through(s, w[n].to, X \cup FramesTo(u, n))
      BY <1>3, <2>1 DEF FramesThrough
    <3>2. X \cup FramesTo(u, n) \subseteq X \cup FramesTo(w, n)
      BY <1>4, <2>1
    <3> QED BY <3>1, <3>2, Wider
  <2>2. CASE n > Len(u)
    <3> DEFINE m == n - Len(u)
    <3>1. m \in 1..Len(e) /\ m \in 0..Len(e) /\ Len(u) + m = n /\ w[n] = e[m]
      BY <1>1, <1>3, <2>2
    <3> HIDE DEF m
    <3>2. PICK k \in 1..Len(b) : e[m].to = b[k].to /\ DataTo(b, k) \subseteq FramesTo(e, m)
      BY <1>2, <3>1
    <3>3. Through(s, w[n].to, (X \cup FramesTo(u, Len(u))) \cup DataTo(b, k))
      BY <3>1, <3>2 DEF BatchThrough
    <3>4. FramesTo(u, Len(u)) \cup FramesTo(e, m) \subseteq FramesTo(w, n)
      BY <1>5, <3>1
    <3>5. (X \cup FramesTo(u, Len(u))) \cup DataTo(b, k) \subseteq X \cup FramesTo(w, n)
      BY <3>2, <3>4
    <3> QED BY <3>3, <3>5, Wider
  <2> QED BY <1>1, <1>3, <2>1, <2>2
<1>7. FramesTo(u, Len(u)) \cup DataIn(b) \subseteq FramesTo(w, Len(w))
  <2>1. Len(e) \in 0..Len(e)
    BY <1>1
  <2>2. FramesTo(u, Len(u)) \cup FramesTo(e, Len(e)) \subseteq FramesTo(w, Len(w))
    BY <1>3, <1>5, <2>1
  <2> QED BY <1>2, <2>2
<1> QED BY <1>6, <1>7 DEF FramesThrough

\* A record joins a batch.
LEMMA BatchAppend ==
  ASSUME NEW s, NEW X, NEW b \in Seq(Records), NEW r \in Records,
         BatchThrough(s, b, X), IsData(r) => r.to = r.from,
         Through(s, r.to, X \cup DataIn(Append(b, r)))
  PROVE  BatchThrough(s, Append(b, r), X)
<1> DEFINE c == Append(b, r)
<1>1. /\ Len(b) \in Nat /\ Len(c) = Len(b) + 1 /\ c[Len(b) + 1] = r /\ DOMAIN c = 1..Len(c)
      /\ \A i \in 1..Len(b) : c[i] = b[i]
  OBVIOUS
<1>c. Through(s, r.to, X \cup DataIn(c))
  OBVIOUS
<1> HIDE DEF c
<1>2. ASSUME NEW n \in 1..Len(c)
      PROVE  (IsData(c[n]) => c[n].to = c[n].from) /\ Through(s, c[n].to, X \cup DataTo(c, n))
  <2>1. CASE n \in 1..Len(b)
    <3>1. DataTo(b, n) \subseteq DataTo(c, n)
      <4>1. \A m \in 1..n : m \in 1..Len(b)
        BY <1>1, <2>1
      <4> QED BY <1>1, <4>1 DEF DataTo
    <3>2. (IsData(b[n]) => b[n].to = b[n].from) /\ Through(s, b[n].to, X \cup DataTo(b, n))
      BY <2>1 DEF BatchThrough
    <3>3. Through(s, b[n].to, X \cup DataTo(c, n))
      BY <3>1, <3>2, Wider
    <3> QED BY <1>1, <2>1, <3>2, <3>3
  <2>2. CASE n = Len(b) + 1
    <3>1. DataIn(c) = DataTo(c, n)
      BY <1>1, <2>2 DEF DataIn, DataTo
    <3> QED BY <1>1, <1>c, <2>2, <3>1
  <2> QED BY <1>1, <2>1, <2>2
<1>3. BatchThrough(s, c, X)
  BY <1>2 DEF BatchThrough
<1> QED BY <1>3 DEF c

LEMMA BatchOfOne ==
  ASSUME NEW s, NEW X, NEW r \in Records, IsData(r) => r.to = r.from,
         Through(s, r.to, X \cup DataIn(<<r>>))
  PROVE  BatchThrough(s, <<r>>, X)
<1> DEFINE w == <<r>>
<1>1. Len(w) = 1 /\ DOMAIN w = 1..1 /\ w[1] = r
  OBVIOUS
<1>w. Through(s, r.to, X \cup DataIn(w))
  OBVIOUS
<1> HIDE DEF w
<1>2. DataTo(w, 1) = DataIn(w)
  BY <1>1 DEF DataTo, DataIn
<1>3. BatchThrough(s, w, X)
  <2>1. \A n \in 1..Len(w) : n = 1
    BY <1>1
  <2> QED BY <1>1, <1>2, <1>w, <2>1 DEF BatchThrough
<1> QED BY <1>3 DEF w

LEMMA FlowTypes ==
  ASSUME TransInv, OrdInv
  PROVE  /\ log \in Seq(Records) /\ Len(log) \in Nat /\ DOMAIN log = 1..Len(log)
         /\ Sorted(log)
         /\ \A i \in 1..Len(log) : log[i] \in Records
         /\ up \in Seq(Frames) /\ batch \in Seq(Records) /\ down \in Seq(Tuples)
         /\ rdr \in ReaderType /\ gone \subseteq 1..Len(log)
         /\ mirror \in AckTuples /\ srvHigh \in AckTuples
<1>1. WalTypes /\ log \in Seq(Records)
  BY DEF TransInv, RestTypes, AckInv, AckCore, AckTypes
<1> QED BY <1>1 DEF TransInv, RestTypes, AckInv, AckCore, AckTypes, ReplayTypes, StreamTypes,
           ServerTypes, WalTypes, OrdInv

\* The Reader passes over no data: what lies behind the record it returns is
\* below its start, or gone, or was returned before.
LEMMA ReadThrough ==
  ASSUME Gens = {0}, TransInv, OrdInv, FlowInv, Reading, ~CaughtUp
  PROVE  /\ IsData(log[NextPos]) => log[NextPos].to = log[NextPos].from
         /\ \A i \in DataAt : InPlace(i) /\ i <= NextPos /\ 0 < log[i].from
               => Tuple(log[i]) \in Sent \cup DataIn(Append(batch, log[NextPos]))
         /\ Through(log, log[NextPos].to, Sent \cup DataIn(Append(batch, log[NextPos])))
<1> DEFINE p == NextPos
           r == log[p]
           Y == Sent \cup DataIn(Append(batch, r))
<1>t. /\ log \in Seq(Records) /\ Len(log) \in Nat /\ DOMAIN log = 1..Len(log)
      /\ Sorted(log)
      /\ batch \in Seq(Records) /\ rdr \in ReaderType
  BY FlowTypes
<1>o. /\ \A i, j \in 1..Len(log) : i < j /\ Spot(log, j) => log[i].to < log[j].from
      /\ \A i \in 1..Len(log) : log[i].to \in Nat /\ log[i].from \in Nat
      /\ \A i \in 1..Len(log) : log[i].file = 0 /\ log[i].gen = 0
  BY <1>t, OneGenOrder
<1>p. /\ p \in 1..Len(log) /\ r \in Records
      /\ \A j \in 1..Len(log) : j > rdr.pos /\ j < p => ~Surfaces(j) \/ j \in rdr.missing
  BY <1>t, ReadNext
<1>r. rdr.gen = 0 /\ rdr.start \in Nat /\ rdr.pos \in Nat
  BY <1>t DEF ReaderType
<1> HIDE DEF p
<1>1. DataIn(Append(batch, r)) = DataIn(batch) \cup (IF IsData(r) THEN {Tuple(r)} ELSE {})
  BY <1>t, <1>p, DataInAppend
<1>y. Sent \subseteq Y /\ DataIn(batch) \subseteq Y /\ (IsData(r) => Tuple(r) \in Y)
  BY <1>1
<1> HIDE DEF Y
<1>s. Safe \subseteq Sent
  BY DEF Sent
<1>2. ASSUME NEW i \in DataAt, InPlace(i), i <= p, 0 < log[i].from PROVE Tuple(log[i]) \in Y
  <2>0. i \in 1..Len(log) /\ IsData(log[i])
    BY <1>t DEF DataAt
  <2>1. CASE i <= rdr.pos
    BY <1>2, <1>y, <2>1 DEF FlowInv, PosThrough
  <2>2. CASE i = p
    BY <1>y, <2>0, <2>2
  <2>3. CASE i > rdr.pos /\ i < p /\ ~Surfaces(i)
    <3>1. log[i].from < rdr.start
      BY <1>o, <1>r, <2>0, <2>3 DEF Surfaces
    <3>2. log[i].from <= rdr.start - 1
      BY <1>o, <1>r, <2>0, <3>1
    <3>3. Through(log, rdr.start - 1, Sent)
      BY DEF FlowInv, StartThrough
    <3>4. Spot(log, i)
      BY <1>2, SpotIs
    <3> QED BY <1>2, <1>y, <2>0, <3>2, <3>3, <3>4 DEF Through
  <2>4. CASE i \in rdr.missing
    BY <1>2, <1>s, <1>y, <2>4 DEF FlowInv, GoneSafe
  <2> QED BY <1>2, <1>p, <1>r, <2>0, <2>1, <2>2, <2>3, <2>4
<1>3. IsData(r) => r.to = r.from
  BY <1>t, <1>p DEF Sorted
<1>4. Through(log, r.to, Y)
  <2>1. ASSUME NEW i \in 1..Len(log), IsData(log[i]), Spot(log, i), 0 < log[i].from,
               log[i].from <= r.to
        PROVE  Tuple(log[i]) \in Y
    <3>1. i \in DataAt /\ InPlace(i)
      BY <1>t, <2>1, SpotIs DEF DataAt
    <3>2. ~(p < i)
      BY <1>o, <1>p, <2>1
    <3>3. i <= p
      BY <1>p, <3>2
    <3> QED BY <1>2, <2>1, <3>1, <3>3
  <2>2. \E j \in 1..Len(log) : r.to <= log[j].to
    <3>1. r.to \in Nat
      BY <1>o, <1>p
    <3> QED BY <1>p, <3>1
  <2> QED BY <2>1, <2>2 DEF Through
<1> QED BY <1>2, <1>3, <1>4 DEF Y, p

\* A batch b, which has all data before it, is sent in part.
LEMMA FlowSend ==
  ASSUME TransInv, OrdInv, FlowInv, UNCHANGED <<log, received, told>>,
         NEW b \in Seq(Records), BatchThrough(log, b, Sent), NEW out, NEW stay,
         up' = up \o Encode(out), batch' = stay,
         \/ out = << >> /\ stay = b
         \/ out = b /\ stay = << >>
         \/ out = batch /\ \E r \in Records : stay = <<r>> /\ b = Append(batch, r)
  PROVE  /\ FramesThrough(log', up', Safe') /\ BatchThrough(log', batch', Sent')
         /\ Safe' = Safe /\ Sent \subseteq Sent'
         /\ Sent \cup DataIn(b) \subseteq Sent' \cup DataIn(batch')
<1>t. up \in Seq(Frames) /\ batch \in Seq(Records) /\ Len(up) \in Nat
  BY FlowTypes
<1>v. Safe' = Safe
  BY DEF Safe, Accounted, Markers, DataAt
<1>s. Sent = Safe \cup FramesTo(up, Len(up)) /\ Sent' = Safe \cup FramesTo(up', Len(up'))
  BY <1>v DEF Sent
<1>f. FramesThrough(log, up, Safe)
  BY DEF FlowInv
<1>e. BatchThrough(log, << >>, Sent) /\ BatchThrough(log, << >>, Sent')
      /\ DataIn(<< >>) = {} /\ << >> \in Seq(Records)
  BY DEF BatchThrough, DataIn
<1>1. ASSUME NEW o \in Seq(Records), BatchThrough(log, o, Sent), up' = up \o Encode(o)
      PROVE  /\ FramesThrough(log', up', Safe')
             /\ Sent \subseteq Sent' /\ DataIn(o) \subseteq Sent'
  <2>1. BatchThrough(log, o, Safe \cup FramesTo(up, Len(up)))
    BY <1>1, <1>s
  <2>2. /\ FramesThrough(log, up', Safe)
        /\ FramesTo(up, Len(up)) \cup DataIn(o) \subseteq FramesTo(up', Len(up'))
    BY <1>1, <1>t, <1>f, <2>1, FramesSent
  <2> QED BY <1>s, <1>v, <2>2
<1>2. CASE out = << >> /\ stay = b
  <2>1. Sent \subseteq Sent' /\ FramesThrough(log', up', Safe')
    BY <1>1, <1>e, <1>2
  <2>2. \A n : Sent \cup DataTo(b, n) \subseteq Sent' \cup DataTo(b, n)
    BY <2>1
  <2>3. BatchThrough(log, b, Sent')
    BY <2>2, Wider DEF BatchThrough
  <2> QED BY <1>2, <1>v, <2>1, <2>3
<1>3. CASE out = b /\ stay = << >>
  BY <1>1, <1>3, <1>e, <1>v
<1>4. ASSUME NEW r \in Records, out = batch, stay = <<r>>, b = Append(batch, r)
      PROVE  /\ FramesThrough(log', up', Safe') /\ BatchThrough(log', batch', Sent')
             /\ Sent \subseteq Sent' /\ Sent \cup DataIn(b) \subseteq Sent' \cup DataIn(batch')
  <2>1. BatchThrough(log, batch, Sent)
    BY DEF FlowInv
  <2>2. FramesThrough(log', up', Safe') /\ Sent \subseteq Sent' /\ DataIn(batch) \subseteq Sent'
    BY <1>1, <1>4, <1>t, <2>1
  <2>3. DataIn(b) = DataIn(batch) \cup DataIn(<<r>>)
    BY <1>4, <1>t, DataInAppend
  <2>4. /\ IsData(r) => r.to = r.from
        /\ Through(log, r.to, Sent \cup DataIn(b))
    <3> DEFINE n == Len(batch) + 1
    <3>1. n \in 1..Len(b) /\ b[n] = r /\ n = Len(b) /\ DOMAIN b = 1..n
      BY <1>4, <1>t
    <3> HIDE DEF n
    <3>2. DataTo(b, n) = DataIn(b)
      BY <3>1 DEF DataTo, DataIn
    <3> QED BY <3>1, <3>2 DEF BatchThrough
  <2>5. Through(log, r.to, Sent' \cup DataIn(<<r>>))
    <3>1. Sent \cup DataIn(b) \subseteq Sent' \cup DataIn(<<r>>)
      BY <2>2, <2>3
    <3> QED BY <2>4, <3>1, Wider
  <2>6. BatchThrough(log, <<r>>, Sent')
    BY <2>4, <2>5, BatchOfOne
  <2> QED BY <1>4, <2>2, <2>3, <2>6
<1> QED BY <1>2, <1>3, <1>4, <1>v

\* The acks in flight, while the log grows.
LEMMA AcksQuiet ==
  ASSUME Gens = {0}, TransInv, OrdInv, FlowInv, [Next]_vars, UNCHANGED <<mirror, srvHigh, down>>
  PROVE  AcksThrough'
<1>t. /\ mirror \in AckTuples /\ srvHigh \in AckTuples /\ down \in Seq(Tuples) /\ Sorted(log)
  BY FlowTypes
<1>1. mirror[2] \in Int /\ srvHigh[2] \in Int
  <2>1. mirror \in Int \X Int /\ srvHigh \in Int \X Int
    BY <1>t, AckTupleType
  <2> QED BY <2>1
<1>2. \A n \in 1..Len(down) : down[n][2] \in Int
  <2> TAKE n \in 1..Len(down)
  <2>1. down[n] \in Tuples
    BY <1>t
  <2> QED BY <2>1, TupleType
<1>3. Safe \subseteq Safe'
  BY SafeGrows
<1>4. Through(log', mirror[2], Safe') /\ Through(log', srvHigh[2], Safe')
  BY <1>1, <1>3, <1>t, Carry DEF FlowInv, AcksThrough
<1>5. \A n \in 1..Len(down) : Through(log', down[n][2], Safe')
  <2> TAKE n \in 1..Len(down)
  <2>1. Through(log, down[n][2], Safe)
    BY DEF FlowInv, AcksThrough
  <2> QED BY <1>2, <1>3, <1>t, <2>1, Carry
<1> QED BY <1>4, <1>5 DEF AcksThrough

\* The stream, while the log grows.
LEMMA FramesQuiet ==
  ASSUME Gens = {0}, TransInv, OrdInv, FlowInv, [Next]_vars, up' = up
  PROVE  FramesThrough(log', up', Safe') /\ Sent \subseteq Sent'
<1>t. up \in Seq(Frames) /\ Sorted(log)
  BY FlowTypes
<1>1. Safe \subseteq Safe'
  BY SafeGrows
<1>2. Sent \subseteq Sent'
  BY <1>1 DEF Sent
<1>3. ASSUME NEW n \in 1..Len(up) PROVE Through(log', up[n].to, Safe' \cup FramesTo(up, n))
  <2>1. up[n].to \in Int
    <3>1. up[n] \in Frames
      BY <1>t
    <3> QED BY <3>1, TransportConstants DEF Frames, Seqs
  <2>2. Through(log, up[n].to, Safe \cup FramesTo(up, n))
    BY DEF FlowInv, FramesThrough
  <2>3. Safe \cup FramesTo(up, n) \subseteq Safe' \cup FramesTo(up, n)
    BY <1>1
  <2> QED BY <1>t, <2>1, <2>2, <2>3, Carry
<1> QED BY <1>2, <1>3 DEF FramesThrough

LEMMA StageStart ==
  ASSUME TransInv, st = "opening"
  PROVE  plan[1].start \in Nat /\ plan[1].gen \in Gens
<1> DEFINE Stages == [gen : Gens, start : Nat]
<1>1. plan \in Seq(Stages) /\ plan # << >>
  BY DEF TransInv, RestTypes, ReplayTypes, Handoffs
<1>2. \A x \in Stages : x.gen \in Gens /\ x.start \in Nat
  OBVIOUS
<1> HIDE DEF Stages
<1>3. plan[1] \in Stages
  BY <1>1
<1> QED BY <1>2, <1>3

\* The reader and the batch, while others take steps.
LEMMA FlowQuiet ==
  ASSUME Gens = {0}, TransInv, OrdInv, FlowInv, [Next]_vars, UNCHANGED <<batch, plan, lastRep>>,
         rdr'.start = rdr.start, rdr'.pos = rdr.pos, Sent \subseteq Sent',
         st' = st \/ (st = "live" /\ st' = "draining") \/ st' = "stopped"
  PROVE  BatchThrough(log', batch', Sent') /\ ReplayThrough' /\ StartThrough' /\ PosThrough'
<1>t. /\ log \in Seq(Records) /\ Len(log) \in Nat /\ DOMAIN log = 1..Len(log) /\ Sorted(log)
      /\ batch \in Seq(Records) /\ rdr \in ReaderType /\ lastRep \in Tuples
  BY FlowTypes DEF TransInv, RestTypes, ReplayTypes
<1>v. Safe \subseteq Safe'
  BY SafeGrows
<1>g. Grows
  BY <1>t, LogStep
<1>r. rdr.start \in Nat /\ rdr.pos \in Nat
  BY <1>t DEF ReaderType
<1>s. Reading' => Reading
  BY DEF Reading
<1>1. ASSUME NEW n \in 1..Len(batch)
      PROVE  /\ IsData(batch[n]) => batch[n].to = batch[n].from
             /\ Through(log', batch[n].to, Sent' \cup DataTo(batch, n))
  <2>1. batch[n].to \in Int
    <3>1. batch[n] \in Records
      BY <1>t
    <3> QED BY <3>1, TransportConstants DEF Records, Seqs
  <2>2. /\ IsData(batch[n]) => batch[n].to = batch[n].from
        /\ Through(log, batch[n].to, Sent \cup DataTo(batch, n))
    BY DEF FlowInv, BatchThrough
  <2>3. Sent \cup DataTo(batch, n) \subseteq Sent' \cup DataTo(batch, n)
    OBVIOUS
  <2>4. Through(log', batch[n].to, Sent' \cup DataTo(batch, n))
    BY <1>t, <2>1, <2>2, <2>3, Carry
  <2> QED BY <2>2, <2>4
<1>2. BatchThrough(log', batch', Sent')
  BY <1>1 DEF BatchThrough
<1>3. ReplayThrough'
  <2> SUFFICES ASSUME st' \in {"replaying", "entering"}
               PROVE  Through(log', lastRep[2], Sent' \cup DataIn(batch))
    BY DEF ReplayThrough
  <2>1. Through(log, lastRep[2], Sent \cup DataIn(batch))
    BY DEF FlowInv, ReplayThrough
  <2>2. lastRep[2] \in Int
    BY <1>t, TupleType
  <2>3. Sent \cup DataIn(batch) \subseteq Sent' \cup DataIn(batch)
    OBVIOUS
  <2> QED BY <1>t, <2>1, <2>2, <2>3, Carry
<1>4. StartThrough'
  <2>1. ASSUME Reading' PROVE Through(log', rdr'.start - 1, Sent')
    <3>1. Through(log, rdr.start - 1, Sent)
      BY <1>s, <2>1 DEF FlowInv, StartThrough
    <3>2. rdr.start - 1 \in Int
      BY <1>r
    <3> QED BY <1>t, <3>1, <3>2, Carry
  <2>2. ASSUME st' = "opening" PROVE Through(log', plan'[1].start - 1, Safe')
    <3>1. st = "opening"
      BY <2>2
    <3>2. Through(log, plan[1].start - 1, Safe)
      BY <3>1 DEF FlowInv, StartThrough
    <3>3. plan[1].start - 1 \in Int
      BY <3>1, StageStart
    <3> QED BY <1>t, <1>v, <3>2, <3>3, Carry
  <2> QED BY <2>1, <2>2 DEF StartThrough
<1>5. PosThrough'
  <2> SUFFICES ASSUME Reading'
               PROVE  /\ rdr.pos <= Len(log')
                      /\ \A i \in DataAt' : InPlace(i)' /\ i <= rdr.pos /\ 0 < log'[i].from
                            => Tuple(log'[i]) \in Sent' \cup DataIn(batch)
    BY DEF PosThrough
  <2>1. rdr.pos <= Len(log)
    BY <1>s DEF FlowInv, PosThrough
  <2>2. Len(log') \in Nat /\ Len(log) <= Len(log')
    BY <1>g DEF Grows
  <2>3. ASSUME NEW i \in DataAt', InPlace(i)', i <= rdr.pos, 0 < log'[i].from
        PROVE  Tuple(log'[i]) \in Sent' \cup DataIn(batch)
    <3>1. i \in 1..Len(log) /\ log'[i] = log[i]
      BY <1>g, <1>r, <1>t, <2>1, <2>3 DEF Grows, DataAt
    <3>2. i \in DataAt
      BY <1>t, <3>1 DEF DataAt
    <3>3. InPlace(i)
      BY <1>t, <1>g, <2>3, <3>2, PlacedBefore
    <3> QED BY <1>s, <2>3, <3>1, <3>2, <3>3 DEF FlowInv, PosThrough
  <2> QED BY <1>r, <1>t, <2>1, <2>2, <2>3
<1> QED BY <1>2, <1>3, <1>4, <1>5

LEMMA GoneQuiet ==
  ASSUME TransInv, OrdInv, FlowInv, [Next]_vars, gone' = gone, rdr'.missing = rdr.missing,
         Reading' => Reading
  PROVE  GoneSafe'
<1>t. log \in Seq(Records) /\ DOMAIN log = 1..Len(log) /\ gone \subseteq 1..Len(log)
  BY FlowTypes
<1>g. Grows /\ Safe \subseteq Safe'
  BY <1>t, LogStep, SafeGrows
<1>1. ASSUME NEW i \in gone' \cap DataAt', InPlace(i)', 0 < log'[i].from
      PROVE  Tuple(log'[i]) \in Safe'
  <2>1. i \in 1..Len(log) /\ log'[i] = log[i]
    BY <1>g, <1>t DEF Grows
  <2>2. i \in gone \cap DataAt
    BY <1>t, <2>1 DEF DataAt
  <2>3. InPlace(i)
    BY <1>t, <1>g, <1>1, <2>2, PlacedBefore
  <2> QED BY <1>1, <1>g, <2>1, <2>2, <2>3 DEF FlowInv, GoneSafe
<1> QED BY <1>1 DEF FlowInv, GoneSafe

\* A file leaves the disk: what it held is accounted for.
LEMMA GoneRemoved ==
  ASSUME TransInv, OrdInv, FlowInv, [Next]_vars, NEW j, NEW k, IsFile(j, k), RemoveFile(j, k),
         st' = st,
         \A i \in DataOf(j, k) : InPlace(i) /\ 0 < log[i].from => Tuple(log[i]) \in Safe'
  PROVE  GoneSafe'
<1>t. log \in Seq(Records) /\ DOMAIN log = 1..Len(log) /\ gone \subseteq 1..Len(log) /\ rdr \in ReaderType
  BY FlowTypes
<1>g. Grows /\ Safe \subseteq Safe'
  BY <1>t, LogStep, SafeGrows
<1>1. gone' = gone \cup (j..k) /\ j..k \subseteq 1..Len(log)
  BY <1>t DEF RemoveFile, IsFile, OnDisk
<1>2. ASSUME NEW i \in gone' \cap DataAt', InPlace(i)', 0 < log'[i].from
      PROVE  Tuple(log'[i]) \in Safe'
  <2>1. i \in 1..Len(log) /\ log'[i] = log[i]
    BY <1>g, <1>t, <1>1 DEF Grows
  <2>2. i \in DataAt
    BY <1>t, <2>1 DEF DataAt
  <2>p. InPlace(i)
    BY <1>t, <1>g, <1>2, <2>2, PlacedBefore
  <2>3. CASE i \in gone
    BY <1>2, <1>g, <2>1, <2>2, <2>3, <2>p DEF FlowInv, GoneSafe
  <2>4. CASE i \in j..k
    <3>1. i \in DataOf(j, k)
      BY <2>2, <2>4 DEF DataOf
    <3> QED BY <1>2, <2>1, <2>p, <3>1
  <2> QED BY <1>1, <2>3, <2>4
<1>3. ASSUME Reading' PROVE rdr'.missing \subseteq gone'
  <2>1. Reading
    BY <1>3 DEF Reading
  <2>2. rdr.missing \subseteq gone
    BY <2>1 DEF FlowInv, GoneSafe
  <2>3. rdr'.missing \subseteq rdr.missing \cup (j..k)
    BY <1>t DEF RemoveFile, ReaderType
  <2> QED BY <1>1, <2>2, <2>3
<1> QED BY <1>2, <1>3 DEF GoneSafe

LEMMA RemoveKeeps ==
  ASSUME rdr \in ReaderType, NEW j, NEW k, RemoveFile(j, k)
  PROVE  rdr'.start = rdr.start /\ rdr'.pos = rdr.pos
BY DEF RemoveFile, ReaderType

LEMMA FlowWriter ==
  ASSUME Gens = {0}, TransInv, OrdInv, FlowInv, [Next]_vars,
         NEW t \in Tuples, WalAppend(t) \/ WalAppendLoss(t)
  PROVE  FlowInv'
<1>t. log \in Seq(Records) /\ Len(log) \in Nat /\ Sorted(log) /\ rdr \in ReaderType
  BY FlowTypes
<1>1. UNCHANGED <<mirror, srvHigh, down, up, batch, plan, lastRep, st, received, told>>
  BY DEF WalAppend, WalAppendLoss, ackVars, replayVars, serverVars
<1>2. (gone' = gone /\ rdr' = rdr) \/ \E j, k \in DOMAIN log : RemoveFile(j, k)
  BY DEF WalAppend, WalAppendLoss
<1>3. rdr'.start = rdr.start /\ rdr'.pos = rdr.pos
  BY <1>2, <1>t, RemoveKeeps
<1>4. GoneSafe'
  <2>1. CASE gone' = gone /\ rdr' = rdr
    <3>1. Reading' => Reading
      BY <1>1 DEF Reading
    <3> QED BY <2>1, <3>1, GoneQuiet
  <2>2. ASSUME NEW j \in DOMAIN log, NEW k \in DOMAIN log, IsFile(j, k), DataOf(j, k) # {},
               RemoveFile(j, k), log' = log \o <<DropMarker(j, k), Data(t[1], t[2])>>
        PROVE  GoneSafe'
    <3> DEFINE m == DropMarker(j, k)
    <3>1. /\ m \in Records /\ ~IsData(m)
          /\ \A i \in DataOf(j, k) : InPlace(i) => Tuple(log[i]) \in Covered(m)
      BY <1>t, <2>2, DropEnd
    <3> HIDE DEF m
    <3>2. Len(log) + 1 \in Markers' /\ log'[Len(log) + 1] = m
      <4>1. Len(log) + 1 \in DOMAIN log' /\ log'[Len(log) + 1] = m
        BY <1>t, <2>2 DEF m
      <4> QED BY <3>1, <4>1 DEF Markers, DataAt
    <3>3. ASSUME NEW i \in DataOf(j, k), InPlace(i) PROVE Tuple(log[i]) \in Safe'
      <4>1. log[i] \in Records
        BY <1>t DEF DataOf, DataAt
      <4>2. Tuple(log[i]) \in Tuples
        BY <4>1, RecordTuples
      <4> DEFINE x == Tuple(log[i])
      <4>3. \E l \in Markers' : x \in Covered(log'[l])
        BY <3>1, <3>2, <3>3
      <4>4. x \in Tuples
        BY <4>2
      <4> HIDE DEF x
      <4>5. x \in {y \in Tuples : y \in received' \cup told' \/ \E l \in Markers' : y \in Covered(log'[l])}
        BY <4>3, <4>4
      <4> QED BY <4>5 DEF Safe, Accounted, x
    <3> QED BY <1>1, <2>2, <3>3, GoneRemoved
  <2>3. \/ gone' = gone /\ rdr' = rdr
        \/ \E j, k \in DOMAIN log :
              /\ IsFile(j, k) /\ DataOf(j, k) # {} /\ RemoveFile(j, k)
              /\ log' = log \o <<DropMarker(j, k), Data(t[1], t[2])>>
    BY DEF WalAppend, WalAppendLoss
  <2> QED BY <2>1, <2>2, <2>3
<1>5. AcksThrough'
  BY <1>1, AcksQuiet
<1>6. FramesThrough(log', up', Safe') /\ Sent \subseteq Sent'
  BY <1>1, FramesQuiet
<1>7. BatchThrough(log', batch', Sent') /\ ReplayThrough' /\ StartThrough' /\ PosThrough'
  BY <1>1, <1>3, <1>6, FlowQuiet
<1> QED BY <1>4, <1>5, <1>6, <1>7 DEF FlowInv

\* Reclamation removes what the mirror covers.
LEMMA FlowReclaim ==
  ASSUME Gens = {0}, TransInv, OrdInv, FlowInv, [Next]_vars, Reclaim
  PROVE  FlowInv'
<1>t. /\ log \in Seq(Records) /\ Len(log) \in Nat /\ DOMAIN log = 1..Len(log)
      /\ Sorted(log) /\ rdr \in ReaderType /\ mirror \in AckTuples
  BY FlowTypes
<1>1. UNCHANGED <<mirror, srvHigh, down, up, batch, plan, lastRep, st, log>>
  BY DEF Reclaim, ackVars, replayVars, serverVars
<1>2. PICK j \in DOMAIN log, k \in DOMAIN log : IsFile(j, k) /\ IsAcked(j, k) /\ RemoveFile(j, k)
  BY DEF Reclaim
<1>3. rdr'.start = rdr.start /\ rdr'.pos = rdr.pos
  BY <1>2, <1>t, RemoveKeeps
<1>4. GoneSafe'
  <2>1. ASSUME NEW i \in DataOf(j, k), InPlace(i), 0 < log[i].from PROVE Tuple(log[i]) \in Safe'
    <3>1. i \in 1..Len(log) /\ IsData(log[i]) /\ log[i] \in Records /\ Spot(log, i)
      BY <1>t, <2>1, SpotIs DEF DataOf, DataAt
    <3>2. TupleLeq(Tuple(log[i]), mirror) /\ mirror # NoAck
      BY <1>2 DEF IsAcked
    <3>3. mirror \in Tuples
      BY <1>t, <3>2 DEF AckTuples
    <3>4. mirror[1] = 0 /\ mirror[2] \in Nat
      BY <3>3, TupleType
    <3>5. log[i].gen = 0 /\ log[i].from \in Nat
      BY <3>1, TransportConstants DEF Records, Seqs
    <3>6. log[i].from <= mirror[2]
      BY <3>2, <3>4, <3>5 DEF TupleLeq, TupleLess, Tuple
    <3>7. Tuple(log[i]) \in Safe
      BY <2>1, <3>1, <3>6 DEF FlowInv, AcksThrough, Through
    <3> QED BY <3>7, SafeGrows
  <2> QED BY <1>1, <1>2, <2>1, GoneRemoved
<1>5. AcksThrough'
  BY <1>1, AcksQuiet
<1>6. FramesThrough(log', up', Safe') /\ Sent \subseteq Sent'
  BY <1>1, FramesQuiet
<1>7. BatchThrough(log', batch', Sent') /\ ReplayThrough' /\ StartThrough' /\ PosThrough'
  BY <1>1, <1>3, <1>6, FlowQuiet
<1> QED BY <1>4, <1>5, <1>6, <1>7 DEF FlowInv

\* An ack of what is accounted for leaves the WAL's ack so.
LEMMA AckApplied ==
  ASSUME TransInv, OrdInv, FlowInv, NEW a \in Tuples, Through(log, a[2], Safe), ApplyAck(a)
  PROVE  Through(log, mirror'[2], Safe)
<1>1. mirror' \in {mirror, a}
  BY DEF ApplyAck, Adopt, AdoptFails, Clamp, TupleMax
<1>2. Through(log, mirror[2], Safe)
  BY DEF FlowInv, AcksThrough
<1> QED BY <1>1, <1>2

LEMMA FlowRecv ==
  ASSUME Gens = {0}, TransInv, OrdInv, FlowInv, [Next]_vars, ReplayRecv \/ LiveRecv
  PROVE  FlowInv'
<1>t. down \in Seq(Tuples)
  BY FlowTypes
<1>1. /\ UNCHANGED <<srvHigh, up, batch, plan, lastRep, st, log, gone, rdr, received, told>>
      /\ down # << >> /\ down' = Tail(down)
  BY DEF ReplayRecv, LiveRecv, walVars, replayVars, serverVars
<1>2. PICK a \in Tuples : a = Head(down) /\ ApplyAck(a)
  BY DEF ReplayRecv, LiveRecv, ApplyAck
<1>3. /\ Len(down') = Len(down) - 1 /\ Len(down) \in Nat /\ Len(down) >= 1 /\ Head(down) = down[1]
      /\ \A n \in 1..Len(down') : n + 1 \in 1..Len(down) /\ down'[n] = down[n + 1]
  BY <1>1, <1>t
<1>v. Safe' = Safe
  BY <1>1 DEF Safe, Accounted, Markers, DataAt
<1>4. AcksThrough'
  <2>1. 1 \in 1..Len(down)
    BY <1>3
  <2>2. Through(log, a[2], Safe)
    BY <1>2, <1>3, <2>1 DEF FlowInv, AcksThrough
  <2>3. Through(log, mirror'[2], Safe)
    BY <1>2, <2>2, AckApplied
  <2>4. \A n \in 1..Len(down') : Through(log, down'[n][2], Safe)
    BY <1>3 DEF FlowInv, AcksThrough
  <2> QED BY <1>1, <1>v, <2>3, <2>4 DEF FlowInv, AcksThrough
<1>5. GoneSafe'
  BY <1>1, <1>v DEF FlowInv, GoneSafe, DataAt, InPlace, Reading
<1>6. FramesThrough(log', up', Safe') /\ Sent \subseteq Sent'
  BY <1>1, FramesQuiet
<1>7. BatchThrough(log', batch', Sent') /\ ReplayThrough' /\ StartThrough' /\ PosThrough'
  BY <1>1, <1>6, FlowQuiet
<1> QED BY <1>4, <1>5, <1>6, <1>7 DEF FlowInv

LEMMA NothingBelowZero ==
  ASSUME TransInv, OrdInv, NEW q \in Int, q <= 0, NEW X
  PROVE  Through(log, q, X)
<1>1. \A i \in 1..Len(log) : log[i].from \in Nat
  <2> TAKE i \in 1..Len(log)
  <2>1. log[i] \in Records
    BY FlowTypes
  <2> QED BY <2>1, TransportConstants DEF Records, Seqs
<1> QED BY <1>1 DEF Through

\* What an honest server names.
LEMMA KnownThrough ==
  ASSUME ServerClaims = {}, TransInv, OrdInv, FlowInv, NEW a \in Known
  PROVE  Through(log, a[2], Safe)
<1>1. a = srvHigh \/ a = <<0, 0>>
  BY DEF Known
<1>2. Through(log, srvHigh[2], Safe)
  BY DEF FlowInv, AcksThrough
<1>3. Through(log, 0, Safe)
  BY NothingBelowZero
<1> QED BY <1>1, <1>2, <1>3

\* Nothing in flight changes, but for a heartbeat.
LEMMA FlowIdle ==
  ASSUME Gens = {0}, ServerClaims = {}, TransInv, OrdInv, FlowInv, [Next]_vars,
         LiveDrained \/ LiveNotify \/ StopLive \/ Rejected \/ ServerHeartbeat \/ UNCHANGED vars
  PROVE  FlowInv'
<1>1. /\ UNCHANGED <<mirror, srvHigh, up, batch, plan, lastRep, log, gone, rdr, received, told>>
      /\ st' = st \/ (st = "live" /\ st' = "draining") \/ st' = "stopped"
  BY DEF LiveDrained, LiveNotify, StopLive, Selecting, Rejected, ServerHeartbeat, vars, walVars,
         ackVars, replayVars, serverVars
<1>2. down' = down \/ \E a \in Known : down' = <<a>>
  BY DEF LiveDrained, LiveNotify, StopLive, Rejected, ServerHeartbeat, vars
<1>3. ASSUME down' = down PROVE AcksThrough'
  BY <1>1, <1>3, AcksQuiet
<1>v. Safe' = Safe
  BY <1>1 DEF Safe, Accounted, Markers, DataAt
<1>4. ASSUME NEW a \in Known, down' = <<a>> PROVE AcksThrough'
  <2>1. Through(log, a[2], Safe)
    BY KnownThrough
  <2>2. \A n \in 1..Len(down') : down'[n] = a
    BY <1>4
  <2> QED BY <1>1, <1>v, <2>1, <2>2 DEF FlowInv, AcksThrough
<1>5. GoneSafe'
  <2>1. Reading' => Reading
    BY <1>1 DEF Reading
  <2> QED BY <1>1, <2>1, GoneQuiet
<1>6. FramesThrough(log', up', Safe') /\ Sent \subseteq Sent'
  BY <1>1, FramesQuiet
<1>7. BatchThrough(log', batch', Sent') /\ ReplayThrough' /\ StartThrough' /\ PosThrough'
  BY <1>1, <1>6, FlowQuiet
<1> QED BY <1>2, <1>3, <1>4, <1>5, <1>6, <1>7 DEF FlowInv

\* The server takes a frame: what it holds is accounted for, and the ack that
\* goes back stands for nothing else.
LEMMA FlowTake ==
  ASSUME Gens = {0}, TransInv, OrdInv, FlowInv, [Next]_vars, ServerTake
  PROVE  FlowInv'
<1> DEFINE f == Head(up)
<1>t. up \in Seq(Frames) /\ down \in Seq(Tuples) /\ srvHigh \in AckTuples
  BY FlowTypes
<1>1. /\ UNCHANGED <<mirror, batch, plan, lastRep, st, log, gone, rdr>>
      /\ up # << >> /\ up' = Tail(up)
      /\ srvHigh' = TupleMax(srvHigh, <<f.gen, f.to>>)
      /\ down' = down \/ down' = Append(down, <<f.gen, f.to>>)
      /\ received' \cup told' = received \cup told \cup f.has
  BY DEF ServerTake, walVars, ackVars, replayVars
<1>2. /\ Len(up') = Len(up) - 1 /\ Len(up) \in Nat /\ Len(up) >= 1 /\ f = up[1] /\ f \in Frames
      /\ \A n \in 1..Len(up') : n + 1 \in 1..Len(up) /\ up'[n] = up[n + 1]
  BY <1>1, <1>t
<1>f. f.has \subseteq Tuples /\ f.gen \in Gens /\ f.to \in Seqs
  BY <1>2 DEF Frames
<1> HIDE DEF f
<1>v. Safe' = Safe \cup f.has
  <2>1. Markers' = Markers
    BY <1>1 DEF Markers, DataAt
  <2>2. \A t : Accounted(t)' <=> t \in received' \cup told' \/ \E i \in Markers : t \in Covered(log[i])
    BY <1>1, <2>1 DEF Accounted
  <2>3. \A t : Accounted(t)' <=> Accounted(t) \/ t \in f.has
    BY <1>1, <2>2 DEF Accounted
  <2> QED BY <1>f, <2>3 DEF Safe
<1>3. ASSUME NEW n \in 1..Len(up') PROVE Safe \cup FramesTo(up, n + 1) \subseteq Safe' \cup FramesTo(up', n)
  <2> SUFFICES ASSUME NEW m \in 1..(n + 1) PROVE up[m].has \subseteq Safe' \cup FramesTo(up', n)
    BY <1>v DEF FramesTo
  <2>1. CASE m = 1
    BY <1>2, <1>v, <2>1
  <2>2. CASE m # 1
    <3> DEFINE k == m - 1
    <3>1. k \in 1..n /\ k \in 1..Len(up') /\ k + 1 = m
      BY <1>2, <2>2
    <3> HIDE DEF k
    <3>2. up'[k] = up[m]
      BY <1>2, <3>1
    <3> QED BY <3>1, <3>2 DEF FramesTo
  <2> QED BY <2>1, <2>2
<1>4. FramesThrough(log', up', Safe')
  <2> SUFFICES ASSUME NEW n \in 1..Len(up') PROVE Through(log, up'[n].to, Safe' \cup FramesTo(up', n))
    BY <1>1 DEF FramesThrough
  <2>1. n + 1 \in 1..Len(up) /\ up'[n] = up[n + 1]
    BY <1>2
  <2>2. Through(log, up[n + 1].to, Safe \cup FramesTo(up, n + 1))
    BY <2>1 DEF FlowInv, FramesThrough
  <2>3. Through(log, up[n + 1].to, Safe' \cup FramesTo(up', n))
    BY <1>3, <2>2, Wider
  <2> QED BY <2>1, <2>3
<1>5. Sent \subseteq Sent'
  <2>1. CASE Len(up) = 1
    <3>1. FramesTo(up, Len(up)) = f.has
      BY <1>2, <2>1 DEF FramesTo
    <3> QED BY <1>v, <3>1 DEF Sent
  <2>2. CASE Len(up) # 1
    <3>1. Len(up') \in 1..Len(up') /\ Len(up') + 1 = Len(up)
      BY <1>2, <2>2
    <3> QED BY <1>3, <3>1 DEF Sent
  <2> QED BY <2>1, <2>2
<1>6. AcksThrough'
  <2>1. Through(log, f.to, Safe')
    <3>1. Through(log, up[1].to, Safe \cup FramesTo(up, 1))
      <4>1. 1 \in 1..Len(up)
        BY <1>2
      <4> QED BY <4>1 DEF FlowInv, FramesThrough
    <3>2. FramesTo(up, 1) = f.has
      BY <1>2 DEF FramesTo
    <3> QED BY <1>2, <1>v, <3>1, <3>2
  <2>2. Through(log, mirror[2], Safe') /\ Through(log, srvHigh[2], Safe')
        /\ \A n \in 1..Len(down) : Through(log, down[n][2], Safe')
    BY <1>v, Wider DEF FlowInv, AcksThrough
  <2>3. srvHigh' \in {srvHigh, <<f.gen, f.to>>}
    BY <1>1 DEF TupleMax
  <2>4. Through(log, srvHigh'[2], Safe')
    BY <2>1, <2>2, <2>3
  <2>5. \A n \in 1..Len(down') : Through(log, down'[n][2], Safe')
    <3>1. CASE down' = down
      BY <2>2, <3>1
    <3>2. CASE down' = Append(down, <<f.gen, f.to>>)
      <4> TAKE n \in 1..Len(down')
      <4>1. <<f.gen, f.to>> \in Tuples
        BY <1>f DEF Tuples
      <4>2. (n \in 1..Len(down) /\ down'[n] = down[n]) \/ down'[n] = <<f.gen, f.to>>
        BY <1>t, <3>2, <4>1
      <4> QED BY <2>1, <2>2, <4>2
    <3> QED BY <1>1, <3>1, <3>2
  <2> QED BY <1>1, <2>2, <2>4, <2>5 DEF AcksThrough
<1>7. GoneSafe'
  <2>1. Reading' => Reading
    BY <1>1 DEF Reading
  <2> QED BY <1>1, <2>1, GoneQuiet
<1>8. BatchThrough(log', batch', Sent') /\ ReplayThrough' /\ StartThrough' /\ PosThrough'
  BY <1>1, <1>5, FlowQuiet
<1> QED BY <1>4, <1>6, <1>7, <1>8 DEF FlowInv

\* A connection ends, or the next one begins.
LEMMA FlowReset ==
  ASSUME TransInv, OrdInv, FlowInv, UNCHANGED <<log, gone, received, told, srvHigh>>,
         st' \in {"connecting", "stopped", "planning"}, batch' = << >>, down' = << >>,
         up' = << >> \/ FramesThrough(log, up', Safe),
         Through(log, mirror'[2], Safe)
  PROVE  FlowInv'
<1>v. Safe' = Safe
  BY DEF Safe, Accounted, Markers, DataAt
<1>1. AcksThrough'
  BY <1>v DEF FlowInv, AcksThrough
<1>2. FramesThrough(log', up', Safe')
  <2>1. CASE up' = << >>
    BY <2>1 DEF FramesThrough
  <2>2. CASE FramesThrough(log, up', Safe)
    BY <1>v, <2>2
  <2> QED BY <2>1, <2>2
<1>3. BatchThrough(log', batch', Sent')
  BY DEF BatchThrough
<1>4. ReplayThrough' /\ StartThrough' /\ PosThrough'
  BY DEF ReplayThrough, StartThrough, PosThrough, Reading
<1>5. GoneSafe'
  BY <1>v DEF FlowInv, GoneSafe, DataAt, InPlace, Reading
<1> QED BY <1>1, <1>2, <1>3, <1>4, <1>5 DEF FlowInv

\* persistedAck and the replay cursor are not past the mirror.
LEMMA CursorThrough ==
  ASSUME Gens = {0}, TransInv, OrdInv, FlowInv
  PROVE  Through(log, cursor[2], Safe) /\ Through(log, meta[2], Safe)
<1>t. /\ log \in Seq(Records) /\ mirror \in AckTuples
      /\ cursor \in Tuples /\ persisted \in Tuples /\ meta \in AckTuples /\ present \in BOOLEAN
  BY FlowTypes DEF TransInv, AckInv, AckCore, AckTypes
<1>n. cursor[2] \in Nat /\ persisted[2] \in Nat /\ persisted[1] = 0
  BY <1>t, TupleType
<1>m. mirror \in Int \X Int /\ meta \in Int \X Int
  BY <1>t, AckTupleType
<1>g. \A a \in AckTuples : a = NoAck \/ (a[1] = 0 /\ a[2] \in Nat)
  BY TupleType DEF AckTuples
<1>1. /\ cursor[2] <= persisted[2]
      /\ IF present THEN TupleLeq(persisted, meta) ELSE persisted = <<0, 0>>
      /\ TupleLeq(meta, mirror)
  BY DEF TransInv, AckInv, AckCore, AckChain
<1>2. meta[2] <= mirror[2]
  <2>1. (meta = NoAck \/ (meta[1] = 0 /\ meta[2] \in Nat))
        /\ (mirror = NoAck \/ (mirror[1] = 0 /\ mirror[2] \in Nat))
    BY <1>g, <1>t
  <2> QED BY <1>1, <1>m, <2>1 DEF TupleLeq, TupleLess, NoAck
<1>3. Through(log, meta[2], Safe)
  BY <1>2, <1>m, <1>t, Lower DEF FlowInv, AcksThrough
<1>4. CASE present
  <2>1. persisted[2] <= meta[2]
    <3>1. meta = NoAck \/ (meta[1] = 0 /\ meta[2] \in Nat)
      BY <1>g, <1>t
    <3> QED BY <1>1, <1>4, <1>n, <3>1 DEF TupleLeq, TupleLess, NoAck
  <2>2. cursor[2] <= meta[2]
    BY <1>1, <1>m, <1>n, <2>1
  <2> QED BY <1>3, <1>m, <1>n, <1>t, <2>2, Lower
<1>5. CASE ~present
  <2>1. persisted = <<0, 0>>
    BY <1>1, <1>5, Zenon
  <2>2. cursor[2] <= 0
    BY <1>1, <1>n, <2>1
  <2> QED BY <1>3, <1>n, <2>2, NothingBelowZero
<1> QED BY <1>4, <1>5

LEMMA FlowConnection ==
  ASSUME Gens = {0}, ServerClaims = {}, TransInv, OrdInv, FlowInv, [Next]_vars,
         Connect \/ Disconnect \/ Stop \/ Restart \/ ShutdownFlush
  PROVE  FlowInv'
<1>1. CASE Connect
  <2>1. /\ UNCHANGED <<log, gone, received, told, srvHigh, batch>>
        /\ st = "connecting" /\ st' = "planning" /\ down' = << >> /\ up' = << >>
    BY <1>1 DEF Connect, walVars, serverVars
  <2>2. PICK a \in Tuples : a \in Known /\ ApplyAck(a)
    BY <1>1 DEF Connect
  <2>3. Through(log, mirror'[2], Safe)
    BY <2>2, AckApplied, KnownThrough
  <2>4. batch = << >>
    BY <2>1 DEF TransInv, Handoffs
  <2> QED BY <2>1, <2>3, <2>4, FlowReset
<1>m. Through(log, mirror[2], Safe)
  BY DEF FlowInv, AcksThrough
<1>2. CASE Disconnect \/ Stop \/ Restart
  <2>1. /\ UNCHANGED <<log, gone, received, told, srvHigh>>
        /\ st' \in {"connecting", "stopped"} /\ down' = << >> /\ up' = << >> /\ batch' = << >>
        /\ mirror' \in {mirror, meta}
    BY <1>2 DEF Disconnect, Stop, Restart, Torn, walVars, serverVars, ackVars
  <2>2. Through(log, mirror'[2], Safe)
    BY <1>m, <2>1, CursorThrough
  <2> QED BY <2>1, <2>2, FlowReset
<1>3. CASE ShutdownFlush
  <2>1. /\ UNCHANGED <<log, gone, received, told, srvHigh, mirror>>
        /\ st' = "stopped" /\ down' = << >> /\ batch' = << >>
        /\ up' = up \/ up' = up \o Encode(batch)
    BY <1>3 DEF ShutdownFlush, Torn, walVars, serverVars, ackVars
  <2>2. FramesThrough(log, up', Safe)
    <3>1. CASE up' = up
      BY <3>1 DEF FlowInv
    <3>2. CASE up' = up \o Encode(batch)
      <4>1. up \in Seq(Frames) /\ batch \in Seq(Records)
        BY FlowTypes
      <4>2. /\ FramesThrough(log, up, Safe)
            /\ BatchThrough(log, batch, Safe \cup FramesTo(up, Len(up)))
        BY DEF FlowInv, Sent
      <4> QED BY <3>2, <4>1, <4>2, FramesSent
    <3> QED BY <2>1, <3>1, <3>2
  <2> QED BY <1>m, <2>1, <2>2, FlowReset
<1> QED BY <1>1, <1>2, <1>3

\* The replay starts past nothing that still has to be sent.
LEMMA FlowPlan ==
  ASSUME Gens = {0}, TransInv, OrdInv, FlowInv, [Next]_vars, PlanReplay
  PROVE  FlowInv'
<1>t. /\ log \in Seq(Records) /\ Len(log) \in Nat /\ DOMAIN log = 1..Len(log)
      /\ Sorted(log)
      /\ cursor \in Tuples /\ persisted \in Tuples
  BY FlowTypes DEF TransInv, AckInv, AckCore, AckTypes
<1>1. /\ UNCHANGED <<mirror, srvHigh, down, up, batch, log, gone, received, told>>
      /\ st = "planning" /\ st' = "opening" /\ plan' = ReplayPlan
  BY DEF PlanReplay, walVars, ackVars, serverVars
<1>v. Safe' = Safe
  BY <1>1 DEF Safe, Accounted, Markers, DataAt
<1>2. plan'[1].start = ReplayStart
  <2> DEFINE one == <<[gen |-> persisted[1], start |-> ReplayStart]>>
             c   == Cardinality(LaterGens)
             more == [n \in 1..c |-> [gen |-> Nth(LaterGens, n), start |-> 0]]
  <2>1. LaterGens = {}
    BY <1>t, TupleType DEF LaterGens
  <2>2. c = 0
    BY <2>1, FS_EmptySet
  <2>3. more = << >>
    BY <2>2
  <2>4. plan' = one \o << >>
    BY <1>1, <2>3 DEF ReplayPlan
  <2>5. one \o << >> = one
    <3>1. one \in Seq({one[1]})
      OBVIOUS
    <3> QED BY <3>1
  <2> QED BY <2>4, <2>5
<1>c. cursor[2] \in Nat /\ persisted[1] = 0
  BY <1>t, TupleType
<1> DEFINE ds == DataOnDisk(persisted[1])
<1>3. Through(log, ReplayStart - 1, Safe)
  <2>1. CASE ReplayStart = cursor[2] + 1
    <3>1. ReplayStart - 1 = cursor[2]
      BY <1>c, <2>1
    <3> QED BY <3>1, CursorThrough
  <2>2. CASE ds # {} /\ ReplayStart = log[Min(ds)].from
    <3> DEFINE m == Min(ds)
    <3>1. ds \in SUBSET Nat /\ ds \subseteq 1..Len(log)
      BY <1>t, DataOnDiskType DEF DataOnDisk, DataAt
    <3>2. m \in ds /\ \A y \in ds : m <= y
      BY <2>2, <3>1, MinIsLeast
    <3>3. /\ \A i, j \in 1..Len(log) : i < j /\ Spot(log, j) => log[i].to < log[j].from
          /\ \A i \in 1..Len(log) : log[i].to \in Nat /\ log[i].from \in Nat /\ log[i].gen = 0
      BY <1>t, OneGenOrder
    <3>4. m \in 1..Len(log) /\ log[m].to = log[m].from
      <4>1. m \in 1..Len(log) /\ IsData(log[m])
        BY <1>t, <3>1, <3>2 DEF DataOnDisk, DataAt
      <4> QED BY <1>t, <4>1 DEF Sorted
    <3>d. ASSUME NEW i \in DataAt, i \in 1..Len(log), i \notin gone PROVE m <= i
      <4>1. i \in ds
        BY <1>c, <1>t, <3>3, <3>d DEF DataOnDisk, OnDisk
      <4> QED BY <3>2, <4>1
    <3> HIDE DEF m, ds
    <3>5. ASSUME NEW i \in 1..Len(log), IsData(log[i]), Spot(log, i), 0 < log[i].from,
                 log[i].from <= log[m].from - 1
          PROVE  Tuple(log[i]) \in Safe
      <4>1. i \in DataAt /\ InPlace(i)
        BY <1>t, <3>5, SpotIs DEF DataAt
      <4>2. ~(m < i) /\ m # i
        BY <3>3, <3>4, <3>5
      <4>3. i \in gone
        <5>1. i \in Int /\ m \in Int
          BY <1>t, <3>4
        <5> QED BY <3>d, <4>1, <4>2, <5>1
      <4> QED BY <3>5, <4>1, <4>3 DEF FlowInv, GoneSafe
    <3>6. log[m].from \in Nat
      BY <3>3, <3>4
    <3>7. \E j \in 1..Len(log) : log[m].from - 1 <= log[j].to
      BY <3>4, <3>6
    <3>8. Through(log, log[m].from - 1, Safe)
      BY <3>5, <3>7 DEF Through
    <3> QED BY <2>2, <3>8 DEF m
  <2>3. ReplayStart = cursor[2] + 1 \/ (ds # {} /\ ReplayStart = log[Min(ds)].from)
    BY DEF ReplayStart
  <2> QED BY <2>1, <2>2, <2>3
<1>4. StartThrough'
  BY <1>1, <1>2, <1>3, <1>v DEF StartThrough, Reading
<1>5. AcksThrough'
  BY <1>1, AcksQuiet
<1>6. FramesThrough(log', up', Safe') /\ Sent \subseteq Sent'
  BY <1>1, FramesQuiet
<1>7. BatchThrough(log', batch', Sent')
  <2>1. batch' = << >>
    BY <1>1 DEF TransInv, Handoffs
  <2> QED BY <2>1 DEF BatchThrough
<1>8. ReplayThrough' /\ PosThrough' /\ GoneSafe'
  BY <1>1, <1>v DEF ReplayThrough, PosThrough, Reading, FlowInv, GoneSafe, DataAt, InPlace
<1> QED BY <1>4, <1>5, <1>6, <1>7, <1>8 DEF FlowInv

\* A Reader is opened at a start below which nothing is left to send.
LEMMA FlowOpen ==
  ASSUME Gens = {0}, TransInv, OrdInv, FlowInv, [Next]_vars,
         UNCHANGED <<mirror, srvHigh, down, up, batch, log, gone, received, told>>,
         NEW g, NEW q, rdr' = OpenReader(g, q), Through(log, q - 1, Sent),
         batch = << >>, st' \in {"replaying", "live"},
         st' = "replaying" => lastRep' = <<0, 0>>
  PROVE  FlowInv'
<1>t. Len(log) \in Nat /\ DataAt \subseteq 1..Len(log)
  BY FlowTypes DEF DataAt
<1>1. rdr'.start = q /\ rdr'.pos = 0 /\ rdr'.missing = gone
  BY DEF OpenReader
<1>v. Safe' = Safe /\ Sent' = Sent
  BY DEF Safe, Accounted, Markers, DataAt, Sent
<1>2. AcksThrough'
  BY AcksQuiet
<1>3. FramesThrough(log', up', Safe')
  BY FramesQuiet
<1>4. BatchThrough(log', batch', Sent')
  BY DEF BatchThrough
<1>5. ReplayThrough'
  <2>1. Through(log, 0, Sent \cup DataIn(batch))
    BY NothingBelowZero
  <2> QED BY <1>v, <2>1 DEF ReplayThrough
<1>6. StartThrough'
  BY <1>1, <1>v DEF StartThrough
<1>7. PosThrough'
  <2>1. \A i \in DataAt' : ~(i <= rdr'.pos)
    BY <1>t, <1>1 DEF DataAt
  <2>2. rdr'.pos <= Len(log')
    BY <1>t, <1>1
  <2> QED BY <2>1, <2>2 DEF PosThrough
<1>8. GoneSafe'
  BY <1>1, <1>v DEF FlowInv, GoneSafe, DataAt, InPlace
<1> QED BY <1>2, <1>3, <1>4, <1>5, <1>6, <1>7, <1>8 DEF FlowInv

LEMMA FlowStage ==
  ASSUME Gens = {0}, TransInv, OrdInv, FlowInv, [Next]_vars, OpenStage \/ EnterLive
  PROVE  FlowInv'
<1>1. /\ UNCHANGED <<mirror, srvHigh, down, up, batch, log, gone, received, told>>
      /\ st \in {"opening", "entering"}
  BY DEF OpenStage, EnterLive, walVars, ackVars, serverVars
<1>2. batch = << >>
  BY <1>1 DEF TransInv, Handoffs
<1>s. Safe \subseteq Sent
  BY DEF Sent
<1>3. CASE OpenStage
  <2>1. /\ st = "opening" /\ rdr' = OpenReader(Head(plan).gen, Head(plan).start)
        /\ st' = "replaying" /\ lastRep' = <<0, 0>>
    BY <1>3 DEF OpenStage
  <2>2. Head(plan) = plan[1]
    <3> DEFINE Stages == [gen : Gens, start : Nat]
    <3>1. plan \in Seq(Stages) /\ plan # << >>
      BY <2>1 DEF TransInv, RestTypes, ReplayTypes, Handoffs
    <3> HIDE DEF Stages
    <3> QED BY <3>1
  <2>3. Through(log, plan[1].start - 1, Sent)
    BY <1>s, <2>1, Wider DEF FlowInv, StartThrough
  <2> QED BY <1>1, <1>2, <2>1, <2>2, <2>3, FlowOpen
<1>4. CASE EnterLive
  <2>1. /\ st = "entering" /\ rdr' = OpenReader(HighGeneration, LiveStart) /\ st' = "live"
    BY <1>4 DEF EnterLive
  <2>2. LiveStart - 1 = lastRep[2] \/ LiveStart - 1 = cursor[2]
    <3>1. lastRep \in Tuples /\ cursor \in Tuples
      BY DEF TransInv, RestTypes, ReplayTypes, AckInv, AckCore, AckTypes
    <3>2. lastRep[2] \in Nat /\ cursor[2] \in Nat
      BY <3>1, TupleType
    <3> QED BY <3>2 DEF LiveStart
  <2>3. Through(log, lastRep[2], Sent)
    <3>1. Through(log, lastRep[2], Sent \cup DataIn(batch))
      BY <2>1 DEF FlowInv, ReplayThrough
    <3>2. DataIn(batch) = {}
      BY <1>2 DEF DataIn
    <3>3. Sent \cup DataIn(batch) = Sent
      BY <3>2
    <3> QED BY <3>1, <3>3
  <2>4. Through(log, cursor[2], Sent)
    BY <1>s, CursorThrough, Wider
  <2>5. Through(log, LiveStart - 1, Sent)
    BY <2>2, <2>3, <2>4
  <2> QED BY <1>1, <1>2, <2>1, <2>5, FlowOpen
<1> QED BY <1>3, <1>4

\* In one generation a replay has one stage.
LEMMA LastStage ==
  ASSUME Gens = {0}, TransInv, OrdInv, st = "replaying"
  PROVE  plan = << >>
<1> DEFINE Stages == [gen : Gens, start : Nat]
<1>1. plan \in Seq(Stages) /\ rdr.gen = 0
  BY DEF TransInv, RestTypes, ReplayTypes, ReaderType
<1>2. \A x \in Stages : x.gen = 0
  OBVIOUS
<1> HIDE DEF Stages
<1>3. \A n \in DOMAIN plan : plan[n].gen = 0
  BY <1>1, <1>2
<1>4. \A n \in DOMAIN plan : rdr.gen < plan[n].gen
  BY DEF OrdInv, Staged
<1>5. \A n \in 1..Len(plan) : FALSE
  BY <1>1, <1>3, <1>4
<1> QED BY <1>1, <1>5

\* A record is read into the batch b, or the batch is flushed as it is, and
\* part of b goes out.
LEMMA FlowSender ==
  ASSUME Gens = {0}, TransInv, OrdInv, FlowInv, [Next]_vars, Reading,
         UNCHANGED <<mirror, srvHigh, down, log, gone, received, told>>,
         NEW b \in Seq(Records), BatchThrough(log, b, Sent), DataIn(batch) \subseteq DataIn(b),
         NEW out, NEW stay, up' = up \o Encode(out), batch' = stay,
         \/ out = << >> /\ stay = b
         \/ out = b /\ stay = << >>
         \/ out = batch /\ \E r \in Records : stay = <<r>> /\ b = Append(batch, r),
         NEW n \in Nat, rdr' = [rdr EXCEPT !.pos = n], n <= Len(log),
         \A i \in DataAt : InPlace(i) /\ i <= n /\ 0 < log[i].from => Tuple(log[i]) \in Sent \cup DataIn(b),
         st' # "opening",
         st' \in {"replaying", "entering"} => Through(log, lastRep'[2], Sent \cup DataIn(b))
  PROVE  FlowInv'
<1>r. rdr'.start = rdr.start /\ rdr'.pos = n /\ rdr'.missing = rdr.missing
  BY FlowTypes DEF ReaderType
<1>1. /\ FramesThrough(log', up', Safe') /\ BatchThrough(log', batch', Sent')
      /\ Safe' = Safe /\ Sent \subseteq Sent'
      /\ Sent \cup DataIn(b) \subseteq Sent' \cup DataIn(batch')
  BY FlowSend
<1>2. AcksThrough'
  BY AcksQuiet
<1>3. ReplayThrough'
  <2> SUFFICES ASSUME st' \in {"replaying", "entering"}
               PROVE  Through(log', lastRep'[2], Sent' \cup DataIn(batch'))
    BY DEF ReplayThrough
  <2>1. Through(log, lastRep'[2], Sent \cup DataIn(b))
    OBVIOUS
  <2>2. Through(log, lastRep'[2], Sent' \cup DataIn(batch'))
    BY <1>1, <2>1, Wider
  <2> QED BY <2>2
<1>4. StartThrough'
  <2>1. Through(log, rdr.start - 1, Sent)
    BY DEF FlowInv, StartThrough
  <2>2. Through(log, rdr.start - 1, Sent')
    BY <1>1, <2>1, Wider
  <2> QED BY <1>r, <2>2 DEF StartThrough
<1>5. PosThrough'
  <2>1. DataAt' = DataAt /\ \A i : InPlace(i)' <=> InPlace(i)
    BY DEF DataAt, InPlace
  <2> QED BY <1>1, <1>r, <2>1 DEF PosThrough
<1>6. GoneSafe'
  <2>1. \A i \in gone' \cap DataAt' : InPlace(i)' /\ 0 < log'[i].from => Tuple(log'[i]) \in Safe'
    BY <1>1 DEF FlowInv, GoneSafe, DataAt, InPlace
  <2> QED BY <1>r, <2>1 DEF FlowInv, GoneSafe
<1> QED BY <1>1, <1>2, <1>3, <1>4, <1>5, <1>6 DEF FlowInv

LEMMA FlowRead ==
  ASSUME Gens = {0}, TransInv, OrdInv, FlowInv, [Next]_vars, Reading, ~CaughtUp,
         UNCHANGED <<mirror, srvHigh, down, log, gone, received, told>>,
         NEW out, NEW stay, up' = up \o Encode(out), batch' = stay,
         \/ out = << >> /\ stay = Append(batch, log[NextPos])
         \/ out = batch /\ stay = <<log[NextPos]>>
         \/ out = Append(batch, log[NextPos]) /\ stay = << >>,
         rdr' = [rdr EXCEPT !.pos = NextPos], st' # "opening",
         st' \in {"replaying", "entering"} =>
            /\ st = "replaying"
            /\ lastRep' = IF IsData(log[NextPos]) THEN Tuple(log[NextPos]) ELSE lastRep
  PROVE  FlowInv'
<1> DEFINE r == log[NextPos]
           b == Append(batch, r)
<1>t. log \in Seq(Records) /\ Len(log) \in Nat /\ batch \in Seq(Records)
  BY FlowTypes
<1>p. NextPos \in Nat /\ NextPos <= Len(log) /\ r \in Records
  BY <1>t, ReadNext
<1>1. /\ IsData(r) => r.to = r.from
      /\ \A i \in DataAt : InPlace(i) /\ i <= NextPos /\ 0 < log[i].from
                              => Tuple(log[i]) \in Sent \cup DataIn(b)
      /\ Through(log, r.to, Sent \cup DataIn(b))
  BY ReadThrough
<1>c. \/ out = << >> /\ stay = b
      \/ out = b /\ stay = << >>
      \/ out = batch /\ \E x \in Records : stay = <<x>> /\ b = Append(batch, x)
  BY <1>p
<1>2. b \in Seq(Records) /\ DataIn(batch) \subseteq DataIn(b)
  <2>1. b \in Seq(Records)
    BY <1>t, <1>p
  <2>2. DataIn(b) = DataIn(batch) \cup (IF IsData(r) THEN {Tuple(r)} ELSE {})
    BY <1>t, <1>p, DataInAppend
  <2> HIDE DEF b, r
  <2> QED BY <2>1, <2>2
<1>3. BatchThrough(log, b, Sent)
  BY <1>1, <1>p, <1>t, BatchAppend DEF FlowInv
<1>4. ASSUME st' \in {"replaying", "entering"} PROVE Through(log, lastRep'[2], Sent \cup DataIn(b))
  <2>1. CASE IsData(r)
    <3>1. lastRep'[2] = r.to
      BY <1>1, <1>4, <2>1 DEF Tuple
    <3> QED BY <1>1, <3>1
  <2>2. CASE ~IsData(r)
    <3>1. Through(log, lastRep[2], Sent \cup DataIn(batch))
      BY <1>4 DEF FlowInv, ReplayThrough
    <3>2. lastRep' = lastRep
      BY <1>4, <2>2
    <3>3. Sent \cup DataIn(batch) \subseteq Sent \cup DataIn(b)
      BY <1>2
    <3>4. Through(log, lastRep[2], Sent \cup DataIn(b))
      BY <3>1, <3>3, Wider
    <3> QED BY <3>2, <3>4
  <2> QED BY <2>1, <2>2
<1> HIDE DEF b, r
<1> QED BY <1>1, <1>2, <1>3, <1>4, <1>c, <1>p, FlowSender

LEMMA FlowFlush ==
  ASSUME Gens = {0}, TransInv, OrdInv, FlowInv, [Next]_vars, Reading,
         UNCHANGED <<mirror, srvHigh, down, log, gone, received, told, rdr, lastRep>>,
         up' = up \o Encode(batch), batch' = << >>, st' # "opening",
         st' \in {"replaying", "entering"} => st = "replaying"
  PROVE  FlowInv'
<1>t. batch \in Seq(Records) /\ rdr \in ReaderType
  BY FlowTypes
<1>1. rdr.pos \in Nat /\ rdr' = [rdr EXCEPT !.pos = rdr.pos]
  BY <1>t DEF ReaderType
<1>2. rdr.pos <= Len(log)
      /\ \A i \in DataAt : InPlace(i) /\ i <= rdr.pos /\ 0 < log[i].from
                              => Tuple(log[i]) \in Sent \cup DataIn(batch)
  BY DEF FlowInv, PosThrough
<1>3. BatchThrough(log, batch, Sent)
  BY DEF FlowInv
<1>4. st' \in {"replaying", "entering"} => Through(log, lastRep'[2], Sent \cup DataIn(batch))
  BY DEF FlowInv, ReplayThrough
<1> QED BY <1>t, <1>1, <1>2, <1>3, <1>4, FlowSender

LEMMA FlowReplay ==
  ASSUME Gens = {0}, TransInv, OrdInv, FlowInv, [Next]_vars, ReplayRead \/ ReplaySend \/ ReplayDone
  PROVE  FlowInv'
<1>1. st = "replaying" /\ UNCHANGED <<mirror, srvHigh, down, log, gone, received, told>>
  BY DEF ReplayRead, ReplaySend, ReplayDone, walVars, ackVars, serverVars
<1>2. Reading
  BY <1>1 DEF Reading
<1>3. st' = st \/ StageDone
  BY DEF ReplayRead, ReplaySend, ReplayDone
<1>4. st' # "opening"
  BY <1>1, <1>3, LastStage DEF StageDone
<1>5. CASE ReplayRead
  <2>1. /\ ~CaughtUp /\ rdr' = [rdr EXCEPT !.pos = NextPos]
        /\ lastRep' = IF IsData(log[NextPos]) THEN Tuple(log[NextPos]) ELSE lastRep
        /\ \/ up' = up \o Encode(Append(batch, log[NextPos])) /\ batch' = << >>
           \/ batch' = Append(batch, log[NextPos]) /\ up' = up
    BY <1>5 DEF ReplayRead, Send
  <2>2. up = up \o Encode(<< >>)
    <3>1. up \in Seq(Frames)
      BY FlowTypes
    <3>2. up = up \o << >>
      BY <3>1
    <3> QED BY <3>2, EncodeNothing
  <2> DEFINE b == Append(batch, log[NextPos])
  <2>3. CASE up' = up \o Encode(b) /\ batch' = << >>
    BY <1>1, <1>2, <1>4, <2>1, <2>3, FlowRead
  <2>4. CASE batch' = b /\ up' = up
    <3>1. up' = up \o Encode(<< >>)
      BY <2>2, <2>4
    <3> QED BY <1>1, <1>2, <1>4, <2>1, <2>4, <3>1, FlowRead
  <2> QED BY <2>1, <2>3, <2>4
<1>6. CASE ReplaySend \/ ReplayDone
  <2>1. UNCHANGED <<rdr, lastRep>> /\ up' = up \o Encode(batch) /\ batch' = << >>
    BY <1>6 DEF ReplaySend, ReplayDone, Send, replayVars
  <2> QED BY <1>1, <1>2, <1>4, <2>1, FlowFlush
<1> QED BY <1>5, <1>6

LEMMA FlowLive ==
  ASSUME Gens = {0}, TransInv, OrdInv, FlowInv, [Next]_vars, LiveDrain \/ LiveTick \/ ShutdownDrain
  PROVE  FlowInv'
<1>1. /\ UNCHANGED <<mirror, srvHigh, down, log, gone, received, told, lastRep, st>>
      /\ st \in {"live", "draining"}
  BY DEF LiveDrain, LiveTick, ShutdownDrain, Selecting, walVars, ackVars, serverVars, replayVars
<1>2. Reading
  BY <1>1 DEF Reading
<1>3. CASE LiveDrain \/ ShutdownDrain
  <2> DEFINE r == log[NextPos]
  <2>1. ~CaughtUp /\ rdr' = [rdr EXCEPT !.pos = NextPos]
    BY <1>3 DEF LiveDrain, ShutdownDrain
  <2>2. PICK full : batch' = Add(r, full).stay /\ Send(Add(r, full).out)
    BY <1>3 DEF LiveDrain, ShutdownDrain
  <2>3. \/ Add(r, full).out = << >> /\ Add(r, full).stay = Append(batch, r)
        \/ Add(r, full).out = batch /\ Add(r, full).stay = <<r>>
        \/ Add(r, full).out = Append(batch, r) /\ Add(r, full).stay = << >>
    BY AddCases
  <2>4. up' = up \o Encode(Add(r, full).out)
    BY <2>2 DEF Send
  <2> QED BY <1>1, <1>2, <2>1, <2>2, <2>3, <2>4, FlowRead
<1>4. CASE LiveTick
  <2>1. rdr' = rdr /\ up' = up \o Encode(batch) /\ batch' = << >>
    BY <1>4 DEF LiveTick, Send
  <2> QED BY <1>1, <1>2, <2>1, FlowFlush
<1> QED BY <1>3, <1>4

LEMMA FlowStep ==
  ASSUME Gens = {0}, ServerClaims = {}
  PROVE  TransInv /\ OrdInv /\ FlowInv /\ [Next]_vars => FlowInv'
<1> SUFFICES ASSUME TransInv, OrdInv, FlowInv, [Next]_vars PROVE FlowInv'
  OBVIOUS
<1>1. CASE Writer
  BY <1>1, FlowWriter DEF Writer
<1>2. CASE Reclaim
  BY <1>2, FlowReclaim
<1>3. CASE Connect \/ Disconnect \/ Stop \/ Restart \/ ShutdownFlush
  BY <1>3, FlowConnection
<1>4. CASE PlanReplay \/ OpenStage \/ EnterLive
  BY <1>4, FlowPlan, FlowStage
<1>5. CASE ReplayRead \/ ReplaySend \/ ReplayDone \/ LiveDrain \/ LiveTick \/ ShutdownDrain
  BY <1>5, FlowReplay, FlowLive
<1>6. CASE ReplayRecv \/ LiveRecv
  BY <1>6, FlowRecv
<1>7. CASE LiveDrained \/ LiveNotify \/ StopLive \/ Rejected \/ ServerHeartbeat \/ UNCHANGED vars
  BY <1>7, FlowIdle
<1>8. CASE ServerTake
  BY <1>8, FlowTake
<1> QED BY <1>1, <1>2, <1>3, <1>4, <1>5, <1>6, <1>7, <1>8 DEF Next, Client

LEMMA FlowInit == Init => FlowInv
<1> SUFFICES ASSUME Init PROVE FlowInv
  OBVIOUS
<1>1. /\ log = << >> /\ gone = {} /\ mirror = NoAck /\ srvHigh = NoAck /\ down = << >>
      /\ up = << >> /\ batch = << >> /\ st = "connecting"
  BY DEF Init
<1>2. AcksThrough
  BY <1>1 DEF AcksThrough, Through, NoAck
<1> QED BY <1>1, <1>2 DEF FlowInv, FramesThrough, BatchThrough, ReplayThrough, StartThrough,
           PosThrough, GoneSafe, Reading

LEMMA FlowInvariance ==
  ASSUME Gens = {0}, ServerClaims = {}
  PROVE  Spec => []FlowInv
<1>1. TransInv /\ OrdInv /\ FlowInv /\ [Next]_vars => FlowInv'
  BY FlowStep
<1> QED BY <1>1, FlowInit, TransInvariance, OrdInvariance, PTL DEF Spec

\* The client skips no record that was written in its place: with one generation,
\* and a server that acks what it received, such a record with a sequence other
\* than 0 that reclamation may remove has reached the server or has a loss
\* marker, whatever other writers overtake one another, through every disconnect,
\* restart, removal of files under the Reader and failure of MarkAcked, for every
\* size of batch and window.
THEOREM AckedIsDelivered ==
  ASSUME Gens = {0}, ServerClaims = {}
  PROVE  Spec => []AckedDelivered
<1>1. ASSUME TransInv, OrdInv, FlowInv PROVE AckedDelivered
  <2> SUFFICES ASSUME NEW i \in DataAt, log[i].from # 0, InPlace(i), TupleLeq(Tuple(log[i]), mirror)
               PROVE  Accounted(Tuple(log[i]))
    BY DEF AckedDelivered
  <2>1. i \in 1..Len(log) /\ IsData(log[i]) /\ log[i] \in Records
    BY <1>1, FlowTypes DEF DataAt
  <2>2. log[i].gen = 0 /\ log[i].from \in Nat
    BY <2>1, TransportConstants DEF Records, Seqs
  <2>3. mirror \in AckTuples
    BY <1>1, FlowTypes
  <2>4. mirror = NoAck \/ (mirror[1] = 0 /\ mirror[2] \in Nat)
    BY <2>3, TupleType DEF AckTuples
  <2>5. log[i].from <= mirror[2]
    BY <2>2, <2>4 DEF TupleLeq, TupleLess, Tuple, NoAck
  <2>6. 0 < log[i].from
    BY <2>2
  <2>p. Spot(log, i)
    BY SpotIs
  <2>7. Tuple(log[i]) \in Safe
    BY <1>1, <2>1, <2>5, <2>6, <2>p DEF FlowInv, AcksThrough, Through
  <2> QED BY <2>7 DEF Safe
<1>2. TransInv /\ OrdInv /\ FlowInv => AckedDelivered
  BY <1>1
<1>3. Spec => []FlowInv
  BY FlowInvariance
<1> QED BY <1>2, <1>3, TransInvariance, OrdInvariance, PTL
=============================================================================
