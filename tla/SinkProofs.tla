----------------------------- MODULE SinkProofs -----------------------------
(***************************************************************************)
(* Theorems about Sink, for every number of writers, generations, events   *)
(* and faults.                                                             *)
(***************************************************************************)
EXTENDS Sink, BaseProofs, SequenceTheorems

PCs        == {"idle", "fanout", "append", "commit"}
Hashes     == Events \cup {0}
WriterType == [pc : PCs, ev : Hashes, gen : Gens, seq : Nat, prev : Hashes, link : Seq(Events)]
RecordType == [ev : Events, gen : Gens, seq : Nat, prev : Hashes]
ChainType  == [gen : Gens, prev : Seq(Events), fatal : BOOLEAN]
AnchorType == [gen : Gens, hash : Hashes]

-----------------------------------------------------------------------------
(* The parts of the inductive invariant.                                   *)

\* appendMu has one holder, and none once the Store is fatal or drained; Close
\* reaches wal.Close only after Run.
Locking ==
    /\ \A v, w \in Holding : v = w
    /\ fatal => Holding = {}
    /\ drained => closer \notin {"open", "draining"} /\ Holding = {}
    /\ closer = "walclose" => run = "exited"
    /\ ~walOpen => run = "exited" /\ drained

\* What this process did not find is still missing.
Kept == lost \subseteq gone /\ gone \subseteq 1..Len(wal)

\* The records the chains stand for: all but the one a writer has appended and
\* not yet committed.
Settled == IF \E w \in Writers : writer[w].pc = "commit" THEN Len(wal) - 1 ELSE Len(wal)

\* Own and EventsAt, of any log s up to position n.
OwnUpTo(s, n, b, g) == {i \in 1..n : i \notin b /\ s[i].gen = g}
Listed(s, P)        == [n \in 1..Cardinality(P) |-> s[Nth(P, n)].ev]

Pending ==
    /\ fatal <=> chain.fatal
    /\ \A w \in Writers :
          writer[w].pc = "commit" =>
              wal # << >> /\ wal[Len(wal)] = RecordOf(w) /\ Len(wal) \notin lost
    /\ \A w \in Holding :
          writer[w].link = IF writer[w].gen = chain.gen THEN chain.prev ELSE << >>

\* The HMAC chain stands for the settled records, and is at their generation.
Follows ==
    ~fatal => /\ chain.prev = Listed(wal, OwnUpTo(wal, Settled, lost, chain.gen))
              /\ \A i \in 1..Settled : i \notin lost => wal[i].gen <= chain.gen

\* No fan-out, no record and no chain is ahead of the allocator.
Current ==
    /\ \A w \in Writers : writer[w].pc # "idle" => writer[w].gen = alloc[1]
    /\ \A i \in DOMAIN wal : wal[i].gen <= alloc[1]
    /\ chain.gen <= alloc[1]

Monotone == \A i, j \in DOMAIN wal : i <= j => wal[i].gen <= wal[j].gen

\* The wire anchor is the last settled record, unless the process did not find
\* that on disk.
Anchored ==
    /\ ~fatal /\ Settled + 1 \notin cuts =>
                 IF Settled = 0 THEN anchor.hash = 0
                 ELSE anchor.gen = wal[Settled].gen /\ anchor.hash = wal[Settled].ev
    /\ \A w \in Holding :
          writer[w].prev = IF writer[w].gen = anchor.gen THEN anchor.hash ELSE 0

WriterTypes == /\ alloc \in Gens \X (Nat \cup {-1})
               /\ writer \in [Writers -> WriterType]
               /\ \A w \in Writers : writer[w].pc # "idle" => writer[w].ev \in Events
ChainTypes  == chain \in ChainType /\ anchor \in AnchorType
WalTypes    == wal \in Seq(RecordType) /\ Kept /\ cuts \subseteq Nat
FlagTypes   == /\ fatal \in BOOLEAN /\ broken \in BOOLEAN /\ bare \in BOOLEAN
               /\ walOpen \in BOOLEAN /\ drained \in BOOLEAN
CloseTypes  == /\ closer \in {"open", "draining", "stopping", "grace", "walclose", "closed"}
               /\ run \in {"running", "exited"}
BoundTypes  == events \in 0..MaxEvents /\ faults \in 0..MaxFaults

SinkTypes == WriterTypes /\ ChainTypes /\ WalTypes /\ FlagTypes /\ CloseTypes /\ BoundTypes

-----------------------------------------------------------------------------
(* What the steps of a writer do to it.                                    *)

LEMMA OutsideType == Outside \in WriterType /\ Outside.pc = "idle"
BY SinkConstants DEF Outside, WriterType, PCs, Hashes

LEMMA LeaveFacts ==
  ASSUME WriterTypes, NEW w \in Writers, Leave(w)
  PROVE  /\ writer' \in [Writers -> WriterType]
         /\ writer'[w] = Outside
         /\ \A v \in Writers : v # w => writer'[v] = writer[v]
BY OutsideType DEF WriterTypes, Leave

LEMMA StampFacts ==
  ASSUME WriterTypes, BoundTypes, NEW w \in Writers, Stamp(w)
  PROVE  /\ alloc' \in Gens \X (Nat \cup {-1}) /\ alloc'[1] = alloc[1]
         /\ events' \in Events
         /\ writer' \in [Writers -> WriterType]
         /\ writer[w].pc = "idle" /\ writer'[w].pc = "fanout"
         /\ writer'[w].ev = events' /\ writer'[w].gen = alloc[1]
         /\ \A v \in Writers : v # w => writer'[v] = writer[v]
<1>1. alloc = <<alloc[1], alloc[2]>> /\ alloc[1] \in Gens /\ alloc[2] + 1 \in Nat
  BY DEF WriterTypes
<1>2. events' \in 1..MaxEvents
  BY SinkConstants DEF Stamp, BoundTypes
<1> DEFINE r == [Outside EXCEPT !.pc = "fanout", !.ev = events', !.gen = alloc[1],
                                !.seq = alloc[2] + 1]
<1>3. writer' = [writer EXCEPT ![w] = r]
  BY Zenon DEF Stamp
<1>4. r \in WriterType /\ r.pc = "fanout" /\ r.ev = events' /\ r.gen = alloc[1]
  BY <1>1, <1>2, OutsideType DEF WriterType, PCs, Hashes, Events
<1>5. /\ writer' \in [Writers -> WriterType] /\ writer'[w] = r
      /\ \A v \in Writers : v # w => writer'[v] = writer[v]
  <2> HIDE DEF r
  <2> QED BY <1>3, <1>4 DEF WriterTypes
<1>6. alloc' \in Gens \X (Nat \cup {-1}) /\ alloc'[1] = alloc[1]
  BY <1>1 DEF Stamp
<1> QED BY <1>2, <1>4, <1>5, <1>6 DEF Stamp, Events

LEMMA ComputeFacts ==
  ASSUME WriterTypes, ChainTypes, NEW w \in Writers, Compute(w)
  PROVE  /\ writer' \in [Writers -> WriterType]
         /\ writer[w].pc = "fanout" /\ writer'[w].pc = "append"
         /\ writer'[w].ev = writer[w].ev /\ writer'[w].gen = writer[w].gen
         /\ writer'[w].seq = writer[w].seq
         /\ writer'[w].prev = IF writer[w].gen = anchor.gen THEN anchor.hash ELSE 0
         /\ writer'[w].link = IF writer[w].gen = chain.gen THEN chain.prev ELSE << >>
         /\ \A v \in Writers : v # w => writer'[v] = writer[v]
<1> DEFINE x == writer[w]
           p == IF x.gen = anchor.gen THEN anchor.hash ELSE 0
           l == IF x.gen = chain.gen THEN chain.prev ELSE << >>
           r == [[[x EXCEPT !.pc = "append"] EXCEPT !.prev = p] EXCEPT !.link = l]
<1>1. x \in WriterType /\ x.pc = "fanout"
  BY DEF WriterTypes, Compute, Entering
<1>2. p \in Hashes /\ l \in Seq(Events)
  BY DEF ChainTypes, ChainType, AnchorType, Hashes
<1>3. writer' = [writer EXCEPT ![w].pc = "append", ![w].prev = p, ![w].link = l]
  BY DEF Compute
<1> HIDE DEF p, l
<1>4. writer' = [writer EXCEPT ![w] = r]
  BY <1>3 DEF WriterTypes
<1>5. /\ r \in WriterType /\ r.pc = "append" /\ r.ev = x.ev /\ r.gen = x.gen /\ r.seq = x.seq
      /\ r.prev = p /\ r.link = l
  BY <1>1, <1>2 DEF WriterType, PCs
<1>6. /\ writer' \in [Writers -> WriterType] /\ writer'[w] = r
      /\ \A v \in Writers : v # w => writer'[v] = writer[v]
  <2> HIDE DEF r
  <2> QED BY <1>4, <1>5 DEF WriterTypes
<1> QED BY <1>1, <1>5, <1>6 DEF p, l

LEMMA GotoFacts ==
  ASSUME WriterTypes, NEW w \in Writers, Goto(w, "commit")
  PROVE  /\ writer' \in [Writers -> WriterType]
         /\ writer'[w].pc = "commit" /\ writer'[w].ev = writer[w].ev
         /\ writer'[w].gen = writer[w].gen /\ writer'[w].seq = writer[w].seq
         /\ writer'[w].prev = writer[w].prev /\ writer'[w].link = writer[w].link
         /\ \A v \in Writers : v # w => writer'[v] = writer[v]
<1> DEFINE x == writer[w]
           r == [x EXCEPT !.pc = "commit"]
<1>1. x \in WriterType
  BY DEF WriterTypes
<1>2. writer' = [writer EXCEPT ![w] = r]
  BY DEF Goto
<1>3. /\ r \in WriterType /\ r.pc = "commit" /\ r.ev = x.ev /\ r.gen = x.gen /\ r.seq = x.seq
      /\ r.prev = x.prev /\ r.link = x.link
  BY <1>1 DEF WriterType, PCs
<1>4. /\ writer' \in [Writers -> WriterType] /\ writer'[w] = r
      /\ \A v \in Writers : v # w => writer'[v] = writer[v]
  <2> HIDE DEF r, x
  <2> QED BY <1>2, <1>3 DEF WriterTypes
<1> QED BY <1>3, <1>4

LEMMA RecordOfType ==
  ASSUME WriterTypes, NEW w \in Writers, writer[w].pc # "idle"
  PROVE  RecordOf(w) \in RecordType
BY DEF WriterTypes, WriterType, RecordOf, RecordType

-----------------------------------------------------------------------------
(* Positions and events.                                                   *)

LEMMA OwnType ==
  ASSUME wal \in Seq(RecordType)
  PROVE  \A b, g : /\ Own(b, g) = OwnUpTo(wal, Len(wal), b, g)
                   /\ EventsAt(Own(b, g)) = Listed(wal, OwnUpTo(wal, Len(wal), b, g))
<1>1. \A b, g : Own(b, g) = OwnUpTo(wal, Len(wal), b, g)
  BY DEF OwnUpTo, Own
<1>2. \A P : EventsAt(P) = Listed(wal, P)
  BY Zenon DEF EventsAt, Listed
<1> QED BY <1>1, <1>2

LEMMA EventsType ==
  ASSUME NEW s \in Seq(RecordType), NEW P \in SUBSET (0..Len(s)), P \subseteq 1..Len(s)
  PROVE  /\ Listed(s, P) \in Seq(Events)
         /\ Len(Listed(s, P)) = Cardinality(P) /\ Cardinality(P) \in Nat
<1>0. Len(s) \in Nat
  OBVIOUS
<1>1. Cardinality(P) \in Nat /\ \A n \in 1..Cardinality(P) : Nth(P, n) \in P
  BY <1>0, NthElement
<1>2. \A i \in P : s[i].ev \in Events
  <2> TAKE i \in P
  <2>1. s[i] \in RecordType
    OBVIOUS
  <2> QED BY <2>1 DEF RecordType
<1>3. \A n \in 1..Cardinality(P) : s[Nth(P, n)].ev \in Events
  BY <1>1, <1>2
<1> QED BY <1>1, <1>3 DEF Listed

LEMMA EventsNone == \A s : Listed(s, {}) = << >>
<1>1. Cardinality({}) = 0
  BY FS_EmptySet
<1> QED BY <1>1 DEF Listed

\* A record past all others adds its event at the end.
LEMMA EventsMore ==
  ASSUME NEW s \in Seq(RecordType), NEW P \in SUBSET (0..Len(s)), P \subseteq 1..Len(s),
         NEW k \in 1..Len(s), \A i \in P : i < k
  PROVE  Listed(s, P \cup {k}) = Append(Listed(s, P), s[k].ev)
<1> DEFINE c == Cardinality(P)
           e == Listed(s, P)
           f == Listed(s, P \cup {k})
<1>1. c \in Nat /\ e \in Seq(Events) /\ Len(e) = c
  BY EventsType
<1>2. /\ Cardinality(P \cup {k}) = c + 1
      /\ \A n \in 1..c : Nth(P \cup {k}, n) = Nth(P, n)
      /\ Nth(P \cup {k}, c + 1) = k
  <2>1. Len(s) \in Nat /\ k \in Nat
    OBVIOUS
  <2> QED BY <2>1, NthAdd
<1>3. f = [n \in 1..(c + 1) |-> s[Nth(P \cup {k}, n)].ev]
  BY <1>2 DEF Listed
<1>a. e = [n \in 1..c |-> s[Nth(P, n)].ev]
  BY DEF Listed
<1> HIDE DEF c, e, f
<1>4. \A n \in 1..c : f[n] = e[n]
  <2> TAKE n \in 1..c
  <2>1. n \in 1..(c + 1)
    BY <1>1
  <2>2. f[n] = s[Nth(P \cup {k}, n)].ev
    BY <1>3, <2>1
  <2>3. e[n] = s[Nth(P, n)].ev
    BY <1>a
  <2>4. Nth(P \cup {k}, n) = Nth(P, n)
    BY <1>2
  <2> QED BY <2>2, <2>3, <2>4
<1>5. f[c + 1] = s[k].ev
  <2>1. c + 1 \in 1..(c + 1)
    BY <1>1
  <2> QED BY <1>2, <1>3, <2>1
<1>6. f \in Seq(Events) /\ Len(f) = c + 1
  <2>1. P \cup {k} \in SUBSET (0..Len(s)) /\ P \cup {k} \subseteq 1..Len(s)
    OBVIOUS
  <2> QED BY <1>2, <2>1, EventsType DEF f
<1>7. s[k].ev \in Events
  <2>1. s[k] \in RecordType
    OBVIOUS
  <2> QED BY <2>1 DEF RecordType
<1>8. f = Append(e, s[k].ev)
  BY <1>1, <1>4, <1>5, <1>6, <1>7, SeqEqual, AppendProperties
<1> QED BY <1>8 DEF e, f

\* The last event is that of the last record.
LEMMA EventsLast ==
  ASSUME NEW s \in Seq(RecordType), NEW P \in SUBSET (0..Len(s)), P \subseteq 1..Len(s), P # {}
  PROVE  Listed(s, P) # << >> /\ Last(Listed(s, P)) = s[Max(P)].ev
<1>1. Cardinality(P) \in Nat \ {0} /\ Nth(P, Cardinality(P)) = Max(P)
  <2>1. Len(s) \in Nat
    OBVIOUS
  <2> QED BY <2>1, NthLast
<1>2. Listed(s, P) \in Seq(Events) /\ Len(Listed(s, P)) = Cardinality(P)
  BY EventsType
<1>3. Listed(s, P)[Cardinality(P)] = s[Max(P)].ev
  BY <1>1 DEF Listed
<1> QED BY <1>1, <1>2, <1>3 DEF Last

\* What a log lists up to n depends on its first n records only.
LEMMA ListedPrefix ==
  ASSUME NEW s \in Seq(RecordType), NEW t \in Seq(RecordType), NEW n \in Nat,
         n <= Len(s), n <= Len(t), \A i \in 1..n : s[i] = t[i], NEW b, NEW g
  PROVE  Listed(s, OwnUpTo(s, n, b, g)) = Listed(t, OwnUpTo(t, n, b, g))
<1> DEFINE P == OwnUpTo(s, n, b, g)
<1>1. OwnUpTo(t, n, b, g) = P
  BY DEF OwnUpTo
<1>2. P \in SUBSET (0..n) /\ P \subseteq 1..n
  BY DEF OwnUpTo
<1> HIDE DEF P
<1>3. \A k \in 1..Cardinality(P) : Nth(P, k) \in P
  BY <1>2, NthElement
<1>4. \A k \in 1..Cardinality(P) : s[Nth(P, k)].ev = t[Nth(P, k)].ev
  BY <1>2, <1>3
<1>5. Listed(s, P) = Listed(t, P)
  BY <1>4 DEF Listed
<1> QED BY <1>1, <1>5 DEF P

\* One more record: its event is added if it is of the generation.
LEMMA ListedNext ==
  ASSUME NEW s \in Seq(RecordType), NEW n \in Nat, n < Len(s), NEW b, n + 1 \notin b,
         NEW g, s[n + 1].gen = g
  PROVE  Listed(s, OwnUpTo(s, n + 1, b, g)) = Append(Listed(s, OwnUpTo(s, n, b, g)), s[n + 1].ev)
<1> DEFINE P == OwnUpTo(s, n, b, g)
<1>1. OwnUpTo(s, n + 1, b, g) = P \cup {n + 1}
  BY DEF OwnUpTo
<1>2. P \in SUBSET (0..Len(s)) /\ P \subseteq 1..Len(s) /\ n + 1 \in 1..Len(s)
      /\ \A i \in P : i < n + 1
  BY DEF OwnUpTo
<1> HIDE DEF P
<1>3. Listed(s, P \cup {n + 1}) = Append(Listed(s, P), s[n + 1].ev)
  BY <1>2, EventsMore
<1> QED BY <1>1, <1>3 DEF P

LEMMA GensBounded ==
  ASSUME wal \in Seq(RecordType)
  PROVE  \E m \in Nat : \A i \in 1..Len(wal) : wal[i].gen \in 0..m
<1> DEFINE L == Len(wal)
           Bounded(n) == \E m \in Nat : \A i \in 1..n : wal[i].gen \in 0..m
           Bad == {n \in Nat : n <= L /\ ~Bounded(n)}
<1>1. \A i \in 1..L : wal[i].gen \in Nat
  <2> TAKE i \in 1..L
  <2>1. wal[i] \in RecordType
    OBVIOUS
  <2> QED BY <2>1, SinkConstants DEF RecordType
<1>2. L \in Nat
  OBVIOUS
<1> HIDE DEF L
<1>3. Bounded(0)
  <2>1. \A i \in 1..0 : wal[i].gen \in 0..0
    OBVIOUS
  <2> QED BY <2>1
<1>4. ASSUME NEW n \in 1..L, Bounded(n - 1) PROVE Bounded(n)
  <2>1. PICK m \in Nat : \A i \in 1..(n - 1) : wal[i].gen \in 0..m
    BY <1>4
  <2>2. wal[n].gen \in Nat
    BY <1>1
  <2> DEFINE k == IF wal[n].gen > m THEN wal[n].gen ELSE m
  <2>3. k \in Nat /\ wal[n].gen <= k /\ m <= k
    BY <2>2
  <2> HIDE DEF k
  <2>4. ASSUME NEW i \in 1..n PROVE wal[i].gen \in 0..k
    <3>1. CASE i = n
      BY <2>2, <2>3, <3>1
    <3>2. CASE i # n
      <4>1. i \in 1..(n - 1)
        BY <1>2, <3>2
      <4>2. wal[i].gen \in 0..m
        BY <2>1, <4>1
      <4> QED BY <2>3, <4>2
    <3> QED BY <3>1, <3>2
  <2> QED BY <2>3, <2>4
<1> HIDE DEF Bounded
<1>5. Bad = {}
  <2> SUFFICES ASSUME Bad # {} PROVE FALSE
    OBVIOUS
  <2>1. PICK n \in Bad : \A y \in Bad : n <= y
    BY NatMin
  <2>2. n \in Nat /\ n <= L /\ ~Bounded(n)
    BY <2>1
  <2>3. n # 0
    BY <2>2, <1>3
  <2>4. n \in 1..L /\ n - 1 \in Nat /\ n - 1 <= L
    BY <2>2, <2>3, <1>2
  <2>5. n - 1 \notin Bad
    BY <2>1, <2>2
  <2>6. Bounded(n - 1)
    BY <2>4, <2>5
  <2> QED BY <2>2, <2>4, <2>6, <1>4
<1>6. Bounded(L)
  BY <1>2, <1>5
<1> QED BY <1>6 DEF Bounded, L

\* What restoreChainFromWAL finds: the highest generation on disk, and the
\* events of all its records there.
LEMMA RestoredFacts ==
  ASSUME WalTypes
  PROVE  /\ Restored.gen \in Gens /\ Restored.prev \in Seq(Events)
         /\ Restored.prev = EventsAt(Own(gone, Restored.gen))
         /\ \A i \in 1..Len(wal) : i \notin gone => wal[i].gen <= Restored.gen
         /\ Disk = {} => Restored.gen = 0 /\ Restored.prev = << >>
         /\ Disk # {} => \E j \in 1..Len(wal) : j \notin gone /\ wal[j].gen = Restored.gen
<1>1. wal \in Seq(RecordType) /\ Len(wal) \in Nat
  BY DEF WalTypes
<1>2. CASE Disk = {}
  <2>1. \A i \in 1..Len(wal) : i \in gone
    BY <1>1, <1>2 DEF Disk
  <2>2. Restored = [gen |-> 0, prev |-> << >>]
    BY <1>2 DEF Restored
  <2>3. Own(gone, 0) = {}
    BY <1>2 DEF Own, Disk
  <2>4. EventsAt(Own(gone, 0)) = << >>
    BY <2>3, EventsNone DEF EventsAt, Listed
  <2> QED BY <1>2, <2>1, <2>2, <2>4, SinkConstants
<1>3. CASE Disk # {}
  <2> DEFINE G == {wal[i].gen : i \in Disk}
  <2>1. Disk \subseteq 1..Len(wal) /\ \A i \in Disk : i \notin gone
    BY <1>1 DEF Disk
  <2>2. PICK m \in Nat : \A i \in 1..Len(wal) : wal[i].gen \in 0..m
    BY <1>1, GensBounded
  <2>3. G \in SUBSET (0..m) /\ G # {}
    BY <1>3, <2>1, <2>2
  <2>4. Max(G) \in G /\ \A y \in G : Max(G) >= y
    BY <2>3, MaxIsGreatest
  <2>5. PICK j \in Disk : Max(G) = wal[j].gen
    BY <2>4
  <2>6. wal[j] \in RecordType
    BY <1>1, <2>1, <2>5
  <2>7. Max(G) \in Gens
    BY <2>5, <2>6 DEF RecordType
  <2>8. \A i \in 1..Len(wal) : i \notin gone => wal[i].gen <= Max(G)
    <3> TAKE i \in 1..Len(wal)
    <3> HAVE i \notin gone
    <3>1. i \in Disk
      BY <1>1 DEF Disk
    <3>2. wal[i].gen \in G
      BY <3>1
    <3>3. wal[i].gen \in Int /\ Max(G) \in Int
      BY <2>2, <2>3, <2>4
    <3> HIDE DEF G
    <3> QED BY <2>4, <3>2, <3>3
  <2> HIDE DEF G
  <2>9. Restored.gen = Max(G) /\ Restored.prev = EventsAt(Own(gone, Max(G)))
    BY <1>3 DEF Restored, G
  <2>10. Own(gone, Max(G)) \in SUBSET (0..Len(wal)) /\ Own(gone, Max(G)) \subseteq 1..Len(wal)
    BY <1>1 DEF Own
  <2>11. EventsAt(Own(gone, Max(G))) \in Seq(Events)
    BY <1>1, <2>10, EventsType DEF EventsAt, Listed
  <2> QED BY <1>3, <2>1, <2>5, <2>7, <2>8, <2>9, <2>11
<1> QED BY <1>2, <1>3

-----------------------------------------------------------------------------
(* Types.                                                                  *)

LEMMA FaultType == Fault /\ faults \in 0..MaxFaults => faults' \in 0..MaxFaults
BY SinkConstants DEF Fault

LEMMA WalGrows ==
  ASSUME WalTypes, wal' \in Seq(RecordType), Len(wal) <= Len(wal'),
         UNCHANGED <<gone, lost, cuts>>
  PROVE  WalTypes'
BY DEF WalTypes, Kept

LEMMA TypeStep == SinkTypes /\ [Next]_vars => SinkTypes'
<1> SUFFICES ASSUME SinkTypes, [Next]_vars PROVE SinkTypes'
  OBVIOUS
<1>t. WriterTypes /\ ChainTypes /\ WalTypes /\ FlagTypes /\ CloseTypes /\ BoundTypes
  BY DEF SinkTypes
<1>a. UNCHANGED <<alloc, writer>> => WriterTypes'
  BY <1>t DEF WriterTypes
<1>b. UNCHANGED <<chain, anchor>> => ChainTypes'
  BY <1>t DEF ChainTypes
<1>c. UNCHANGED <<wal, gone, lost, cuts>> => WalTypes'
  BY <1>t DEF WalTypes, Kept
<1>d. UNCHANGED <<fatal, broken, bare, walOpen, drained>> => FlagTypes'
  BY <1>t DEF FlagTypes
<1>e. UNCHANGED <<closer, run>> => CloseTypes'
  BY <1>t DEF CloseTypes
<1>f. UNCHANGED bounds => BoundTypes'
  BY <1>t DEF bounds, BoundTypes
<1>l. \A w \in Writers : Leave(w) /\ alloc' = alloc => WriterTypes'
  <2> TAKE w \in Writers
  <2> HAVE Leave(w) /\ alloc' = alloc
  <2>1. /\ writer' \in [Writers -> WriterType] /\ writer'[w] = Outside
        /\ \A v \in Writers : v # w => writer'[v] = writer[v]
    BY <1>t, LeaveFacts
  <2> QED BY <2>1, <1>t, OutsideType DEF WriterTypes
<1>m. chain' = [chain EXCEPT !.fatal = TRUE] /\ anchor' = anchor => ChainTypes'
  BY <1>t DEF ChainTypes, ChainType
<1>0. CASE UNCHANGED vars
  BY <1>0, <1>a, <1>b, <1>c, <1>d, <1>e, <1>f
     DEF vars, chainVars, walVars, closeVars, opened, SinkTypes
<1>1. ASSUME NEW w \in Writers, Stamp(w) PROVE SinkTypes'
  <2>1. WriterTypes'
    BY <1>1, <1>t, StampFacts DEF WriterTypes
  <2>2. BoundTypes'
    <3>1. events' \in Events /\ faults' = faults
      BY <1>1, <1>t, StampFacts DEF Stamp
    <3> QED BY <3>1, <1>t DEF BoundTypes, Events
  <2> QED BY <1>1, <2>1, <2>2, <1>b, <1>c, <1>d, <1>e
          DEF Stamp, chainVars, walVars, closeVars, opened, SinkTypes
<1>2. ASSUME NEW w \in Writers, Refuse(w) \/ WalAppendClean(w) PROVE SinkTypes'
  BY <1>2, <1>l, <1>b, <1>c, <1>d, <1>e, <1>f
     DEF Refuse, WalAppendClean, chainVars, walVars, closeVars, opened, SinkTypes
<1>3. ASSUME NEW w \in Writers, Reject(w) PROVE SinkTypes'
  <2>1. WriterTypes' /\ WalTypes' /\ CloseTypes'
    BY <1>3, <1>l, <1>c, <1>e DEF Reject, walVars, closeVars, opened
  <2>2. ChainTypes'
    BY <1>3, <1>b, <1>m DEF Reject
  <2>3. FlagTypes'
    <3>1. (fatal' = fatal /\ broken' = broken) \/ (fatal' = TRUE /\ broken' = TRUE)
      BY <1>3, Zenon DEF Reject
    <3>2. UNCHANGED <<bare, walOpen, drained>>
      BY <1>3 DEF Reject, walVars, closeVars, opened
    <3> QED BY <3>1, <3>2, <1>t, Zenon DEF FlagTypes
  <2>4. BoundTypes'
    <3>1. events' = events /\ faults' \in 0..MaxFaults
      BY <1>3, <1>t, FaultType DEF Reject, BoundTypes
    <3> QED BY <3>1, <1>t DEF BoundTypes
  <2> QED BY <2>1, <2>2, <2>3, <2>4 DEF SinkTypes
<1>4. ASSUME NEW w \in Writers, Compute(w) PROVE SinkTypes'
  <2>1. WriterTypes'
    BY <1>4, <1>t, ComputeFacts DEF Compute, WriterTypes
  <2> QED BY <1>4, <2>1, <1>b, <1>c, <1>d, <1>e, <1>f
          DEF Compute, chainVars, walVars, closeVars, opened, SinkTypes
<1>5. ASSUME NEW w \in Writers, WalAppend(w) PROVE SinkTypes'
  <2>1. WriterTypes'
    BY <1>5, <1>t, GotoFacts DEF WalAppend, WriterTypes
  <2>2. WalTypes'
    <3>1. RecordOf(w) \in RecordType
      BY <1>5, <1>t, RecordOfType DEF WalAppend
    <3>2. wal' \in Seq(RecordType) /\ Len(wal) <= Len(wal')
      BY <1>5, <1>t, <3>1 DEF WalAppend, WalTypes
    <3> QED BY <1>5, <1>t, <3>2, WalGrows DEF WalAppend, opened
  <2>3. FlagTypes'
    <3>1. bare' = FALSE /\ UNCHANGED <<fatal, broken, walOpen, drained>>
      BY <1>5 DEF WalAppend, chainVars, closeVars
    <3> QED BY <3>1, <1>t, Zenon DEF FlagTypes
  <2> QED BY <1>5, <2>1, <2>2, <2>3, <1>b, <1>e, <1>f DEF WalAppend, chainVars, closeVars, SinkTypes
<1>6. ASSUME NEW w \in Writers, WalAppendAmbiguous(w) PROVE SinkTypes'
  <2>1. WriterTypes' /\ ChainTypes' /\ CloseTypes'
    BY <1>6, <1>l, <1>m, <1>e DEF WalAppendAmbiguous, closeVars
  <2>2. WalTypes'
    <3>1. RecordOf(w) \in RecordType
      BY <1>6, <1>t, RecordOfType DEF WalAppendAmbiguous
    <3>2. wal' = wal \/ wal' = Append(wal, RecordOf(w))
      BY <1>6, Zenon DEF WalAppendAmbiguous
    <3>3. wal' \in Seq(RecordType) /\ Len(wal) <= Len(wal')
      BY <1>t, <3>1, <3>2 DEF WalTypes
    <3>4. UNCHANGED <<gone, lost, cuts>>
      BY <1>6 DEF WalAppendAmbiguous, opened
    <3> QED BY <1>t, <3>3, <3>4, WalGrows
  <2>3. FlagTypes'
    <3>a. bare' = bare \/ bare' = TRUE \/ bare' = FALSE
      BY <1>6, Zenon DEF WalAppendAmbiguous
    <3>1. fatal' = TRUE /\ broken' = TRUE /\ walOpen' = walOpen /\ drained' = drained
      BY <1>6 DEF WalAppendAmbiguous, closeVars
    <3> QED BY <3>a, <3>1, <1>t, Zenon DEF FlagTypes
  <2>4. BoundTypes'
    BY <1>6, <1>t, FaultType DEF WalAppendAmbiguous, BoundTypes
  <2> QED BY <2>1, <2>2, <2>3, <2>4 DEF SinkTypes
<1>7. ASSUME NEW w \in Writers, Commit(w) PROVE SinkTypes'
  <2>1. WriterTypes' /\ WalTypes' /\ CloseTypes' /\ BoundTypes'
    BY <1>7, <1>l, <1>c, <1>e, <1>f DEF Commit, walVars, closeVars, opened
  <2>2. CASE Committable(w)
    <3>1. writer[w] \in WriterType /\ writer[w].ev \in Events
      BY <1>7, <1>t DEF WriterTypes, Commit
    <3>2. Append(writer[w].link, writer[w].ev) \in Seq(Events) /\ writer[w].gen \in Gens
      BY <3>1 DEF WriterType
    <3>3. /\ chain' = [gen |-> writer[w].gen, prev |-> Append(writer[w].link, writer[w].ev),
                       fatal |-> FALSE]
          /\ anchor' = [gen |-> writer[w].gen, hash |-> writer[w].ev]
          /\ UNCHANGED <<fatal, broken, bare, walOpen, drained>>
      BY <1>7, <2>2 DEF Commit, walVars, closeVars, opened
    <3>4. ChainTypes'
      BY <3>1, <3>2, <3>3 DEF ChainTypes, ChainType, AnchorType, Hashes
    <3> QED BY <2>1, <3>3, <3>4, <1>d DEF SinkTypes
  <2>3. CASE ~Committable(w)
    <3>1. /\ chain' = [chain EXCEPT !.fatal = TRUE] /\ anchor' = anchor /\ fatal' = TRUE
          /\ UNCHANGED <<broken, bare, walOpen, drained>>
      BY <1>7, <2>3 DEF Commit, walVars, closeVars, opened
    <3>2. FlagTypes'
      BY <3>1, <1>t, Zenon DEF FlagTypes
    <3> QED BY <2>1, <3>1, <3>2, <1>m DEF SinkTypes
  <2> QED BY <2>2, <2>3
<1>8. CASE NextGeneration
  <2>1. WriterTypes'
    BY <1>8, <1>t DEF NextGeneration, WriterTypes
  <2> QED BY <1>8, <2>1, <1>b, <1>c, <1>d, <1>e, <1>f
          DEF NextGeneration, chainVars, walVars, closeVars, opened, SinkTypes
<1>9. CASE Reclaim
  <2>1. WalTypes'
    <3>1. PICK j \in DOMAIN wal, k \in DOMAIN wal : j..k \subseteq Disk /\ gone' = gone \cup (j..k)
      BY <1>9 DEF Reclaim
    <3>2. Disk \subseteq 1..Len(wal)
      BY <1>t DEF Disk, WalTypes
    <3>3. lost \subseteq gone' /\ gone' \subseteq 1..Len(wal)
      BY <1>t, <3>1, <3>2 DEF WalTypes, Kept
    <3>4. UNCHANGED <<wal, lost, cuts>>
      BY <1>9 DEF Reclaim, opened
    <3> QED BY <1>t, <3>3, <3>4 DEF WalTypes, Kept
  <2> QED BY <1>9, <2>1, <1>a, <1>b, <1>d, <1>e, <1>f DEF Reclaim, chainVars, closeVars, SinkTypes
<1>10. CASE CloseStart \/ CloseStep \/ RunExit
  <2>1. /\ UNCHANGED <<alloc, writer, chain, anchor, wal, gone, lost, cuts, bare, fatal, broken>>
        /\ UNCHANGED bounds
    BY <1>10 DEF CloseStart, CloseStep, RunExit, Drained, RunDone, DrainDeadline, SafetyNet,
                 WalClose, chainVars, walVars, closeVars, opened
  <2>2. CloseTypes'
    BY <1>10, <1>t DEF CloseStart, CloseStep, RunExit, Drained, RunDone, DrainDeadline, SafetyNet,
                 WalClose, closeVars, CloseTypes
  <2>3. FlagTypes'
    <3>1. walOpen' = walOpen \/ walOpen' = FALSE
      BY <1>10, Zenon DEF CloseStart, CloseStep, RunExit, Drained, RunDone, DrainDeadline, SafetyNet,
                 WalClose, walVars
    <3>2. drained' = drained \/ drained' = TRUE \/ drained' = FALSE
      BY <1>10, Zenon DEF CloseStart, CloseStep, RunExit, Drained, RunDone, DrainDeadline, SafetyNet,
                 WalClose, closeVars
    <3>3. UNCHANGED <<fatal, broken, bare>>
      BY <2>1
    <3> QED BY <3>1, <3>2, <3>3, <1>t, Zenon DEF FlagTypes
  <2> QED BY <2>1, <2>2, <2>3, <1>a, <1>b, <1>c, <1>f DEF SinkTypes
<1>11. CASE Restart
  <2>1. WriterTypes'
    <3>1. alloc' \in Gens \X (Nat \cup {-1})
      BY <1>11, <1>t, SinkConstants DEF Restart, WriterTypes
    <3>2. writer' = [w \in Writers |-> Outside]
      BY <1>11 DEF Restart
    <3> QED BY <3>1, <3>2, OutsideType DEF WriterTypes
  <2>2. ChainTypes'
    <3>1. Restored.gen \in Gens /\ Restored.prev \in Seq(Events)
      BY <1>t, RestoredFacts
    <3>2. Restored.prev # << >> => Last(Restored.prev) \in Events
      BY <3>1 DEF Last
    <3>3. /\ chain' = [gen |-> Restored.gen, prev |-> Restored.prev, fatal |-> FALSE]
          /\ anchor' = [gen  |-> Restored.gen,
                        hash |-> IF Restored.prev = << >> THEN 0 ELSE Last(Restored.prev)]
      BY <1>11 DEF Restart
    <3> QED BY <3>1, <3>2, <3>3 DEF ChainTypes, ChainType, AnchorType, Hashes
  <2>3. WalTypes' /\ CloseTypes'
    <3>1. wal' = wal /\ gone' = gone /\ lost' = gone
      BY <1>11 DEF Restart
    <3>2. cuts' \subseteq Nat
      <4>1. Len(wal) + 1 \in Nat /\ cuts \subseteq Nat
        BY <1>t DEF WalTypes
      <4>2. cuts' = cuts \/ cuts' = cuts \cup {Len(wal) + 1}
        BY <1>11 DEF Restart
      <4> QED BY <4>1, <4>2
    <3>3. WalTypes'
      BY <1>t, <3>1, <3>2 DEF WalTypes, Kept
    <3> QED BY <1>11, <3>3 DEF Restart, CloseTypes
  <2>4. FlagTypes'
    <3>1. bare' \in {bare, TRUE}
      <4>1. bare' \in IF \E w \in Writers : writer[w].pc = "append" THEN {bare, TRUE} ELSE {bare}
        BY <1>11 DEF Restart
      <4>2. CASE \E w \in Writers : writer[w].pc = "append"
        BY <4>1, <4>2
      <4>3. CASE ~\E w \in Writers : writer[w].pc = "append"
        <5>1. bare' \in {bare}
          BY <4>1, <4>3
        <5> QED BY <5>1
      <4> QED BY <4>2, <4>3
    <3>2. bare' = bare \/ bare' = TRUE
      BY <3>1, Zenon
    <3> QED BY <1>11, <1>t, <3>2, Zenon DEF Restart, FlagTypes
  <2>5. BoundTypes'
    BY <1>11, <1>t, FaultType DEF Restart, BoundTypes
  <2> QED BY <2>1, <2>2, <2>3, <2>4, <2>5 DEF SinkTypes
<1> QED BY <1>0, <1>1, <1>2, <1>3, <1>4, <1>5, <1>6, <1>7, <1>8, <1>9, <1>10, <1>11
        DEF Next, AppendEvent

LEMMA TypeInit == Init => SinkTypes
<1> SUFFICES ASSUME Init PROVE SinkTypes
  OBVIOUS
<1>1. WriterTypes
  BY SinkConstants, OutsideType DEF Init, WriterTypes
<1>2. ChainTypes
  BY SinkConstants DEF Init, ChainTypes, ChainType, AnchorType, Hashes
<1>3. WalTypes /\ CloseTypes /\ BoundTypes
  BY SinkConstants DEF Init, WalTypes, Kept, CloseTypes, BoundTypes
<1>4. FlagTypes
  BY Zenon DEF Init, FlagTypes
<1> QED BY <1>1, <1>2, <1>3, <1>4 DEF SinkTypes

LEMMA TypeInvariance == Spec => []SinkTypes
BY TypeInit, TypeStep, PTL DEF Spec

\* Every variable of the sink keeps its type: what left the disk was a record of
\* the log, and what a process missed when it opened the log does not come back.
THEOREM TypeCorrect == Spec => []TypeOK
<1>1. SinkTypes => TypeOK
  <2> SUFFICES ASSUME SinkTypes PROVE TypeOK
    OBVIOUS
  <2>1. /\ alloc \in Gens \X (Nat \cup {-1})
        /\ writer \in [Writers -> [pc : {"idle", "fanout", "append", "commit"},
                                    ev : Events \cup {0}, gen : Gens, seq : Nat,
                                    prev : Events \cup {0}, link : Seq(Events)]]
    BY DEF SinkTypes, WriterTypes, WriterType, PCs, Hashes
  <2>2. /\ chain \in [gen : Gens, prev : Seq(Events), fatal : BOOLEAN]
        /\ anchor \in [gen : Gens, hash : Events \cup {0}]
        /\ wal \in Seq([ev : Events, gen : Gens, seq : Nat, prev : Events \cup {0}])
    BY DEF SinkTypes, ChainTypes, ChainType, AnchorType, WalTypes, RecordType, Hashes
  <2>3. gone \subseteq DOMAIN wal /\ lost \subseteq gone /\ cuts \subseteq Nat
    BY DEF SinkTypes, WalTypes, Kept
  <2> QED BY <2>1, <2>2, <2>3 DEF SinkTypes, FlagTypes, CloseTypes, BoundTypes, TypeOK
<1> QED BY <1>1, TypeInvariance, PTL

-----------------------------------------------------------------------------
(* The locks and Close.                                                    *)

LEMMA HoldingFacts ==
  ASSUME SinkTypes
  PROVE  /\ writer' = writer => Holding' = Holding
         /\ \A w \in Writers : Leave(w) => Holding' = Holding \ {w}
         /\ \A w \in Writers : Stamp(w) => Holding' = Holding
         /\ \A w \in Writers : Compute(w) => Holding = {} /\ Holding' = {w}
         /\ \A w \in Writers : WalAppend(w) => w \in Holding /\ Holding' = Holding
         /\ Restart => Holding' = {}
<1>t. WriterTypes /\ ChainTypes /\ BoundTypes
  BY DEF SinkTypes
<1>1. writer' = writer => Holding' = Holding
  BY DEF Holding
<1>2. ASSUME NEW w \in Writers, Leave(w) PROVE Holding' = Holding \ {w}
  <2>1. writer'[w].pc = "idle" /\ \A v \in Writers : v # w => writer'[v] = writer[v]
    BY <1>2, <1>t, LeaveFacts, OutsideType
  <2> QED BY <2>1 DEF Holding
<1>3. ASSUME NEW w \in Writers, Stamp(w) PROVE Holding' = Holding
  <2>1. /\ writer[w].pc = "idle" /\ writer'[w].pc = "fanout"
        /\ \A v \in Writers : v # w => writer'[v] = writer[v]
    BY <1>3, <1>t, StampFacts
  <2> QED BY <2>1 DEF Holding
<1>4. ASSUME NEW w \in Writers, Compute(w) PROVE Holding = {} /\ Holding' = {w}
  <2>1. writer'[w].pc = "append" /\ \A v \in Writers : v # w => writer'[v] = writer[v]
    BY <1>4, <1>t, ComputeFacts
  <2>2. Holding = {}
    BY <1>4 DEF Compute, Entering
  <2> QED BY <2>1, <2>2 DEF Holding
<1>5. ASSUME NEW w \in Writers, WalAppend(w) PROVE w \in Holding /\ Holding' = Holding
  <2>1. /\ writer[w].pc = "append" /\ writer'[w].pc = "commit"
        /\ \A v \in Writers : v # w => writer'[v] = writer[v]
    BY <1>5, <1>t, GotoFacts DEF WalAppend
  <2> QED BY <2>1 DEF Holding
<1>6. Restart => Holding' = {}
  BY OutsideType DEF Restart, Holding
<1> QED BY <1>1, <1>2, <1>3, <1>4, <1>5, <1>6

LEMMA LockStep == SinkTypes /\ Locking /\ [Next]_vars => Locking'
<1> SUFFICES ASSUME SinkTypes, Locking, [Next]_vars PROVE Locking'
  OBVIOUS
\* appendMu is not taken, and the rest stays.
<1>1. ASSUME Holding' \subseteq Holding, fatal' = fatal, UNCHANGED <<closer, drained, run, walOpen>>
      PROVE  Locking'
  BY <1>1, Zenon DEF Locking
<1>2. ASSUME NEW w \in Writers, Stamp(w) \/ Refuse(w) \/ WalAppend(w) \/ WalAppendClean(w)
      PROVE  Locking'
  <2>1. Holding' \subseteq Holding
    BY <1>2, HoldingFacts DEF Refuse, WalAppendClean
  <2> QED BY <1>1, <1>2, <2>1
          DEF Stamp, Refuse, WalAppend, WalAppendClean, chainVars, walVars, closeVars, opened
<1>3. ASSUME NEW w \in Writers, Reject(w) \/ WalAppendAmbiguous(w) \/ Commit(w) PROVE Locking'
  <2>1. Holding' = {}
    <3>1. Holding' = Holding \ {w}
      BY <1>3, HoldingFacts DEF Reject, WalAppendAmbiguous, Commit
    <3>2. Holding = {} \/ w \in Holding
      BY <1>3 DEF Reject, Entering, WalAppendAmbiguous, Commit, Holding
    <3> QED BY <3>1, <3>2 DEF Locking
  <2>2. UNCHANGED <<closer, drained, run, walOpen>>
    BY <1>3 DEF Reject, WalAppendAmbiguous, Commit, walVars, closeVars, opened
  <2> QED BY <2>1, <2>2, Zenon DEF Locking
<1>4. ASSUME NEW w \in Writers, Compute(w) PROVE Locking'
  <2>1. Holding' = {w} /\ ~fatal /\ closer = "open" /\ UNCHANGED <<fatal, closer, drained, run, walOpen>>
    BY <1>4, HoldingFacts DEF Compute, closing, chainVars, walVars, closeVars, opened
  <2> QED BY <2>1 DEF Locking
<1>5. CASE NextGeneration \/ Reclaim \/ UNCHANGED vars
  <2>1. UNCHANGED <<writer, fatal, closer, drained, run, walOpen>>
    BY <1>5 DEF NextGeneration, Reclaim, vars, chainVars, walVars, closeVars, opened
  <2> QED BY <1>1, <2>1, HoldingFacts
<1>6. CASE CloseStart \/ CloseStep \/ RunExit
  <2>1. Holding' = Holding /\ fatal' = fatal
    BY <1>6, HoldingFacts
       DEF CloseStart, CloseStep, RunExit, Drained, RunDone, DrainDeadline, SafetyNet, WalClose, chainVars
  <2>2. CASE CloseStart \/ RunDone \/ DrainDeadline \/ SafetyNet
    <3>1. /\ closer' # "draining" \/ closer = "open"
          /\ closer' # "open"
          /\ closer' = "walclose" => run = "exited"
          /\ UNCHANGED <<drained, run, walOpen>>
      BY <2>2 DEF CloseStart, RunDone, DrainDeadline, SafetyNet, walVars
    <3> QED BY <2>1, <3>1 DEF Locking
  <2>3. CASE Drained
    <3>1. /\ (Holding = {} /\ drained' = TRUE) \/ drained' = FALSE
          /\ closer = "draining" /\ closer' = "stopping" /\ UNCHANGED <<run, walOpen>>
      BY <2>3, Zenon DEF Drained, walVars
    <3>2. walOpen /\ walOpen'
      BY <3>1, Zenon DEF Locking
    <3> QED BY <2>1, <3>1, <3>2 DEF Locking
  <2>4. CASE WalClose
    <3>1. /\ closer = "walclose" /\ closer' = "closed" /\ UNCHANGED <<drained, run>>
          /\ drained \/ walOpen' = walOpen
      BY <2>4, Zenon DEF WalClose
    <3> QED BY <2>1, <3>1, Zenon DEF Locking
  <2>5. CASE RunExit
    <3>1. run' = "exited" /\ UNCHANGED <<closer, drained, walOpen>>
      BY <2>5 DEF RunExit, walVars
    <3> QED BY <2>1, <3>1, Zenon DEF Locking
  <2> QED BY <1>6, <2>2, <2>3, <2>4, <2>5 DEF CloseStep
<1>7. CASE Restart
  <2>1. Holding' = {} /\ drained' = FALSE /\ walOpen' = TRUE /\ closer' = "open"
    BY <1>7, HoldingFacts DEF Restart
  <2> QED BY <2>1 DEF Locking
<1> QED BY <1>2, <1>3, <1>4, <1>5, <1>6, <1>7 DEF Next, AppendEvent

LEMMA LockInit == Init => Locking
<1> SUFFICES ASSUME Init PROVE Locking
  OBVIOUS
<1>1. Holding = {}
  BY OutsideType DEF Init, Holding
<1> QED BY <1>1 DEF Init, Locking

LEMMA LockInvariance == Spec => []Locking
BY LockInit, LockStep, TypeInvariance, PTL DEF Spec

\* wal.Close runs under no reader of Run and in no append, with any number of
\* writers, and whichever deadlines of Close pass.
THEOREM WalCloseAlone == Spec => []CloseSafe
<1>1. Locking => CloseSafe
  BY DEF Locking, CloseSafe
<1> QED BY <1>1, LockInvariance, PTL

\* A Store that is latched fatal, or whose Close has seen the last append out,
\* writes no record until a new process opens the WAL.
THEOREM NothingAfterLatch == Spec => Quiesced
<1>1. ASSUME SinkTypes, Locking, [Next]_vars
      PROVE  [fatal \/ (closer \notin {"open", "draining"} /\ drained) => wal' = wal]_vars
  <2> SUFFICES ASSUME Next, fatal \/ drained PROVE wal' = wal
    BY <1>1 DEF vars, walVars
  <2>1. Holding = {}
    BY <1>1 DEF Locking
  <2>2. \A w \in Writers : ~WalAppend(w) /\ ~WalAppendAmbiguous(w)
    BY <2>1 DEF Holding, WalAppend, WalAppendAmbiguous
  <2> QED BY <2>2 DEF Next, AppendEvent, Stamp, Refuse, Reject, Compute, WalAppendClean, Commit,
             NextGeneration, Reclaim, CloseStart, CloseStep, RunExit, Restart,
             Drained, RunDone, DrainDeadline, SafetyNet, WalClose, walVars
<1> QED BY <1>1, TypeInvariance, LockInvariance, PTL DEF Spec, Quiesced

-----------------------------------------------------------------------------
(* The HMAC chain.                                                         *)

\* A step after which nobody holds appendMu has no record pending.
LEMMA SettledFacts ==
  /\ Holding = {} => Settled = Len(wal)
  /\ Holding' = {} => Settled' = Len(wal')
  /\ \A w \in Writers : writer[w].pc = "commit" => Settled = Len(wal) - 1
  /\ wal' = wal /\ (\A v \in Writers : writer'[v].pc = "commit" <=> writer[v].pc = "commit")
     => Settled' = Settled
BY DEF Settled, Holding

\* The steps that neither touch the WAL and the chains nor commit.
Aside(w) == Stamp(w) \/ Refuse(w) \/ WalAppendClean(w) \/ (Reject(w) /\ fatal' = fatal)

\* A writer keeps its record and links in a step that does not let it in.
LEMMA AsideFacts ==
  ASSUME SinkTypes, NEW w \in Writers, Aside(w)
  PROVE  /\ \A v \in Writers : writer'[v].pc \in {"append", "commit"} => writer'[v] = writer[v]
         /\ \A v \in Writers : writer'[v].pc = "commit" <=> writer[v].pc = "commit"
         /\ Holding' \subseteq Holding
         /\ UNCHANGED <<wal, opened, anchor>> /\ fatal' = fatal
<1>t. WriterTypes /\ ChainTypes /\ BoundTypes
  BY DEF SinkTypes
<1>1. CASE Stamp(w)
  <2>1. /\ writer[w].pc = "idle" /\ writer'[w].pc = "fanout"
        /\ \A v \in Writers : v # w => writer'[v] = writer[v]
    BY <1>1, <1>t, StampFacts
  <2> QED BY <1>1, <2>1, HoldingFacts DEF Stamp, chainVars, walVars
<1>2. CASE Refuse(w) \/ WalAppendClean(w) \/ (Reject(w) /\ fatal' = fatal)
  <2>1. /\ writer[w].pc # "commit" /\ writer'[w].pc = "idle"
        /\ \A v \in Writers : v # w => writer'[v] = writer[v]
    BY <1>2, <1>t, LeaveFacts, OutsideType DEF Refuse, WalAppendClean, Reject, Entering
  <2>2. Holding' \subseteq Holding
    BY <1>2, HoldingFacts DEF Refuse, WalAppendClean, Reject
  <2> QED BY <1>2, <2>1, <2>2 DEF Refuse, WalAppendClean, Reject, chainVars, walVars
<1> QED BY <1>1, <1>2 DEF Aside

ChainInv == Pending /\ Follows

LEMMA ChainStep == SinkTypes /\ Locking /\ ChainInv /\ [Next]_vars => ChainInv'
<1> SUFFICES ASSUME SinkTypes, Locking, Pending, Follows, [Next]_vars PROVE Pending' /\ Follows'
  BY DEF ChainInv
<1>t. WriterTypes /\ ChainTypes /\ WalTypes /\ wal \in Seq(RecordType) /\ Len(wal) \in Nat
  BY DEF SinkTypes, WalTypes
<1>k. Len(wal) + 1 \notin lost
  BY <1>t DEF WalTypes, Kept
\* The chain, the WAL and those who have a record at hand stay.
<1>1. ASSUME UNCHANGED <<chain, fatal, wal, lost>>, Holding' \subseteq Holding,
             \A v \in Writers : writer'[v].pc \in {"append", "commit"} => writer'[v] = writer[v],
             \A v \in Writers : writer'[v].pc = "commit" <=> writer[v].pc = "commit"
      PROVE  Pending' /\ Follows'
  <2>1. Settled' = Settled
    BY <1>1, SettledFacts
  <2>2. Follows'
    <3>1. ASSUME ~fatal' PROVE ~fatal
      BY <1>1, <3>1, Zenon
    <3> QED BY <1>1, <2>1, <3>1 DEF Follows
  <2>3. fatal' <=> chain'.fatal
    BY <1>1, Zenon DEF Pending
  <2>4. ASSUME NEW w \in Writers, writer'[w].pc = "commit"
        PROVE  wal' # << >> /\ wal'[Len(wal')] = RecordOf(w)' /\ Len(wal') \notin lost'
    <3>1. writer'[w] = writer[w] /\ writer[w].pc = "commit"
      BY <1>1, <2>4
    <3> QED BY <1>1, <3>1 DEF Pending, RecordOf
  <2>5. ASSUME NEW w \in Holding'
        PROVE  writer'[w].link = IF writer'[w].gen = chain'.gen THEN chain'.prev ELSE << >>
    <3>1. w \in Holding /\ writer'[w] = writer[w]
      BY <1>1 DEF Holding
    <3> QED BY <1>1, <3>1 DEF Pending
  <2> QED BY <2>2, <2>3, <2>4, <2>5 DEF Pending
\* The latch.
<1>2. ASSUME chain' = [chain EXCEPT !.fatal = TRUE], fatal' = TRUE, Holding' = {}
      PROVE  Pending' /\ Follows'
  <2>1. chain'.fatal = TRUE
    BY <1>2, <1>t DEF ChainTypes, ChainType
  <2>2. \A w \in Writers : writer'[w].pc # "commit"
    BY <1>2 DEF Holding
  <2>3. fatal' <=> chain'.fatal
    BY <1>2, <2>1, Zenon
  <2> QED BY <1>2, <2>2, <2>3 DEF Pending, Follows
<1>3. ASSUME NEW w \in Writers, Aside(w) PROVE Pending' /\ Follows'
  <2>1. chain' = chain
    <3>1. CASE Reject(w) /\ fatal' = fatal
      <4>1. ~fatal'
        BY <3>1, Zenon DEF Reject
      <4>2. chain' = chain \/ fatal' = TRUE
        BY <3>1, Zenon DEF Reject
      <4> QED BY <4>1, <4>2
    <3> QED BY <1>3, <3>1 DEF Aside, Stamp, Refuse, WalAppendClean, chainVars
  <2> QED BY <1>1, <1>3, <2>1, AsideFacts DEF opened
<1>4. ASSUME NEW w \in Writers,
             (Reject(w) /\ fatal' # fatal) \/ WalAppendAmbiguous(w) \/ (Commit(w) /\ ~Committable(w))
      PROVE  Pending' /\ Follows'
  <2>1. chain' = [chain EXCEPT !.fatal = TRUE] /\ fatal' = TRUE
    BY <1>4, Zenon DEF Reject, WalAppendAmbiguous, Commit
  <2>2. Holding' = {}
    <3>1. Holding' = Holding \ {w}
      BY <1>4, HoldingFacts DEF Reject, WalAppendAmbiguous, Commit
    <3>2. Holding = {} \/ w \in Holding
      BY <1>4 DEF Reject, Entering, WalAppendAmbiguous, Commit, Holding
    <3> QED BY <3>1, <3>2 DEF Locking
  <2> QED BY <1>2, <2>1, <2>2
<1>5. ASSUME NEW w \in Writers, Compute(w) PROVE Pending' /\ Follows'
  <2>1. Holding = {} /\ Holding' = {w}
    BY <1>5, HoldingFacts
  <2>2. /\ writer[w].pc = "fanout" /\ writer'[w].pc = "append" /\ writer'[w].gen = writer[w].gen
        /\ writer'[w].link = IF writer[w].gen = chain.gen THEN chain.prev ELSE << >>
        /\ \A v \in Writers : v # w => writer'[v] = writer[v]
    BY <1>5, <1>t, ComputeFacts
  <2>3. UNCHANGED <<chain, fatal, wal, lost>>
    BY <1>5 DEF Compute, chainVars, walVars, opened
  <2>4. \A v \in Writers : writer'[v].pc # "commit" /\ writer[v].pc # "commit"
    BY <2>1, <2>2 DEF Holding
  <2>5. Settled' = Settled
    BY <2>3, <2>4, SettledFacts
  <2>6. Follows'
    <3>1. ASSUME ~fatal' PROVE ~fatal
      BY <2>3, <3>1, Zenon
    <3> QED BY <2>3, <2>5, <3>1 DEF Follows
  <2>7. fatal' <=> chain'.fatal
    BY <2>3, Zenon DEF Pending
  <2> QED BY <2>1, <2>2, <2>3, <2>4, <2>6, <2>7 DEF Pending
<1>6. ASSUME NEW w \in Writers, WalAppend(w) PROVE Pending' /\ Follows'
  <2>1. w \in Holding /\ Holding' = Holding
    BY <1>6, HoldingFacts
  <2>2. Holding = {w} /\ ~fatal
    BY <2>1 DEF Locking
  <2>3. /\ writer[w].pc = "append" /\ writer'[w].pc = "commit" /\ RecordOf(w)' = RecordOf(w)
        /\ writer'[w].gen = writer[w].gen /\ writer'[w].link = writer[w].link
        /\ \A v \in Writers : v # w => writer'[v] = writer[v]
    BY <1>6, <1>t, GotoFacts DEF WalAppend, RecordOf
  <2>4. wal' = Append(wal, RecordOf(w)) /\ UNCHANGED <<chain, fatal, lost>>
    BY <1>6 DEF WalAppend, chainVars, opened
  <2>5. RecordOf(w) \in RecordType
    BY <1>t, <2>3, RecordOfType
  <2>6. /\ wal' \in Seq(RecordType) /\ Len(wal') = Len(wal) + 1 /\ wal'[Len(wal) + 1] = RecordOf(w)
        /\ \A i \in 1..Len(wal) : wal'[i] = wal[i]
    BY <1>t, <2>4, <2>5, AppendProperties
  <2>7. \A v \in Writers : v # w => writer'[v].pc # "commit" /\ writer[v].pc # "commit"
    BY <2>2, <2>3 DEF Holding
  <2>8. Settled = Len(wal) /\ Settled' = Len(wal)
    BY <2>3, <2>6, <2>7, <1>t DEF Settled
  <2>9. Follows'
    <3>1. chain.prev = Listed(wal, OwnUpTo(wal, Len(wal), lost, chain.gen))
      BY <2>2, <2>8 DEF Follows
    <3>2. Listed(wal, OwnUpTo(wal, Len(wal), lost, chain.gen))
          = Listed(wal', OwnUpTo(wal', Len(wal), lost, chain.gen))
      <4>1. Len(wal) <= Len(wal) /\ Len(wal) <= Len(wal')
        BY <1>t, <2>6
      <4> QED BY <1>t, <2>6, <4>1, ListedPrefix
    <3>3. \A i \in 1..Len(wal) : i \notin lost => wal[i].gen <= chain.gen
      BY <2>2, <2>8 DEF Follows
    <3> QED BY <2>4, <2>6, <2>8, <3>1, <3>2, <3>3 DEF Follows
  <2>10. fatal' <=> chain'.fatal
    BY <2>4, Zenon DEF Pending
  <2>11. writer[w].link = IF writer[w].gen = chain.gen THEN chain.prev ELSE << >>
    BY <2>1 DEF Pending
  <2>12. wal' # << >> /\ wal'[Len(wal')] = RecordOf(w)' /\ Len(wal') \notin lost'
    BY <1>k, <1>t, <2>3, <2>4, <2>6
  <2> QED BY <2>1, <2>2, <2>3, <2>4, <2>7, <2>9, <2>10, <2>11, <2>12 DEF Pending
<1>7. ASSUME NEW w \in Writers, Commit(w), Committable(w) PROVE Pending' /\ Follows'
  <2>1. w \in Holding /\ Holding' = Holding \ {w} /\ writer[w].pc = "commit"
    BY <1>7, HoldingFacts DEF Commit, Holding
  <2>2. Holding' = {} /\ ~fatal
    BY <2>1 DEF Locking
  <2> DEFINE g == writer[w].gen
             e == writer[w].ev
             l == writer[w].link
             n == Len(wal) - 1
  <2>3. /\ chain' = [gen |-> g, prev |-> Append(l, e), fatal |-> FALSE]
        /\ UNCHANGED <<fatal, wal, lost>>
    BY <1>7 DEF Commit, walVars, opened
  <2>4. chain'.gen = g /\ chain'.prev = Append(l, e) /\ ~chain'.fatal
    BY <2>3
  <2>5. /\ wal # << >> /\ wal[Len(wal)].gen = g /\ wal[Len(wal)].ev = e
        /\ l = IF g = chain.gen THEN chain.prev ELSE << >>
    <3>1. wal # << >> /\ wal[Len(wal)] = RecordOf(w)
      BY <2>1 DEF Pending
    <3>2. RecordOf(w).gen = g /\ RecordOf(w).ev = e
      BY DEF RecordOf
    <3>3. l = IF g = chain.gen THEN chain.prev ELSE << >>
      BY <2>1 DEF Pending
    <3> QED BY <3>1, <3>2, <3>3
  <2>6. n \in Nat /\ n + 1 = Len(wal) /\ n < Len(wal)
    BY <1>t, <2>5
  <2>a. n + 1 \notin lost
    BY <2>1, <2>6 DEF Pending
  <2>7. Settled = n /\ Settled' = n + 1
    BY <2>1, <2>2, <2>3, <2>6, SettledFacts
  <2>8. g >= chain.gen /\ g \in Nat /\ chain.gen \in Nat
    BY <1>7, <1>t, SinkConstants DEF Committable, WriterTypes, WriterType, ChainTypes, ChainType
  <2> HIDE DEF g, e, l, n
  <2>9. /\ chain.prev = Listed(wal, OwnUpTo(wal, n, lost, chain.gen))
        /\ \A i \in 1..n : i \notin lost => wal[i].gen <= chain.gen
    BY <2>2, <2>7 DEF Follows
  <2>10. \A i \in 1..n : wal[i].gen \in Nat
    <3> TAKE i \in 1..n
    <3>1. wal[i] \in RecordType
      BY <1>t, <2>6
    <3> QED BY <3>1, SinkConstants DEF RecordType
  <2>11. Listed(wal, OwnUpTo(wal, n, lost, g)) = l
    <3>1. CASE g = chain.gen
      BY <2>5, <2>9, <3>1
    <3>2. CASE g # chain.gen
      <4>1. OwnUpTo(wal, n, lost, g) = {}
        BY <2>8, <2>9, <2>10, <3>2 DEF OwnUpTo
      <4> QED BY <2>5, <3>2, <4>1, EventsNone
    <3> QED BY <3>1, <3>2
  <2>12. Listed(wal, OwnUpTo(wal, n + 1, lost, g)) = Append(l, e)
    BY <1>t, <2>5, <2>6, <2>a, <2>11, ListedNext
  <2>13. \A i \in 1..(n + 1) : i \notin lost => wal[i].gen <= g
    <3> TAKE i \in 1..(n + 1)
    <3> HAVE i \notin lost
    <3>1. i \in 1..n \/ i = Len(wal)
      BY <2>6
    <3> QED BY <3>1, <2>5, <2>8, <2>9, <2>10
  <2>14. Follows'
    BY <2>3, <2>4, <2>7, <2>12, <2>13 DEF Follows
  <2>15. ~fatal'
    BY <2>2, <2>3, Zenon
  <2>16. \A v \in Writers : writer'[v].pc # "commit"
    BY <2>2 DEF Holding
  <2> QED BY <2>2, <2>4, <2>14, <2>15, <2>16 DEF Pending
<1>8. CASE NextGeneration \/ Reclaim \/ CloseStart \/ CloseStep \/ RunExit \/ UNCHANGED vars
  <2>1. UNCHANGED <<writer, chain, fatal, wal, lost>>
    BY <1>8 DEF NextGeneration, Reclaim, CloseStart, CloseStep, RunExit, Drained, RunDone,
                DrainDeadline, SafetyNet, WalClose, vars, chainVars, walVars, opened
  <2> QED BY <1>1, <2>1, HoldingFacts
<1>9. CASE Restart
  <2>1. Holding' = {} /\ Settled' = Len(wal') /\ wal' = wal /\ lost' = gone
    BY <1>9, HoldingFacts, SettledFacts DEF Restart
  <2>2. chain'.gen = Restored.gen /\ chain'.prev = Restored.prev /\ ~chain'.fatal /\ ~fatal'
    BY <1>9 DEF Restart
  <2>3. Restored.prev = Listed(wal, OwnUpTo(wal, Len(wal), gone, Restored.gen))
    BY <1>t, RestoredFacts, OwnType
  <2>4. \A i \in 1..Len(wal) : i \notin gone => wal[i].gen <= Restored.gen
    BY <1>t, RestoredFacts
  <2>5. Follows'
    BY <2>1, <2>2, <2>3, <2>4 DEF Follows
  <2>6. \A v \in Writers : writer'[v].pc # "commit"
    BY <2>1 DEF Holding
  <2> QED BY <2>1, <2>2, <2>5, <2>6 DEF Pending
<1>10. ASSUME NEW w \in Writers, AppendEvent(w) PROVE Pending' /\ Follows'
  BY <1>10, <1>3, <1>4, <1>5, <1>6, <1>7 DEF AppendEvent, Aside
<1> QED BY <1>8, <1>9, <1>10 DEF Next

LEMMA ChainInit == Init => ChainInv
<1> SUFFICES ASSUME Init PROVE ChainInv
  OBVIOUS
<1>1. Holding = {} /\ Len(wal) = 0 /\ ~fatal /\ ~chain.fatal /\ chain.prev = << >>
  BY OutsideType DEF Init, Holding
<1>2. Settled = 0 /\ \A w \in Writers : writer[w].pc # "commit"
  BY <1>1, SettledFacts DEF Holding
<1>3. OwnUpTo(wal, 0, lost, chain.gen) = {}
  BY DEF OwnUpTo
<1>4. Follows
  BY <1>1, <1>2, <1>3, EventsNone DEF Follows
<1> QED BY <1>1, <1>2, <1>4 DEF ChainInv, Pending

LEMMA ChainInvariance == Spec => []ChainInv
BY ChainInit, ChainStep, TypeInvariance, LockInvariance, PTL DEF Spec

\* Between two transactions the HMAC chain stands for exactly the records of
\* its generation that this process found on disk or wrote, in WAL order, with
\* any number of writers and through any number of failures and restarts.
THEOREM ChainMatchesLog == Spec => []ChainFollowsWal
<1>1. SinkTypes /\ ChainInv => ChainFollowsWal
  <2> SUFFICES ASSUME SinkTypes, ChainInv, Holding = {}, ~fatal
               PROVE  chain.prev = EventsAt(Own(lost, chain.gen))
    BY DEF ChainFollowsWal
  <2>1. chain.prev = Listed(wal, OwnUpTo(wal, Len(wal), lost, chain.gen))
    BY SettledFacts DEF ChainInv, Follows
  <2> QED BY <2>1, OwnType DEF SinkTypes, WalTypes
<1> QED BY <1>1, TypeInvariance, ChainInvariance, PTL

-----------------------------------------------------------------------------
(* Generations.  What follows needs that the allocator does not fall back  *)
(* to an older generation over a restart: its owner restores it, or, as in *)
(* the daemon, generations never roll.                                     *)

NoFallback == RestoreAllocator \/ Gens = {0}

GenInv == Current /\ NoSpuriousFatal

\* Facts about numbers that the steps below use.
LEMMA GenTypes ==
  ASSUME SinkTypes
  PROVE  /\ alloc[1] \in Gens /\ alloc[1] \in Nat
         /\ chain.gen \in Gens /\ chain.gen \in Nat
         /\ \A i \in 1..Len(wal) : wal[i].gen \in Gens /\ wal[i].gen \in Nat
<1>1. \A i \in 1..Len(wal) : wal[i].gen \in Gens
  <2> TAKE i \in 1..Len(wal)
  <2>1. wal[i] \in RecordType
    BY DEF SinkTypes, WalTypes
  <2> QED BY <2>1 DEF RecordType
<1>2. alloc[1] \in Gens /\ chain.gen \in Gens
  BY DEF SinkTypes, WriterTypes, ChainTypes, ChainType
<1> QED BY <1>1, <1>2, SinkConstants

\* A writer that has been stamped commits: nothing overtakes it.
LEMMA AlwaysCommittable ==
  ASSUME SinkTypes, Locking, Pending, Current, NEW w \in Writers, writer[w].pc = "commit"
  PROVE  Committable(w)
<1>1. w \in Holding
  BY DEF Holding
<1>2. ~fatal
  BY <1>1 DEF Locking
<1>3. ~chain.fatal
  BY <1>2 DEF Pending
<1>4. writer[w].gen >= chain.gen
  BY GenTypes DEF Current
<1>5. writer[w].link = IF writer[w].gen = chain.gen THEN chain.prev ELSE << >>
  BY <1>1 DEF Pending
<1> QED BY <1>3, <1>4, <1>5 DEF Committable

LEMMA GenStep ==
  ASSUME NoFallback
  PROVE  SinkTypes /\ Locking /\ ChainInv /\ GenInv /\ [Next]_vars => GenInv'
<1> SUFFICES ASSUME SinkTypes, Locking, Pending, Current, NoSpuriousFatal, [Next]_vars
             PROVE  Current' /\ NoSpuriousFatal'
  BY DEF ChainInv, GenInv
<1>t. WriterTypes /\ ChainTypes /\ BoundTypes /\ WalTypes /\ wal \in Seq(RecordType) /\ Len(wal) \in Nat
  BY DEF SinkTypes, WalTypes
<1>n. fatal => broken
  BY Zenon DEF NoSpuriousFatal
\* Those who are on their way keep their generation.
<1>1. ASSUME alloc'[1] = alloc[1], wal' = wal, chain'.gen = chain.gen,
             \A v \in Writers : writer'[v].pc # "idle" =>
                 writer'[v].gen = alloc[1] \/ (writer[v].pc # "idle" /\ writer'[v].gen = writer[v].gen)
      PROVE  Current'
  BY <1>1 DEF Current
<1>l. ASSUME NEW w \in Writers, Leave(w)
      PROVE  \A v \in Writers : writer'[v].pc # "idle" =>
                 writer[v].pc # "idle" /\ writer'[v].gen = writer[v].gen
  BY <1>l, <1>t, LeaveFacts, OutsideType
<1>2. ASSUME NEW w \in Writers, Aside(w) \/ Compute(w) \/ Reject(w) PROVE Current' /\ NoSpuriousFatal'
  <2>1. alloc'[1] = alloc[1] /\ wal' = wal /\ chain'.gen = chain.gen
    <3>1. CASE Stamp(w)
      BY <3>1, <1>t, StampFacts DEF Stamp, chainVars, walVars
    <3>2. CASE ~Stamp(w)
      BY <1>2, <3>2, <1>t DEF Aside, Refuse, WalAppendClean, Reject, Compute, chainVars, walVars,
                              ChainTypes, ChainType
    <3> QED BY <3>1, <3>2
  <2>2. \A v \in Writers : writer'[v].pc # "idle" =>
            writer'[v].gen = alloc[1] \/ (writer[v].pc # "idle" /\ writer'[v].gen = writer[v].gen)
    <3>1. CASE Stamp(w)
      BY <3>1, <1>t, StampFacts
    <3>2. CASE Compute(w)
      BY <3>2, <1>t, ComputeFacts
    <3>3. CASE Leave(w)
      BY <3>3, <1>l
    <3> QED BY <1>2, <3>1, <3>2, <3>3 DEF Aside, Refuse, WalAppendClean, Reject
  <2>3. (fatal' = fatal /\ broken' = broken) \/ broken' = TRUE
    BY <1>2, Zenon DEF Aside, Stamp, Refuse, WalAppendClean, Reject, Compute, chainVars
  <2>4. NoSpuriousFatal'
    BY <2>3, <1>n, Zenon DEF NoSpuriousFatal
  <2> QED BY <1>1, <2>1, <2>2, <2>4
<1>3. ASSUME NEW w \in Writers, WalAppend(w) \/ WalAppendAmbiguous(w) PROVE Current' /\ NoSpuriousFatal'
  <2>1. writer[w].pc = "append" /\ alloc' = alloc /\ chain'.gen = chain.gen
    BY <1>3, <1>t DEF WalAppend, WalAppendAmbiguous, chainVars, ChainTypes, ChainType
  <2>2. \A v \in Writers : writer'[v].pc # "idle" => writer[v].pc # "idle" /\ writer'[v].gen = writer[v].gen
    <3>1. CASE Goto(w, "commit")
      BY <3>1, <2>1, <1>t, GotoFacts
    <3>2. CASE Leave(w)
      BY <3>2, <1>l
    <3> QED BY <1>3, <3>1, <3>2 DEF WalAppend, WalAppendAmbiguous
  <2>3. \A i \in DOMAIN wal' : wal'[i].gen <= alloc[1]
    <3>1. RecordOf(w) \in RecordType /\ RecordOf(w).gen = alloc[1]
      BY <1>t, <2>1, RecordOfType DEF Current, RecordOf
    <3>2. wal' = wal \/ wal' = Append(wal, RecordOf(w))
      BY <1>3 DEF WalAppend, WalAppendAmbiguous
    <3>3. CASE wal' = wal
      BY <3>3 DEF Current
    <3>4. CASE wal' = Append(wal, RecordOf(w))
      <4>1. /\ DOMAIN wal' = 1..(Len(wal) + 1) /\ wal'[Len(wal) + 1] = RecordOf(w)
            /\ \A i \in 1..Len(wal) : wal'[i] = wal[i]
        BY <3>1, <3>4, <1>t
      <4>2. \A i \in 1..Len(wal) : wal[i].gen <= alloc[1]
        BY <1>t DEF Current
      <4> QED BY <4>1, <4>2, <3>1, <1>t, GenTypes
    <3> QED BY <3>2, <3>3, <3>4
  <2>4. (fatal' = fatal /\ broken' = broken) \/ broken' = TRUE
    BY <1>3, Zenon DEF WalAppend, WalAppendAmbiguous, chainVars
  <2>5. NoSpuriousFatal'
    BY <2>4, <1>n, Zenon DEF NoSpuriousFatal
  <2> QED BY <2>1, <2>2, <2>3, <2>5 DEF Current
<1>4. ASSUME NEW w \in Writers, Commit(w) PROVE Current' /\ NoSpuriousFatal'
  <2>1. Committable(w) /\ writer[w].gen = alloc[1]
    BY <1>4, AlwaysCommittable DEF Commit, Current
  <2>2. chain'.gen = alloc[1] /\ alloc' = alloc /\ wal' = wal
    BY <1>4, <2>1 DEF Commit, walVars
  <2>3. \A v \in Writers : writer'[v].pc # "idle" => writer[v].pc # "idle" /\ writer'[v].gen = writer[v].gen
    BY <1>4, <1>l DEF Commit
  <2>4. fatal' = fatal /\ broken' = broken
    BY <1>4, <2>1, Zenon DEF Commit
  <2>5. NoSpuriousFatal'
    BY <2>4, <1>n, Zenon DEF NoSpuriousFatal
  <2>6. alloc[1] <= alloc[1]
    BY GenTypes
  <2> QED BY <2>2, <2>3, <2>5, <2>6 DEF Current
<1>5. CASE NextGeneration
  <2>1. /\ alloc'[1] = alloc[1] + 1 /\ \A v \in Writers : writer[v].pc = "idle"
        /\ UNCHANGED <<writer, chain, wal, fatal, broken>>
    BY <1>5 DEF NextGeneration, chainVars, walVars
  <2>2. NoSpuriousFatal'
    BY <2>1, <1>n, Zenon DEF NoSpuriousFatal
  <2>3. DOMAIN wal = 1..Len(wal)
    BY <1>t
  <2> QED BY <2>1, <2>2, <2>3, GenTypes DEF Current
<1>6. CASE Reclaim \/ CloseStart \/ CloseStep \/ RunExit \/ UNCHANGED vars
  <2>1. UNCHANGED <<alloc, writer, chain, wal, fatal, broken>>
    BY <1>6 DEF Reclaim, CloseStart, CloseStep, RunExit, Drained, RunDone,
                DrainDeadline, SafetyNet, WalClose, vars, chainVars, walVars
  <2>2. NoSpuriousFatal'
    BY <2>1, <1>n, Zenon DEF NoSpuriousFatal
  <2> QED BY <1>1, <2>1, <2>2
<1>7. CASE Restart
  <2>1. /\ chain'.gen = Restored.gen /\ wal' = wal /\ ~fatal'
        /\ \A v \in Writers : writer'[v].pc = "idle"
    BY <1>7, OutsideType DEF Restart
  <2>2. Restored.gen \in Gens /\ Restored.gen \in Nat
    BY <1>t, RestoredFacts, SinkConstants
  <2>3. CASE RestoreAllocator
    <3>1. alloc' = alloc
      BY <1>7, <2>3 DEF Restart
    <3>2. Restored.gen <= alloc[1]
      <4>1. CASE Disk = {}
        BY <4>1, <1>t, RestoredFacts, GenTypes
      <4>2. CASE Disk # {}
        <5>1. PICK j \in 1..Len(wal) : wal[j].gen = Restored.gen
          BY <4>2, <1>t, RestoredFacts
        <5>2. wal[j].gen <= alloc[1]
          BY <1>t DEF Current
        <5> QED BY <5>1, <5>2
      <4> QED BY <4>1, <4>2
    <3> QED BY <2>1, <3>1, <3>2 DEF Current, NoSpuriousFatal
  <2>4. CASE Gens = {0}
    <3>1. alloc'[1] = 0
      BY <1>7, <2>4, GenTypes DEF Restart
    <3>2. Restored.gen = 0 /\ \A i \in 1..Len(wal) : wal[i].gen = 0
      BY <2>2, <2>4, GenTypes
    <3>3. DOMAIN wal = 1..Len(wal)
      BY <1>t
    <3> QED BY <2>1, <3>1, <3>2, <3>3 DEF Current, NoSpuriousFatal
  <2> QED BY <2>3, <2>4 DEF NoFallback
<1>8. ASSUME NEW w \in Writers, AppendEvent(w) PROVE Current' /\ NoSpuriousFatal'
  BY <1>8, <1>2, <1>3, <1>4 DEF AppendEvent, Aside
<1> QED BY <1>5, <1>6, <1>7, <1>8 DEF Next

LEMMA GenInit == Init => GenInv
<1> SUFFICES ASSUME Init PROVE GenInv
  OBVIOUS
<1>1. /\ \A v \in Writers : writer[v].pc = "idle"
      /\ wal = << >> /\ alloc[1] = 0 /\ chain.gen = 0 /\ ~fatal
  BY OutsideType DEF Init
<1> QED BY <1>1 DEF GenInv, Current, NoSpuriousFatal

LEMMA GenInvariance ==
  ASSUME NoFallback
  PROVE  Spec => []GenInv
<1>1. SinkTypes /\ Locking /\ ChainInv /\ GenInv /\ [Next]_vars => GenInv'
  BY GenStep
<1> QED BY <1>1, GenInit, TypeInvariance, LockInvariance, ChainInvariance, PTL DEF Spec

\* Concurrent appends, generation rolls, Close and restarts never latch the
\* Store: only an ambiguous failure of the WAL does, if the allocator does not
\* fall back to an older generation.
THEOREM OnlyFailureLatches ==
  ASSUME NoFallback
  PROVE  Spec => []NoSpuriousFatal
<1>1. GenInv => NoSpuriousFatal
  BY DEF GenInv
<1> QED BY <1>1, GenInvariance, PTL

-----------------------------------------------------------------------------
(* The wire chain.                                                         *)

\* The link a record carries, by the records before it.
LinkAt(s, i) ==
    LET own == {j \in 1..(i - 1) : s[j].gen = s[i].gen}
    IN  s[i].prev = IF own = {} THEN 0 ELSE s[Max(own)].ev

WireInv == Monotone /\ Anchored /\ WireChain

\* A record linked behind the last one of the log, or behind nothing if that
\* is of an older generation, continues the wire chain.
LEMMA WireAppend ==
  ASSUME NEW s \in Seq(RecordType), NEW r \in RecordType, NEW C,
         \A i, j \in 1..Len(s) : i <= j => s[i].gen <= s[j].gen,
         \A i \in 1..Len(s) : i \notin C => LinkAt(s, i),
         \A i \in 1..Len(s) : s[i].gen <= r.gen,
         Len(s) + 1 \notin C =>
             r.prev = IF s # << >> /\ s[Len(s)].gen = r.gen THEN s[Len(s)].ev ELSE 0
  PROVE  /\ \A i, j \in 1..(Len(s) + 1) : i <= j => Append(s, r)[i].gen <= Append(s, r)[j].gen
         /\ \A i \in 1..(Len(s) + 1) : i \notin C => LinkAt(Append(s, r), i)
<1> DEFINE L == Len(s)
           t == Append(s, r)
<1>1. L \in Nat /\ t[L + 1] = r /\ \A i \in 1..L : t[i] = s[i]
  OBVIOUS
<1>2. r.gen \in Nat /\ \A i \in 1..L : s[i].gen \in Nat
  <2>1. \A i \in 1..L : s[i] \in RecordType
    OBVIOUS
  <2> QED BY <2>1, SinkConstants DEF RecordType
<1>s. s # << >> <=> L # 0
  OBVIOUS
<1> HIDE DEF L, t
<1>3. ASSUME NEW i \in 1..(L + 1), NEW j \in 1..(L + 1), i <= j PROVE t[i].gen <= t[j].gen
  <2>1. CASE j = L + 1
    <3>1. i \in 1..L \/ i = L + 1
      BY <1>1
    <3> QED BY <2>1, <3>1, <1>1, <1>2 DEF L
  <2>2. CASE j # L + 1
    <3>1. i \in 1..L /\ j \in 1..L
      BY <1>1, <1>3, <2>2
    <3> QED BY <3>1, <1>1, <1>3 DEF L
  <2> QED BY <2>1, <2>2
<1>4. ASSUME NEW i \in 1..(L + 1), i \notin C PROVE LinkAt(t, i)
  <2> DEFINE O(u) == {j \in 1..(i - 1) : u[j].gen = u[i].gen}
  <2>1. CASE i \in 1..L
    <3>1. \A j \in 1..(i - 1) : t[j] = s[j]
      BY <1>1, <2>1
    <3>2. t[i] = s[i]
      BY <1>1, <2>1
    <3>3. O(t) = O(s)
      BY <3>1, <3>2
    <3>4. O(s) # {} => t[Max(O(s))] = s[Max(O(s))]
      <4>1. O(s) \in SUBSET (0..L) /\ O(s) \subseteq 1..(i - 1)
        BY <1>1, <2>1
      <4> HIDE DEF O
      <4>2. O(s) # {} => Max(O(s)) \in O(s)
        BY <1>1, <4>1, MaxIsGreatest
      <4> QED BY <3>1, <4>1, <4>2
    <3>5. s[i].prev = IF O(s) = {} THEN 0 ELSE s[Max(O(s))].ev
      BY <1>4, <2>1 DEF LinkAt, L
    <3>6. t[i].prev = IF O(t) = {} THEN 0 ELSE t[Max(O(t))].ev
      <4> HIDE DEF O
      <4> QED BY <3>2, <3>3, <3>4, <3>5
    <3> QED BY <3>6 DEF LinkAt
  <2>2. CASE i = L + 1
    <3>0. r.prev = IF s # << >> /\ s[L].gen = r.gen THEN s[L].ev ELSE 0
      BY <1>4, <2>2 DEF L
    <3>1. t[i] = r
      BY <1>1, <2>2
    <3>2. O(t) = {j \in 1..L : s[j].gen = r.gen}
      BY <1>1, <2>2, <3>1
    <3>3. CASE L = 0
      <4>1. O(t) = {}
        BY <3>2, <3>3
      <4>2. r.prev = 0
        BY <3>0, <3>3, <1>s
      <4> QED BY <3>1, <4>1, <4>2 DEF LinkAt
    <3>4. CASE L # 0 /\ s[L].gen = r.gen
      <4>1. L \in 1..L /\ L \in O(t) /\ O(t) \in SUBSET (0..L) /\ O(t) # {}
        BY <1>1, <3>2, <3>4
      <4> HIDE DEF O
      <4>2. Max(O(t)) \in O(t) /\ \A y \in O(t) : Max(O(t)) >= y
        BY <1>1, <4>1, MaxIsGreatest
      <4>3. Max(O(t)) = L
        BY <1>1, <4>1, <4>2
      <4>4. r.prev = s[L].ev /\ t[L] = s[L]
        BY <1>1, <1>s, <3>0, <3>4, <4>1
      <4>5. t[i].prev = IF O(t) = {} THEN 0 ELSE t[Max(O(t))].ev
        BY <3>1, <4>1, <4>3, <4>4
      <4> QED BY <4>5 DEF LinkAt, O
    <3>5. CASE L # 0 /\ s[L].gen # r.gen
      <4>1. L \in 1..L /\ s[L].gen < r.gen
        BY <1>1, <1>2, <3>5 DEF L
      <4>2. \A j \in 1..L : s[j].gen <= s[L].gen
        BY <1>1, <4>1 DEF L
      <4>3. O(t) = {}
        BY <1>2, <3>2, <4>1, <4>2
      <4>4. r.prev = 0
        BY <3>0, <3>5
      <4> QED BY <3>1, <4>3, <4>4 DEF LinkAt
    <3> QED BY <3>3, <3>4, <3>5
  <2> QED BY <2>1, <2>2, <1>1
<1> QED BY <1>3, <1>4 DEF L, t

LEMMA WireStep ==
  ASSUME NoFallback
  PROVE  SinkTypes /\ Locking /\ ChainInv /\ GenInv /\ WireInv /\ [Next]_vars => WireInv'
<1> SUFFICES ASSUME SinkTypes, Locking, Pending, Current, Monotone, Anchored, WireChain, [Next]_vars
             PROVE  Monotone' /\ Anchored' /\ WireChain'
  BY DEF ChainInv, GenInv, WireInv
<1>t. /\ WriterTypes /\ ChainTypes /\ BoundTypes /\ WalTypes
      /\ wal \in Seq(RecordType) /\ Len(wal) \in Nat /\ DOMAIN wal = 1..Len(wal)
  BY DEF SinkTypes, WalTypes
<1>w. wal' = wal /\ cuts \subseteq cuts' => Monotone' /\ WireChain'
  BY DEF Monotone, WireChain
<1>1. ASSUME UNCHANGED <<anchor, fatal, wal, cuts>>, Holding' \subseteq Holding,
             \A v \in Writers : writer'[v].pc \in {"append", "commit"} => writer'[v] = writer[v],
             \A v \in Writers : writer'[v].pc = "commit" <=> writer[v].pc = "commit"
      PROVE  Anchored'
  <2>1. Settled' = Settled
    BY <1>1, SettledFacts
  <2>2. ~fatal' => ~fatal
    BY <1>1, Zenon
  <2>3. \A w \in Holding' : w \in Holding /\ writer'[w] = writer[w]
    BY <1>1 DEF Holding
  <2> QED BY <1>1, <2>1, <2>2, <2>3 DEF Anchored
<1>2. ASSUME fatal' = TRUE, Holding' = {} PROVE Anchored'
  BY <1>2 DEF Anchored
\* The record a writer appends.
<1>3. ASSUME NEW w \in Writers, writer[w].pc = "append", wal' = Append(wal, RecordOf(w)), cuts' = cuts
      PROVE  Monotone' /\ WireChain'
  <2>1. w \in Holding
    BY <1>3 DEF Holding
  <2>2. Holding = {w} /\ ~fatal
    BY <2>1 DEF Locking
  <2>3. Settled = Len(wal)
    BY <1>3, <2>2 DEF Settled, Holding
  <2> DEFINE r == RecordOf(w)
  <2>4. r \in RecordType
    BY <1>3, <1>t, RecordOfType
  <2>5. r.gen = alloc[1] /\ r.prev = writer[w].prev /\ writer[w].gen = alloc[1]
    BY <1>3 DEF RecordOf, Current
  <2>6. writer[w].prev = IF alloc[1] = anchor.gen THEN anchor.hash ELSE 0
    BY <2>1, <2>5 DEF Anchored
  <2>7. Len(wal) + 1 \notin cuts =>
            IF Len(wal) = 0 THEN anchor.hash = 0
            ELSE anchor.gen = wal[Len(wal)].gen /\ anchor.hash = wal[Len(wal)].ev
    BY <2>2, <2>3 DEF Anchored
  <2> HIDE DEF r
  <2>8. Len(wal) + 1 \notin cuts =>
            r.prev = IF wal # << >> /\ wal[Len(wal)].gen = r.gen THEN wal[Len(wal)].ev ELSE 0
    <3>1. wal # << >> <=> Len(wal) # 0
      BY <1>t
    <3> QED BY <2>5, <2>6, <2>7, <3>1
  <2>9. \A i \in 1..Len(wal) : wal[i].gen <= r.gen
    BY <1>t, <2>5 DEF Current
  <2>10. \A i \in 1..Len(wal) : i \notin cuts => LinkAt(wal, i)
    BY <1>t DEF WireChain, LinkAt
  <2>11. \A i, j \in 1..Len(wal) : i <= j => wal[i].gen <= wal[j].gen
    BY <1>t DEF Monotone
  <2>12. /\ \A i, j \in 1..(Len(wal) + 1) : i <= j => Append(wal, r)[i].gen <= Append(wal, r)[j].gen
         /\ \A i \in 1..(Len(wal) + 1) : i \notin cuts => LinkAt(Append(wal, r), i)
    BY <1>t, <2>4, <2>8, <2>9, <2>10, <2>11, WireAppend
  <2>13. wal' = Append(wal, r) /\ DOMAIN wal' = 1..(Len(wal) + 1)
    <3>1. wal' = Append(wal, r)
      BY <1>3 DEF r
    <3> QED BY <3>1, <1>t, <2>4
  <2>14. Monotone'
    BY <2>12, <2>13 DEF Monotone
  <2>15. \A i \in DOMAIN wal' \ cuts' : LinkAt(wal', i)
    BY <1>3, <2>12, <2>13
  <2>16. WireChain'
    BY <2>15 DEF WireChain, LinkAt
  <2> QED BY <2>14, <2>16
<1>4. ASSUME NEW w \in Writers, Aside(w) PROVE Monotone' /\ Anchored' /\ WireChain'
  BY <1>4, <1>1, <1>w, AsideFacts DEF opened
<1>5. ASSUME NEW w \in Writers, (Reject(w) /\ fatal' # fatal) \/ WalAppendAmbiguous(w)
      PROVE  Monotone' /\ Anchored' /\ WireChain'
  <2>1. fatal' = TRUE
    BY <1>5, Zenon DEF Reject, WalAppendAmbiguous
  <2>2. Holding' = {}
    <3>1. Holding' = Holding \ {w}
      BY <1>5, HoldingFacts DEF Reject, WalAppendAmbiguous
    <3>2. Holding = {} \/ w \in Holding
      BY <1>5 DEF Reject, Entering, WalAppendAmbiguous, Holding
    <3> QED BY <3>1, <3>2 DEF Locking
  <2>3. wal' = wal \/ (writer[w].pc = "append" /\ wal' = Append(wal, RecordOf(w)))
    BY <1>5 DEF Reject, WalAppendAmbiguous, walVars
  <2>4. cuts' = cuts
    BY <1>5 DEF Reject, WalAppendAmbiguous, opened
  <2> QED BY <1>2, <1>3, <1>w, <2>1, <2>2, <2>3, <2>4
<1>6. ASSUME NEW w \in Writers, Compute(w) PROVE Monotone' /\ Anchored' /\ WireChain'
  <2>1. Holding = {} /\ Holding' = {w}
    BY <1>6, HoldingFacts
  <2>2. /\ writer[w].pc = "fanout" /\ writer'[w].pc = "append" /\ writer'[w].gen = writer[w].gen
        /\ writer'[w].prev = IF writer[w].gen = anchor.gen THEN anchor.hash ELSE 0
        /\ \A v \in Writers : v # w => writer'[v] = writer[v]
    BY <1>6, <1>t, ComputeFacts
  <2>3. UNCHANGED <<anchor, fatal, wal, cuts>>
    BY <1>6 DEF Compute, chainVars, walVars, opened
  <2>4. \A v \in Writers : writer'[v].pc # "commit" /\ writer[v].pc # "commit"
    BY <2>1, <2>2 DEF Holding
  <2>5. Settled' = Settled
    BY <2>3, <2>4, SettledFacts
  <2>6. ~fatal' => ~fatal
    BY <2>3, Zenon
  <2>7. Anchored'
    BY <2>1, <2>2, <2>3, <2>5, <2>6 DEF Anchored
  <2> QED BY <1>w, <2>3, <2>7
<1>7. ASSUME NEW w \in Writers, WalAppend(w) PROVE Monotone' /\ Anchored' /\ WireChain'
  <2>1. w \in Holding /\ Holding' = Holding
    BY <1>7, HoldingFacts
  <2>2. Holding = {w} /\ ~fatal
    BY <2>1 DEF Locking
  <2>3. /\ writer[w].pc = "append" /\ writer'[w].pc = "commit"
        /\ writer'[w].gen = writer[w].gen /\ writer'[w].prev = writer[w].prev
        /\ \A v \in Writers : v # w => writer'[v] = writer[v]
    BY <1>7, <1>t, GotoFacts DEF WalAppend
  <2>4. wal' = Append(wal, RecordOf(w)) /\ UNCHANGED <<anchor, fatal, cuts>>
    BY <1>7 DEF WalAppend, chainVars, opened
  <2>5. RecordOf(w) \in RecordType
    BY <1>t, <2>3, RecordOfType
  <2>6. Len(wal') = Len(wal) + 1 /\ \A i \in 1..Len(wal) : wal'[i] = wal[i]
    BY <1>t, <2>4, <2>5, AppendProperties
  <2>7. Settled = Len(wal) /\ Settled' = Len(wal)
    <3>1. \A v \in Writers : writer[v].pc # "commit"
      BY <2>2, <2>3 DEF Holding
    <3>2. Settled = Len(wal)
      BY <3>1 DEF Settled
    <3>3. Settled' = Len(wal') - 1
      BY <2>3 DEF Settled
    <3> QED BY <2>6, <3>2, <3>3, <1>t
  <2>8. Len(wal) + 1 \notin cuts =>
            IF Len(wal) = 0 THEN anchor'.hash = 0
            ELSE anchor'.gen = wal'[Len(wal)].gen /\ anchor'.hash = wal'[Len(wal)].ev
    <3>1. Len(wal) # 0 => Len(wal) \in 1..Len(wal)
      BY <1>t
    <3> QED BY <2>2, <2>4, <2>6, <2>7, <3>1 DEF Anchored
  <2>9. \A v \in Holding' :
            writer'[v].prev = IF writer'[v].gen = anchor'.gen THEN anchor'.hash ELSE 0
    BY <2>1, <2>2, <2>3, <2>4 DEF Anchored
  <2>10. Anchored'
    BY <2>4, <2>7, <2>8, <2>9 DEF Anchored
  <2> QED BY <1>3, <2>3, <2>4, <2>10
<1>8. ASSUME NEW w \in Writers, Commit(w) PROVE Monotone' /\ Anchored' /\ WireChain'
  <2>1. Committable(w) /\ writer[w].pc = "commit" /\ w \in Holding
    BY <1>8, AlwaysCommittable DEF Commit, Holding
  <2>2. Holding' = {}
    BY <1>8, <2>1, HoldingFacts DEF Commit, Locking
  <2>3. anchor'.gen = writer[w].gen /\ anchor'.hash = writer[w].ev /\ wal' = wal /\ cuts' = cuts
    BY <1>8, <2>1 DEF Commit, walVars, opened
  <2>4. wal # << >> /\ wal[Len(wal)].gen = writer[w].gen /\ wal[Len(wal)].ev = writer[w].ev
    <3>1. wal # << >> /\ wal[Len(wal)] = RecordOf(w)
      BY <2>1 DEF Pending
    <3>2. RecordOf(w).gen = writer[w].gen /\ RecordOf(w).ev = writer[w].ev
      BY DEF RecordOf
    <3> QED BY <3>1, <3>2
  <2>5. Settled' = Len(wal) /\ Len(wal) # 0
    BY <1>t, <2>2, <2>3, <2>4, SettledFacts
  <2>6. Anchored'
    BY <2>2, <2>3, <2>4, <2>5 DEF Anchored
  <2> QED BY <1>w, <2>3, <2>6
<1>9. CASE NextGeneration \/ Reclaim \/ CloseStart \/ CloseStep \/ RunExit \/ UNCHANGED vars
  <2>1. UNCHANGED <<writer, anchor, fatal, wal, cuts>>
    BY <1>9 DEF NextGeneration, Reclaim, CloseStart, CloseStep, RunExit, Drained, RunDone,
                DrainDeadline, SafetyNet, WalClose, vars, chainVars, walVars, opened
  <2> QED BY <1>1, <1>w, <2>1, HoldingFacts
<1>10. CASE Restart
  <2>1. Holding' = {} /\ Settled' = Len(wal) /\ wal' = wal /\ cuts \subseteq cuts'
    BY <1>10, HoldingFacts, SettledFacts DEF Restart
  <2>2. /\ anchor'.gen = Restored.gen
        /\ anchor'.hash = IF Restored.prev = << >> THEN 0 ELSE Last(Restored.prev)
    BY <1>10 DEF Restart
  <2>3. CASE wal = << >>
    <3>1. Restored.prev = << >>
      BY <2>3, <1>t, RestoredFacts DEF Disk
    <3>2. Len(wal) = 0
      BY <2>3
    <3>3. Anchored'
      BY <2>1, <2>2, <3>1, <3>2 DEF Anchored
    <3> QED BY <1>w, <2>1, <3>3
  <2>a. CASE Len(wal) \in gone
    <3>1. Len(wal) + 1 \in cuts'
      BY <1>10, <2>a DEF Restart
    <3>2. Anchored'
      BY <2>1, <3>1 DEF Anchored
    <3> QED BY <1>w, <2>1, <3>2
  <2>4. CASE wal # << >> /\ Len(wal) \notin gone
    <3> DEFINE L == Len(wal)
               g == Restored.gen
               P == Own(gone, g)
    <3>1. L \in 1..L /\ L \notin gone /\ L # 0 /\ L \in Nat /\ Disk # {}
      BY <1>t, <2>4 DEF Disk
    <3>2. PICK j \in 1..L : wal[j].gen = g
      BY <1>t, <3>1, RestoredFacts
    <3>3. wal[L].gen <= g /\ g <= wal[L].gen
      <4>1. wal[L].gen <= g
        BY <1>t, <3>1, RestoredFacts
      <4>2. j <= L /\ wal[j].gen <= wal[L].gen
        BY <1>t, <3>1, <3>2 DEF Monotone
      <4> QED BY <3>2, <4>1, <4>2
    <3>4. wal[L].gen = g
      <4>1. wal[L].gen \in Nat /\ wal[j].gen \in Nat
        BY <3>1, GenTypes
      <4> HIDE DEF L, g
      <4> QED BY <3>2, <3>3, <4>1
    <3>5. L \in P /\ P \in SUBSET (0..L) /\ P \subseteq 1..L
      BY <1>t, <3>1, <3>4 DEF Own
    <3>6. Restored.prev = Listed(wal, P)
      BY <1>t, RestoredFacts DEF EventsAt, Listed
    <3> HIDE DEF P, g, L
    <3>7. Max(P) \in P /\ \A y \in P : Max(P) >= y
      BY <3>1, <3>5, MaxIsGreatest
    <3>8. Max(P) = L
      <4>1. Max(P) \in 1..L /\ Max(P) >= L
        BY <3>5, <3>7
      <4> QED BY <3>1, <4>1
    <3>9. Restored.prev # << >> /\ Last(Restored.prev) = wal[L].ev
      BY <1>t, <3>5, <3>6, <3>8, EventsLast DEF L
    <3>10. anchor'.gen = wal'[L].gen /\ anchor'.hash = wal'[L].ev
      BY <2>1, <2>2, <3>4, <3>9 DEF g
    <3>11. Anchored'
      BY <2>1, <3>1, <3>10 DEF Anchored, L
    <3> QED BY <1>w, <2>1, <3>11
  <2> QED BY <2>3, <2>a, <2>4
<1>11. ASSUME NEW w \in Writers, AppendEvent(w) PROVE Monotone' /\ Anchored' /\ WireChain'
  BY <1>11, <1>4, <1>5, <1>6, <1>7, <1>8 DEF AppendEvent, Aside
<1> QED BY <1>9, <1>10, <1>11 DEF Next

LEMMA WireInit == Init => WireInv
<1> SUFFICES ASSUME Init PROVE WireInv
  OBVIOUS
<1>1. wal = << >> /\ Len(wal) = 0 /\ anchor.hash = 0 /\ Holding = {}
  BY OutsideType DEF Init, Holding
<1>2. Settled = 0
  BY <1>1, SettledFacts
<1> QED BY <1>1, <1>2 DEF WireInv, Monotone, Anchored, WireChain

\* The wire chain the server verifies is unbroken in every generation, through
\* concurrent writers, failed appends, reclamation, crashes and restarts, but
\* for the first record of a process that did not find the one before it on
\* disk; if the allocator does not fall back to an older generation.
THEOREM WireUnbroken ==
  ASSUME NoFallback
  PROVE  Spec => []WireChain
<1>1. SinkTypes /\ Locking /\ ChainInv /\ GenInv /\ WireInv /\ [Next]_vars => WireInv'
  BY WireStep
<1>2. WireInv => WireChain
  BY DEF WireInv
<1> QED BY <1>1, <1>2, WireInit, TypeInvariance, LockInvariance, ChainInvariance, GenInvariance, PTL
        DEF Spec
=============================================================================
