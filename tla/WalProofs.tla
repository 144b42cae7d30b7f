----------------------------- MODULE WalProofs -----------------------------
(***************************************************************************)
(* Theorems about Wal, for every set of generations and sequences and for  *)
(* every size of headers, records, segments and of the whole log; and that *)
(* it implements AuditLog: every step of the file-by-file log is a step of *)
(* the abstract one or changes nothing its users can see.                  *)
(***************************************************************************)
EXTENDS Wal, BaseProofs, SequenceTheorems

-----------------------------------------------------------------------------
(* What the three ways of changing the directory do to the file sequence.  *)

LEMMA SeqDomain ==
  ASSUME NEW ss \in Seq(Segments)
  PROVE  DOMAIN ss = 1..Len(ss)
OBVIOUS

\* Removing file i shifts the later files down by one.
LEMMA UnlinkFiles ==
  ASSUME NEW ss \in Seq(Segments), NEW i \in 1..Len(ss)
  PROVE  /\ Without(ss, i) \in Seq(Segments)
         /\ Len(Without(ss, i)) = Len(ss) - 1
         /\ \A j \in 1..(Len(ss) - 1) :
               Without(ss, i)[j] = IF j < i THEN ss[j] ELSE ss[j + 1]
<1>1. Len(ss) - 1 \in Nat
  OBVIOUS
<1>2. \A j \in 1..(Len(ss) - 1) : ss[IF j < i THEN j ELSE j + 1] \in Segments
  OBVIOUS
<1> QED BY <1>1, <1>2 DEF Without

\* Writing a record changes only the last file, and appends to it.
LEMMA PutFiles ==
  ASSUME NEW ss \in Seq(Segments), ss # << >>, NEW r \in Records
  PROVE  /\ WithRecord(ss, r) \in Seq(Segments)
         /\ Len(WithRecord(ss, r)) = Len(ss)
         /\ \A j \in 1..Len(ss) : j # Len(ss) => WithRecord(ss, r)[j] = ss[j]
         /\ WithRecord(ss, r)[Len(ss)].gen = ss[Len(ss)].gen
         /\ WithRecord(ss, r)[Len(ss)].recs = Append(ss[Len(ss)].recs, r)
<1> DEFINE n == Len(ss)
<1>1. n \in Nat /\ n \in 1..Len(ss) /\ ss[n] \in Segments
  OBVIOUS
<1>2. RecordSize(r) \in Nat
  BY WalConstants DEF RecordSize
<1>3. /\ AddRecord(ss[n], r).gen = ss[n].gen
      /\ AddRecord(ss[n], r).recs = Append(ss[n].recs, r)
      /\ AddRecord(ss[n], r).bytes = ss[n].bytes + RecordSize(r)
      /\ AddRecord(ss[n], r) \in Segments
  BY <1>1, <1>2 DEF AddRecord, Segments
<1>4. WithRecord(ss, r) = [ss EXCEPT ![n] = AddRecord(ss[n], r)]
  BY DEF WithRecord
<1> HIDE DEF n
<1> QED BY <1>1, <1>3, <1>4 DEF n

\* A new file holds its header only.
LEMMA NewFiles ==
  ASSUME NEW ss \in Seq(Segments), NEW g \in Gens
  PROVE  /\ Append(ss, NewSegment(g)) \in Seq(Segments)
         /\ Len(Append(ss, NewSegment(g))) = Len(ss) + 1
         /\ \A j \in 1..Len(ss) : Append(ss, NewSegment(g))[j] = ss[j]
         /\ Append(ss, NewSegment(g))[Len(ss) + 1] = NewSegment(g)
         /\ Append(ss, NewSegment(g)) # << >>
<1>1. NewSegment(g) \in Segments
  <2>1. << >> \in Seq(Records)
    OBVIOUS
  <2> QED BY <2>1, WalConstants DEF NewSegment, Segments
<1> QED BY <1>1

-----------------------------------------------------------------------------
(* What they do to the set of user records on disk and to their order.     *)

LEMMA DataInMember ==
  ASSUME NEW ss \in Seq(Segments), NEW t
  PROVE  t \in DataIn(ss) <=>
            \E i \in 1..Len(ss) : \E p \in DataAt(ss[i]) :
                t = <<ss[i].recs[p].gen, ss[i].recs[p].from>>
<1>1. DOMAIN ss = 1..Len(ss)
  OBVIOUS
<1>2. t \in DataIn(ss) <=> \E i \in 1..Len(ss) : t \in DataOf(ss[i])
  BY <1>1 DEF DataIn
<1>3. \A seg : t \in DataOf(seg) <=>
                 \E p \in DataAt(seg) : t = <<seg.recs[p].gen, seg.recs[p].from>>
  BY Zenon DEF DataOf
<1> QED BY <1>2, <1>3

LEMMA DataIsTuples ==
  ASSUME NEW ss \in Seq(Segments)
  PROVE  DataIn(ss) \subseteq Tuples
<1>1. SUFFICES ASSUME NEW i \in 1..Len(ss), NEW p \in DataAt(ss[i])
               PROVE  <<ss[i].recs[p].gen, ss[i].recs[p].from>> \in Tuples
  BY DataInMember
<1>0. ss[i] \in Segments /\ p \in DOMAIN ss[i].recs
  BY DEF DataAt
<1>2. ss[i].recs \in Seq(Records) /\ p \in 1..Len(ss[i].recs)
  BY <1>0 DEF Segments
<1>3. ss[i].recs[p] \in Records
  BY <1>2
<1> QED BY <1>3 DEF Records, Tuples

LEMMA UnlinkData ==
  ASSUME NEW ss \in Seq(Segments), NEW i \in 1..Len(ss)
  PROVE  /\ DataIn(Without(ss, i)) \subseteq DataIn(ss)
         /\ DataIn(ss) \ DataIn(Without(ss, i)) \subseteq DataOf(ss[i])
<1> DEFINE tt == Without(ss, i)
<1>0. Len(ss) \in Nat
  OBVIOUS
<1>1. /\ tt \in Seq(Segments) /\ Len(tt) = Len(ss) - 1
      /\ \A j \in 1..(Len(ss) - 1) : tt[j] = IF j < i THEN ss[j] ELSE ss[j + 1]
  BY UnlinkFiles
<1> HIDE DEF tt
<1>2. ASSUME NEW t \in DataIn(tt) PROVE t \in DataIn(ss)
  <2>1. PICK j \in 1..Len(tt) : t \in DataOf(tt[j])
    BY <1>1 DEF DataIn
  <2>2. j \in 1..Len(ss) /\ j + 1 \in 1..Len(ss)
    BY <1>0, <1>1
  <2>3. t \in DataOf(ss[j]) \/ t \in DataOf(ss[j + 1])
    BY <1>0, <1>1, <2>1
  <2> QED BY <2>2, <2>3 DEF DataIn
<1>3. ASSUME NEW t \in DataIn(ss), t \notin DataOf(ss[i]) PROVE t \in DataIn(tt)
  <2>1. PICK j \in 1..Len(ss) : t \in DataOf(ss[j])
    BY DEF DataIn
  <2>2. j # i
    BY <2>1, <1>3
  <2>3. CASE j < i
    <3>1. j \in 1..Len(tt) /\ tt[j] = ss[j]
      BY <1>0, <1>1, <2>3
    <3> QED BY <3>1, <2>1, <1>1 DEF DataIn
  <2>4. CASE j > i
    <3>1. j - 1 \in 1..Len(tt) /\ tt[j - 1] = ss[j]
      BY <1>0, <1>1, <2>4
    <3> QED BY <3>1, <2>1, <1>1 DEF DataIn
  <2> QED BY <2>2, <2>3, <2>4
<1> QED BY <1>2, <1>3 DEF tt

LEMMA UnlinkOrdered ==
  ASSUME NEW ss \in Seq(Segments), NEW i \in 1..Len(ss), NEW L, Ordered(ss, L)
  PROVE  Ordered(Without(ss, i), L)
<1> DEFINE tt == Without(ss, i)
           at(j) == IF j < i THEN j ELSE j + 1
<1>0. Len(ss) \in Nat
  OBVIOUS
<1>1. /\ tt \in Seq(Segments) /\ Len(tt) = Len(ss) - 1
      /\ \A j \in 1..(Len(ss) - 1) : tt[j] = IF j < i THEN ss[j] ELSE ss[j + 1]
  BY UnlinkFiles
<1>2. \A j \in DOMAIN tt : at(j) \in DOMAIN ss /\ tt[j] = ss[at(j)]
  BY <1>0, <1>1
<1>3. \A j, k \in DOMAIN tt : (j < k => at(j) < at(k)) /\ (j = k => at(j) = at(k))
  BY <1>0, <1>1
<1> HIDE DEF tt, at
<1>4. \A j \in DOMAIN tt : \A p : TupleAt(tt, j, p) = TupleAt(ss, at(j), p)
  BY <1>2 DEF TupleAt
<1>5. \A j \in DOMAIN tt : \A p \in DataAt(tt[j]) : tt[j].recs[p].gen = tt[j].gen
  BY <1>2 DEF Ordered
<1>6. \A j, k \in DOMAIN tt : \A p \in DataAt(tt[j]), q \in DataAt(tt[k]) :
         (j < k \/ (j = k /\ p < q))
            => TupleAt(tt, k, q) \in L \/ TupleLess(TupleAt(tt, j, p), TupleAt(tt, k, q))
  <2> TAKE j, k \in DOMAIN tt
  <2> TAKE p \in DataAt(tt[j]), q \in DataAt(tt[k])
  <2> HAVE j < k \/ (j = k /\ p < q)
  <2>1. at(j) < at(k) \/ (at(j) = at(k) /\ p < q)
    BY <1>3
  <2>2. p \in DataAt(ss[at(j)]) /\ q \in DataAt(ss[at(k)]) /\ at(j) \in DOMAIN ss /\ at(k) \in DOMAIN ss
    BY <1>2
  <2>3. TupleAt(ss, at(k), q) \in L \/ TupleLess(TupleAt(ss, at(j), p), TupleAt(ss, at(k), q))
    BY <2>1, <2>2 DEF Ordered
  <2> QED BY <2>3, <1>4
<1> QED BY <1>5, <1>6 DEF Ordered, tt

\* The user records of a file after a record is appended to it.
LEMMA AppendedRecs ==
  ASSUME NEW a \in Segments, NEW b \in Segments, NEW r \in Records, b.recs = Append(a.recs, r)
  PROVE  /\ \A p \in DataAt(a) : p \in DataAt(b) /\ b.recs[p] = a.recs[p]
                                 /\ p \in 1..Len(a.recs)
         /\ \A p \in DataAt(b) : \/ p \in DataAt(a) /\ b.recs[p] = a.recs[p]
                                 \/ p = Len(a.recs) + 1 /\ b.recs[p] = r /\ r.kind = "data"
         /\ r.kind = "data" => Len(a.recs) + 1 \in DataAt(b) /\ b.recs[Len(a.recs) + 1] = r
         /\ Len(a.recs) \in Nat
<1>1. a.recs \in Seq(Records)
  BY DEF Segments
<1> DEFINE n == Len(a.recs)
<1>2. /\ n \in Nat /\ DOMAIN a.recs = 1..n
      /\ DOMAIN b.recs = 1..(n + 1)
      /\ \A p \in 1..n : b.recs[p] = a.recs[p]
      /\ b.recs[n + 1] = r
  BY <1>1
<1> HIDE DEF n
<1> QED BY <1>2 DEF DataAt, n

LEMMA PutData ==
  ASSUME NEW ss \in Seq(Segments), ss # << >>, NEW r \in Records
  PROVE  /\ DataIn(ss) \subseteq DataIn(WithRecord(ss, r))
         /\ \A t \in DataIn(WithRecord(ss, r)) :
               t \in DataIn(ss) \/ (r.kind = "data" /\ t = <<r.gen, r.from>>)
         /\ r.kind = "data" => <<r.gen, r.from>> \in DataIn(WithRecord(ss, r))
<1> DEFINE n == Len(ss)
           tt == WithRecord(ss, r)
<1>1. /\ tt \in Seq(Segments) /\ Len(tt) = n
      /\ \A j \in 1..n : j # n => tt[j] = ss[j]
      /\ tt[n].recs = Append(ss[n].recs, r)
  BY PutFiles
<1> HIDE DEF tt
<1>1a. tt \in Seq(Segments)
  BY <1>1
<1>2. n \in Nat /\ n \in 1..n /\ ss[n] \in Segments /\ DOMAIN ss = 1..n
  OBVIOUS
<1>2a. ss[n] \in Segments /\ tt[n] \in Segments /\ tt[n].recs = Append(ss[n].recs, r)
  BY <1>1, <1>2
<1> HIDE DEF n
<1>3. /\ \A p \in DataAt(ss[n]) : p \in DataAt(tt[n]) /\ tt[n].recs[p] = ss[n].recs[p]
      /\ \A p \in DataAt(tt[n]) : \/ p \in DataAt(ss[n]) /\ tt[n].recs[p] = ss[n].recs[p]
                                  \/ tt[n].recs[p] = r /\ r.kind = "data"
      /\ r.kind = "data" => \E p \in DataAt(tt[n]) : tt[n].recs[p] = r
  <2>1. \A p \in DataAt(ss[n]) : /\ p \in DataAt(tt[n]) /\ tt[n].recs[p] = ss[n].recs[p]
                                 /\ p \in 1..Len(ss[n].recs)
    BY <1>2, <1>2a, AppendedRecs
  <2>2. \A p \in DataAt(tt[n]) :
           \/ p \in DataAt(ss[n]) /\ tt[n].recs[p] = ss[n].recs[p]
           \/ p = Len(ss[n].recs) + 1 /\ tt[n].recs[p] = r /\ r.kind = "data"
    BY <1>2, <1>2a, AppendedRecs
  <2>3. r.kind = "data" => /\ Len(ss[n].recs) + 1 \in DataAt(tt[n])
                           /\ tt[n].recs[Len(ss[n].recs) + 1] = r
    BY <1>2, <1>2a, AppendedRecs
  <2> QED BY <2>1, <2>2, <2>3
<1>4. ASSUME NEW t \in DataIn(ss) PROVE t \in DataIn(tt)
  <2>1. PICK i \in 1..Len(ss) : \E p \in DataAt(ss[i]) : t = <<ss[i].recs[p].gen, ss[i].recs[p].from>>
    BY DataInMember
  <2>2. PICK p \in DataAt(ss[i]) : t = <<ss[i].recs[p].gen, ss[i].recs[p].from>>
    BY <2>1
  <2>3. p \in DataAt(tt[i]) /\ tt[i].recs[p] = ss[i].recs[p] /\ i \in 1..Len(tt)
    BY <1>1, <1>3 DEF n
  <2> QED BY <2>2, <2>3, <1>1, DataInMember
<1>5. ASSUME NEW t \in DataIn(tt)
      PROVE  t \in DataIn(ss) \/ (r.kind = "data" /\ t = <<r.gen, r.from>>)
  <2>1. PICK i \in 1..Len(tt) : \E p \in DataAt(tt[i]) : t = <<tt[i].recs[p].gen, tt[i].recs[p].from>>
    BY <1>1a, DataInMember
  <2>2. PICK p \in DataAt(tt[i]) : t = <<tt[i].recs[p].gen, tt[i].recs[p].from>>
    BY <2>1
  <2>3. \/ p \in DataAt(ss[i]) /\ tt[i].recs[p] = ss[i].recs[p]
        \/ tt[i].recs[p] = r /\ r.kind = "data"
    BY <1>1, <1>3
  <2>4. i \in 1..Len(ss)
    BY <1>1 DEF n
  <2> QED BY <2>2, <2>3, <2>4, DataInMember
<1>6. ASSUME r.kind = "data" PROVE <<r.gen, r.from>> \in DataIn(tt)
  <2>1. PICK p \in DataAt(tt[n]) : tt[n].recs[p] = r
    BY <1>3, <1>6
  <2> QED BY <2>1, <1>1, <1>2, DataInMember
<1> QED BY <1>4, <1>5, <1>6 DEF tt

\* A record placed at the end, of the generation of the last file, keeps the
\* order if it is one of L or above every record on disk.
LEMMA PutOrdered ==
  ASSUME NEW ss \in Seq(Segments), ss # << >>, NEW r \in Records, NEW L,
         Ordered(ss, L),
         r.kind = "data" => /\ r.gen = ss[Len(ss)].gen
                            /\ \/ <<r.gen, r.from>> \in L
                               \/ \A t \in DataIn(ss) : TupleLess(t, <<r.gen, r.from>>)
  PROVE  Ordered(WithRecord(ss, r), L)
<1> DEFINE n == Len(ss)
           tt == WithRecord(ss, r)
<1>1. /\ tt \in Seq(Segments) /\ Len(tt) = n
      /\ \A j \in 1..n : j # n => tt[j] = ss[j]
      /\ tt[n].gen = ss[n].gen
      /\ tt[n].recs = Append(ss[n].recs, r)
  BY PutFiles
<1> HIDE DEF tt
<1>a. n \in Nat /\ n \in 1..n /\ ss[n] \in Segments /\ DOMAIN ss = 1..n
  OBVIOUS
<1>b. DOMAIN tt = 1..n
  BY <1>1
<1>2. n \in Nat /\ n \in 1..n /\ ss[n] \in Segments /\ DOMAIN ss = 1..n /\ DOMAIN tt = 1..n
  BY <1>a, <1>b
<1>c. tt[n] \in Segments /\ tt[n].recs = Append(ss[n].recs, r)
  BY <1>1, <1>a
<1> HIDE DEF n
<1>x. \A b \in Segments, a \in Segments : b.recs = Append(a.recs, r) =>
         /\ \A p \in DataAt(a) : p \in DataAt(b) /\ b.recs[p] = a.recs[p] /\ p \in 1..Len(a.recs)
         /\ \A p \in DataAt(b) : \/ p \in DataAt(a) /\ b.recs[p] = a.recs[p]
                                 \/ p = Len(a.recs) + 1 /\ b.recs[p] = r /\ r.kind = "data"
         /\ Len(a.recs) \in Nat
  BY AppendedRecs
<1> DEFINE m == Len(ss[n].recs) + 1
<1>3. /\ \A p \in DataAt(ss[n]) : p < m
      /\ \A p \in DataAt(tt[n]) : \/ p \in DataAt(ss[n]) /\ tt[n].recs[p] = ss[n].recs[p]
                                  \/ p = m /\ tt[n].recs[p] = r /\ r.kind = "data"
  <2>1. \A p \in DataAt(ss[n]) : /\ p \in DataAt(tt[n]) /\ tt[n].recs[p] = ss[n].recs[p]
                                 /\ p \in 1..Len(ss[n].recs)
    BY <1>a, <1>c, <1>x
  <2>2. \A p \in DataAt(tt[n]) :
           \/ p \in DataAt(ss[n]) /\ tt[n].recs[p] = ss[n].recs[p]
           \/ p = Len(ss[n].recs) + 1 /\ tt[n].recs[p] = r /\ r.kind = "data"
    BY <1>a, <1>c, <1>x
  <2>3. Len(ss[n].recs) \in Nat
    BY <1>a, <1>c, <1>x
  <2> QED BY <2>1, <2>2, <2>3
<1>4. \A i \in 1..n : \A p \in DataAt(ss[i]) :
         <<ss[i].recs[p].gen, ss[i].recs[p].from>> \in DataIn(ss)
  BY <1>2, DataInMember
<1> HIDE DEF n, m
<1>5. \A i \in 1..n : tt[i].gen = ss[i].gen
  BY <1>1
<1>6. \A i \in 1..n : \A p \in DataAt(tt[i]) :
         \/ p \in DataAt(ss[i]) /\ tt[i].recs[p] = ss[i].recs[p] /\ (i = n => p < m)
         \/ i = n /\ p = m /\ tt[i].recs[p] = r /\ r.kind = "data"
  BY <1>1, <1>3
<1>7. r.kind = "data" =>
         /\ r.gen = ss[n].gen
         /\ \/ <<r.gen, r.from>> \in L
            \/ \A i \in 1..n : \A p \in DataAt(ss[i]) : TupleLess(TupleAt(ss, i, p), <<r.gen, r.from>>)
  BY <1>4 DEF n, TupleAt
<1>9. \A i \in DOMAIN tt : \A p \in DataAt(tt[i]) : tt[i].recs[p].gen = tt[i].gen
  BY <1>2, <1>5, <1>6, <1>7 DEF Ordered
<1>10. ASSUME NEW i \in DOMAIN tt, NEW j \in DOMAIN tt,
              NEW p \in DataAt(tt[i]), NEW q \in DataAt(tt[j]),
              i < j \/ (i = j /\ p < q)
       PROVE  TupleAt(tt, j, q) \in L \/ TupleLess(TupleAt(tt, i, p), TupleAt(tt, j, q))
  <2>1. i \in 1..n /\ j \in 1..n
    BY <1>2, <1>10
  <2>2. CASE q \in DataAt(ss[j]) /\ tt[j].recs[q] = ss[j].recs[q] /\ (j = n => q < m)
    <3>1. p \in DataAt(ss[i]) /\ tt[i].recs[p] = ss[i].recs[p]
      <4>1. ~(i = n /\ p = m)
        <5> SUFFICES ASSUME i = n, p = m PROVE FALSE
          OBVIOUS
        <5>1. j = n
          BY <1>2, <1>10, <2>1
        <5>2. p < q /\ q < p
          BY <1>10, <5>1, <2>2, <1>2
        <5>3. p \in Nat /\ q \in Nat
          <6>1. ss[n].recs \in Seq(Records)
            BY <1>2 DEF Segments
          <6>2. q \in 1..Len(ss[n].recs)
            BY <2>2, <5>1, <6>1 DEF DataAt
          <6> QED BY <6>1, <6>2 DEF m
        <5> QED BY <5>2, <5>3
      <4> QED BY <4>1, <1>6, <2>1
    <3>2. TupleAt(tt, i, p) = TupleAt(ss, i, p) /\ TupleAt(tt, j, q) = TupleAt(ss, j, q)
      BY <3>1, <2>2 DEF TupleAt
    <3> QED BY <3>1, <3>2, <2>2, <2>1, <1>2, <1>10 DEF Ordered
  <2>3. CASE j = n /\ q = m /\ tt[j].recs[q] = r /\ r.kind = "data"
    <3>1. p \in DataAt(ss[i]) /\ tt[i].recs[p] = ss[i].recs[p]
      <4>1. ~(i = n /\ p = m)
        <5>1. n \in Nat /\ m \in Nat
          <6>1. ss[n].recs \in Seq(Records)
            BY <1>2 DEF Segments
          <6> QED BY <1>2, <6>1 DEF m
        <5> QED BY <2>3, <1>10, <5>1
      <4> QED BY <4>1, <1>6, <2>1
    <3>2. TupleAt(tt, i, p) = TupleAt(ss, i, p) /\ TupleAt(tt, j, q) = <<r.gen, r.from>>
      BY <3>1, <2>3 DEF TupleAt
    <3> QED BY <3>1, <3>2, <2>3, <2>1, <1>7
  <2> QED BY <2>1, <2>2, <2>3, <1>6
<1> QED BY <1>9, <1>10 DEF Ordered, tt

LEMMA NewData ==
  ASSUME NEW ss \in Seq(Segments), NEW g \in Gens, NEW L
  PROVE  /\ DataIn(Append(ss, NewSegment(g))) = DataIn(ss)
         /\ Ordered(ss, L) => Ordered(Append(ss, NewSegment(g)), L)
<1> DEFINE tt == Append(ss, NewSegment(g))
           n == Len(ss)
<1>1. /\ tt \in Seq(Segments) /\ n \in Nat
      /\ DOMAIN tt = 1..(n + 1) /\ DOMAIN ss = 1..n /\ Len(tt) = n + 1
      /\ \A j \in 1..n : tt[j] = ss[j]
      /\ tt[n + 1] = NewSegment(g)
  BY NewFiles
<1>2. DataAt(tt[n + 1]) = {} /\ tt[n + 1].gen = g
  <2>1. DOMAIN NewSegment(g).recs = {} /\ NewSegment(g).gen = g
    BY DEF NewSegment
  <2> QED BY <1>1, <2>1 DEF DataAt
<1> HIDE DEF tt, n
<1>3. \A j \in 1..(n + 1) : j \in 1..n \/ j = n + 1
  BY <1>1
<1>4. ASSUME NEW t PROVE t \in DataIn(tt) <=> t \in DataIn(ss)
  <2>1. t \in DataIn(tt) <=> \E j \in 1..(n + 1) : t \in DataOf(tt[j])
    BY <1>1 DEF DataIn
  <2>2. t \in DataIn(ss) <=> \E j \in 1..n : t \in DataOf(ss[j])
    BY <1>1 DEF DataIn
  <2>3. t \notin DataOf(tt[n + 1])
    BY <1>2 DEF DataOf
  <2> QED BY <1>1, <1>3, <2>1, <2>2, <2>3
<1>5. ASSUME Ordered(ss, L) PROVE Ordered(tt, L)
  <2>1. \A i \in DOMAIN tt : \A p \in DataAt(tt[i]) : i \in 1..n
    BY <1>1, <1>2, <1>3
  <2>4. \A i \in DOMAIN tt : \A p \in DataAt(tt[i]) : tt[i].recs[p].gen = tt[i].gen
    BY <1>1, <1>5, <2>1 DEF Ordered
  <2>5. \A i, j \in DOMAIN tt : \A p \in DataAt(tt[i]), q \in DataAt(tt[j]) :
          (i < j \/ (i = j /\ p < q))
             => TupleAt(tt, j, q) \in L \/ TupleLess(TupleAt(tt, i, p), TupleAt(tt, j, q))
    BY <1>1, <1>5, <2>1 DEF Ordered, TupleAt
  <2> QED BY <2>4, <2>5 DEF Ordered
<1> QED BY <1>4, <1>5 DEF tt

\* Tuples may be declared late at any time.
LEMMA OrderedGrows ==
  ASSUME NEW ss, NEW L, NEW M, L \subseteq M, Ordered(ss, L)
  PROVE  Ordered(ss, M)
BY DEF Ordered

-----------------------------------------------------------------------------
(* The order on ack tuples.                                                *)

AckTuples == Tuples \cup {NoAck}

LEMMA AckTupleType ==
  ASSUME NEW t \in AckTuples
  PROVE  t = <<t[1], t[2]>> /\ t[1] \in Int /\ t[2] \in Int
<1>1. CASE t \in Gens \X Seqs
  <2>1. PICK g \in Gens, q \in Seqs : t = <<g, q>>
    BY <1>1
  <2>2. g \in Nat /\ q \in Nat
    BY WalConstants
  <2> QED BY <2>1, <2>2
<1>2. CASE t = <<-1, -1>>
  BY <1>2
<1> QED BY <1>1, <1>2 DEF AckTuples, Tuples, NoAck

LEMMA TupleOrder ==
  ASSUME NEW a \in AckTuples, NEW b \in AckTuples, NEW c \in AckTuples
  PROVE  /\ TupleLeq(a, a)
         /\ TupleLeq(NoAck, a)
         /\ TupleLeq(a, b) /\ TupleLeq(b, c) => TupleLeq(a, c)
         /\ TupleLeq(a, b) /\ TupleLess(b, c) => TupleLess(a, c)
         /\ TupleLess(a, b) => TupleLeq(a, b)
         /\ TupleLeq(a, TupleMax(a, b)) /\ TupleLeq(b, TupleMax(a, b))
         /\ TupleLeq(a, c) /\ TupleLeq(b, c) => TupleLeq(TupleMax(a, b), c)
         /\ TupleMax(a, b) \in AckTuples
<1>1. /\ a = <<a[1], a[2]>> /\ a[1] \in Int /\ a[2] \in Int
      /\ b = <<b[1], b[2]>> /\ b[1] \in Int /\ b[2] \in Int
      /\ c = <<c[1], c[2]>> /\ c[1] \in Int /\ c[2] \in Int
  BY AckTupleType
<1>2. TupleLeq(NoAck, a)
  <2>1. CASE a = NoAck
    BY <2>1 DEF TupleLeq
  <2>2. CASE a \in Gens \X Seqs
    <3>1. a[1] \in Nat
      BY <2>2, WalConstants
    <3>2. NoAck[1] = -1
      BY DEF NoAck
    <3> QED BY <3>1, <3>2 DEF TupleLeq, TupleLess
  <2> QED BY <2>1, <2>2 DEF AckTuples, Tuples
<1>3. TupleLeq(a, b) /\ TupleLeq(b, c) => TupleLeq(a, c)
  BY <1>1, Lexicographic
<1>4. TupleLeq(a, b) /\ TupleLess(b, c) => TupleLess(a, c)
  BY <1>1, Lexicographic
<1>5. TupleLeq(a, TupleMax(a, b)) /\ TupleLeq(b, TupleMax(a, b))
  BY <1>1, Lexicographic
<1>6. TupleLeq(a, c) /\ TupleLeq(b, c) => TupleLeq(TupleMax(a, b), c)
  BY DEF TupleMax
<1> QED BY <1>2, <1>3, <1>4, <1>5, <1>6 DEF TupleLeq, TupleMax

-----------------------------------------------------------------------------
(* Which records a removal may take.                                       *)

\* A file segmentFullyAckedLocked accepts holds only acked records.
LEMMA FullyAckedCovers ==
  ASSUME segs \in Seq(Segments), NEW L, Ordered(segs, L), ack \in AckTuples,
         NEW i \in 1..Len(segs), FullyAcked(segs[i])
  PROVE  \A t \in DataOf(segs[i]) : TupleLeq(t, ack)
<1> SUFFICES ASSUME NEW p \in DataAt(segs[i])
             PROVE  TupleLeq(<<segs[i].recs[p].gen, segs[i].recs[p].from>>, ack)
  BY DEF DataOf
<1>1. segs[i].recs[p].gen = segs[i].gen
  BY DEF Ordered
<1>2. HasUser(segs[i]) /\ segs[i].recs[p].from \in SeqsOf(segs[i])
  BY DEF HasUser, SeqsOf
<1>3. \/ segs[i].gen < ack[1]
      \/ segs[i].gen = ack[1] /\ segs[i].recs[p].from <= ack[2]
  BY <1>2 DEF FullyAcked
<1>4. <<segs[i].recs[p].gen, segs[i].recs[p].from>> \in Tuples
  BY DataIsTuples, DataInMember
<1>5. segs[i].recs[p].gen \in Int /\ segs[i].recs[p].from \in Int
  <2>1. segs[i].recs[p].gen \in Gens /\ segs[i].recs[p].from \in Seqs
    BY <1>4 DEF Tuples
  <2>2. (\A x \in Gens : x \in Int) /\ (\A x \in Seqs : x \in Int)
    BY WalConstants
  <2> QED BY <2>1, <2>2, Zenon
<1>6. ack = <<ack[1], ack[2]>> /\ ack[1] \in Int /\ ack[2] \in Int
  BY AckTupleType
<1> QED BY <1>1, <1>3, <1>5, <1>6 DEF TupleLeq, TupleLess

\* The range of an overflow marker covers every user record of its file, if
\* none of them arrived late.
LEMMA DroppedRangeCovers ==
  ASSUME NEW ss \in Seq(Segments), NEW L, Ordered(ss, L), NEW i \in 1..Len(ss), HasUser(ss[i])
  PROVE  /\ DroppedRange(ss[i]) \in Records
         /\ DataOf(ss[i]) \cap L = {} => DataOf(ss[i]) \subseteq Covered(DroppedRange(ss[i]))
<1> DEFINE seg == ss[i]
           n == Len(seg.recs)
           D == DataAt(seg)
           lo == Min(D)
           hi == Max(D)
<1>0. seg \in Segments
  OBVIOUS
<1>1. seg \in Segments /\ seg.recs \in Seq(Records) /\ n \in Nat
  <2> HIDE DEF seg
  <2>1. seg.recs \in Seq(Records)
    BY <1>0 DEF Segments
  <2> QED BY <1>0, <2>1
<1>2. D \subseteq 1..n /\ D # {}
  BY <1>1 DEF DataAt, HasUser
<1>3. lo \in D /\ \A p \in D : lo <= p
  BY <1>1, <1>2, MinIsLeast
<1>4. hi \in D /\ \A p \in D : hi >= p
  <2>1. D \in SUBSET (0..n) /\ D # {}
    BY <1>1, <1>2
  <2> HIDE DEF D, n
  <2> QED BY <1>1, <2>1, MaxIsGreatest
<1>5. \A p \in D : seg.recs[p] \in Records /\ seg.recs[p].gen = seg.gen
  BY <1>1, <1>2 DEF Ordered
<1>7. \A p \in D : seg.recs[p].from \in Seqs /\ seg.recs[p].from \in Nat /\ p \in Nat
  <2> TAKE p \in D
  <2>1. p \in Nat
    BY <1>1, <1>2
  <2>2. seg.recs[p].from \in Seqs
    BY <1>5 DEF Records
  <2>3. \A x : x \in Seqs => x \in Nat
    BY WalConstants
  <2> QED BY <2>1, <2>2, <2>3, Zenon
<1>8. seg.gen \in Gens /\ seg.gen \in Int
  <2>1. seg.gen \in Gens
    BY <1>1 DEF Segments
  <2>2. \A x \in Gens : x \in Int
    BY WalConstants
  <2> QED BY <2>1, <2>2, Zenon
<1>6. DataOf(seg) \cap L = {} => \A p \in D, q \in D : p < q => seg.recs[p].from < seg.recs[q].from
  <2> SUFFICES ASSUME DataOf(seg) \cap L = {}, NEW p \in D, NEW q \in D, p < q
               PROVE  seg.recs[p].from < seg.recs[q].from
    OBVIOUS
  <2>1. TupleAt(ss, i, q) \in DataOf(seg)
    BY DEF DataOf, TupleAt
  <2>2. TupleLess(TupleAt(ss, i, p), TupleAt(ss, i, q))
    BY <2>1 DEF Ordered
  <2> QED BY <2>2, <1>5, <1>8 DEF TupleLess, TupleAt
<1> HIDE DEF D, lo, hi, seg, n
<1>9. DroppedRange(seg) = Loss(seg.gen, seg.recs[lo].from, seg.recs[hi].from)
  BY DEF DroppedRange, lo, hi, D
<1>10. DroppedRange(seg) \in Records
  BY <1>3, <1>4, <1>7, <1>8, <1>9 DEF Loss, Records
<1>11. ASSUME DataOf(seg) \cap L = {}, NEW p \in D
       PROVE  <<seg.recs[p].gen, seg.recs[p].from>> \in Covered(DroppedRange(seg))
  <2>1. seg.recs[lo].from <= seg.recs[p].from /\ seg.recs[p].from <= seg.recs[hi].from
    <3>1. lo = p \/ lo < p
      BY <1>3, <1>7
    <3>2. p = hi \/ p < hi
      BY <1>4, <1>7
    <3>3. lo \in D /\ hi \in D
      BY <1>3, <1>4
    <3> QED BY <3>1, <3>2, <3>3, <1>6, <1>7, <1>11
  <2> QED BY <2>1, <1>5, <1>7, <1>9 DEF Covered, Loss
<1> QED BY <1>10, <1>11 DEF DataOf, D, seg

\* A record in a file has the file's generation and a natural sequence.
LEMMA RecordOfFile ==
  ASSUME NEW ss \in Seq(Segments), NEW L, Ordered(ss, L), NEW i \in 1..Len(ss), NEW p \in DataAt(ss[i])
  PROVE  /\ ss[i].recs[p].gen = ss[i].gen
         /\ ss[i].gen \in Nat /\ ss[i].recs[p].from \in Nat /\ p \in Nat
<1>1. ss[i] \in Segments /\ p \in DOMAIN ss[i].recs
  BY DEF DataAt
<1>2. ss[i].recs \in Seq(Records) /\ ss[i].gen \in Gens
  BY <1>1 DEF Segments
<1>3. p \in Nat /\ ss[i].recs[p] \in Records
  BY <1>1, <1>2
<1>4. ss[i].recs[p].from \in Seqs
  BY <1>3 DEF Records
<1>5. ss[i].gen \in Nat /\ ss[i].recs[p].from \in Nat
  BY <1>2, <1>4, WalConstants
<1>6. ss[i].recs[p].gen = ss[i].gen
  BY DEF Ordered
<1> QED BY <1>3, <1>5, <1>6

\* What an overflow marker covers are tuples.
LEMMA CoveredTuples ==
  ASSUME NEW r \in Records
  PROVE  Covered(r) \subseteq Tuples
BY DEF Covered, Records, Tuples

-----------------------------------------------------------------------------
(* The inductive invariant.                                                *)

Appending == {"gc", "drop", "mark", "place"}

\* Nothing on disk is above the highest tuple handed to Append, and the tuple
\* it is placing is late or above everything on disk.
Handed ==
    /\ \A t \in OnDisk : TupleLeq(t, top)
    /\ op.pc \in Appending =>
          /\ op.gen \in Gens /\ op.seq \in Seqs
          /\ TupleLeq(<<op.gen, op.seq>>, top)
          /\ \/ <<op.gen, op.seq>> \in late
             \/ /\ <<op.gen, op.seq>> = top
                /\ \A t \in OnDisk : TupleLess(t, <<op.gen, op.seq>>)
    /\ op.pc = "note" => op.gen \in Gens
    /\ op.pc \in {"mark", "note"} => op.loss \in Records /\ op.loss.kind = "loss"
    /\ phase = "down" => op.pc = "idle"

IInv == TypeOK /\ SegmentsOrdered /\ LossAccounted /\ AckMirror /\ Handed

LEMMA InitInv == Init => IInv
<1> SUFFICES ASSUME Init PROVE IInv
  OBVIOUS
<1>1. segs = << >> /\ DOMAIN segs = {} /\ OnDisk = {}
  BY DEF Init, OnDisk, DataIn
<1>2. TypeOK
  <2>1. Idle \in OpTypes
    BY DEF Idle, OpTypes, OpPcs
  <2> QED BY <1>1, <2>1 DEF Init, TypeOK
<1>3. SegmentsOrdered
  BY <1>1 DEF SegmentsOrdered, Ordered
<1>4. LossAccounted
  BY DEF Init, LossAccounted
<1>5. AckMirror
  BY DEF Init, AckMirror, TupleLeq
<1>6. Handed
  BY <1>1 DEF Init, Handed, Idle, Appending
<1> QED BY <1>2, <1>3, <1>4, <1>5, <1>6 DEF IInv

\* The operation record of a fresh call.
LEMMA OpType ==
  ASSUME op \in OpTypes, NEW g \in Gens, NEW s \in Seqs, NEW pc \in OpPcs
  PROVE  /\ Idle \in OpTypes
         /\ [Idle EXCEPT !.pc = pc, !.gen = g, !.seq = s] \in OpTypes
         /\ [Idle EXCEPT !.pc = pc, !.gen = g, !.loss = Loss(g, s, s)] \in OpTypes
         /\ [Idle EXCEPT !.pc = pc] \in OpTypes
         /\ [op EXCEPT !.pc = pc] \in OpTypes
         /\ [op EXCEPT !.cut = TRUE] \in OpTypes
         /\ \A r \in Records : [op EXCEPT !.pc = pc, !.loss = r] \in OpTypes
<1>1. Loss(g, s, s) \in Records
  BY DEF Loss, Records
<1>2. Idle \in OpTypes
  BY DEF Idle, OpTypes, OpPcs
<1> QED BY <1>1, <1>2 DEF OpTypes

LEMMA SweepOpType ==
  ASSUME NEW o \in OpTypes, NEW n \in Nat \ {0}
  PROVE  [o EXCEPT !.at = n] \in OpTypes /\ [o EXCEPT !.cut = TRUE, !.at = n] \in OpTypes
BY DEF OpTypes

\* Shorthands for what the actions read from the invariant.
LEMMA Facts ==
  ASSUME IInv
  PROVE  /\ segs \in Seq(Segments) /\ Len(segs) \in Nat /\ DOMAIN segs = 1..Len(segs)
         /\ Ordered(segs, late)
         /\ op \in OpTypes /\ op.pc \in OpPcs
         /\ ack \in AckTuples /\ acked \in AckTuples /\ meta \in AckTuples /\ top \in AckTuples /\ op.at \in Nat \ {0}
         /\ SealedCount > 0 => 1 \in 1..Len(segs)
         /\ 1..SealedCount \subseteq 1..Len(segs)
         /\ tip # "none" => segs # << >> /\ Len(segs) \in 1..Len(segs)
         /\ tip = "live" => Live \in Segments
BY DEF IInv, TypeOK, SegmentsOrdered, OpTypes, AckTuples, SealedCount, Live

\* Removing sealed file i keeps the type of the directory.
LEMMA UnlinkType ==
  ASSUME IInv, NEW i \in 1..SealedCount, Unlink(i)
  PROVE  /\ segs' \in Seq(Segments) /\ diskBytes' \in Int
         /\ tip # "none" => segs' # << >>
         /\ segs[i].bytes \in Int
<1>1. segs \in Seq(Segments) /\ i \in 1..Len(segs) /\ Len(segs) \in Nat
  BY Facts
<1>2. segs' \in Seq(Segments) /\ Len(segs') = Len(segs) - 1
  BY <1>1, UnlinkFiles DEF Unlink
<1>3. segs[i].bytes \in Int /\ diskBytes \in Int
  <2>1. segs[i] \in Segments
    BY <1>1
  <2>2. segs[i].bytes \in Nat
    BY <2>1 DEF Segments
  <2> QED BY <2>2 DEF IInv, TypeOK
<1>4. tip # "none" => Len(segs') # 0
  BY <1>1, <1>2 DEF SealedCount
<1> QED BY <1>2, <1>3, <1>4 DEF Unlink

LEMMA PutType ==
  ASSUME IInv, tip = "live", NEW r \in Records, PutRecord(r)
  PROVE  segs' \in Seq(Segments) /\ diskBytes' \in Int /\ segs' # << >>
<1>1. segs \in Seq(Segments) /\ segs # << >>
  BY Facts
<1>2. segs' \in Seq(Segments) /\ Len(segs') = Len(segs)
  BY <1>1, PutFiles DEF PutRecord
<1>3. diskBytes' \in Int
  BY WalConstants DEF PutRecord, RecordSize, IInv, TypeOK
<1> QED BY <1>1, <1>2, <1>3

LEMMA FileGens ==
  ASSUME NEW ss \in Seq(Segments)
  PROVE  GensOf(ss) \subseteq Gens /\ \A i \in DOMAIN ss : ss[i].gen \in GensOf(ss)
<1> SUFFICES ASSUME NEW i \in DOMAIN ss PROVE ss[i].gen \in Gens
  BY DEF GensOf
<1>1. ss[i] \in Segments
  OBVIOUS
<1> QED BY <1>1 DEF Segments

LEMMA PruneType ==
  ASSUME IInv, NEW ss \in Seq(Segments), Prune(ss)
  PROVE  /\ dataHigh' \in [Gens -> Seqs \cup {-1}]
         /\ replayable' \in SUBSET Gens /\ overlooked' \in SUBSET Gens
         /\ faults' \in Nat
BY FileGens DEF IInv, TypeOK, Prune, Fault, maps

\* What is left to sweep are sealed files.
LEMMA SweepRange ==
  ASSUME IInv
  PROVE  /\ Sweepable \in SUBSET Nat
         /\ Sweepable \subseteq 1..SealedCount
         /\ \A i \in Sweepable : i \in 1..SealedCount /\ FullyAcked(segs[i])
<1>1. op.at \in Nat \ {0} /\ SealedCount \in Int
  BY Facts DEF SealedCount
<1> QED BY <1>1 DEF Sweepable

LEMMA TypeStep == IInv /\ [Next]_vars => TypeOK'
<1> SUFFICES ASSUME IInv, [Next]_vars PROVE TypeOK'
  OBVIOUS
<1> USE DEF disk, memory, maps, history, bounds
<1>t. TypeOK
  BY DEF IInv
<1>0. CASE UNCHANGED vars
  BY <1>0, <1>t DEF vars, TypeOK
<1>1. ASSUME NEW g \in Gens, NEW q \in Seqs, AppendStart(g, q) PROVE TypeOK'
  <2>1. op' \in OpTypes
    BY <1>1, <1>t, OpType DEF AppendStart, TypeOK, OpPcs
  <2>2. top' \in Tuples \cup {NoAck} /\ late' \in SUBSET Tuples
    BY <1>1, <1>t DEF AppendStart, Tuples, TupleMax, TypeOK
  <2> QED BY <1>1, <1>t, <2>1, <2>2 DEF AppendStart, TypeOK
<1>2. ASSUME NEW g \in Gens, NEW q \in Seqs, AppendLoss(g, q) PROVE TypeOK'
  <2>1. op' \in OpTypes
    BY <1>2, <1>t, OpType DEF AppendLoss, TypeOK, OpPcs
  <2> QED BY <1>2, <1>t, <2>1 DEF AppendLoss, Fault, TypeOK
<1>3. ASSUME NEW g \in Gens, NEW q \in Seqs, MarkAcked(g, q) PROVE TypeOK'
  <2>1. op' \in OpTypes
    BY <1>3, <1>t, OpType DEF MarkAcked, TypeOK, OpPcs
  <2>2. ack' \in Tuples \cup {NoAck} /\ acked' \in Tuples \cup {NoAck}
    BY <1>3, <1>t DEF MarkAcked, TupleMax, Tuples, TypeOK
  <2> QED BY <1>3, <1>t, <2>1, <2>2 DEF MarkAcked, TypeOK
<1>4. ASSUME NEW g \in Gens, NEW q \in Seqs, MarkAckedFails(g, q) PROVE TypeOK'
  <2>2. ack' \in Tuples \cup {NoAck} /\ acked' \in Tuples \cup {NoAck}
    BY <1>4, <1>t DEF MarkAckedFails, TupleMax, Tuples, TypeOK
  <2> QED BY <1>4, <1>t, <2>2 DEF MarkAckedFails, Fault, TypeOK
<1>5. CASE GcAcked
  <2>1. 1 \in 1..SealedCount /\ Unlink(1)
    BY <1>5, Facts DEF GcAcked, SealedCount
  <2>2. /\ segs' \in Seq(Segments) /\ diskBytes' \in Int
        /\ tip # "none" => segs' # << >>
        /\ segs[1].bytes \in Int
    BY <2>1, UnlinkType
  <2>3. op' \in OpTypes
    BY <1>5, <1>t DEF GcAcked, TypeOK, OpTypes
  <2> QED BY <1>5, <1>t, <2>2, <2>3 DEF GcAcked, TypeOK
<1>6. CASE GcAckedDone
  <2>1. op' \in OpTypes
    BY <1>6, <1>t DEF GcAckedDone, Goto, TypeOK, OpTypes, OpPcs
  <2>2. /\ dataHigh' \in [Gens -> Seqs \cup {-1}]
        /\ replayable' \in SUBSET Gens /\ overlooked' \in SUBSET Gens
        /\ faults' \in Nat
    BY <1>6, <1>t, PruneType DEF GcAckedDone, TypeOK
  <2> QED BY <1>6, <1>t, <2>1, <2>2 DEF GcAckedDone, TypeOK
<1>7. CASE DropOldest
  <2>1. 1 \in 1..SealedCount /\ Unlink(1) /\ 1 \in 1..Len(segs)
    BY <1>7, Facts DEF DropOldest, SealedCount
  <2>2. /\ segs' \in Seq(Segments) /\ diskBytes' \in Int
        /\ tip # "none" => segs' # << >>
        /\ segs[1].bytes \in Int
    BY <2>1, UnlinkType
  <2>3. op' \in OpTypes
    <3>1. HasUser(segs[1]) => DroppedRange(segs[1]) \in Records
      BY <2>1, Facts, DroppedRangeCovers
    <3> QED BY <3>1, <1>7, <1>t DEF DropOldest, TypeOK, OpTypes, OpPcs
  <2>4. /\ dataHigh' \in [Gens -> Seqs \cup {-1}]
        /\ replayable' \in SUBSET Gens /\ overlooked' \in SUBSET Gens
        /\ faults' \in Nat
    BY <1>7, <2>2, PruneType DEF DropOldest
  <2>5. disordered' \in SUBSET Tuples
    <3>1. DataOf(segs[1]) \subseteq Tuples
      BY <2>1, Facts, DataIsTuples DEF DataIn
    <3> QED BY <1>7, <1>t, <3>1 DEF DropOldest, Disorder, TypeOK
  <2> QED BY <1>7, <1>t, <2>2, <2>3, <2>4, <2>5 DEF DropOldest, TypeOK
<1>8. CASE DropDone
  <2>1. op' \in OpTypes
    BY <1>8, <1>t DEF DropDone, Goto, TypeOK, OpTypes, OpPcs
  <2> QED BY <1>8, <1>t, <2>1 DEF DropDone, TypeOK
<1>9. CASE OpenSegment
  <2>1. op.gen \in Gens
    BY <1>9 DEF OpenSegment, Holding, IInv, Handed, Appending
  <2>2. segs' \in Seq(Segments) /\ segs' # << >>
    BY <1>9, <2>1, Facts, NewFiles DEF OpenSegment
  <2> QED BY <1>9, <1>t, <2>2, WalConstants DEF OpenSegment, TypeOK
<1>10. CASE WriteLoss
  <2>1. op.loss \in Records
    BY <1>10 DEF WriteLoss, Holding, IInv, Handed
  <2>2. segs' \in Seq(Segments) /\ diskBytes' \in Int /\ segs' # << >>
    BY <1>10, <2>1, PutType DEF WriteLoss
  <2>3. replayable' \in SUBSET Gens
    BY <1>10, <1>t, Facts DEF WriteLoss, TypeOK, Segments
  <2>4. reported' \in SUBSET Tuples
    BY <1>10, <1>t, <2>1, CoveredTuples DEF WriteLoss, TypeOK
  <2>5. op' \in OpTypes
    BY <1>10, <1>t DEF WriteLoss, TypeOK, OpTypes, OpPcs, Idle
  <2>6. totalBytes' \in Int
    BY <1>10, <1>t, WalConstants DEF WriteLoss, TypeOK
  <2> QED BY <1>10, <1>t, <2>2, <2>3, <2>4, <2>5, <2>6 DEF WriteLoss, TypeOK
<1>11. CASE SealCurrent
  BY <1>11, <1>t DEF SealCurrent, TypeOK
<1>12. CASE WriteRecord
  <2>1. op.gen \in Gens /\ op.seq \in Seqs
    BY <1>12 DEF WriteRecord, Holding, IInv, Handed, Appending
  <2>2. Data(op.gen, op.seq) \in Records
    BY <2>1 DEF Data, Records
  <2>3. segs' \in Seq(Segments) /\ diskBytes' \in Int /\ segs' # << >>
    BY <1>12, <2>2, PutType DEF WriteRecord
  <2>4. op' \in OpTypes
    BY <1>12 DEF WriteRecord, OpTypes, OpPcs, Idle
  <2>5. dataHigh' \in [Gens -> Seqs \cup {-1}] /\ replayable' \in SUBSET Gens
    BY <1>12, <1>t, <2>1 DEF WriteRecord, TypeOK
  <2>6. /\ high' \in (Gens \cup {0}) \X (Seqs \cup {0})
        /\ written' \in SUBSET Tuples
    BY <1>12, <1>t, <2>1 DEF WriteRecord, TypeOK, Tuples
  <2> QED BY <1>12, <1>t, <2>3, <2>4, <2>5, <2>6, WalConstants DEF WriteRecord, TypeOK
<1>13. CASE Sweep
  <2>1. PICK i \in 1..SealedCount : i = Min(Sweepable)
    <3>1. Sweepable \in SUBSET Nat /\ Sweepable # {} /\ Sweepable \subseteq 1..SealedCount
      BY <1>13, SweepRange DEF Sweep
    <3> QED BY <3>1, MinIsLeast
  <2>2. /\ segs' \in Seq(Segments) /\ diskBytes' \in Int
        /\ tip # "none" => segs' # << >>
        /\ segs[i].bytes \in Int
    BY <1>13, <2>1, UnlinkType DEF Sweep
  <2>3. op' \in OpTypes
    <3>1. i \in Nat \ {0}
      BY <2>1
    <3> QED BY <1>13, <1>t, <2>1, <3>1, SweepOpType DEF Sweep, TypeOK
  <2> QED BY <1>13, <1>t, <2>1, <2>2, <2>3 DEF Sweep, TypeOK
<1>14. CASE SweepDone
  <2>1. op' \in OpTypes
    BY <1>14 DEF SweepDone, OpTypes, OpPcs, Idle
  <2>2. /\ dataHigh' \in [Gens -> Seqs \cup {-1}]
        /\ replayable' \in SUBSET Gens /\ overlooked' \in SUBSET Gens
        /\ faults' \in Nat
    BY <1>14, <1>t, PruneType DEF SweepDone, TypeOK
  <2> QED BY <1>14, <1>t, <2>1, <2>2 DEF SweepDone, TypeOK
<1>15. CASE FailAmbiguous
  <2>2. /\ segs' \in Seq(Segments) /\ diskBytes' \in Int
        /\ tip' \in {"none", "live", "torn"}
        /\ tip' # "none" => segs' # << >>
    <3>1. CASE UNCHANGED <<segs, tip, diskBytes>>
      BY <3>1, <1>t DEF TypeOK
    <3>2. CASE (At("gc") \/ At("drop")) /\ SealedCount > 0 /\ Unlink(1) /\ UNCHANGED tip
      <4>1. 1 \in 1..SealedCount
        BY <3>2, Facts DEF SealedCount
      <4> QED BY <3>2, <4>1, <1>t, UnlinkType DEF TypeOK
    <3>3. CASE op.pc \in {"mark", "note"} /\ tip = "live" /\ PutRecord(op.loss) /\ UNCHANGED tip
      <4>1. op.loss \in Records
        BY <3>3 DEF IInv, Handed
      <4> QED BY <3>3, <4>1, PutType
    <3>4. CASE At("place") /\ tip = "live" /\ PutRecord(Data(op.gen, op.seq)) /\ UNCHANGED tip
      <4>1. Data(op.gen, op.seq) \in Records
        BY <3>4 DEF At, IInv, Handed, Appending, Data, Records
      <4> QED BY <3>4, <4>1, PutType
    <3>5. CASE tip' = "none" /\ UNCHANGED <<segs, diskBytes>>
      BY <3>5, <1>t DEF TypeOK
    <3> QED BY <1>15, <3>1, <3>2, <3>3, <3>4, <3>5 DEF FailAmbiguous, LateEffect
  <2>3. op' \in OpTypes
    BY <1>15 DEF FailAmbiguous, OpTypes, OpPcs, Idle
  <2>4. interrupted' \in SUBSET Tuples
    <3>1. Pending \subseteq Tuples
      BY CoveredTuples DEF Pending, At, IInv, Handed
    <3>2. Removed \subseteq Tuples
      BY Facts, DataIsTuples DEF Removed, OnDisk
    <3> QED BY <1>15, <1>t, <3>1, <3>2 DEF FailAmbiguous, TypeOK
  <2> QED BY <1>15, <1>t, <2>2, <2>3, <2>4 DEF FailAmbiguous, Fault, TypeOK
<1>16. CASE SweepFails
  <2>1. op' \in OpTypes
    BY <1>16 DEF SweepFails, OpTypes, OpPcs, Idle
  <2> QED BY <1>16, <1>t, <2>1 DEF SweepFails, Fault, TypeOK
<1>20. CASE SweepSkips
  <2>1. Min(Sweepable) \in Sweepable /\ Sweepable \in SUBSET Nat
    BY <1>20, SweepRange, MinIsLeast DEF SweepSkips
  <2>2. op' \in OpTypes
    <3> DEFINE i == Min(Sweepable)
    <3>1. i \in Nat
      BY <2>1
    <3>2. op' = [op EXCEPT !.at = i + 1]
      BY <1>20 DEF SweepSkips
    <3> HIDE DEF i
    <3>3. i + 1 \in Nat \ {0}
      BY <3>1
    <3> QED BY <3>2, <3>3, <1>t, SweepOpType DEF TypeOK
  <2> QED BY <1>20, <1>t, <2>2 DEF SweepSkips, Fault, TypeOK
<1>17. CASE Crash
  <2>1. op' \in OpTypes
    BY <1>17 DEF Crash, OpTypes, OpPcs, Idle
  <2>2. /\ segs' \in Seq(Segments)
        /\ tip' \in {"none", "live", "torn"}
        /\ tip' # "none" => segs' # << >>
    <3>1. CASE UNCHANGED <<segs, tip>>
      BY <3>1, <1>t DEF TypeOK
    <3>2. CASE /\ op.pc \in {"mark", "note", "place"} /\ tip = "none"
               /\ segs' = Append(segs, NewSegment(op.gen))
               /\ tip' = "torn"
      <4>1. op.gen \in Gens
        BY <3>2 DEF IInv, Handed, Appending
      <4> QED BY <3>2, <4>1, Facts, NewFiles
    <3> QED BY <1>17, <3>1, <3>2 DEF Crash
  <2>3. interrupted' \in SUBSET Tuples
    <3>1. Pending \subseteq Tuples
      BY CoveredTuples DEF Pending, At, IInv, Handed
    <3> QED BY <1>17, <1>t, <3>1 DEF Crash, TypeOK
  <2>4. /\ dataHigh' \in [Gens -> Seqs \cup {-1}] /\ replayable' \in SUBSET Gens
        /\ high' \in (Gens \cup {0}) \X (Seqs \cup {0})
        /\ totalBytes' \in Int /\ ack' \in Tuples \cup {NoAck}
    BY <1>17 DEF Crash
  <2> QED BY <1>17, <1>t, <2>1, <2>2, <2>3, <2>4 DEF Crash, Fault, TypeOK
<1>18. CASE Close
  BY <1>18, <1>t DEF Close, TypeOK
<1>19. CASE Open
  <2>1. high' \in (Gens \cup {0}) \X (Seqs \cup {0})
    <3>1. CASE segs = << >>
      BY <1>19, <3>1 DEF Open, RecoveredHigh
    <3>2. CASE segs # << >> /\ ~HasUser(Live)
      <4>1. Live \in Segments
        BY <3>2, Facts DEF Live
      <4>2. Live.gen \in Gens
        BY <4>1 DEF Segments
      <4> QED BY <1>19, <3>2, <4>2 DEF Open, RecoveredHigh
    <3>3. CASE segs # << >> /\ HasUser(Live)
      <4>1. Live \in Segments
        BY <3>3, Facts DEF Live
      <4>2. Live.recs \in Seq(Records)
        BY <4>1 DEF Segments
      <4> DEFINE D == DataAt(Live)
                 n == Len(Live.recs)
      <4>3. n \in Nat /\ D \in SUBSET (0..n) /\ D # {} /\ D \subseteq 1..n
        BY <4>2, <3>3 DEF DataAt, HasUser
      <4> HIDE DEF D, n
      <4>4. Max(D) \in D
        BY <4>3, MaxIsGreatest
      <4>5. Live.recs[Max(D)] \in Records
        BY <4>2, <4>3, <4>4 DEF n
      <4>6. Live.recs[Max(D)].gen \in Gens /\ Live.recs[Max(D)].from \in Seqs
        BY <4>5 DEF Records
      <4>7. high' = <<Live.recs[Max(D)].gen, Live.recs[Max(D)].from>>
        BY <1>19, <3>3 DEF Open, RecoveredHigh, D
      <4> QED BY <4>6, <4>7
    <3> QED BY <3>1, <3>2, <3>3
  <2>2. dataHigh' \in [Gens -> Seqs \cup {-1}]
    BY <1>19 DEF Open
  <2>3. replayable' \in SUBSET Gens
    <3>1. \A i \in DOMAIN segs : segs[i].gen \in Gens
      <4> TAKE i \in DOMAIN segs
      <4>1. segs[i] \in Segments
        BY Facts
      <4> QED BY <4>1 DEF Segments
    <3> QED BY <1>19, <3>1 DEF Open
  <2> QED BY <1>19, <1>t, <2>1, <2>2, <2>3 DEF Open, TypeOK
<1> QED BY <1>0, <1>1, <1>2, <1>3, <1>4, <1>5, <1>6, <1>7, <1>8, <1>9, <1>10, <1>11, <1>12,
           <1>13, <1>14, <1>15, <1>16, <1>17, <1>18, <1>19, <1>20, WalConstants DEF Next, OpStep, Tuples

-----------------------------------------------------------------------------
(* The five things a step can do to the directory.                         *)

Removes(i) == i \in 1..SealedCount /\ segs' = Without(segs, i)
Creates    == op.gen \in Gens /\ segs' = Append(segs, NewSegment(op.gen))
Notes      == /\ tip = "live" /\ op.loss \in Records /\ op.loss.kind = "loss"
              /\ segs' = WithRecord(segs, op.loss)
Places     == /\ tip = "live" /\ op.pc = "place" /\ op'.pc = "idle"
              /\ Live.gen = op.gen /\ Data(op.gen, op.seq) \in Records
              /\ segs' = WithRecord(segs, Data(op.gen, op.seq))
DiskStep   == segs' = segs \/ (\E i \in 1..SealedCount : Removes(i))
              \/ Creates \/ Notes \/ Places

LEMMA EveryDiskStep == IInv /\ [Next]_vars => DiskStep
<1> SUFFICES ASSUME IInv, [Next]_vars PROVE DiskStep
  OBVIOUS
<1> USE DEF disk, memory, maps, history, bounds
<1>n. Handed /\ TypeOK
  BY DEF IInv
<1>0. CASE segs' = segs
  BY <1>0 DEF DiskStep
<1>1. CASE GcAcked \/ DropOldest
  <2>1. 1 \in 1..SealedCount
    BY <1>1, Facts DEF GcAcked, DropOldest, SealedCount
  <2> QED BY <1>1, <2>1 DEF GcAcked, DropOldest, Unlink, DiskStep, Removes
<1>2. CASE OpenSegment
  <2>1. op.gen \in Gens
    BY <1>2, <1>n DEF OpenSegment, Holding, Handed, Appending
  <2> QED BY <1>2, <2>1 DEF OpenSegment, DiskStep, Creates
<1>3. CASE WriteLoss
  <2>1. op.loss \in Records /\ op.loss.kind = "loss"
    BY <1>3, <1>n DEF WriteLoss, Holding, Handed
  <2> QED BY <1>3, <2>1 DEF WriteLoss, PutRecord, DiskStep, Notes
<1>4. CASE WriteRecord
  <2>1. op.gen \in Gens /\ op.seq \in Seqs /\ op.pc = "place"
    BY <1>4, <1>n DEF WriteRecord, Holding, Handed, Appending
  <2>2. Data(op.gen, op.seq) \in Records
    BY <2>1 DEF Data, Records
  <2> QED BY <1>4, <2>1, <2>2 DEF WriteRecord, PutRecord, MustRoll, DiskStep, Places, Idle
<1>5. CASE Sweep
  <2>1. Sweepable \in SUBSET Nat /\ Sweepable # {} /\ Sweepable \subseteq 1..SealedCount
    BY <1>5, SweepRange DEF Sweep
  <2>2. Min(Sweepable) \in 1..SealedCount
    BY <2>1, MinIsLeast
  <2> QED BY <1>5, <2>2 DEF Sweep, Unlink, DiskStep, Removes
<1>6. CASE FailAmbiguous /\ segs' # segs
  <2>1. CASE (At("gc") \/ At("drop")) /\ SealedCount > 0 /\ Unlink(1)
    <3>1. 1 \in 1..SealedCount
      BY <2>1, Facts DEF SealedCount
    <3> QED BY <2>1, <3>1 DEF Unlink, DiskStep, Removes
  <2>2. CASE op.pc \in {"mark", "note"} /\ tip = "live" /\ PutRecord(op.loss)
    BY <2>2, <1>n DEF Handed, PutRecord, DiskStep, Notes
  <2>3. CASE At("place") /\ tip = "live" /\ ~MustRoll /\ PutRecord(Data(op.gen, op.seq))
    <3>1. Data(op.gen, op.seq) \in Records
      BY <2>3, <1>n DEF At, Handed, Appending, Data, Records
    <3> QED BY <1>6, <2>3, <3>1 DEF FailAmbiguous, Idle, At, MustRoll, PutRecord, DiskStep, Places
  <2> QED BY <1>6, <2>1, <2>2, <2>3 DEF FailAmbiguous, LateEffect
<1>7. CASE Crash /\ segs' # segs
  BY <1>7, <1>n DEF Crash, Handed, Appending, DiskStep, Creates
<1> QED BY <1>0, <1>1, <1>2, <1>3, <1>4, <1>5, <1>6, <1>7
        DEF Next, OpStep, vars, AppendStart, AppendLoss, MarkAcked, MarkAckedFails, GcAckedDone,
            DropDone, SealCurrent, SweepDone, SweepSkips, SweepFails, Close, Open

\* A step keeps the files in order and adds at most the record Append places.
LEMMA DiskStepKeeps ==
  ASSUME IInv, DiskStep
  PROVE  /\ Ordered(segs', late)
         /\ \A t \in DataIn(segs') : \/ t \in DataIn(segs)
                                     \/ /\ op.pc = "place" /\ op'.pc = "idle"
                                        /\ t = <<op.gen, op.seq>>
<1>n. Handed /\ TypeOK /\ Ordered(segs, late)
  BY DEF IInv, SegmentsOrdered
<1>f. segs \in Seq(Segments) /\ Len(segs) \in Nat /\ DOMAIN segs = 1..Len(segs)
  BY Facts
<1>0. CASE segs' = segs
  BY <1>0, <1>n, <1>f
<1>1. ASSUME NEW i \in 1..SealedCount, segs' = Without(segs, i)
      PROVE  Ordered(segs', late) /\ DataIn(segs') \subseteq DataIn(segs)
  <2>1. i \in 1..Len(segs)
    BY Facts
  <2>2. Ordered(segs', late)
    BY <1>1, <1>f, <1>n, <2>1, UnlinkOrdered
  <2>3. DataIn(segs') \subseteq DataIn(segs)
    BY <1>1, <1>f, <2>1, UnlinkData
  <2> QED BY <2>2, <2>3
<1>2. CASE Creates
  <2>1. segs' = Append(segs, NewSegment(op.gen)) /\ op.gen \in Gens
    BY <1>2 DEF Creates
  <2>2. DataIn(segs') = DataIn(segs) /\ Ordered(segs', late)
    BY <2>1, <1>n, <1>f, NewData
  <2> QED BY <2>2
<1>3. ASSUME NEW r \in Records, tip = "live", segs' = WithRecord(segs, r),
             r.kind = "data" => /\ r.gen = segs[Len(segs)].gen
                                /\ \/ <<r.gen, r.from>> \in late
                                   \/ \A t \in DataIn(segs) : TupleLess(t, <<r.gen, r.from>>)
      PROVE  /\ Ordered(segs', late)
             /\ \A t \in DataIn(segs') : t \in DataIn(segs) \/ (r.kind = "data" /\ t = <<r.gen, r.from>>)
  <2>1. segs # << >>
    BY <1>3, Facts
  <2>2. Ordered(segs', late)
    BY <1>3, <1>f, <1>n, <2>1, PutOrdered
  <2>3. \A t \in DataIn(segs') : t \in DataIn(segs) \/ (r.kind = "data" /\ t = <<r.gen, r.from>>)
    BY <1>3, <1>f, <2>1, PutData
  <2> QED BY <2>2, <2>3
<1>4. CASE Notes
  <2>1. op.loss \in Records /\ op.loss.kind # "data" /\ tip = "live"
        /\ segs' = WithRecord(segs, op.loss)
    BY <1>4 DEF Notes
  <2> QED BY <1>3, <2>1
<1>5. CASE Places
  <2> DEFINE r == Data(op.gen, op.seq)
  <2>1. /\ r \in Records /\ tip = "live" /\ segs' = WithRecord(segs, r)
        /\ r.gen = op.gen /\ r.from = op.seq /\ r.gen = segs[Len(segs)].gen
        /\ op.pc = "place" /\ op'.pc = "idle"
    BY <1>5 DEF Places, Data, Live
  <2>2. \/ <<op.gen, op.seq>> \in late
        \/ \A t \in DataIn(segs) : TupleLess(t, <<op.gen, op.seq>>)
    BY <1>n, <2>1 DEF Handed, Appending, OnDisk
  <2> HIDE DEF r
  <2> QED BY <1>3, <2>1, <2>2
<1> QED BY <1>0, <1>1, <1>2, <1>4, <1>5 DEF DiskStep, Removes

-----------------------------------------------------------------------------
LEMMA HandedStep == IInv /\ [Next]_vars => Handed'
<1> SUFFICES ASSUME IInv, [Next]_vars PROVE Handed'
  OBVIOUS
<1> USE DEF disk, memory, maps, history, bounds
<1>n. Handed /\ TypeOK /\ TypeOK'
  BY TypeStep DEF IInv
<1>s. \A t \in DataIn(segs') : \/ t \in DataIn(segs)
                               \/ op.pc = "place" /\ op'.pc = "idle" /\ t = <<op.gen, op.seq>>
  BY EveryDiskStep, DiskStepKeeps
<1>l. top \in AckTuples /\ top' \in AckTuples
  BY <1>n DEF TypeOK, AckTuples
<1>d. \A t \in DataIn(segs) : TupleLeq(t, top) /\ t \in AckTuples
  BY <1>n, Facts, DataIsTuples DEF Handed, OnDisk, AckTuples
\* Steps that hand out no tuple.
<1>2. ASSUME top' = top, late' = late, phase' = "down" => op'.pc = "idle",
             op'.pc \in Appending => /\ op.pc \in Appending
                                     /\ op'.gen = op.gen /\ op'.seq = op.seq,
             op'.pc = "note" => op'.gen \in Gens,
             op'.pc \in {"mark", "note"} => op'.loss \in Records /\ op'.loss.kind = "loss"
      PROVE  Handed'
  <2>1. \A t \in (OnDisk)' : TupleLeq(t, top')
    BY <1>2, <1>s, <1>d, <1>n DEF OnDisk, Handed, Appending
  <2>3. ASSUME op'.pc \in Appending
        PROVE  /\ op'.gen \in Gens /\ op'.seq \in Seqs
               /\ TupleLeq(<<op'.gen, op'.seq>>, top')
               /\ \/ <<op'.gen, op'.seq>> \in late'
                  \/ /\ <<op'.gen, op'.seq>> = top'
                     /\ \A t \in (OnDisk)' : TupleLess(t, <<op'.gen, op'.seq>>)
    <3>1. /\ op.gen \in Gens /\ op.seq \in Seqs
          /\ TupleLeq(<<op.gen, op.seq>>, top)
          /\ \/ <<op.gen, op.seq>> \in late
             \/ /\ <<op.gen, op.seq>> = top
                /\ \A t \in OnDisk : TupleLess(t, <<op.gen, op.seq>>)
      BY <1>2, <1>n, <2>3 DEF Handed
    <3>2. \A t \in DataIn(segs') : t \in DataIn(segs)
      BY <1>s, <2>3 DEF Appending
    <3> QED BY <3>1, <3>2, <1>2, <2>3 DEF OnDisk
  <2> QED BY <1>2, <2>1, <2>3 DEF Handed
<1>o. op \in OpTypes
  BY <1>n DEF TypeOK
<1>3. CASE UNCHANGED vars
  BY <1>2, <1>3, <1>n DEF vars, Handed
<1>4. ASSUME NEW g \in Gens, NEW q \in Seqs, AppendStart(g, q) PROVE Handed'
  <2> DEFINE t == <<g, q>>
  <2>1. /\ segs' = segs /\ phase' = phase /\ phase # "down"
        /\ top' = TupleMax(top, t)
        /\ late' = IF TupleLess(top, t) THEN late ELSE late \cup {t}
        /\ op'.pc \in {"gc", "place"} /\ op'.gen = g /\ op'.seq = q
    BY <1>4 DEF AppendStart, Idle
  <2>2. t \in AckTuples
    BY DEF AckTuples, Tuples
  <2> HIDE DEF t
  <2>3. TupleLeq(top, top') /\ TupleLeq(t, top')
    BY <2>1, <2>2, <1>l, TupleOrder
  <2>4. \A u \in (OnDisk)' : TupleLeq(u, top')
    <3> SUFFICES ASSUME NEW u \in DataIn(segs) PROVE TupleLeq(u, top')
      BY <2>1 DEF OnDisk
    <3>1. TupleLeq(u, top) /\ u \in AckTuples
      BY <1>d
    <3> QED BY <3>1, <2>3, <1>l, TupleOrder
  <2>5. t \in late' \/ (t = top' /\ \A u \in (OnDisk)' : TupleLess(u, t))
    <3>1. CASE TupleLess(top, t)
      <4> SUFFICES ASSUME NEW u \in DataIn(segs) PROVE TupleLess(u, t)
        BY <2>1, <3>1 DEF OnDisk, TupleMax
      <4>1. TupleLeq(u, top) /\ u \in AckTuples
        BY <1>d
      <4> QED BY <4>1, <3>1, <2>2, <1>l, TupleOrder
    <3>2. CASE ~TupleLess(top, t)
      BY <3>2, <2>1
    <3> QED BY <3>1, <3>2
  <2> QED BY <2>1, <2>3, <2>4, <2>5 DEF Handed, t
<1>5. ASSUME NEW g \in Gens, NEW q \in Seqs, AppendLoss(g, q) PROVE Handed'
  <2>1. /\ top' = top /\ late' = late /\ phase' = phase /\ phase # "down"
        /\ op'.pc = "note" /\ op'.gen = g
        /\ op'.loss \in Records /\ op'.loss.kind = "loss"
    BY <1>5 DEF AppendLoss, Idle, Loss, Records
  <2> QED BY <1>2, <2>1 DEF Appending
<1>6. CASE op' = Idle /\ top' = top /\ late' = late
  BY <1>2, <1>6 DEF Idle, Appending
<1>7. CASE op' = op /\ top' = top /\ late' = late /\ (phase' = phase \/ phase' # "down")
  BY <1>2, <1>7, <1>n DEF Handed
<1>8. ASSUME NEW g \in Gens, NEW q \in Seqs, MarkAcked(g, q) PROVE Handed'
  BY <1>2, <1>8 DEF MarkAcked, Idle, Appending
<1>9. CASE GcAcked \/ GcAckedDone \/ DropDone \/ Sweep \/ SweepSkips
  BY <1>2, <1>9, <1>o, <1>n DEF GcAcked, GcAckedDone, DropDone, Sweep, SweepSkips, Goto, Holding,
     At, OpTypes, Handed, Appending
<1>10. CASE DropOldest
  <2>1. HasUser(segs[1]) => DroppedRange(segs[1]) \in Records
    BY <1>10, Facts, DroppedRangeCovers DEF DropOldest
  <2>2. \A seg : DroppedRange(seg).kind = "loss"
    BY DEF DroppedRange, Loss
  <2> QED BY <1>2, <1>10, <1>o, <1>n, <2>1, <2>2 DEF DropOldest, Holding, OpTypes, Handed, Appending
<1>11. CASE WriteLoss /\ op' # Idle
  BY <1>2, <1>11, <1>o DEF WriteLoss, At, Holding, OpTypes, Appending
<1> QED BY <1>3, <1>4, <1>5, <1>6, <1>7, <1>8, <1>9, <1>10, <1>11, WalConstants
        DEF Next, OpStep, OpenSegment, WriteLoss, SealCurrent, WriteRecord, SweepDone,
            MarkAckedFails, FailAmbiguous, SweepFails, Crash, Close, Open, Tuples

LEMMA MirrorStep == IInv /\ [Next]_vars => AckMirror' /\ TupleLeq(meta, meta') /\ TupleLeq(acked, acked')
<1> SUFFICES ASSUME IInv, [Next]_vars
             PROVE  AckMirror' /\ TupleLeq(meta, meta') /\ TupleLeq(acked, acked')
  OBVIOUS
<1> USE DEF disk, memory, maps, history, bounds
<1>n. AckMirror /\ TypeOK
  BY DEF IInv
<1>t. ack \in AckTuples /\ acked \in AckTuples /\ meta \in AckTuples
  BY Facts
<1>r. TupleLeq(meta, meta) /\ TupleLeq(acked, acked)
  BY DEF TupleLeq
<1>1. CASE UNCHANGED <<ack, meta, acked>> /\ (phase' # "down" => phase # "down")
  BY <1>1, <1>n, <1>r DEF AckMirror
<1>2. ASSUME NEW g \in Gens, NEW q \in Seqs, phase # "down", phase' = phase,
             ack' = TupleMax(ack, <<g, q>>), acked' = TupleMax(acked, <<g, q>>),
             meta' = ack' \/ meta' = meta
      PROVE  AckMirror' /\ TupleLeq(meta, meta') /\ TupleLeq(acked, acked')
  <2> DEFINE t == <<g, q>>
  <2>1. t \in AckTuples
    BY DEF AckTuples, Tuples
  <2> HIDE DEF t
  <2>2. TupleLeq(meta, ack) /\ TupleLeq(ack, acked)
    BY <1>2, <1>n DEF AckMirror
  <2>3. TupleLeq(ack, TupleMax(ack, t)) /\ TupleMax(ack, t) \in AckTuples
    BY <1>t, <2>1, TupleOrder
  <2>4. /\ TupleLeq(acked, TupleMax(acked, t)) /\ TupleLeq(t, TupleMax(acked, t))
        /\ TupleMax(acked, t) \in AckTuples
    BY <1>t, <2>1, TupleOrder
  <2>5. TupleLeq(meta, TupleMax(ack, t))
    BY <1>t, <2>1, <2>2, <2>3, TupleOrder
  <2>a. TupleLeq(ack, TupleMax(acked, t))
    BY <1>t, <2>2, <2>4, TupleOrder
  <2>6. TupleLeq(ack, TupleMax(acked, t)) /\ TupleLeq(meta, TupleMax(acked, t))
    BY <1>t, <2>2, <2>4, <2>a, TupleOrder
  <2>7. TupleLeq(TupleMax(ack, t), TupleMax(acked, t))
    BY <1>t, <2>1, <2>4, <2>6, TupleOrder
  <2>8. TupleLeq(TupleMax(ack, t), TupleMax(ack, t))
    BY DEF TupleLeq
  <2>9. ack' = TupleMax(ack, t) /\ acked' = TupleMax(acked, t)
    BY <1>2 DEF t
  <2> QED BY <1>2, <1>r, <2>4, <2>5, <2>6, <2>7, <2>8, <2>9 DEF AckMirror
<1>3. ASSUME NEW g \in Gens, NEW q \in Seqs, MarkAcked(g, q) \/ MarkAckedFails(g, q)
      PROVE  AckMirror' /\ TupleLeq(meta, meta') /\ TupleLeq(acked, acked')
  BY <1>2, <1>3 DEF MarkAcked, MarkAckedFails
<1>4. CASE Crash
  BY <1>4, <1>n, <1>r DEF Crash, AckMirror
<1>5. CASE Open
  <2>1. ack' = meta /\ meta' = meta /\ acked' = acked
    BY <1>5 DEF Open
  <2> QED BY <2>1, <1>n, <1>r DEF AckMirror
<1>6. CASE OpStep
  BY <1>1, <1>6 DEF OpStep, GcAcked, GcAckedDone, DropOldest, DropDone, OpenSegment, WriteLoss,
     SealCurrent, WriteRecord, Sweep, SweepDone
<1> QED BY <1>1, <1>3, <1>4, <1>5, <1>6
        DEF Next, AppendStart, AppendLoss, FailAmbiguous, Holding, SweepSkips, SweepFails, Close, vars

-----------------------------------------------------------------------------
(* No successful Append is lost without an account.                        *)

\* A record that leaves the disk is acked, or its loss is on the way to be
\* reported, or was cut off from its marker, or its file was in disorder.
LEMMA RemovalAccounted ==
  ASSUME IInv, [Next]_vars, NEW t \in OnDisk, t \notin (OnDisk)'
  PROVE  (TupleLeq(t, ack) /\ phase # "down") \/ t \in Pending' \/ t \in interrupted'
         \/ t \in disordered'
<1> USE DEF disk, memory, maps, history, bounds
<1>n. Handed /\ TypeOK
  BY DEF IInv
<1>f. segs \in Seq(Segments) /\ Ordered(segs, late) /\ ack \in AckTuples /\ op \in OpTypes
  BY Facts
<1>0. segs' # segs
  BY DEF OnDisk
\* Only a removal takes a record off the disk.
<1>a. ASSUME NEW i \in 1..SealedCount, Unlink(i), FullyAcked(segs[i])
      PROVE  TupleLeq(t, ack)
  <2>1. i \in 1..Len(segs)
    BY Facts
  <2>2. t \in DataOf(segs[i])
    BY <1>a, <1>f, <2>1, UnlinkData DEF Unlink, OnDisk
  <2> QED BY <1>a, <1>f, <2>1, <2>2, FullyAckedCovers
<1>b. ~ Creates
  BY <1>f, NewData DEF Creates, OnDisk
<1>c. ~ Notes /\ ~ Places
  <2>1. tip = "live" => segs # << >>
    BY Facts
  <2>2. \A r \in Records : tip = "live" => segs' # WithRecord(segs, r)
    BY <1>f, <2>1, PutData DEF OnDisk
  <2> QED BY <2>2 DEF Notes, Places
<1>1. CASE GcAcked
  <2>1. 1 \in 1..SealedCount
    BY <1>1, Facts DEF GcAcked, SealedCount
  <2> QED BY <1>1, <1>a, <2>1 DEF GcAcked, Holding
<1>2. CASE Sweep
  <2>1. Sweepable \in SUBSET Nat /\ Sweepable # {}
        /\ \A i \in Sweepable : i \in 1..SealedCount /\ FullyAcked(segs[i])
    BY <1>2, SweepRange DEF Sweep
  <2>2. Min(Sweepable) \in Sweepable
    BY <2>1, MinIsLeast
  <2>3. phase # "down"
    BY <1>2, <1>n DEF Sweep, At, Handed
  <2> QED BY <1>2, <1>a, <2>1, <2>2, <2>3 DEF Sweep
<1>3. CASE DropOldest
  <2>1. 1 \in 1..Len(segs) /\ Unlink(1)
    BY <1>3, Facts DEF DropOldest
  <2>2. t \in DataOf(segs[1])
    BY <1>f, <2>1, UnlinkData DEF Unlink, OnDisk
  <2>3. HasUser(segs[1])
    BY <2>2 DEF DataOf, HasUser
  <2>4. DataOf(segs[1]) \cap late = {} => t \in Covered(DroppedRange(segs[1]))
    BY <1>f, <2>1, <2>2, <2>3, DroppedRangeCovers
  <2>6. DataOf(segs[1]) \cap late # {} => t \in disordered'
    BY <1>3, <2>2 DEF DropOldest, Disorder
  <2>5. op'.pc = "mark" /\ op'.loss = DroppedRange(segs[1])
    BY <1>3, <1>f, <2>3 DEF DropOldest, OpTypes
  <2> QED BY <2>4, <2>5, <2>6 DEF Pending, At
<1>4. CASE FailAmbiguous
  <2>1. CASE At("gc") /\ SealedCount > 0 /\ FullyAcked(segs[1]) /\ Unlink(1)
    <3>1. 1 \in 1..SealedCount
      BY <2>1, Facts DEF SealedCount
    <3> QED BY <1>4, <1>a, <2>1, <3>1 DEF FailAmbiguous, Holding
  <2>2. CASE At("drop")
    BY <1>4, <2>2 DEF FailAmbiguous, Removed
  <2>3. CASE op.pc \in {"mark", "note"} /\ tip = "live" /\ PutRecord(op.loss)
    BY <1>c, <1>n, <2>3 DEF Notes, PutRecord, Handed
  <2>4. CASE At("place") /\ tip = "live" /\ ~MustRoll /\ PutRecord(Data(op.gen, op.seq))
    <3>1. Data(op.gen, op.seq) \in Records
      BY <2>4, <1>n DEF At, Handed, Appending, Data, Records
    <3> QED BY <1>4, <1>c, <2>4, <3>1 DEF Places, PutRecord, FailAmbiguous, Idle, At, MustRoll
  <2> QED BY <1>4, <1>0, <2>1, <2>2, <2>3, <2>4 DEF FailAmbiguous, LateEffect
<1>5. CASE OpenSegment \/ Crash
  BY <1>5, <1>b, <1>0, <1>n DEF OpenSegment, Crash, Creates, Holding, Handed, Appending
<1>6. CASE WriteLoss
  BY <1>6, <1>c, <1>n DEF WriteLoss, Notes, PutRecord, Holding, Handed
<1>7. CASE WriteRecord
  <2>1. op.gen \in Gens /\ op.seq \in Seqs /\ op.pc = "place"
    BY <1>7, <1>n DEF WriteRecord, Holding, Handed, Appending
  <2>2. Data(op.gen, op.seq) \in Records
    BY <2>1 DEF Data, Records
  <2> QED BY <1>7, <1>c, <2>1, <2>2 DEF WriteRecord, PutRecord, MustRoll, Places, Idle
<1> QED BY <1>0, <1>1, <1>2, <1>3, <1>4, <1>5, <1>6, <1>7
        DEF Next, OpStep, vars, AppendStart, AppendLoss, MarkAcked, MarkAckedFails, GcAckedDone,
            DropDone, SealCurrent, SweepDone, SweepSkips, SweepFails, Close, Open

\* The accounts only grow, and a pending marker is written or cut off.
LEMMA AccountsGrow ==
  ASSUME IInv, [Next]_vars
  PROVE  /\ reported \subseteq reported' /\ interrupted \subseteq interrupted'
         /\ disordered \subseteq disordered'
         /\ Pending \subseteq Pending' \cup reported' \cup interrupted'
         /\ \A t \in written' : t \in written \/ t \in (OnDisk)'
<1> USE DEF disk, memory, maps, history, bounds
<1>o. op \in OpTypes
  BY Facts
<1>0. CASE UNCHANGED <<op, reported, interrupted, disordered, written>>
  BY <1>0 DEF Pending, At
<1>1. CASE ~At("mark") /\ UNCHANGED <<reported, interrupted, written>>
             /\ disordered \subseteq disordered'
  BY <1>1 DEF Pending
<1>2. CASE WriteLoss
  <2>1. op.pc = "mark" => reported' = reported \cup Covered(op.loss)
    BY <1>2 DEF WriteLoss, At
  <2>2. op.pc # "mark" => reported' = reported
    BY <1>2 DEF WriteLoss, At
  <2>3. written' = written /\ interrupted' = interrupted /\ disordered' = disordered
    BY <1>2 DEF WriteLoss
  <2> QED BY <2>1, <2>2, <2>3 DEF Pending, At
<1>3. CASE WriteRecord
  <2>1. op.pc = "place" /\ tip = "live"
    BY <1>3 DEF WriteRecord, Holding
  <2>2. op.gen \in Gens /\ op.seq \in Seqs
    BY <2>1 DEF IInv, Handed, Appending
  <2>3. Data(op.gen, op.seq) \in Records
    BY <2>2 DEF Data, Records
  <2>4. segs \in Seq(Segments) /\ segs # << >>
    BY <2>1, Facts
  <2>5. Data(op.gen, op.seq).kind = "data" /\ Data(op.gen, op.seq).gen = op.gen
        /\ Data(op.gen, op.seq).from = op.seq
    BY DEF Data
  <2>6. <<op.gen, op.seq>> \in DataIn(WithRecord(segs, Data(op.gen, op.seq)))
    BY <2>3, <2>4, <2>5, PutData
  <2>7. <<op.gen, op.seq>> \in (OnDisk)'
    BY <1>3, <2>6 DEF WriteRecord, PutRecord, OnDisk
  <2> QED BY <1>3, <2>1, <2>7 DEF WriteRecord, Pending, At
<1>4. CASE FailAmbiguous \/ Crash
  BY <1>4 DEF FailAmbiguous, Crash
<1>5. CASE SweepSkips \/ SweepFails \/ SweepDone \/ Sweep \/ GcAcked \/ GcAckedDone \/ DropOldest \/ DropDone
  BY <1>1, <1>5 DEF SweepSkips, SweepFails, SweepDone, Sweep, GcAcked, GcAckedDone, DropOldest, DropDone,
     At, Holding
<1>6. ASSUME NEW g \in Gens, NEW q \in Seqs,
             AppendStart(g, q) \/ AppendLoss(g, q) \/ MarkAcked(g, q) \/ MarkAckedFails(g, q)
      PROVE  ~At("mark") /\ UNCHANGED <<reported, interrupted, disordered, written>>
  BY <1>6 DEF AppendStart, AppendLoss, MarkAcked, MarkAckedFails, At
<1>7. CASE OpenSegment \/ SealCurrent \/ Close \/ Open
  BY <1>0, <1>7 DEF OpenSegment, SealCurrent, Close, Open
<1> QED BY <1>0, <1>1, <1>2, <1>3, <1>4, <1>5, <1>6, <1>7, WalConstants DEF Next, OpStep, vars, Tuples

LEMMA AccountStep == IInv /\ [Next]_vars => LossAccounted'
<1> SUFFICES ASSUME IInv, [Next]_vars, NEW t \in written'
             PROVE  \/ t \in (OnDisk)'
                    \/ TupleLeq(t, acked')
                    \/ t \in reported' \cup interrupted' \cup disordered' \cup Pending'
  BY DEF LossAccounted
<1>1. CASE t \notin written
  BY <1>1, AccountsGrow
<1>2. CASE t \in written
  <2>a. t \in AckTuples /\ ack \in AckTuples /\ acked \in AckTuples /\ acked' \in AckTuples
    <3>1. acked' \in AckTuples
      BY TypeStep DEF TypeOK, AckTuples
    <3> QED BY <1>2, <3>1, Facts DEF IInv, TypeOK, AckTuples
  <2>b. TupleLeq(acked, acked')
    BY MirrorStep
  <2>1. CASE t \in OnDisk
    <3>1. TupleLeq(t, ack) /\ phase # "down" => TupleLeq(t, acked')
      <4>1. phase # "down" => TupleLeq(ack, acked)
        BY DEF IInv, AckMirror
      <4> QED BY <4>1, <2>a, <2>b, TupleOrder
    <3> QED BY <2>1, <3>1, RemovalAccounted
  <2>2. CASE TupleLeq(t, acked)
    BY <2>2, <2>a, <2>b, TupleOrder
  <2>3. CASE t \in reported \cup interrupted \cup disordered \cup Pending
    BY <2>3, AccountsGrow
  <2> QED BY <1>2, <2>1, <2>2, <2>3 DEF IInv, LossAccounted
<1> QED BY <1>1, <1>2

-----------------------------------------------------------------------------
LEMMA InvStep == IInv /\ [Next]_vars => IInv'
<1> SUFFICES ASSUME IInv, [Next]_vars PROVE IInv'
  OBVIOUS
<1>1. SegmentsOrdered'
  <2>1. Ordered(segs', late)
    BY EveryDiskStep, DiskStepKeeps
  <2>2. late \subseteq late'
    BY DEF Next, OpStep, vars, history, AppendStart, AppendLoss, MarkAcked, MarkAckedFails,
       GcAcked, GcAckedDone, DropOldest, DropDone, OpenSegment, WriteLoss, SealCurrent,
       WriteRecord, Sweep, SweepDone, FailAmbiguous, SweepSkips, SweepFails, Crash, Close, Open
  <2> QED BY <2>1, <2>2, OrderedGrows DEF SegmentsOrdered
<1> QED BY <1>1, TypeStep, AccountStep, MirrorStep, HandedStep DEF IInv

LEMMA Invariance == Spec => []IInv
BY InitInv, InvStep, PTL DEF Spec

\* Every variable of the log keeps its type.
THEOREM TypeCorrect == Spec => []TypeOK
<1>1. IInv => TypeOK
  BY DEF IInv
<1> QED BY <1>1, Invariance, PTL

\* Under Append's rolls, the two kinds of removal, crashes and reopenings, a
\* record on disk that is not above all before it was handed to Append late,
\* and a file holds only records of its header's generation.
THEOREM FilesOrdered == Spec => []SegmentsOrdered
<1>1. IInv => SegmentsOrdered
  BY DEF IInv
<1> QED BY <1>1, Invariance, PTL

\* A record whose Append succeeded leaves the disk only acked, reported by an
\* overflow marker, cut off from its marker by a failure, or with a dropped
\* file in which some record had arrived late.
THEOREM NoSilentLoss == Spec => []LossAccounted
<1>1. IInv => LossAccounted
  BY DEF IInv
<1> QED BY <1>1, Invariance, PTL

\* meta.json, the memory mirror and the receiver's acks stay in that order.
THEOREM AckBracketed == Spec => []AckMirror
<1>1. IInv => AckMirror
  BY DEF IInv
<1> QED BY <1>1, Invariance, PTL

\* meta.json never goes back.
THEOREM MetaMonotonic == Spec => MetaNeverRegresses
<1>1. IInv /\ [Next]_vars => [TupleLeq(meta, meta')]_vars
  BY MirrorStep
<1> QED BY <1>1, Invariance, PTL DEF Spec, MetaNeverRegresses

-----------------------------------------------------------------------------
(* The watermarks of the generations, in memory, cover what is on disk.    *)

\* WatermarksCoverDisk of any files and any maps.
Covers(ss, hs, rs, os) ==
    \A i \in {j \in DOMAIN ss : ss[j].gen \notin os} :
        /\ \A s \in SeqsOf(ss[i]) : s <= hs[ss[i].gen]
        /\ ss[i].recs # << >> => ss[i].gen \in rs

\* Files that are taken over as they are stay covered.
LEMMA CoversFewer ==
  ASSUME NEW ss, NEW tt, NEW hs, NEW rs, NEW os, Covers(ss, hs, rs, os),
         \A j \in DOMAIN tt : \E i \in DOMAIN ss : tt[j] = ss[i]
  PROVE  Covers(tt, hs, rs, os)
BY DEF Covers

\* The maps lose only entries of generations without a file, or overlooked.
LEMMA PruneCovers ==
  ASSUME TypeOK, NEW ss \in Seq(Segments), Covers(ss, dataHigh, replayable, overlooked), Prune(ss)
  PROVE  Covers(ss, dataHigh', replayable', overlooked')
<1>1. \A i \in DOMAIN ss : ss[i].gen \in GensOf(ss) /\ ss[i].gen \in Gens
  BY FileGens
<1>2. CASE UNCHANGED <<maps, faults>>
  BY <1>2 DEF maps
<1>3. ASSUME NEW unread \in SUBSET GensOf(ss),
             dataHigh' = [g \in Gens |-> IF g \in GensOf(ss) \ unread THEN dataHigh[g] ELSE -1],
             replayable' = replayable \cap (GensOf(ss) \ unread),
             overlooked' = overlooked \cup unread
      PROVE  Covers(ss, dataHigh', replayable', overlooked')
  <2>1. \A i \in DOMAIN ss : ss[i].gen \notin overlooked' =>
           dataHigh'[ss[i].gen] = dataHigh[ss[i].gen] /\ ss[i].gen \notin overlooked
    BY <1>1, <1>3
  <2>2. \A i \in DOMAIN ss : ss[i].gen \notin overlooked' =>
           (ss[i].gen \in replayable => ss[i].gen \in replayable')
    BY <1>1, <1>3
  <2> QED BY <2>1, <2>2 DEF Covers
<1> QED BY <1>2, <1>3 DEF Prune

\* A removal leaves only files there were.
LEMMA RemovalCovers ==
  ASSUME IInv, Covers(segs, dataHigh, replayable, overlooked), NEW i \in 1..SealedCount, Unlink(i)
  PROVE  Covers(segs', dataHigh, replayable, overlooked)
<1>1. segs \in Seq(Segments) /\ i \in 1..Len(segs) /\ Len(segs) \in Nat /\ DOMAIN segs = 1..Len(segs)
  BY Facts
<1>2. segs' = Without(segs, i)
  BY DEF Unlink
<1>3. /\ segs' \in Seq(Segments) /\ Len(segs') = Len(segs) - 1
      /\ \A j \in 1..(Len(segs) - 1) : segs'[j] = IF j < i THEN segs[j] ELSE segs[j + 1]
  BY <1>1, <1>2, UnlinkFiles
<1>4. DOMAIN segs' = 1..(Len(segs) - 1)
  BY <1>3
<1>5. \A j \in DOMAIN segs' : \E k \in DOMAIN segs : segs'[j] = segs[k]
  BY <1>1, <1>3, <1>4
<1> QED BY <1>5, CoversFewer

\* A record in the live file: the maps grow with it.
LEMMA PutCovers ==
  ASSUME IInv, tip = "live", Covers(segs, dataHigh, replayable, overlooked), NEW r \in Records,
         segs' = WithRecord(segs, r),
         r.kind = "data" => r.from <= dataHigh'[Live.gen],
         \A g \in Gens : dataHigh[g] <= dataHigh'[g] /\ dataHigh[g] \in Int /\ dataHigh'[g] \in Int,
         replayable \subseteq replayable', Live.gen \in replayable', overlooked' = overlooked
  PROVE  Covers(segs', dataHigh', replayable', overlooked')
<1> DEFINE n == Len(segs)
<1>1. /\ segs \in Seq(Segments) /\ segs # << >> /\ n \in Nat /\ n \in 1..n
      /\ DOMAIN segs = 1..n /\ Live = segs[n]
  BY Facts DEF Live
<1>2. /\ segs' \in Seq(Segments) /\ Len(segs') = n
      /\ \A j \in 1..n : j # n => segs'[j] = segs[j]
      /\ segs'[n].gen = segs[n].gen /\ segs'[n].recs = Append(segs[n].recs, r)
  BY <1>1, PutFiles
<1>3. DOMAIN segs' = 1..n
  BY <1>2
<1>4. \A i \in 1..n : segs[i] \in Segments /\ segs[i].gen \in Gens
  <2> TAKE i \in 1..n
  <2>1. segs[i] \in Segments
    BY <1>1
  <2> QED BY <2>1 DEF Segments
<1>x. \A ss \in Seq(Segments) : \A k \in 1..Len(ss) : ss[k] \in Segments
  OBVIOUS
<1>5. segs'[n] \in Segments
  BY <1>1, <1>2, <1>x, Zenon
<1> HIDE DEF n
<1>6. \A b \in Segments, a \in Segments : b.recs = Append(a.recs, r) =>
         \A p \in DataAt(b) : \/ p \in DataAt(a) /\ b.recs[p] = a.recs[p]
                              \/ b.recs[p] = r /\ r.kind = "data"
  BY AppendedRecs
<1>7. \A s \in SeqsOf(segs'[n]) : s \in SeqsOf(segs[n]) \/ (s = r.from /\ r.kind = "data")
  <2>1. \A p \in DataAt(segs'[n]) : \/ p \in DataAt(segs[n]) /\ segs'[n].recs[p] = segs[n].recs[p]
                                    \/ segs'[n].recs[p] = r /\ r.kind = "data"
    <3>1. segs[n] \in Segments /\ segs'[n].recs = Append(segs[n].recs, r)
      BY <1>1, <1>2, <1>4, Zenon
    <3> QED BY <3>1, <1>5, <1>6
  <2> QED BY <2>1 DEF SeqsOf
<1>8. \A i \in 1..n : segs[i].gen \notin overlooked =>
         \A s \in SeqsOf(segs[i]) : s \in Int /\ s <= dataHigh[segs[i].gen]
  <2> SUFFICES ASSUME NEW i \in 1..n, segs[i].gen \notin overlooked, NEW p \in DataAt(segs[i])
               PROVE  segs[i].recs[p].from \in Int /\ segs[i].recs[p].from <= dataHigh[segs[i].gen]
    BY DEF SeqsOf
  <2>1. segs[i].recs[p].from \in Nat
    BY <1>1, RecordOfFile DEF IInv, SegmentsOrdered, n
  <2>2. segs[i].recs[p].from \in SeqsOf(segs[i])
    BY DEF SeqsOf
  <2> QED BY <1>1, <2>1, <2>2 DEF Covers
<1>9. \A i \in 1..n : segs[i].gen \notin overlooked =>
         \A s \in SeqsOf(segs[i]) : s <= dataHigh'[segs[i].gen]
  <2> TAKE i \in 1..n
  <2> HAVE segs[i].gen \notin overlooked
  <2> TAKE s \in SeqsOf(segs[i])
  <2>1. s \in Int /\ s <= dataHigh[segs[i].gen] /\ segs[i].gen \in Gens
    BY <1>4, <1>8
  <2> QED BY <2>1
<1>10. ASSUME NEW i \in 1..n, segs'[i].gen \notin overlooked'
       PROVE  /\ \A s \in SeqsOf(segs'[i]) : s <= dataHigh'[segs'[i].gen]
              /\ segs'[i].recs # << >> => segs'[i].gen \in replayable'
  <2>1. CASE i = n
    BY <2>1, <1>10, <1>1, <1>2, <1>7, <1>9
  <2>2. CASE i # n
    BY <2>2, <1>10, <1>1, <1>2, <1>9 DEF Covers
  <2> QED BY <2>1, <2>2
<1> QED BY <1>3, <1>10 DEF Covers

LEMMA CoverStep == IInv /\ WatermarksCoverDisk /\ [Next]_vars => WatermarksCoverDisk'
<1> SUFFICES ASSUME IInv, WatermarksCoverDisk, [Next]_vars, phase' = "open"
             PROVE  Covers(segs', dataHigh', replayable', overlooked')
  BY DEF WatermarksCoverDisk, Covers
<1> USE DEF disk, memory, maps, history, bounds
<1>w. Handed /\ TypeOK
  BY DEF IInv
<1>f. segs \in Seq(Segments) /\ Len(segs) \in Nat /\ DOMAIN segs = 1..Len(segs)
  BY Facts
<1>s. segs' \in Seq(Segments)
  BY TypeStep DEF TypeOK
<1>p. phase = "open" => Covers(segs, dataHigh, replayable, overlooked)
  BY DEF WatermarksCoverDisk, Covers
<1>h. \A g \in Gens : dataHigh[g] \in Int /\ dataHigh'[g] \in Int
  <2>1. dataHigh \in [Gens -> Seqs \cup {-1}] /\ dataHigh' \in [Gens -> Seqs \cup {-1}]
    BY <1>w, TypeStep DEF TypeOK
  <2>2. \A x \in Seqs : x \in Int
    BY WalConstants
  <2> QED BY <2>1, <2>2
<1>0. CASE UNCHANGED <<segs, phase, maps>>
  BY <1>0, <1>p
<1>1. CASE GcAcked \/ Sweep
  <2>1. PICK i \in 1..SealedCount : Unlink(i)
    <3>1. CASE GcAcked
      <4>1. 1 \in 1..SealedCount /\ Unlink(1)
        BY <3>1, Facts DEF GcAcked, SealedCount
      <4> QED BY <4>1
    <3>2. CASE Sweep
      <4>1. Min(Sweepable) \in 1..SealedCount
        BY <3>2, SweepRange, MinIsLeast DEF Sweep
      <4> QED BY <3>2, <4>1 DEF Sweep
    <3> QED BY <1>1, <3>1, <3>2
  <2>2. phase = "open" /\ UNCHANGED maps
    BY <1>1 DEF GcAcked, Sweep
  <2> QED BY <2>1, <2>2, <1>p, RemovalCovers
<1>2. CASE GcAckedDone \/ SweepDone
  <2>1. phase = "open" /\ segs' = segs
    BY <1>2 DEF GcAckedDone, SweepDone
  <2>2. Prune(segs) \/ UNCHANGED maps
    BY <1>2 DEF GcAckedDone, SweepDone
  <2> QED BY <2>1, <2>2, <1>f, <1>p, <1>w, PruneCovers
<1>3. CASE DropOldest
  <2>1. 1 \in 1..SealedCount /\ Unlink(1) /\ phase = "open" /\ Prune(segs')
    BY <1>3, Facts DEF DropOldest, SealedCount, Holding
  <2>2. Covers(segs', dataHigh, replayable, overlooked)
    BY <2>1, <1>p, RemovalCovers
  <2> QED BY <2>1, <2>2, <1>s, <1>w, PruneCovers
<1>4. CASE OpenSegment
  <2>1. /\ op.gen \in Gens /\ phase = "open" /\ UNCHANGED maps
        /\ segs' = Append(segs, NewSegment(op.gen))
    BY <1>4, <1>w DEF OpenSegment, Holding, Handed, Appending
  <2>3. /\ Len(segs') = Len(segs) + 1 /\ \A j \in 1..Len(segs) : segs'[j] = segs[j]
        /\ segs'[Len(segs) + 1].recs = << >>
    BY <2>1, <1>f, NewFiles DEF NewSegment
  <2>4. \A j \in DOMAIN segs' : j \in DOMAIN segs \/ j = Len(segs) + 1
    BY <2>3, <1>f, <1>s
  <2>5. SeqsOf(segs'[Len(segs) + 1]) = {}
    <3>1. DOMAIN segs'[Len(segs) + 1].recs = {}
      BY <2>3
    <3> QED BY <3>1 DEF SeqsOf, DataAt
  <2>6. Covers(segs, dataHigh, replayable, overlooked)
    BY <2>1, <1>p
  <2> QED BY <2>1, <2>3, <2>4, <2>5, <2>6, <1>f DEF Covers
<1>5. CASE WriteLoss
  <2>1. /\ op.loss \in Records /\ op.loss.kind = "loss" /\ tip = "live" /\ phase = "open"
        /\ segs' = WithRecord(segs, op.loss) /\ dataHigh' = dataHigh /\ overlooked' = overlooked
        /\ replayable' = replayable \cup {Live.gen}
    BY <1>5, <1>w DEF WriteLoss, Holding, Handed, PutRecord
  <2>2. op.loss.kind # "data" /\ replayable \subseteq replayable' /\ Live.gen \in replayable'
    BY <2>1
  <2>3. \A g \in Gens : dataHigh[g] <= dataHigh'[g]
    BY <2>1, <1>h
  <2> QED BY <2>1, <2>2, <2>3, <1>h, <1>p, PutCovers
<1>6. CASE WriteRecord
  <2> DEFINE r == Data(op.gen, op.seq)
  <2>1. /\ op.pc = "place" /\ tip = "live" /\ phase = "open" /\ Live.gen = op.gen
        /\ segs' = WithRecord(segs, r)
        /\ dataHigh' = [dataHigh EXCEPT ![op.gen] = IF op.seq > dataHigh[op.gen] THEN op.seq
                                                    ELSE dataHigh[op.gen]]
        /\ replayable' = replayable \cup {op.gen} /\ overlooked' = overlooked
    BY <1>6 DEF WriteRecord, Holding, MustRoll, PutRecord
  <2>2. op.gen \in Gens /\ op.seq \in Seqs
    BY <2>1, <1>w DEF Handed, Appending
  <2>3. r \in Records /\ r.from = op.seq
    BY <2>2 DEF Data, Records
  <2>4. op.seq \in Int /\ dataHigh \in [Gens -> Seqs \cup {-1}]
    <3>1. \A x \in Seqs : x \in Int
      BY WalConstants
    <3> QED BY <2>2, <3>1, <1>w DEF TypeOK
  <2> HIDE DEF r
  <2>5. dataHigh'[op.gen] = IF op.seq > dataHigh[op.gen] THEN op.seq ELSE dataHigh[op.gen]
    BY <2>1, <2>2, <2>4
  <2>6. \A g \in Gens : g # op.gen => dataHigh'[g] = dataHigh[g]
    BY <2>1, <2>4
  <2>7. \A g \in Gens : dataHigh[g] <= dataHigh'[g]
    BY <2>2, <2>4, <2>5, <2>6, <1>h
  <2>8. op.seq <= dataHigh'[Live.gen]
    BY <2>1, <2>2, <2>4, <2>5, <1>h
  <2>9. replayable \subseteq replayable' /\ Live.gen \in replayable'
    BY <2>1
  <2> QED BY <2>1, <2>3, <2>7, <2>8, <2>9, <1>h, <1>p, PutCovers
<1>7. CASE Open
  <2>1. segs' = segs
    BY <1>7 DEF Open
  <2>2. \A g \in Gens : IsDiskHigh(g, dataHigh'[g])
    BY <1>7 DEF Open
  <2>3. ASSUME NEW i \in DOMAIN segs, NEW q \in SeqsOf(segs[i]) PROVE q <= dataHigh'[segs[i].gen]
    <3>1. q \in SeqsOnDisk(segs[i].gen)
      BY DEF SeqsOnDisk
    <3>2. segs[i].gen \in Gens
      <4>1. segs[i] \in Segments
        BY <1>f
      <4> QED BY <4>1 DEF Segments
    <3> QED BY <2>2, <3>1, <3>2 DEF IsDiskHigh
  <2>4. replayable' = {segs[i].gen : i \in {j \in DOMAIN segs : segs[j].recs # << >>}}
    BY <1>7 DEF Open
  <2> QED BY <2>1, <2>3, <2>4 DEF Covers
<1> QED BY <1>0, <1>1, <1>2, <1>3, <1>4, <1>5, <1>6, <1>7
        DEF Next, OpStep, vars, AppendStart, AppendLoss, MarkAcked, MarkAckedFails,
            DropDone, SealCurrent, FailAmbiguous, SweepSkips, SweepFails, Crash, Close

\* WrittenDataHighWater and HasReplayableRecords are never below what is on
\* disk, in the middle of an operation too: no drop, sweep, skipped file,
\* pruning or recovery makes them forget a record that is still there, unless
\* none of its generation's files could be opened for the pruning.
THEOREM WatermarksTrue == Spec => []WatermarksCoverDisk
<1>1. Init => WatermarksCoverDisk
  BY DEF Init, WatermarksCoverDisk
<1> QED BY <1>1, CoverStep, Invariance, PTL DEF Spec

-----------------------------------------------------------------------------
(* What the steps on files are to the abstract log.                        *)

\* But for late ones, the records of the first file are the oldest, and the
\* range its marker names holds none of the records of the files after it.
LEMMA FirstFileOldest ==
  ASSUME NEW ss \in Seq(Segments), NEW L, Ordered(ss, L), 1 \in 1..Len(ss)
  PROVE  /\ \A t \in DataOf(ss[1]), u \in DataIn(Without(ss, 1)) : u \in L \/ TupleLess(t, u)
         /\ HasUser(ss[1]) =>
               Covered(DroppedRange(ss[1])) \cap DataIn(Without(ss, 1)) \subseteq L
         /\ DataOf(ss[1]) \cap DataIn(Without(ss, 1)) \subseteq L
<1>0. Len(ss) \in Nat
  OBVIOUS
<1>1. /\ Without(ss, 1) \in Seq(Segments) /\ Len(Without(ss, 1)) = Len(ss) - 1
      /\ \A j \in 1..(Len(ss) - 1) : Without(ss, 1)[j] = ss[j + 1]
  <2>1. /\ Without(ss, 1) \in Seq(Segments) /\ Len(Without(ss, 1)) = Len(ss) - 1
        /\ \A j \in 1..(Len(ss) - 1) : Without(ss, 1)[j] = IF j < 1 THEN ss[j] ELSE ss[j + 1]
    BY UnlinkFiles
  <2>2. \A j \in 1..(Len(ss) - 1) : ~ (j < 1)
    BY <1>0
  <2> QED BY <2>1, <2>2, Zenon
<1>2. ASSUME NEW u \in DataIn(Without(ss, 1)), NEW p \in DataAt(ss[1])
      PROVE  u \in L \/ TupleLess(<<ss[1].gen, ss[1].recs[p].from>>, u)
  <2>0. PICK i \in 1..(Len(ss) - 1) : \E q \in DataAt(ss[i + 1]) :
                u = <<ss[i + 1].recs[q].gen, ss[i + 1].recs[q].from>>
    BY <1>1, DataInMember
  <2>1. PICK q \in DataAt(ss[i + 1]) : u = <<ss[i + 1].recs[q].gen, ss[i + 1].recs[q].from>>
    BY <2>0
  <2>2. i + 1 \in 1..Len(ss) /\ 1 < i + 1 /\ 1 \in DOMAIN ss /\ i + 1 \in DOMAIN ss
    BY <1>0
  <2>3. /\ ss[i + 1].recs[q].gen = ss[i + 1].gen /\ ss[i + 1].gen \in Nat
        /\ ss[i + 1].recs[q].from \in Nat
    BY <2>2, RecordOfFile
  <2>4. ss[1].gen \in Nat /\ ss[1].recs[p].from \in Nat
    BY RecordOfFile
  <2>5. TupleAt(ss, i + 1, q) \in L \/ TupleLess(TupleAt(ss, 1, p), TupleAt(ss, i + 1, q))
    BY <2>2 DEF Ordered
  <2>6. ss[1].recs[p].gen = ss[1].gen
    BY RecordOfFile
  <2>7. TupleAt(ss, i + 1, q) = u /\ TupleAt(ss, 1, p) = <<ss[1].gen, ss[1].recs[p].from>>
    BY <2>1, <2>6 DEF TupleAt
  <2> QED BY <2>5, <2>7
<1>3. \A t \in DataOf(ss[1]), u \in DataIn(Without(ss, 1)) : u \in L \/ TupleLess(t, u)
  <2> TAKE t \in DataOf(ss[1]), u \in DataIn(Without(ss, 1))
  <2>1. PICK p \in DataAt(ss[1]) : t = <<ss[1].recs[p].gen, ss[1].recs[p].from>>
    BY DEF DataOf
  <2>2. ss[1].recs[p].gen = ss[1].gen
    BY RecordOfFile
  <2> QED BY <1>2, <2>1, <2>2
<1>4. ASSUME HasUser(ss[1]), NEW u \in Covered(DroppedRange(ss[1])),
             u \in DataIn(Without(ss, 1)), u \notin L
      PROVE  FALSE
  <2>0. ss[1] \in Segments
    OBVIOUS
  <2>1. ss[1].recs \in Seq(Records)
    BY <2>0 DEF Segments
  <2>2. DataAt(ss[1]) \in SUBSET (0..Len(ss[1].recs)) /\ DataAt(ss[1]) # {}
        /\ Len(ss[1].recs) \in Nat
    BY <1>4, <2>1 DEF DataAt, HasUser
  <2>3. Max(DataAt(ss[1])) \in DataAt(ss[1])
    BY <2>2, MaxIsGreatest
  <2>4. PICK x \in Seqs : u = <<ss[1].gen, x>> /\ x <= ss[1].recs[Max(DataAt(ss[1]))].from
    BY DEF Covered, DroppedRange, Loss
  <2>5. TupleLess(<<ss[1].gen, ss[1].recs[Max(DataAt(ss[1]))].from>>, u)
    BY <1>2, <1>4, <2>3
  <2>6. ss[1].gen \in Nat /\ ss[1].recs[Max(DataAt(ss[1]))].from \in Nat
    BY <2>3, RecordOfFile
  <2>7. x \in Nat
    BY WalConstants
  <2> QED BY <2>4, <2>5, <2>6, <2>7 DEF TupleLess
<1>5. ASSUME NEW u \in DataOf(ss[1]), u \in DataIn(Without(ss, 1)), u \notin L PROVE FALSE
  <2>1. TupleLess(u, u)
    BY <1>3, <1>5
  <2>2. u \in AckTuples
    BY <1>1, <1>5, DataIsTuples DEF AckTuples
  <2>3. u[1] \in Int /\ u[2] \in Int
    BY <2>2, AckTupleType
  <2> QED BY <2>1, <2>3 DEF TupleLess
<1> QED BY <1>3, <1>4, <1>5

\* Removing the first file takes the oldest entries out.
LEMMA UnlinkFirst ==
  ASSUME IInv, SealedCount > 0, Unlink(1)
  PROVE  /\ (OnDisk)' \subseteq OnDisk
         /\ Log!Oldest(OnDisk \ (OnDisk)') /\ Log!Oldest(DataOf(segs[1]))
         /\ OnDisk \ (OnDisk)' \subseteq DataOf(segs[1])
         /\ (OnDisk)' = DataIn(Without(segs, 1))
         /\ (OnDisk)' \cap DataOf(segs[1]) \subseteq late
<1>1. segs \in Seq(Segments) /\ Ordered(segs, late) /\ 1 \in 1..Len(segs)
  BY Facts
<1>2. (OnDisk)' = DataIn(Without(segs, 1)) /\ OnDisk = DataIn(segs)
  BY DEF Unlink, OnDisk
<1>3. /\ DataIn(Without(segs, 1)) \subseteq DataIn(segs)
      /\ DataIn(segs) \ DataIn(Without(segs, 1)) \subseteq DataOf(segs[1])
  BY <1>1, UnlinkData
<1>4. /\ \A t \in DataOf(segs[1]), u \in DataIn(Without(segs, 1)) : u \in late \/ TupleLess(t, u)
      /\ DataOf(segs[1]) \cap DataIn(Without(segs, 1)) \subseteq late
  BY <1>1, FirstFileOldest
<1>5. DataOf(segs[1]) \subseteq OnDisk
  BY <1>1, <1>2 DEF DataIn
<1>6. ASSUME NEW S, S \subseteq DataOf(segs[1]), OnDisk \ (OnDisk)' \subseteq S PROVE Log!Oldest(S)
  BY <1>2, <1>4, <1>5, <1>6 DEF Log!Oldest, Log!TupleLess, TupleLess
<1>7. Log!Oldest(OnDisk \ (OnDisk)') /\ Log!Oldest(DataOf(segs[1]))
  BY <1>2, <1>3, <1>6
<1> QED BY <1>2, <1>3, <1>4, <1>7

\* Removing a fully acked file is a reclamation.
LEMMA UnlinkAcked ==
  ASSUME IInv, NEW i \in 1..SealedCount, FullyAcked(segs[i]), Unlink(i), phase # "down"
  PROVE  /\ (OnDisk)' \subseteq OnDisk
         /\ \A t \in OnDisk \ (OnDisk)' : TupleLeq(t, acked)
<1>1. /\ segs \in Seq(Segments) /\ Ordered(segs, late) /\ i \in 1..Len(segs)
      /\ ack \in AckTuples /\ acked \in AckTuples
  BY Facts
<1>2. (OnDisk)' = DataIn(Without(segs, i)) /\ OnDisk = DataIn(segs)
  BY DEF Unlink, OnDisk
<1>3. /\ DataIn(Without(segs, i)) \subseteq DataIn(segs)
      /\ DataIn(segs) \ DataIn(Without(segs, i)) \subseteq DataOf(segs[i])
  BY <1>1, UnlinkData
<1>4. \A t \in DataOf(segs[i]) : TupleLeq(t, ack)
  BY <1>1, FullyAckedCovers
<1>5. TupleLeq(ack, acked)
  BY DEF IInv, AckMirror
<1>6. OnDisk \subseteq AckTuples
  BY <1>1, <1>2, DataIsTuples DEF AckTuples
<1>7. ASSUME NEW t \in OnDisk \ (OnDisk)' PROVE TupleLeq(t, acked)
  <2>1. t \in AckTuples /\ TupleLeq(t, ack)
    BY <1>2, <1>3, <1>4, <1>6
  <2> QED BY <1>1, <1>5, <2>1, TupleOrder
<1> QED BY <1>2, <1>3, <1>7

\* Creating a file and writing a marker store nothing.
LEMMA OtherFileSteps ==
  ASSUME IInv, Creates \/ Notes
  PROVE  (OnDisk)' = OnDisk
<1>1. segs \in Seq(Segments)
  BY Facts
<1>2. CASE Creates
  BY <1>1, <1>2, NewData DEF Creates, OnDisk
<1>3. CASE Notes
  <2>1. segs # << >>
    BY <1>3, Facts DEF Notes
  <2>2. \A t \in DataIn(WithRecord(segs, op.loss)) : t \in DataIn(segs)
    BY <1>1, <1>3, <2>1, PutData DEF Notes
  <2>3. DataIn(segs) \subseteq DataIn(WithRecord(segs, op.loss))
    BY <1>1, <1>3, <2>1, PutData DEF Notes
  <2> QED BY <1>3, <2>2, <2>3 DEF Notes, OnDisk
<1> QED BY <1>2, <1>3

\* Writing the record of Append stores the tuple offered: the highest or a late
\* one.
LEMMA PlaceStores ==
  ASSUME IInv, Places
  PROVE  \E t \in late \cup {top} : (OnDisk)' = OnDisk \cup {t}
<1>1. segs \in Seq(Segments) /\ segs # << >>
  BY Facts DEF Places
<1>2. <<op.gen, op.seq>> \in late \cup {top}
  BY DEF IInv, Handed, Appending, Places
<1>4. /\ Data(op.gen, op.seq).kind = "data" /\ Data(op.gen, op.seq).gen = op.gen
      /\ Data(op.gen, op.seq).from = op.seq /\ Data(op.gen, op.seq) \in Records
  BY DEF Data, Places
<1>5. /\ DataIn(segs) \subseteq DataIn(WithRecord(segs, Data(op.gen, op.seq)))
      /\ \A t \in DataIn(WithRecord(segs, Data(op.gen, op.seq))) :
            t \in DataIn(segs) \/ t = <<op.gen, op.seq>>
      /\ <<op.gen, op.seq>> \in DataIn(WithRecord(segs, Data(op.gen, op.seq)))
  BY <1>1, <1>4, PutData
<1>6. (OnDisk)' = DataIn(WithRecord(segs, Data(op.gen, op.seq))) /\ OnDisk = DataIn(segs)
  BY DEF Places, OnDisk
<1>7. (OnDisk)' = OnDisk \cup {<<op.gen, op.seq>>}
  BY <1>5, <1>6
<1> QED BY <1>2, <1>7

-----------------------------------------------------------------------------
(* Every step of Wal is one of the abstract log.                           *)

LEMMA InitRefines == Init => Log!LogInit
<1> SUFFICES ASSUME Init PROVE Log!LogInit
  OBVIOUS
<1>1. segs = << >> /\ DOMAIN segs = {} /\ OnDisk = {}
  BY DEF Init, OnDisk, DataIn
<1>2. Pending = {}
  BY DEF Init, Pending, At, Idle
<1> QED BY <1>1, <1>2 DEF Init, Log!LogInit, Log!NoAck, NoAck

LEMMA CallRefines ==
  ASSUME IInv, NEW g \in Gens, NEW s \in Seqs,
         AppendStart(g, s) \/ AppendLoss(g, s) \/ MarkAcked(g, s) \/ MarkAckedFails(g, s)
  PROVE  [Log!LogNext]_(Log!logVars)
<1> USE DEF disk, memory, maps, history, bounds
<1>1. (OnDisk)' = OnDisk
  BY DEF AppendStart, AppendLoss, MarkAcked, MarkAckedFails, OnDisk
<1>2. <<g, s>> \in Tuples /\ acked \in AckTuples /\ <<g, s>> \in AckTuples
  BY Facts DEF Tuples, AckTuples
<1>3. Pending = {} /\ Pending' = {}
  BY Facts DEF AppendStart, AppendLoss, MarkAcked, MarkAckedFails, Pending, At, Idle
<1>4. CASE AppendStart(g, s)
  <2>1. IF TupleLess(top, <<g, s>>) THEN top' = <<g, s>> /\ late' = late
        ELSE late' = late \cup {<<g, s>>} /\ top' = top
    BY <1>4 DEF AppendStart, TupleMax
  <2>2. UNCHANGED <<acked, reported, interrupted, disordered>>
    BY <1>4 DEF AppendStart
  <2>3. Log!Offer
    BY <1>1, <1>2, <1>3, <2>1, <2>2 DEF Log!Offer, Log!TupleLess, TupleLess
  <2> QED BY <2>3 DEF Log!LogNext
<1>6. CASE AppendLoss(g, s)
  BY <1>1, <1>3, <1>6 DEF AppendLoss, Log!logVars
<1>5. CASE MarkAcked(g, s) \/ MarkAckedFails(g, s)
  <2>1. acked' = TupleMax(acked, <<g, s>>)
    BY <1>5 DEF MarkAcked, MarkAckedFails
  <2>2. UNCHANGED <<top, late, reported, interrupted, disordered>>
    BY <1>5 DEF MarkAcked, MarkAckedFails
  <2>3. TupleLeq(acked, acked')
    BY <1>2, <2>1, TupleOrder
  <2>4. acked' \in Tuples \/ acked' = acked
    BY <1>2, <2>1 DEF TupleMax
  <2>5. acked = NoAck => acked' = <<g, s>>
    <3>1. g \in Nat /\ s \in Nat
      BY WalConstants
    <3> QED BY <2>1, <3>1 DEF TupleMax, TupleLess, NoAck
  <2>6. acked' \in Tuples
    BY <1>2, <2>4, <2>5 DEF AckTuples
  <2>7. Log!Acknowledge
    BY <1>1, <1>3, <2>2, <2>3, <2>6
       DEF Log!Acknowledge, Log!TupleLeq, TupleLeq, Log!TupleLess, TupleLess
  <2> QED BY <2>7 DEF Log!LogNext
<1> QED BY <1>4, <1>5, <1>6

LEMMA ReclaimRefines ==
  ASSUME IInv, NEW i \in 1..SealedCount, FullyAcked(segs[i]), Unlink(i), phase # "down",
         Pending' = Pending, UNCHANGED <<top, late, acked, reported, interrupted, disordered>>
  PROVE  Log!LogNext
<1>1. /\ (OnDisk)' \subseteq OnDisk
      /\ \A t \in OnDisk \ (OnDisk)' : TupleLeq(t, acked)
  BY UnlinkAcked
<1>2. Log!Reclaim
  BY <1>1 DEF Log!Reclaim, Log!TupleLeq, TupleLeq, Log!TupleLess, TupleLess
<1> QED BY <1>2 DEF Log!LogNext

LEMMA StoreRefines ==
  ASSUME IInv, Places, Pending = {}, Pending' = {},
         UNCHANGED <<top, late, acked, reported, interrupted, disordered>>
  PROVE  Log!LogNext
<1>1. \E t \in late \cup {top} : (OnDisk)' = OnDisk \cup {t}
  BY PlaceStores
<1>2. Log!Store
  BY <1>1 DEF Log!Store
<1> QED BY <1>2 DEF Log!LogNext

LEMMA DropRefines ==
  ASSUME IInv, DropOldest
  PROVE  [Log!LogNext]_(Log!logVars)
<1> USE DEF disk, memory, maps, history, bounds
<1>1. SealedCount > 0 /\ Unlink(1) /\ op.pc = "drop" /\ op \in OpTypes
  BY Facts DEF DropOldest, Holding
<1>2. Pending = {}
  BY <1>1 DEF Pending, At
<1>3. /\ (OnDisk)' \subseteq OnDisk
      /\ Log!Oldest(DataOf(segs[1]))
      /\ OnDisk \ (OnDisk)' \subseteq DataOf(segs[1])
      /\ (OnDisk)' = DataIn(Without(segs, 1))
      /\ (OnDisk)' \cap DataOf(segs[1]) \subseteq late
  BY <1>1, UnlinkFirst
<1>4. UNCHANGED <<top, late, acked, reported, interrupted>>
  BY DEF DropOldest
<1>8. disordered' = IF DataOf(segs[1]) \cap late = {} THEN disordered ELSE disordered \cup DataOf(segs[1])
  BY DEF DropOldest, Disorder
<1>5. segs \in Seq(Segments) /\ Ordered(segs, late) /\ 1 \in 1..Len(segs)
  BY <1>1, Facts
<1>6. CASE HasUser(segs[1])
  <2>1. op'.pc = "mark" /\ op'.loss = DroppedRange(segs[1])
    BY <1>1, <1>6 DEF DropOldest, OpTypes
  <2>2. Pending' = Covered(DroppedRange(segs[1]))
    BY <2>1 DEF Pending, At
  <2>3. DataOf(segs[1]) \cap late = {} => DataOf(segs[1]) \subseteq Pending'
    BY <1>5, <1>6, <2>2, DroppedRangeCovers
  <2>4. Pending' \cap (OnDisk)' \subseteq late
    BY <1>3, <1>5, <1>6, <2>2, FirstFileOldest
  <2>6. DataOf(segs[1]) \in SUBSET OnDisk /\ OnDisk \ DataOf(segs[1]) \subseteq (OnDisk)'
    BY <1>3 DEF Log!Oldest
  <2>5. Log!DropForRoom
    BY <1>2, <1>3, <1>4, <1>8, <2>3, <2>4, <2>6 DEF Log!DropForRoom
  <2> QED BY <2>5 DEF Log!LogNext
<1>7. CASE ~HasUser(segs[1])
  <2>1. op' = op
    BY <1>7 DEF DropOldest
  <2>2. DataOf(segs[1]) = {}
    BY <1>7 DEF DataOf, HasUser
  <2>3. (OnDisk)' = OnDisk
    BY <1>3, <2>2
  <2>4. Pending' = Pending
    BY <2>1 DEF Pending, At
  <2>5. disordered' = disordered
    BY <1>8, <2>2
  <2> QED BY <1>4, <2>3, <2>4, <2>5 DEF Log!logVars
<1> QED BY <1>6, <1>7

LEMMA WriteLossRefines ==
  ASSUME IInv, WriteLoss
  PROVE  [Log!LogNext]_(Log!logVars)
<1> USE DEF disk, memory, maps, history, bounds
<1>1. op.loss \in Records /\ op.loss.kind = "loss" /\ op.pc \in {"mark", "note"}
  BY DEF WriteLoss, Holding, IInv, Handed
<1>2. Notes
  BY <1>1 DEF Notes, WriteLoss, PutRecord
<1>3. (OnDisk)' = OnDisk
  BY <1>2, OtherFileSteps
<1>4. UNCHANGED <<top, late, acked, interrupted, disordered>>
  BY DEF WriteLoss
<1>5. Pending' = {}
  BY Facts DEF WriteLoss, Pending, At, Idle, OpTypes
<1>6. CASE op.pc = "mark"
  <2>1. Pending = Covered(op.loss) /\ reported' = reported \cup Covered(op.loss)
    BY <1>6 DEF Pending, At, WriteLoss
  <2>2. Log!Notify
    BY <1>3, <1>4, <1>5, <2>1 DEF Log!Notify
  <2> QED BY <2>2 DEF Log!LogNext
<1>7. CASE op.pc = "note"
  <2>1. Pending = {} /\ reported' = reported
    BY <1>7 DEF Pending, At, WriteLoss
  <2> QED BY <1>3, <1>4, <1>5, <2>1 DEF Log!logVars
<1> QED BY <1>1, <1>6, <1>7

\* A failure of Append cancels the open notice; its removal or its record may
\* have reached the disk all the same.
LEMMA FailRefines ==
  ASSUME IInv, FailAmbiguous
  PROVE  [Log!LogNext]_(Log!logVars)
<1> USE DEF disk, memory, maps, history, bounds
<1>n. Handed
  BY DEF IInv
<1>1. UNCHANGED <<top, late, acked, reported, disordered>> /\ op' = Idle /\ phase = "open"
  BY DEF FailAmbiguous, Holding
<1>2. Pending' = {}
  BY <1>1 DEF Pending, At, Idle
<1>3. interrupted' = interrupted \cup Pending \cup (IF At("drop") THEN Removed ELSE {})
  BY DEF FailAmbiguous
<1>q. \A S : S = {} => Log!Oldest(S)
  BY DEF Log!Oldest
<1>c. ASSUME (OnDisk)' = OnDisk PROVE [Log!LogNext]_(Log!logVars)
  <2>1. Removed = {} /\ OnDisk \ (OnDisk)' = {}
    BY <1>c DEF Removed
  <2>2. interrupted' = interrupted \cup Pending
    BY <1>3, <2>1
  <2>3. Log!CutOff
    BY <1>1, <1>2, <1>c, <1>q, <2>1, <2>2 DEF Log!CutOff
  <2> QED BY <2>3 DEF Log!LogNext
<1>4. CASE At("gc") /\ SealedCount > 0 /\ FullyAcked(segs[1]) /\ Unlink(1)
  <2>1. 1 \in 1..SealedCount
    BY <1>4, Facts DEF SealedCount
  <2>2. Pending = {} /\ interrupted' = interrupted
    BY <1>3, <1>4 DEF Pending, At
  <2>3. Log!LogNext
    BY <1>1, <1>2, <1>4, <2>1, <2>2, ReclaimRefines
  <2> QED BY <2>3
<1>5. CASE At("drop") /\ SealedCount > 0 /\ Unlink(1)
  <2>1. /\ (OnDisk)' \subseteq OnDisk
        /\ Log!Oldest(OnDisk \ (OnDisk)')
    BY <1>5, UnlinkFirst
  <2>2. interrupted' = interrupted \cup Pending \cup (OnDisk \ (OnDisk)')
    BY <1>3, <1>5 DEF Removed
  <2>3. Log!CutOff
    BY <1>1, <1>2, <2>1, <2>2 DEF Log!CutOff
  <2> QED BY <2>3 DEF Log!LogNext
<1>6. CASE op.pc \in {"mark", "note"} /\ tip = "live" /\ PutRecord(op.loss)
  <2>1. Notes
    BY <1>6, <1>n DEF Notes, PutRecord, Handed
  <2> QED BY <1>c, <2>1, OtherFileSteps
<1>7. CASE At("place") /\ tip = "live" /\ ~MustRoll /\ PutRecord(Data(op.gen, op.seq))
  <2>1. Data(op.gen, op.seq) \in Records
    BY <1>7, <1>n DEF At, Handed, Appending, Data, Records
  <2>2. Places
    BY <1>1, <1>7, <2>1 DEF Places, PutRecord, Idle, At, MustRoll
  <2>3. Pending = {} /\ interrupted' = interrupted
    BY <1>3, <1>7 DEF Pending, At
  <2>4. Log!LogNext
    BY <1>1, <1>2, <2>2, <2>3, StoreRefines
  <2> QED BY <2>4
<1>8. CASE segs' = segs
  BY <1>8, <1>c DEF OnDisk
<1> QED BY <1>4, <1>5, <1>6, <1>7, <1>8 DEF FailAmbiguous, LateEffect

LEMMA CrashRefines ==
  ASSUME IInv, Crash
  PROVE  [Log!LogNext]_(Log!logVars)
<1>1. UNCHANGED <<top, late, acked, reported, disordered>> /\ op' = Idle
  BY DEF Crash
<1>2. Pending' = {}
  BY <1>1 DEF Pending, At, Idle
<1>3. interrupted' = interrupted \cup Pending
  BY DEF Crash
<1>4. (OnDisk)' = OnDisk
  <2>1. CASE segs' = segs
    BY <2>1 DEF OnDisk
  <2>2. CASE Creates
    BY <2>2, OtherFileSteps
  <2> QED BY <2>1, <2>2 DEF Crash, Creates, IInv, Handed, Appending
<1>5. OnDisk \ (OnDisk)' = {} /\ Log!Oldest(OnDisk \ (OnDisk)')
  BY <1>4 DEF Log!Oldest
<1>6. Log!CutOff
  BY <1>1, <1>2, <1>3, <1>4, <1>5 DEF Log!CutOff
<1> QED BY <1>6 DEF Log!LogNext

LEMMA StepRefines == IInv /\ [Next]_vars => [Log!LogNext]_(Log!logVars)
<1> SUFFICES ASSUME IInv, [Next]_vars PROVE [Log!LogNext]_(Log!logVars)
  OBVIOUS
<1> USE DEF disk, memory, maps, history, bounds
<1>n. Handed
  BY DEF IInv
\* Steps that change nothing the abstract log has.
<1>s. ASSUME (OnDisk)' = OnDisk, Pending' = Pending,
             UNCHANGED <<top, late, acked, reported, interrupted, disordered>>
      PROVE  [Log!LogNext]_(Log!logVars)
  BY <1>s DEF Log!logVars
<1>0. CASE UNCHANGED vars
  BY <1>0, <1>s DEF vars, OnDisk, Pending, At
<1>1. ASSUME NEW g \in Gens, NEW s \in Seqs,
             AppendStart(g, s) \/ AppendLoss(g, s) \/ MarkAcked(g, s) \/ MarkAckedFails(g, s)
      PROVE  [Log!LogNext]_(Log!logVars)
  BY <1>1, CallRefines
<1>2. CASE GcAcked
  <2>1. 1 \in 1..SealedCount
    BY <1>2, Facts DEF GcAcked, SealedCount
  <2>2. Pending' = Pending
    BY <1>2, Facts DEF GcAcked, Holding, Pending, At, OpTypes
  <2> QED BY <1>2, <2>1, <2>2, ReclaimRefines DEF GcAcked, Holding
<1>3. CASE Sweep
  <2>1. Sweepable \in SUBSET Nat /\ Sweepable # {}
        /\ \A i \in Sweepable : i \in 1..SealedCount /\ FullyAcked(segs[i])
    BY <1>3, SweepRange DEF Sweep
  <2>2. Min(Sweepable) \in Sweepable
    BY <2>1, MinIsLeast
  <2>3. phase # "down"
    BY <1>3, <1>n DEF Sweep, At, Handed
  <2>4. Pending' = Pending
    BY <1>3, Facts DEF Sweep, Pending, At, OpTypes
  <2> QED BY <1>3, <2>1, <2>2, <2>3, <2>4, ReclaimRefines DEF Sweep
<1>4. CASE GcAckedDone \/ DropDone \/ SweepDone \/ SweepSkips \/ SweepFails
  <2>1. (OnDisk)' = OnDisk
    BY <1>4 DEF GcAckedDone, DropDone, SweepDone, SweepSkips, SweepFails, OnDisk
  <2>2. Pending = {} /\ Pending' = {}
    BY <1>4, Facts
       DEF GcAckedDone, DropDone, SweepDone, SweepSkips, SweepFails, Holding, Goto, Pending, At, Idle, OpTypes
  <2>3. UNCHANGED <<top, late, acked, reported, interrupted, disordered>>
    BY <1>4 DEF GcAckedDone, DropDone, SweepDone, SweepSkips, SweepFails
  <2> QED BY <1>s, <2>1, <2>2, <2>3
<1>5. CASE DropOldest
  BY <1>5, DropRefines
<1>6. CASE OpenSegment
  <2>1. Creates
    BY <1>6, <1>n DEF OpenSegment, Creates, Holding, Handed, Appending
  <2>2. (OnDisk)' = OnDisk
    BY <2>1, OtherFileSteps
  <2>3. Pending' = Pending
    BY <1>6 DEF OpenSegment, Pending, At
  <2> QED BY <1>6, <1>s, <2>2, <2>3 DEF OpenSegment
<1>7. CASE WriteLoss
  BY <1>7, WriteLossRefines
<1>8. CASE WriteRecord
  <2>1. op.gen \in Gens /\ op.seq \in Seqs /\ op.pc = "place"
    BY <1>8, <1>n DEF WriteRecord, Holding, Handed, Appending
  <2>2. Data(op.gen, op.seq) \in Records
    BY <2>1 DEF Data, Records
  <2>3. Places
    BY <1>8, <2>1, <2>2 DEF WriteRecord, PutRecord, MustRoll, Places, Idle
  <2>4. Pending = {} /\ Pending' = {}
    BY <1>8, <2>1 DEF WriteRecord, Pending, At, Idle
  <2> QED BY <1>8, <2>3, <2>4, StoreRefines DEF WriteRecord
<1>9. CASE FailAmbiguous
  BY <1>9, FailRefines
<1>10. CASE Crash
  BY <1>10, CrashRefines
<1>11. CASE SealCurrent \/ Close \/ Open
  BY <1>11, <1>s DEF SealCurrent, Close, Open, OnDisk, Pending, At
<1> QED BY <1>0, <1>1, <1>2, <1>3, <1>4, <1>5, <1>6, <1>7, <1>8, <1>9, <1>10, <1>11, WalConstants
        DEF Next, OpStep, Tuples

\* Append, MarkAcked, recovery and their failures, run file by file, are an
\* implementation of the abstract log, whatever tuples Append is given.
THEOREM Implementation == Spec => ImplementsLog
<1>1. Init => Log!LogInit
  BY InitRefines
<1>2. IInv /\ [Next]_vars => [Log!LogNext]_(Log!logVars)
  BY StepRefines
<1> QED BY <1>1, <1>2, Invariance, PTL DEF Spec, ImplementsLog, Log!LogSpec
=============================================================================
