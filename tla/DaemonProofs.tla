---------------------------- MODULE DaemonProofs ----------------------------
(***************************************************************************)
(* Theorems about the metrics reporter in the daemon's process, for any    *)
(* buffer, any sizes of samples and any number of rotations, failures and  *)
(* lost answers.                                                           *)
(***************************************************************************)
EXTENDS Daemon, SequenceTheorems, TLAPS

\* The n documents that follow document a.
Batch(a, n) == [i \in 1..n |-> a + i]

\* The part of TypeOK that concerns the reporter, in which a document in the
\* buffer has been collected.
MetricsType ==
    /\ stored \in [Docs -> Nat] /\ rejected \in SUBSET Docs /\ lost \in Nat
    /\ taken \in 0..MaxDocs
    /\ buffer \in Seq(Docs) /\ Len(buffer) <= taken

\* Document i has been uploaded, and will be counted, at most this often.
CopiesBounded ==
    /\ \A i \in Docs : stored[i] <= 1 + lost
    /\ \A i \in Buffered : stored[i] <= lost
    /\ \A i \in Docs : i > taken => stored[i] = 0

\* NoDocumentForgotten, for which it is enough that the reporter goes on.
Accounted ==
    mpc # "stopped" =>
        \A i \in 1..taken :
            stored[i] > 0 \/ i \in rejected \cup Buffered \/ Displaced(i)

\* The inductive invariant.
IInv == MetricsType /\ BufferIsNewest /\ Accounted /\ CopiesBounded

-----------------------------------------------------------------------------

\* A batch is a sequence of its length.
LEMMA BatchType ==
    ASSUME NEW a \in Nat, NEW n \in Nat
    PROVE  Batch(a, n) \in Seq(Nat) /\ Len(Batch(a, n)) = n
BY DEF Batch

\* Consecutive batches make up one batch.
LEMMA BatchThenBatch ==
    ASSUME NEW a \in Nat, NEW m \in Nat, NEW n \in Nat
    PROVE  Batch(a, m) \o Batch(a + m, n) = Batch(a, m + n)
<1> DEFINE u == Batch(a, m)
           v == Batch(a + m, n)
           w == Batch(a, m + n)
<1>1. u \in Seq(Nat) /\ Len(u) = m /\ v \in Seq(Nat) /\ Len(v) = n
  BY BatchType
<1>2. w \in Seq(Nat) /\ Len(w) = m + n
  BY BatchType
<1>3. /\ \A i \in 1..m : u[i] = a + i
      /\ \A i \in 1..n : v[i] = a + m + i
      /\ \A i \in 1..(m + n) : w[i] = a + i
  BY DEF Batch
<1> HIDE DEF u, v, w
<1>4. /\ u \o v \in Seq(Nat) /\ Len(u \o v) = m + n
      /\ \A i \in 1..(m + n) : (u \o v)[i] = IF i <= m THEN u[i] ELSE v[i - m]
  BY <1>1, ConcatProperties
<1>5. ASSUME NEW i \in 1..(m + n) PROVE (u \o v)[i] = w[i]
  <2>1. CASE i <= m
    BY <1>3, <1>4, <2>1
  <2>2. CASE i > m
    <3>1. i - m \in 1..n
      BY <2>2
    <3>2. v[i - m] = a + i
      BY <1>3, <3>1
    <3>3. (u \o v)[i] = v[i - m]
      BY <1>4, <2>2
    <3>4. w[i] = a + i
      BY <1>3
    <3> QED
      BY <3>2, <3>3, <3>4
  <2>3. i <= m \/ i > m
    OBVIOUS
  <2> QED
    BY <2>1, <2>2, <2>3, Zenon
<1>6. u \o v = w
  BY <1>2, <1>4, <1>5, SeqEqual
<1> QED
  BY <1>6 DEF u, v, w

\* The last r documents of a batch.
LEMMA BatchEnd ==
    ASSUME NEW a \in Nat, NEW n \in Nat, NEW r \in 0..n
    PROVE  SubSeq(Batch(a, n), n - r + 1, n) = Batch(a + n - r, r)
<1> DEFINE u == Batch(a, n)
           v == SubSeq(u, n - r + 1, n)
           w == Batch(a + n - r, r)
<1>1. \A i \in 1..n : u[i] = a + i
  BY DEF Batch
<1>2. a + n - r \in Nat /\ r \in Nat
  OBVIOUS
<1>3. w \in Seq(Nat) /\ Len(w) = r
  BY <1>2, BatchType
<1>4. \A i \in 1..r : w[i] = a + n - r + i
  BY DEF Batch
<1> HIDE DEF u, w
<1>5. \A i \in (n - r + 1)..n : u[i] \in Nat
  BY <1>1
<1>6. /\ v \in Seq(Nat)
      /\ Len(v) = IF n - r + 1 <= n THEN n - (n - r + 1) + 1 ELSE 0
      /\ \A i \in 1..(n - (n - r + 1) + 1) : v[i] = u[(n - r + 1) + i - 1]
  BY <1>5, SubSeqProperties
<1> HIDE DEF v
<1>7. Len(v) = r
  BY <1>6
<1>8. \A i \in 1..r : v[i] = w[i]
  BY <1>1, <1>4, <1>6
<1>9. v = w
  BY <1>3, <1>6, <1>7, <1>8, SeqEqual
<1> QED
  BY <1>9 DEF u, v, w

\* The documents in the buffer are the newest.
LEMMA BufferedIs ==
    ASSUME MetricsType, BufferIsNewest
    PROVE  Buffered = (taken - Len(buffer) + 1)..taken
<1> USE MetricsAssumption
<1>1. Len(buffer) \in Nat /\ taken \in Nat /\ Len(buffer) <= taken
      /\ DOMAIN buffer = 1..Len(buffer)
  BY DEF MetricsType
<1>2. \A i \in 1..Len(buffer) : buffer[i] = taken - Len(buffer) + i
  BY DEF BufferIsNewest
<1>3. ASSUME NEW x \in (taken - Len(buffer) + 1)..taken PROVE x \in Buffered
  <2> DEFINE i == x - (taken - Len(buffer))
  <2>1. i \in 1..Len(buffer) /\ buffer[i] = x
    BY <1>1, <1>2
  <2> QED
    BY <1>1, <2>1 DEF Buffered
<1>4. ASSUME NEW x \in Buffered PROVE x \in (taken - Len(buffer) + 1)..taken
  BY <1>1, <1>2 DEF Buffered
<1> QED
  BY <1>3, <1>4

\* The size of the buffer after n more documents.
Size(n) ==
    IF Len(buffer) + n <= MaxBufferedSamples THEN Len(buffer) + n
    ELSE MaxBufferedSamples

\* appendBounded keeps the newest documents, as many as fit.
LEMMA AppendKeepsNewest ==
    ASSUME MetricsType, BufferIsNewest, NEW n \in Nat
    PROVE  /\ AppendBounded(Batch(taken, n)) = Batch(taken + n - Size(n), Size(n))
           /\ Size(n) \in Nat /\ Size(n) <= Len(buffer) + n
<1> DEFINE L == Len(buffer)
           M == MaxBufferedSamples
           b == taken - L
           k == L + n
<1> USE MetricsAssumption
<1>1. L \in Nat /\ taken \in Nat /\ L <= taken /\ M \in Nat \ {0} /\ L <= M
  BY DEF MetricsType, BufferIsNewest
<1>2. buffer = Batch(b, L)
  BY DEF BufferIsNewest, Batch
<1>3. b \in Nat /\ b + L = taken /\ k \in Nat /\ k = L + n /\ b + k = taken + n
  BY <1>1
<1>4. AppendBounded(Batch(taken, n)) =
          LET all == buffer \o Batch(taken, n) IN
          IF Len(all) <= M THEN all ELSE SubSeq(all, Len(all) - M + 1, Len(all))
  BY DEF AppendBounded
<1>5. Size(n) = IF k <= M THEN k ELSE M
  BY DEF Size
<1> HIDE DEF L, M, b, k
<1>6. buffer \o Batch(taken, n) = Batch(b, k)
  <2>1. Batch(b, L) \o Batch(b + L, n) = Batch(b, L + n)
    <3>1. b \in Nat /\ L \in Nat
      BY <1>1, <1>3
    <3> QED
      BY <3>1, BatchThenBatch, Zenon
  <2> QED
    BY <1>2, <1>3, <2>1
<1>7. Len(Batch(b, k)) = k
  BY <1>3, BatchType
<1>8. CASE k <= M
  <2>1. taken + n - Size(n) = b /\ Size(n) = k
    BY <1>1, <1>3, <1>5, <1>8
  <2> QED
    BY <1>3, <1>4, <1>6, <1>7, <1>8, <2>1 DEF L
<1>9. CASE ~(k <= M)
  <2>1. M \in 0..k /\ Size(n) = M
    BY <1>1, <1>3, <1>5, <1>9
  <2>2. SubSeq(Batch(b, k), k - M + 1, k) = Batch(b + k - M, M)
    BY <1>3, <2>1, BatchEnd
  <2>3. AppendBounded(Batch(taken, n)) = SubSeq(Batch(b, k), k - M + 1, k)
    BY <1>4, <1>6, <1>7, <1>9, Zenon
  <2>4. b + k - M = taken + n - M
    BY <1>1, <1>3
  <2>5. AppendBounded(Batch(taken, n)) = Batch(taken + n - M, M)
    BY <2>2, <2>3, <2>4, Zenon
  <2> QED
    BY <1>1, <1>3, <2>1, <2>5 DEF L
<1> QED
  BY <1>1, <1>3, <1>8, <1>9

-----------------------------------------------------------------------------

\* An empty buffer is in order.
LEMMA EmptyIsNewest ==
    ASSUME buffer' = <<>>, taken' \in Nat
    PROVE  BufferIsNewest'
<1>1. Len(buffer') = 0
  OBVIOUS
<1>2. buffer' = [i \in 1..Len(buffer') |-> taken' - Len(buffer') + i]
  BY <1>1
<1> QED
  BY <1>1, <1>2, MetricsAssumption DEF BufferIsNewest

\* Nothing has been collected.
LEMMA InitIInv == Init => IInv
<1> SUFFICES ASSUME Init PROVE IInv
  OBVIOUS
<1> USE MetricsAssumption DEF Init, MetricsInit
<1>1. Buffered = {}
  BY DEF Buffered
<1>2. MetricsType
  BY DEF MetricsType
<1>3. BufferIsNewest
  <2>1. Batch(0, 0) = <<>>
    BY BatchType, EmptySeq
  <2> QED
    BY <2>1 DEF BufferIsNewest, Batch
<1>4. Accounted
  BY DEF Accounted
<1>5. CopiesBounded
  BY <1>1 DEF CopiesBounded
<1> QED
  BY <1>2, <1>3, <1>4, <1>5 DEF IInv

\* A sample joins the buffer, and the oldest documents make room.
LEMMA SampleIInv ==
    ASSUME IInv, Sample
    PROVE  IInv'
<1> USE MetricsAssumption
<1>1. MetricsType /\ BufferIsNewest /\ Accounted /\ CopiesBounded
  BY DEF IInv
<1>2. PICK n \in 0..MaxBatch :
        /\ taken + n <= MaxDocs
        /\ buffer' = AppendBounded(Batch(taken, n))
        /\ taken' = taken + n
  BY DEF Sample, Batch
<1>3. stored' = stored /\ rejected' = rejected /\ lost' = lost
  BY DEF Sample, es
<1>4. taken \in Nat /\ n \in Nat /\ Len(buffer) \in Nat /\ Len(buffer) <= taken
      /\ MaxDocs \in Nat
  BY <1>1 DEF MetricsType
<1> DEFINE r == Size(n)
           b == taken + n - r
<1>5. buffer' = Batch(b, r) /\ r \in Nat /\ r <= Len(buffer) + n
  BY <1>1, <1>2, <1>4, AppendKeepsNewest
<1>6. r <= MaxBufferedSamples /\ (r < Len(buffer) + n => r = MaxBufferedSamples)
  BY <1>4 DEF Size
<1> HIDE DEF r
<1>7. b \in Nat /\ b = taken + n - r
  BY <1>4, <1>5
<1> HIDE DEF b
<1>8. Len(buffer') = r
  BY <1>5, <1>7, BatchType
<1>9. MetricsType'
  <2>1. \A i \in 1..r : b + i \in Docs
    BY <1>2, <1>4, <1>5, <1>7 DEF Docs
  <2>2. buffer' \in Seq(Docs)
    BY <1>5, <2>1 DEF Batch
  <2> QED
    BY <1>1, <1>2, <1>3, <1>4, <1>5, <1>8, <2>2 DEF MetricsType
<1>10. BufferIsNewest'
  <2>1. buffer' = Batch(taken' - Len(buffer'), Len(buffer'))
    <3>1. taken' - Len(buffer') = b
      BY <1>2, <1>4, <1>5, <1>8, <1>7
    <3> QED
      BY <1>5, <1>8, <3>1, Zenon
  <2>2. buffer' = [i \in 1..Len(buffer') |-> taken' - Len(buffer') + i]
    BY <2>1 DEF Batch
  <2>3. Len(buffer') <= MaxBufferedSamples
    BY <1>6, <1>8
  <2> QED
    BY <2>2, <2>3 DEF BufferIsNewest
<1>11. Buffered = (taken - Len(buffer) + 1)..taken
  BY <1>1, BufferedIs
<1>12. Buffered' = (taken' - r + 1)..taken' /\ taken' = taken + n
  <2>1. (Buffered = (taken - Len(buffer) + 1)..taken)'
    BY <1>9, <1>10, BufferedIs, PTL
  <2>2. Buffered' = (taken' - Len(buffer') + 1)..taken'
    BY <2>1
  <2> QED
    BY <1>2, <1>8, <2>2
<1>13. Accounted'
  <2> SUFFICES ASSUME NEW i \in 1..(taken + n)
               PROVE  \/ stored[i] > 0 \/ i \in rejected \cup Buffered'
                      \/ i + MaxBufferedSamples <= taken + n
    BY <1>2, <1>3 DEF Accounted, Displaced
  <2>1. CASE i > taken + n - r
    BY <1>4, <1>5, <1>12, <2>1
  <2>2. CASE i <= taken + n - r /\ r = MaxBufferedSamples
    BY <1>4, <1>5, <2>2
  <2>3. CASE i <= taken + n - r /\ r = Len(buffer) + n
    <3>1. i \in 1..taken /\ i \notin Buffered
      BY <1>4, <1>5, <1>11, <2>3
    <3>2. stored[i] > 0 \/ i \in rejected \/ i + MaxBufferedSamples <= taken
      BY <1>1, <3>1 DEF Sample, At, Accounted, Displaced
    <3> QED
      BY <1>4, <3>1, <3>2
  <2> QED
    BY <1>4, <1>5, <1>6, <2>1, <2>2, <2>3
<1>14. CopiesBounded'
  <2>1. \A i \in Docs : stored[i] <= 1 + lost
    BY <1>1 DEF CopiesBounded
  <2>2. ASSUME NEW i \in Buffered' PROVE stored[i] <= lost
    <3>1. i \in Docs
      BY <1>2, <1>4, <1>5, <1>12 DEF Docs
    <3>2. CASE i > taken
      BY <1>1, <3>1, <3>2 DEF CopiesBounded, MetricsType
    <3>3. CASE i <= taken
      <4>1. i \in Buffered
        BY <1>4, <1>5, <1>11, <1>12, <3>3
      <4> QED
        BY <1>1, <4>1 DEF CopiesBounded
    <3> QED
      BY <1>4, <1>12, <3>2, <3>3
  <2>3. ASSUME NEW i \in Docs, i > taken + n PROVE stored[i] = 0
    BY <1>1, <1>4, <2>3 DEF CopiesBounded, Docs
  <2> QED
    BY <1>2, <1>3, <2>1, <2>2, <2>3 DEF CopiesBounded, Docs
<1> QED
  BY <1>9, <1>10, <1>13, <1>14 DEF IInv

\* What is buffered has been collected.
LEMMA BufferedCollected ==
    ASSUME MetricsType, BufferIsNewest
    PROVE  Buffered \subseteq Docs /\ Buffered \subseteq 1..taken
<1> USE MetricsAssumption
<1>1. Buffered = (taken - Len(buffer) + 1)..taken
  BY BufferedIs
<1>2. taken \in 0..MaxDocs /\ Len(buffer) \in Nat /\ Len(buffer) <= taken
  BY DEF MetricsType
<1> QED
  BY <1>1, <1>2 DEF Docs

\* An upload that was answered: each document of the buffer gains a copy or is
\* refused, and the buffer is emptied.
LEMMA ShipIInv ==
    ASSUME IInv, Ship
    PROVE  IInv'
<1> USE MetricsAssumption
<1>1. MetricsType /\ BufferIsNewest /\ Accounted /\ CopiesBounded
  BY DEF IInv
<1>2. PICK refused \in SUBSET Buffered : Accepts(refused)
  BY DEF Ship
<1>3. /\ stored' = [i \in Docs |->
                        stored[i] + (IF i \in Buffered \ refused THEN 1 ELSE 0)]
      /\ rejected' = rejected \cup refused
  BY <1>2 DEF Accepts
<1>4. buffer' = <<>> /\ taken' = taken /\ lost' = lost
  BY DEF Ship
<1>5. /\ stored \in [Docs -> Nat] /\ rejected \in SUBSET Docs /\ lost \in Nat
      /\ taken \in 0..MaxDocs /\ MaxDocs \in Nat
  BY <1>1 DEF MetricsType
<1>6. Buffered \subseteq Docs /\ refused \subseteq Docs
  BY <1>1, <1>2, BufferedCollected
<1>7. Buffered' = {}
  BY <1>4 DEF Buffered
<1>8. MetricsType'
  <2>1. stored' \in [Docs -> Nat] /\ rejected' \in SUBSET Docs
    BY <1>3, <1>5, <1>6
  <2>2. buffer' \in Seq(Docs) /\ Len(buffer') <= taken'
    BY <1>4, <1>5
  <2> QED
    BY <1>4, <1>5, <2>1, <2>2 DEF MetricsType
<1>9. BufferIsNewest'
  <2>1. Len(buffer') = 0
    BY <1>4
  <2>2. buffer' = [i \in 1..Len(buffer') |-> taken' - Len(buffer') + i]
    BY <1>4, <1>5, <2>1
  <2> QED
    BY <2>1, <2>2 DEF BufferIsNewest
<1>10. Accounted'
  <2> SUFFICES ASSUME NEW i \in 1..taken
               PROVE  \/ stored'[i] > 0 \/ i \in rejected'
                      \/ i + MaxBufferedSamples <= taken
    BY <1>4, <1>7 DEF Accounted, Displaced
  <2>1. i \in Docs
    BY <1>5 DEF Docs
  <2>2. stored[i] > 0 \/ i \in rejected \/ i \in Buffered
        \/ i + MaxBufferedSamples <= taken
    BY <1>1, <1>2 DEF Accepts, At, Accounted, Displaced
  <2> QED
    BY <1>3, <1>5, <2>1, <2>2
<1>11. CopiesBounded'
  <2>1. ASSUME NEW i \in Docs PROVE stored'[i] <= 1 + lost
    BY <1>1, <1>3, <1>5 DEF CopiesBounded
  <2>2. ASSUME NEW i \in Docs, i > taken PROVE stored'[i] = 0
    <3>1. i \notin Buffered /\ stored[i] = 0
      BY <1>1, <1>5, <2>2, BufferedCollected DEF CopiesBounded, Docs
    <3> QED
      BY <1>3, <3>1
  <2> QED
    BY <1>4, <1>7, <2>1, <2>2 DEF CopiesBounded, Docs
<1> QED
  BY <1>8, <1>9, <1>10, <1>11 DEF IInv

\* An upload whose answer is lost: each document of the buffer gains a copy,
\* which the count of lost answers pays for, and stays.
LEMMA ShipAnswerLostIInv ==
    ASSUME IInv, ShipAnswerLost
    PROVE  IInv'
<1> USE MetricsAssumption
<1>1. MetricsType /\ BufferIsNewest /\ Accounted /\ CopiesBounded
  BY DEF IInv
<1>2. /\ stored' = [i \in Docs |-> stored[i] + (IF i \in Buffered THEN 1 ELSE 0)]
      /\ rejected' = rejected
  BY DEF ShipAnswerLost, Accepts
<1>3. /\ buffer' = buffer \/ (buffer' = <<>> /\ mpc' = "stopped")
      /\ taken' = taken /\ lost' = lost + 1 /\ mpc = "ship"
  BY DEF ShipAnswerLost, Accepts, At, ReturnsOrRetries, Returns
<1>4. /\ stored \in [Docs -> Nat] /\ lost \in Nat
      /\ taken \in 0..MaxDocs /\ MaxDocs \in Nat
  BY <1>1 DEF MetricsType
<1>5. Buffered' = Buffered \/ (Buffered' = {} /\ mpc' = "stopped")
  BY <1>3 DEF Buffered
<1>6. MetricsType'
  <2>1. stored' \in [Docs -> Nat]
    BY <1>2, <1>4
  <2>2. buffer' \in Seq(Docs) /\ Len(buffer') <= taken'
    <3>1. CASE buffer' = buffer
      BY <1>1, <1>3, <3>1 DEF MetricsType
    <3>2. CASE buffer' = <<>>
      BY <1>3, <1>4, <3>2
    <3> QED
      BY <1>3, <3>1, <3>2
  <2> QED
    BY <1>1, <1>2, <1>3, <1>4, <2>1, <2>2 DEF MetricsType
<1>7. BufferIsNewest'
  <2>1. CASE buffer' = buffer
    BY <1>1, <1>3, <2>1 DEF BufferIsNewest
  <2>2. CASE buffer' = <<>>
    BY <1>3, <1>4, <2>2, EmptyIsNewest
  <2> QED
    BY <1>3, <2>1, <2>2
<1>8. Accounted'
  <2> SUFFICES ASSUME mpc' # "stopped", NEW i \in 1..taken
               PROVE  \/ stored'[i] > 0 \/ i \in rejected \cup Buffered
                      \/ i + MaxBufferedSamples <= taken
    BY <1>2, <1>3, <1>5 DEF Accounted, Displaced
  <2>1. i \in Docs
    BY <1>4 DEF Docs
  <2>2. stored[i] > 0 \/ i \in rejected \cup Buffered
        \/ i + MaxBufferedSamples <= taken
    BY <1>1, <1>3 DEF Accounted, Displaced
  <2> QED
    BY <1>2, <1>4, <2>1, <2>2
<1>9. CopiesBounded'
  <2>1. ASSUME NEW i \in Docs PROVE stored'[i] <= 1 + (lost + 1)
    BY <1>1, <1>2, <1>4 DEF CopiesBounded
  <2>2. ASSUME NEW i \in Buffered PROVE stored'[i] <= lost + 1
    <3>1. i \in Docs /\ stored[i] <= lost
      BY <1>1, BufferedCollected DEF CopiesBounded
    <3> QED
      BY <1>2, <1>4, <3>1
  <2>3. ASSUME NEW i \in Docs, i > taken PROVE stored'[i] = 0
    <3>1. i \notin Buffered /\ stored[i] = 0
      BY <1>1, <1>4, <2>3, BufferedCollected DEF CopiesBounded, Docs
    <3> QED
      BY <1>2, <3>1
  <2> QED
    BY <1>3, <1>5, <2>1, <2>2, <2>3 DEF CopiesBounded, Docs
<1> QED
  BY <1>6, <1>7, <1>8, <1>9 DEF IInv

\* What leaves the documents, their copies and the count of lost answers alone.
LEMMA QuietIInv ==
    ASSUME IInv, UNCHANGED <<stored, rejected, lost, buffer, taken>>,
           mpc = "stopped" => mpc' = "stopped"
    PROVE  IInv'
BY DEF IInv, MetricsType, BufferIsNewest, Accounted, CopiesBounded,
       Displaced, Buffered, Docs

\* The reporter returns: no document is accounted for any more.
LEMMA ReturnsIInv ==
    ASSUME IInv, Returns, UNCHANGED <<stored, rejected, lost, taken>>
    PROVE  IInv'
<1>1. MetricsType /\ CopiesBounded /\ buffer' = <<>> /\ mpc' = "stopped"
  BY DEF IInv, Returns
<1>2. taken \in Nat /\ Buffered' = {}
  BY <1>1, MetricsAssumption DEF MetricsType, Buffered
<1>3. MetricsType'
  BY <1>1, <1>2 DEF MetricsType
<1>4. BufferIsNewest'
  BY <1>1, <1>2, EmptyIsNewest
<1>5. CopiesBounded' /\ Accounted'
  BY <1>1, <1>2 DEF CopiesBounded, Accounted, Docs
<1> QED
  BY <1>3, <1>4, <1>5 DEF IInv

\* Every step of the daemon preserves the invariant.
LEMMA NextIInv == IInv /\ [Next]_vars => IInv'
<1> SUFFICES ASSUME IInv, [Next]_vars PROVE IInv'
  OBVIOUS
<1>1. CASE UNCHANGED metricsVars
  <2>1. UNCHANGED <<stored, rejected, lost, buffer, taken, mpc>>
    BY <1>1 DEF metricsVars
  <2> QED
    BY <2>1, QuietIInv
<1>2. CASE MetricsStep
  <2>1. CASE Sample
    BY <2>1, SampleIInv
  <2>2. CASE Ship
    BY <2>2, ShipIInv
  <2>3. CASE ShipAnswerLost
    BY <2>3, ShipAnswerLostIInv
  <2>4. CASE MetricsTick \/ FetchCreds \/ ShipUnauthorized \/ CredsAge \/ RotateKey
    <3>1. /\ UNCHANGED <<stored, rejected, lost, buffer, taken>>
          /\ mpc = "stopped" => mpc' = "stopped"
      BY <2>4 DEF MetricsTick, FetchCreds, ShipUnauthorized, CredsAge, RotateKey,
         At, es
    <3> QED
      BY <3>1, QuietIInv
  <2>5. CASE FetchRefused \/ FetchFails \/ ShipFails \/ MetricsCancelled
    <3>1. /\ UNCHANGED <<stored, rejected, lost, taken>>
          /\ Returns \/ (UNCHANGED buffer /\ mpc # "stopped")
      BY <2>5 DEF FetchRefused, FetchFails, ShipFails, MetricsCancelled,
         ReturnsOrRetries, At, es
    <3> QED
      BY <3>1, QuietIInv, ReturnsIInv
  <2> QED
    BY <1>2, <2>1, <2>2, <2>3, <2>4, <2>5 DEF MetricsStep
<1>3. UNCHANGED metricsVars \/ MetricsStep
  BY DEF Next, vars
<1> QED
  BY <1>1, <1>2, <1>3

\* The invariant holds throughout.
LEMMA Invariance == Spec => []IInv
BY InitIInv, NextIInv, PTL DEF Spec

-----------------------------------------------------------------------------

\* The buffer holds the newest documents, in order, for every size of sample
\* and of buffer (appendBounded).
THEOREM BufferIsNewestHolds == Spec => []BufferIsNewest
<1>1. IInv => BufferIsNewest
  BY DEF IInv
<1> QED
  BY <1>1, Invariance, PTL

\* Failed uploads, refused keys and lost answers lose no document: it leaves the
\* reporter for Elasticsearch or to make room.
THEOREM NoDocumentForgottenHolds == Spec => []NoDocumentForgotten
<1>1. IInv => NoDocumentForgotten
  BY DEF IInv, Accounted, NoDocumentForgotten
<1> QED
  BY <1>1, Invariance, PTL

\* A document has no more copies than one, and one per answer that was lost.
THEOREM DuplicatesAreRetriesHolds == Spec => []DuplicatesAreRetries
<1>1. IInv => DuplicatesAreRetries
  BY DEF IInv, CopiesBounded, DuplicatesAreRetries
<1> QED
  BY <1>1, Invariance, PTL

-----------------------------------------------------------------------------
(* The types of the other variables *)

ProcessType ==
    /\ cancelled \in BOOLEAN /\ revoked \in BOOLEAN /\ alive \in BOOLEAN
    /\ agent \in {"starting", "running", "returned"}
    /\ svc \in {"start_pending", "running", "stop_pending", "stopped", "console"}

InventoryType ==
    /\ osquery \in BOOLEAN /\ ipc \in {"wait", "post", "stopped"}
    /\ snapshots \in SUBSET Tables /\ cmdb \in SUBSET Tables

\* The reporter holds no key, or one that has been accepted at some time.
KeyType ==
    /\ esKey \in 1..MaxRotations + 1 /\ creds \in 0..esKey /\ old \in BOOLEAN
    /\ lost \in 0..MaxLost /\ mpc \in {"wait", "fetch", "sample", "ship", "stopped"}

LEMMA TypesInit == Init => ProcessType /\ InventoryType /\ KeyType
<1> SUFFICES ASSUME Init PROVE ProcessType /\ InventoryType /\ KeyType
  OBVIOUS
<1>1. ProcessType
  BY DEF Init, ProcessInit, ServiceInit, ProcessType
<1>2. InventoryType
  BY DEF Init, InventoryInit, InventoryType
<1>3. KeyType
  <2>1. esKey \in 1..MaxRotations + 1 /\ creds \in 0..esKey /\ lost \in 0..MaxLost
    BY MetricsAssumption DEF Init, MetricsInit
  <2>2. old \in BOOLEAN /\ mpc \in {"wait", "fetch", "sample", "ship", "stopped"}
    BY DEF Init, MetricsInit
  <2> QED
    BY <2>1, <2>2 DEF KeyType
<1> QED
  BY <1>1, <1>2, <1>3

\* The process and what starts and stops it.
LEMMA ProcessTypeStep == ProcessType /\ [Next]_vars => ProcessType'
<1> SUFFICES ASSUME ProcessType, [Next]_vars PROVE ProcessType'
  OBVIOUS
<1>1. CASE (AgentStarts \/ AgentExits \/ AgentReturns \/ Revoke) /\ UNCHANGED svc
  BY <1>1 DEF ProcessType, AgentStarts, AgentExits, AgentReturns, Revoke
<1>2. CASE ServiceStep
  BY <1>2 DEF ServiceStep, ReportRunning, StopControl, StopUnwound, StopTimesOut,
     ReportStopped, Signal, MainReturns, ProcessType, processVars
<1>3. CASE UNCHANGED <<processVars, svc>>
  BY <1>3 DEF ProcessType, processVars
<1>4. ASSUME InventoryStep \/ MetricsStep PROVE UNCHANGED processVars
  BY <1>4 DEF InventoryStep, NoOsquery, Collect, CollectFails, Post, PostRefused,
     PostFails, Posted, InventoryCancelled, OsqueryChanges, MetricsStep, MetricsTick,
     FetchCreds, FetchRefused, FetchFails, Sample, Ship, ShipAnswerLost, ShipFails,
     ShipUnauthorized, MetricsCancelled, CredsAge, RotateKey
<1> QED
  BY <1>1, <1>2, <1>3, <1>4 DEF Next, vars

LEMMA InventoryTypeStep == InventoryType /\ [Next]_vars => InventoryType'
<1> SUFFICES ASSUME InventoryType, [Next]_vars PROVE InventoryType'
  OBVIOUS
<1>1. CASE InventoryStep
  BY <1>1 DEF InventoryStep, NoOsquery, Collect, CollectFails, Post, PostRefused,
     PostFails, Posted, InventoryCancelled, OsqueryChanges, InventoryType, inventoryVars
<1>2. CASE UNCHANGED inventoryVars
  BY <1>2 DEF InventoryType, inventoryVars
<1> QED
  BY <1>1, <1>2 DEF Next, vars

LEMMA KeyTypeStep == KeyType /\ [Next]_vars => KeyType'
<1> SUFFICES ASSUME KeyType, [Next]_vars PROVE KeyType'
  OBVIOUS
<1>1. CASE MetricsStep
  <2>1. esKey' \in 1..MaxRotations + 1 /\ creds' \in 0..esKey'
    <3>1. /\ esKey' = esKey \/ (esKey <= MaxRotations /\ esKey' = esKey + 1)
          /\ creds' = creds \/ creds' = 0 \/ (creds' = esKey /\ esKey' = esKey)
      BY <1>1 DEF MetricsStep, MetricsTick, FetchCreds, FetchRefused, FetchFails,
         Sample, Ship, ShipAnswerLost, ShipFails, ShipUnauthorized,
         MetricsCancelled, CredsAge, RotateKey, es
    <3> QED
      BY <3>1, MetricsAssumption DEF KeyType
  <2>2. lost' \in 0..MaxLost
    <3>1. lost' = lost \/ (lost < MaxLost /\ lost' = lost + 1)
      BY <1>1 DEF MetricsStep, MetricsTick, FetchCreds, FetchRefused, FetchFails,
         Sample, Ship, ShipAnswerLost, ShipFails, ShipUnauthorized,
         MetricsCancelled, CredsAge, RotateKey, es
    <3> QED
      BY <3>1, MetricsAssumption DEF KeyType
  <2>3. old' \in BOOLEAN /\ mpc' \in {"wait", "fetch", "sample", "ship", "stopped"}
    BY <1>1 DEF MetricsStep, MetricsTick, FetchCreds, FetchRefused, FetchFails,
       Sample, Ship, ShipAnswerLost, ShipFails, ShipUnauthorized,
       MetricsCancelled, CredsAge, RotateKey, Returns, ReturnsOrRetries, KeyType, es
  <2> QED
    BY <2>1, <2>2, <2>3 DEF KeyType
<1>2. CASE UNCHANGED metricsVars
  BY <1>2 DEF KeyType, metricsVars
<1> QED
  BY <1>1, <1>2 DEF Next, vars

\* Every variable of the process, the service and both reporters keeps its type;
\* the reporter never holds a key that has not been issued (metrics_ship.go).
THEOREM TypeCorrect == Spec => []TypeOK
<1>1. IInv /\ ProcessType /\ InventoryType /\ KeyType => TypeOK
  BY DEF IInv, MetricsType, ProcessType, InventoryType, KeyType, TypeOK
<1> QED
  BY <1>1, Invariance, TypesInit, ProcessTypeStep, InventoryTypeStep, KeyTypeStep, PTL
  DEF Spec
=============================================================================
