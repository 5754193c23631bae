-------------------------- MODULE ExecOutputProofs --------------------------
(***************************************************************************)
(* Theorems about ExecOutput, for any set of streams, any cap, any pipe    *)
(* and any amount of output.                                               *)
(***************************************************************************)
EXTENDS ExecOutput, SequenceTheorems, TLAPS

\* The first n bytes of a stream, and the n bytes that follow the first a.
Prefix(n) == [i \in 1..n |-> i]
Piece(a, n) == [i \in 1..n |-> a + i]

\* How many of the first n bytes are kept.
Kept(n) == IF n < Cap THEN n ELSE Cap

\* A buffer is full exactly when something that was read did not fit.
FullIffLost == \A s \in Streams : full[s] <=> read[s] > Cap

\* A copying goroutine that has ended has read everything, or has been told of
\* a short write, which happens only to a full buffer.
CopierEnds ==
    \A s \in Streams :
        /\ copier[s] = "short" => full[s]
        /\ copier[s] = "eof" => proc # "running" /\ read[s] = written[s]

\* What the exit frame says was true when it was sent and stays so.
ExitStands ==
    exit.sent => /\ proc # "running"
                 /\ \A s \in Streams : copier[s] # "copy"
                 /\ exit.truncated <=> \E s \in Streams : full[s]

\* The inductive invariant.
IInv == TypeOK /\ KeptIsPrefix /\ FullIffLost /\ CopierEnds /\ ExitStands

-----------------------------------------------------------------------------

\* Prefixes and pieces are sequences of their lengths.
LEMMA PieceType ==
    ASSUME NEW a \in Nat, NEW n \in Nat
    PROVE  /\ Prefix(n) \in Seq(Nat) /\ Len(Prefix(n)) = n
           /\ Piece(a, n) \in Seq(Nat) /\ Len(Piece(a, n)) = n
BY DEF Prefix, Piece

\* The pieces of a stream that the reads of it yield fit together (Copy).
LEMMA PrefixThenPiece ==
    ASSUME NEW a \in Nat, NEW n \in Nat
    PROVE  Prefix(a) \o Piece(a, n) = Prefix(a + n)
<1> DEFINE u == Prefix(a)
           v == Piece(a, n)
           w == Prefix(a + n)
<1>1. u \in Seq(Nat) /\ Len(u) = a /\ v \in Seq(Nat) /\ Len(v) = n
  BY PieceType
<1>2. w \in Seq(Nat) /\ Len(w) = a + n
  BY PieceType
<1>3. /\ \A i \in 1..a : u[i] = i
      /\ \A i \in 1..n : v[i] = a + i
      /\ \A i \in 1..(a + n) : w[i] = i
  BY DEF Prefix, Piece
<1> HIDE DEF u, v, w
<1>4. /\ u \o v \in Seq(Nat) /\ Len(u \o v) = a + n
      /\ \A i \in 1..(a + n) : (u \o v)[i] = IF i <= a THEN u[i] ELSE v[i - a]
  BY <1>1, ConcatProperties
<1>5. \A i \in 1..(a + n) : (u \o v)[i] = w[i]
  BY <1>3, <1>4
<1>6. u \o v = w
  BY <1>2, <1>4, <1>5, SeqEqual
<1> QED
  BY <1>6 DEF u, v, w

\* What is kept of a piece that crosses the cap is a shorter piece (Write).
LEMMA PieceCut ==
    ASSUME NEW a \in Nat, NEW n \in Nat, NEW r \in 0..n
    PROVE  SubSeq(Piece(a, n), 1, r) = Piece(a, r)
<1>1. Piece(a, n) \in Seq(Nat) /\ Len(Piece(a, n)) = n
  BY PieceType
<1>2. Piece(a, r) \in Seq(Nat) /\ Len(Piece(a, r)) = r
  BY PieceType
<1> QED
  BY <1>1, <1>2 DEF Piece

\* capBuffer.Write of the next n bytes: the buffer goes on holding the beginning
\* of the stream, is full exactly when something did not fit, and returns a
\* count other than n only then.
LEMMA WriteKeeps ==
    ASSUME TypeOK, KeptIsPrefix, FullIffLost,
           NEW s \in Streams, NEW n \in Nat \ {0}
    PROVE  LET w == Write(s, Piece(read[s], n)) IN
           /\ w.buf = Prefix(Kept(read[s] + n))
           /\ w.full \in BOOLEAN
           /\ w.full <=> read[s] + n > Cap
           /\ w.n # n => w.full
<1> DEFINE p == Piece(read[s], n)
           remain == Cap - Len(buf[s])
<1> USE ExecOutputAssumption
<1>1. read[s] \in Nat /\ full[s] \in BOOLEAN
  BY DEF TypeOK
<1>2. buf[s] = Prefix(Kept(read[s]))
  BY DEF KeptIsPrefix, Prefix, Kept
<1>3. Len(buf[s]) = Kept(read[s]) /\ Len(p) = n /\ Kept(read[s]) \in Nat
  BY <1>1, <1>2, PieceType DEF Kept
<1>4. full[s] <=> read[s] > Cap
  BY DEF FullIffLost
<1>5. CASE full[s] \/ remain <= 0
  <2>1. Write(s, p) = [buf |-> buf[s], full |-> TRUE, n |-> n]
    BY <1>3, <1>5 DEF Write
  <2>2. read[s] >= Cap
    BY <1>1, <1>3, <1>4, <1>5 DEF Kept
  <2>3. Kept(read[s] + n) = Kept(read[s])
    BY <1>1, <2>2 DEF Kept
  <2> QED
    BY <1>1, <1>2, <2>1, <2>2, <2>3
<1>6. CASE ~(full[s] \/ remain <= 0) /\ Len(p) > remain
  <2>1. Write(s, p) = [buf |-> buf[s] \o SubSeq(p, 1, remain), full |-> TRUE, n |-> remain]
    BY <1>6 DEF Write
  <2>2. Kept(read[s]) = read[s] /\ remain = Cap - read[s] /\ remain \in 0..n
    BY <1>1, <1>3, <1>6 DEF Kept
  <2> HIDE DEF remain, p
  <2>3. SubSeq(p, 1, remain) = Piece(read[s], remain)
    BY <1>1, <2>2, PieceCut DEF p
  <2>4. Prefix(read[s]) \o Piece(read[s], remain) = Prefix(read[s] + remain)
    <3>1. remain \in Nat
      BY <2>2
    <3> QED
      BY <1>1, <3>1, PrefixThenPiece
  <2>5. read[s] + remain = Kept(read[s] + n) /\ read[s] + n > Cap
    BY <1>1, <1>3, <1>6, <2>2 DEF Kept
  <2>6. buf[s] \o SubSeq(p, 1, remain) = Prefix(Kept(read[s] + n))
    BY <1>2, <2>2, <2>3, <2>4, <2>5
  <2>7. Write(s, p) = [buf |-> Prefix(Kept(read[s] + n)), full |-> TRUE, n |-> remain]
    BY <2>1, <2>6
  <2> QED
    BY <2>5, <2>7 DEF p
<1>7. CASE ~(full[s] \/ remain <= 0) /\ ~(Len(p) > remain)
  <2>1. Write(s, p) = [buf |-> buf[s] \o p, full |-> FALSE, n |-> n]
    BY <1>3, <1>7 DEF Write
  <2>2. Kept(read[s]) = read[s] /\ read[s] + n <= Cap
    BY <1>1, <1>3, <1>7 DEF Kept
  <2>3. buf[s] \o p = Prefix(read[s] + n)
    BY <1>1, <1>2, <2>2, PrefixThenPiece
  <2>4. Kept(read[s] + n) = read[s] + n
    BY <1>1, <2>2 DEF Kept
  <2> QED
    BY <1>1, <2>1, <2>2, <2>3, <2>4
<1> QED
  BY <1>5, <1>6, <1>7

-----------------------------------------------------------------------------

\* Nothing has been written and nothing is kept.
LEMMA InitIInv == Init => IInv
<1> SUFFICES ASSUME Init PROVE IInv
  OBVIOUS
<1> USE ExecOutputAssumption DEF Init
<1>1. TypeOK
  BY DEF TypeOK, NoExit
<1>2. KeptIsPrefix
  <2>1. Prefix(0) = <<>>
    BY PieceType, EmptySeq
  <2>2. ASSUME NEW s \in Streams
        PROVE  buf[s] = [i \in 1..(IF read[s] < Cap THEN read[s] ELSE Cap) |-> i]
    BY <2>1 DEF Prefix
  <2> QED
    BY <2>2 DEF KeptIsPrefix
<1>3. FullIffLost /\ CopierEnds /\ ExitStands
  BY DEF FullIffLost, CopierEnds, ExitStands, NoExit
<1> QED
  BY <1>1, <1>2, <1>3 DEF IInv

\* A read of a piece of the stream and its Write to the buffer.
LEMMA CopyIInv ==
    ASSUME IInv, NEW s \in Streams, Copy(s)
    PROVE  IInv'
<1> USE ExecOutputAssumption
<1>1. TypeOK /\ KeptIsPrefix /\ FullIffLost /\ CopierEnds /\ ExitStands
  BY DEF IInv
<1>2. PICK n \in 1..InPipe(s) :
        /\ copier[s] = "copy"
        /\ buf' = [buf EXCEPT ![s] = Write(s, Piece(read[s], n)).buf]
        /\ full' = [full EXCEPT ![s] = Write(s, Piece(read[s], n)).full]
        /\ copier' = [copier EXCEPT ![s] =
               IF Write(s, Piece(read[s], n)).n = n THEN @ ELSE "short"]
        /\ read' = [read EXCEPT ![s] = @ + n]
        /\ UNCHANGED <<written, proc, exit>>
  BY DEF Copy, Piece
<1> DEFINE w == Write(s, Piece(read[s], n))
<1>3. read[s] \in Nat /\ written[s] \in Nat /\ n \in Nat \ {0}
      /\ read[s] + n <= written[s]
  BY <1>1 DEF TypeOK, InPipe
<1>4. /\ w.buf = Prefix(Kept(read[s] + n))
      /\ w.full \in BOOLEAN
      /\ w.full <=> read[s] + n > Cap
      /\ w.n # n => w.full
  BY <1>1, <1>3, WriteKeeps
<1> HIDE DEF w
<1>5. /\ buf' = [buf EXCEPT ![s] = w.buf]
      /\ full' = [full EXCEPT ![s] = w.full]
      /\ copier' = [copier EXCEPT ![s] = IF w.n = n THEN @ ELSE "short"]
      /\ read' = [read EXCEPT ![s] = @ + n]
      /\ UNCHANGED <<written, proc, exit>>
  BY <1>2 DEF w
<1>6. w.buf \in Seq(Nat) /\ Len(w.buf) <= Cap
  <2>1. Kept(read[s] + n) \in Nat /\ Kept(read[s] + n) <= Cap
    BY <1>3 DEF Kept
  <2> QED
    BY <1>4, <2>1, PieceType
<1>7. TypeOK'
  BY <1>1, <1>3, <1>4, <1>5, <1>6 DEF TypeOK
<1>8. KeptIsPrefix'
  <2>1. w.buf = [i \in 1..(IF read'[s] < Cap THEN read'[s] ELSE Cap) |-> i]
    BY <1>1, <1>4, <1>5 DEF Prefix, Kept, TypeOK
  <2>2. \A t \in Streams : buf'[t] = [i \in 1..(IF read'[t] < Cap THEN read'[t] ELSE Cap) |-> i]
    BY <1>1, <1>5, <2>1 DEF KeptIsPrefix, TypeOK
  <2> QED
    BY <2>2 DEF KeptIsPrefix
<1>9. FullIffLost'
  BY <1>1, <1>3, <1>4, <1>5 DEF FullIffLost, TypeOK
<1>10. CopierEnds'
  BY <1>1, <1>2, <1>4, <1>5 DEF CopierEnds, FullIffLost, TypeOK
<1>11. ExitStands'
  BY <1>1, <1>2, <1>5 DEF ExitStands
<1> QED
  BY <1>7, <1>8, <1>9, <1>10, <1>11 DEF IInv

\* The steps of the process, which read and write no buffer.
LEMMA ProcIInv ==
    ASSUME IInv,
           \/ \E s \in Streams : ProcWrites(s) \/ ProcSigpipe(s)
           \/ \E how \in Endings : ProcEnds(how)
    PROVE  IInv'
<1> USE ExecOutputAssumption DEF IInv
<1>1. ASSUME NEW s \in Streams, ProcWrites(s) PROVE IInv'
  <2> USE <1>1 DEF ProcWrites
  <2>1. TypeOK'
    BY DEF TypeOK
  <2>2. KeptIsPrefix' /\ FullIffLost'
    BY DEF KeptIsPrefix, FullIffLost
  <2>3. CopierEnds' /\ ExitStands'
    BY DEF CopierEnds, ExitStands, TypeOK
  <2> QED
    BY <2>1, <2>2, <2>3
<1>2. ASSUME NEW how \in Endings,
             proc = "running", proc' = how,
             UNCHANGED <<written, read, buf, full, copier, exit>>
      PROVE  IInv'
  <2> USE <1>2
  <2>1. TypeOK'
    BY DEF TypeOK
  <2>2. KeptIsPrefix' /\ FullIffLost'
    BY DEF KeptIsPrefix, FullIffLost
  <2>3. CopierEnds' /\ ExitStands'
    BY DEF CopierEnds, ExitStands, Endings
  <2> QED
    BY <2>1, <2>2, <2>3
<1>3. "killed" \in Endings
  BY DEF Endings
<1> QED
  BY <1>1, <1>2, <1>3 DEF ProcSigpipe, ProcEnds

\* The end of a copying goroutine, and the exit frame.
LEMMA EndIInv ==
    ASSUME IInv, (\E s \in Streams : CopyEnds(s)) \/ SendExit
    PROVE  IInv'
<1> USE ExecOutputAssumption DEF IInv
<1>1. ASSUME NEW s \in Streams, CopyEnds(s) PROVE IInv'
  <2> USE <1>1 DEF CopyEnds
  <2>1. TypeOK'
    BY DEF TypeOK
  <2>2. KeptIsPrefix' /\ FullIffLost'
    BY DEF KeptIsPrefix, FullIffLost
  <2>3. CopierEnds'
    BY DEF CopierEnds, TypeOK, InPipe
  <2>4. ExitStands'
    BY DEF ExitStands, TypeOK
  <2> QED
    BY <2>1, <2>2, <2>3, <2>4
<1>2. CASE SendExit
  <2> USE <1>2 DEF SendExit
  <2>1. ExitCode \in {-1, 0, 1}
    BY DEF ExitCode, TypeOK, Endings
  <2>2. TypeOK'
    BY <2>1 DEF TypeOK
  <2>3. KeptIsPrefix' /\ FullIffLost' /\ CopierEnds'
    BY DEF KeptIsPrefix, FullIffLost, CopierEnds
  <2>4. ExitStands'
    BY DEF ExitStands
  <2> QED
    BY <2>2, <2>3, <2>4
<1> QED
  BY <1>1, <1>2

\* Every step preserves the inductive invariant.
LEMMA NextIInv == IInv /\ [Next]_vars => IInv'
<1> SUFFICES ASSUME IInv, [Next]_vars PROVE IInv'
  OBVIOUS
<1>1. CASE UNCHANGED vars
  BY <1>1 DEF IInv, TypeOK, KeptIsPrefix, FullIffLost, CopierEnds, ExitStands, vars
<1>2. CASE Next
  BY <1>2, CopyIInv, ProcIInv, EndIInv DEF Next
<1> QED
  BY <1>1, <1>2

\* The invariant holds throughout.
LEMMA Invariance == Spec => []IInv
BY InitIInv, NextIInv, PTL DEF Spec

-----------------------------------------------------------------------------

\* Type correctness: no buffer ever exceeds its capacity (buffer.go, Write).
THEOREM TypeCorrect == Spec => []TypeOK
<1>1. IInv => TypeOK
  BY DEF IInv
<1> QED
  BY <1>1, Invariance, PTL

\* However a command's output is cut into reads, the buffer holds its beginning
\* (buffer.go, Write).
THEOREM KeptIsPrefixHolds == Spec => []KeptIsPrefix
<1>1. IInv => KeptIsPrefix
  BY DEF IInv
<1> QED
  BY <1>1, Invariance, PTL

\* An exit frame says "truncated" exactly when output is missing (exec.go,
\* runExec, with the short write of buffer.go in between).
THEOREM TruncatedIffLostHolds == Spec => []TruncatedIffLost
<1>1. IInv => TruncatedIffLost
  <2> SUFFICES ASSUME IInv, exit.sent
               PROVE  exit.truncated <=> \E s \in Streams : written[s] > Len(buf[s])
    BY DEF TruncatedIffLost
  <2> USE ExecOutputAssumption
  <2>1. exit.truncated <=> \E s \in Streams : full[s]
    BY DEF IInv, ExitStands
  <2>2. ASSUME NEW s \in Streams
        PROVE  full[s] <=> written[s] > Len(buf[s])
    <3>1. read[s] \in Nat /\ written[s] \in Nat /\ read[s] <= written[s]
      BY DEF IInv, TypeOK
    <3>2. buf[s] = Prefix(Kept(read[s])) /\ Kept(read[s]) \in Nat
      BY <3>1 DEF IInv, KeptIsPrefix, Prefix, Kept
    <3>3. Len(buf[s]) = Kept(read[s])
      BY <3>2, PieceType
    <3>4. full[s] <=> read[s] > Cap
      BY DEF IInv, FullIffLost
    <3>5. CASE full[s]
      BY <3>1, <3>3, <3>4, <3>5 DEF Kept
    <3>6. CASE ~full[s]
      <4>1. read[s] = written[s]
        BY <3>6 DEF IInv, TypeOK, CopierEnds, ExitStands
      <4> QED
        BY <3>1, <3>3, <3>4, <3>6, <4>1 DEF Kept
    <3> QED
      BY <3>5, <3>6
  <2> QED
    BY <2>1, <2>2
<1> QED
  BY <1>1, Invariance, PTL
=============================================================================
