----------------------- MODULE AuditForwarderProofs -----------------------
(***************************************************************************)
(* Proofs about AuditForwarder, for any set of events and any sizes of the *)
(* queue and the batch.                                                    *)
(***************************************************************************)
EXTENDS AuditForwarder, SequenceTheorems, TLAPS

\* While Run waits in its select the batch has room: it was flushed when it
\* last became full.
BatchHasRoom == run = "select" => Len(batch) < BatchSize

\* Only an event that names an organisation gets as far as Enqueue.
OnlyScopedWritten == \A e \in Events : emit[e] = "written" => e \in Scoped

\* The inductive invariant.
IInv == TypeOK /\ BatchHasRoom /\ OnlyScopedWritten /\ Conservation

\* Moving the head of u to the end of t leaves s \o t \o u alone (TakeEvent).
LEMMA MoveHead ==
    ASSUME NEW s \in Seq(Scoped), NEW t \in Seq(Scoped), NEW u \in Seq(Scoped),
           u # <<>>
    PROVE  s \o t \o u = s \o Append(t, Head(u)) \o Tail(u)
<1>1. /\ Head(u) \in Scoped /\ Tail(u) \in Seq(Scoped) /\ <<Head(u)>> \in Seq(Scoped)
      /\ t \o <<Head(u)>> \in Seq(Scoped) /\ s \o t \in Seq(Scoped)
  BY HeadTailProperties, ConcatProperties
<1>2. u = <<Head(u)>> \o Tail(u)
  BY <1>1, HeadTailProperties, ConcatProperties
<1>3. s \o Append(t, Head(u)) = (s \o t) \o <<Head(u)>>
  BY <1>1, AppendIsConcat, ConcatAssociative
<1>4. (s \o t) \o (<<Head(u)>> \o Tail(u)) = ((s \o t) \o <<Head(u)>>) \o Tail(u)
  BY <1>1, ConcatAssociative
<1> QED
  BY <1>2, <1>3, <1>4

\* An element added to u is added to the whole (Enqueue).
LEMMA AppendWhole ==
    ASSUME NEW s \in Seq(Scoped), NEW t \in Seq(Scoped), NEW u \in Seq(Scoped),
           NEW e \in Scoped
    PROVE  Append(s \o t \o u, e) = s \o t \o Append(u, e)
<1>1. s \o t \in Seq(Scoped) /\ s \o t \o u \in Seq(Scoped) /\ <<e>> \in Seq(Scoped)
  BY ConcatProperties
<1>2. Append(s \o t \o u, e) = (s \o t \o u) \o <<e>> /\ Append(u, e) = u \o <<e>>
  BY <1>1, AppendIsConcat
<1> QED
  BY <1>1, <1>2, ConcatAssociative

\* The elements of a sequence over S are in S.
LEMMA RangeInSet ==
    ASSUME NEW S, NEW s \in Seq(S)
    PROVE  Range(s) \subseteq S
BY DEF Range

\* Initially the queue, the batch and the trail are empty.
LEMMA InitIInv == Init => IInv
<1> SUFFICES ASSUME Init PROVE IInv
  OBVIOUS
<1> USE AuditAssumption DEF Init
<1>0. <<>> \in Seq(Scoped) /\ Len(<<>>) = 0
  OBVIOUS
<1>1. TypeOK
  <2>1. emit \in [Events -> {"new", "written", "done"}]
    BY DEF Init
  <2>2. 0 <= QueueSize /\ 0 <= BatchSize
    OBVIOUS
  <2> QED
    BY <1>0, <2>1, <2>2 DEF TypeOK
<1>2. BatchHasRoom /\ OnlyScopedWritten
  BY <1>0 DEF BatchHasRoom, OnlyScopedWritten
<1>3. <<>> \o <<>> = <<>>
  BY <1>0, ConcatEmptySeq
<1>4. Conservation
  BY <1>3 DEF Conservation
<1> QED
  BY <1>1, <1>2, <1>4 DEF IInv

\* Every step of an emitter, of Run or of main keeps the invariant.
LEMMA NextIInv == IInv /\ [Next]_vars => IInv'
<1> SUFFICES ASSUME IInv, [Next]_vars PROVE IInv'
  OBVIOUS
<1> USE AuditAssumption DEF IInv
<1>0. CASE UNCHANGED vars
  BY <1>0 DEF vars, TypeOK, BatchHasRoom, OnlyScopedWritten, Conservation
<1>1. ASSUME NEW e \in Events, Write(e) PROVE IInv'
  BY <1>1 DEF Write, loopVars, TypeOK, BatchHasRoom, OnlyScopedWritten, Conservation
<1>2. ASSUME NEW e \in Events, Enqueue(e) PROVE IInv'
  <2>0. e \in Scoped
    BY <1>2 DEF Enqueue, OnlyScopedWritten
  <2>1. CASE /\ Len(queue) < QueueSize
             /\ queue' = Append(queue, e) /\ accepted' = Append(accepted, e)
             /\ UNCHANGED dropped
    <3>1. /\ Append(queue, e) \in Seq(Scoped) /\ Len(Append(queue, e)) = Len(queue) + 1
          /\ Append(accepted, e) \in Seq(Scoped)
      BY <2>0, AppendProperties DEF TypeOK
    <3>2. TypeOK'
      BY <1>2, <2>1, <3>1 DEF Enqueue, loopVars, TypeOK
    <3>3. Append(posted \o batch \o queue, e) = posted \o batch \o Append(queue, e)
      <4>1. posted \in Seq(Scoped) /\ batch \in Seq(Scoped) /\ queue \in Seq(Scoped)
        BY DEF TypeOK
      <4> QED
        BY <2>0, <4>1, AppendWhole
    <3>4. Conservation'
      BY <1>2, <2>1, <3>3 DEF Enqueue, loopVars, Conservation
    <3>5. BatchHasRoom' /\ OnlyScopedWritten'
      BY <1>2 DEF Enqueue, loopVars, TypeOK, BatchHasRoom, OnlyScopedWritten
    <3> QED
      BY <3>2, <3>4, <3>5
  <2>2. CASE /\ Len(queue) = QueueSize
             /\ dropped' = dropped \cup {e}
             /\ UNCHANGED <<queue, accepted>>
    BY <1>2, <2>0, <2>2 DEF Enqueue, loopVars, TypeOK, BatchHasRoom, OnlyScopedWritten, Conservation
  <2> QED
    BY <1>2, <2>1, <2>2 DEF Enqueue
<1>3. CASE TakeEvent
  <2>1. /\ Head(queue) \in Scoped /\ Tail(queue) \in Seq(Scoped)
        /\ Len(Tail(queue)) = Len(queue) - 1
    BY <1>3, HeadTailProperties DEF TakeEvent, TypeOK
  <2>2. /\ Append(batch, Head(queue)) \in Seq(Scoped)
        /\ Len(Append(batch, Head(queue))) = Len(batch) + 1
    BY <2>1, AppendProperties DEF TypeOK
  <2>3. Len(queue) \in Nat /\ Len(batch) \in Nat
    BY LenProperties DEF TypeOK
  <2>4. TypeOK' /\ BatchHasRoom'
    BY <1>3, <2>1, <2>2, <2>3 DEF TakeEvent, Posting, TypeOK, BatchHasRoom
  <2>5. queue # <<>> => posted \o batch \o queue
                           = posted \o Append(batch, Head(queue)) \o Tail(queue)
    <3>1. posted \in Seq(Scoped) /\ batch \in Seq(Scoped) /\ queue \in Seq(Scoped)
      BY DEF TypeOK
    <3> QED
      BY <3>1, MoveHead
  <2>6. Conservation' /\ OnlyScopedWritten'
    BY <1>3, <2>5 DEF TakeEvent, Conservation, OnlyScopedWritten
  <2> QED
    BY <2>4, <2>6
<1>4. CASE Tick
  BY <1>4 DEF Tick, Posting, TypeOK, BatchHasRoom, OnlyScopedWritten, Conservation
<1>5. CASE Stop
  BY <1>5 DEF Stop, TypeOK, BatchHasRoom, OnlyScopedWritten, Conservation
<1>6. CASE Post
  <2>1. Range(batch) \subseteq Scoped
    BY RangeInSet DEF TypeOK
  <2>2. posted \o batch \in Seq(Scoped) /\ (posted \o batch) \o <<>> = posted \o batch
    BY ConcatProperties, ConcatEmptySeq DEF TypeOK
  <2>3. TypeOK' /\ BatchHasRoom'
    BY <1>6, <2>1, <2>2 DEF Post, TypeOK, BatchHasRoom
  <2>4. Conservation' /\ OnlyScopedWritten'
    BY <1>6, <2>2 DEF Post, Conservation, OnlyScopedWritten
  <2> QED
    BY <2>3, <2>4
<1>7. CASE Sigterm
  BY <1>7 DEF Sigterm, loopVars, TypeOK, BatchHasRoom, OnlyScopedWritten, Conservation
<1>8. CASE Exit
  BY <1>8 DEF Exit, loopVars, TypeOK, BatchHasRoom, OnlyScopedWritten, Conservation
<1> QED
  BY <1>0, <1>1, <1>2, <1>3, <1>4, <1>5, <1>6, <1>7, <1>8 DEF Next, Loop

\* The queue and the batch stay within their capacity, and only events that
\* name an organisation are forwarded, for every size of both.
THEOREM TypeCorrect == Spec => []TypeOK
<1>1. IInv => TypeOK
  BY DEF IInv
<1> QED
  BY InitIInv, NextIInv, <1>1, PTL DEF Spec

\* The forwarder keeps the order of what it accepted and neither duplicates
\* nor silently loses any of it.
THEOREM ConservationHolds == Spec => []Conservation
<1>1. IInv => Conservation
  BY DEF IInv
<1> QED
  BY InitIInv, NextIInv, <1>1, PTL DEF Spec
=============================================================================
