--------------------------- MODULE RingBufferProofs ----------------------------
(***************************************************************************)
(* Proofs about RingBuffer for every buffer size of at least two slots and *)
(* every set of bytes: the inductive invariant, the absence of a data race *)
(* on a slot, and that the code implements BoundedFifo.                    *)
(***************************************************************************)
EXTENDS RingBuffer, SequenceTheorems, TLAPS

N == BUFFER_SIZE

--------------------------------------------------------------------------------
(* Index arithmetic without the remainder. *)

\* Advancing an index: one further, or back to slot 0 from the last one.
LEMMA NextIndex ==
  \A i \in Slots : /\ next_index(i) \in Slots
                   /\ next_index(i) = IF i = N - 1 THEN 0 ELSE i + 1
  BY BufferSizeAssumption, SMT DEF Slots, next_index, N

\* The number of occupied slots, counted around the end of the array.
LEMMA DistanceValue ==
  \A h, t \in Slots : /\ Distance(h, t) \in 0 .. N - 1
                      /\ Distance(h, t) = IF t >= h THEN t - h ELSE t + N - h
<1> SUFFICES ASSUME NEW h \in Slots, NEW t \in Slots
             PROVE  /\ Distance(h, t) \in 0 .. N - 1
                    /\ Distance(h, t) = IF t >= h THEN t - h ELSE t + N - h
  OBVIOUS
<1>1. CASE t >= h
  <2>1. t + N - h \in N .. 2 * N - 1
    BY <1>1, BufferSizeAssumption DEF Slots, N
  <2>2. (t + N - h) % N = t - h
    BY <1>1, <2>1, BufferSizeAssumption DEF Slots, N
  <2> QED BY <1>1, <2>2, BufferSizeAssumption DEF Distance, Slots, N
<1>2. CASE t < h
  BY <1>2, BufferSizeAssumption DEF Distance, Slots, N
<1> QED BY <1>1, <1>2, BufferSizeAssumption DEF Slots, N

\* The k-th slot from h on.
LEMMA SlotAtValue ==
  \A h \in Slots, k \in 0 .. N - 1 :
     /\ SlotAt(h, k) \in Slots
     /\ SlotAt(h, k) = IF h + k < N THEN h + k ELSE h + k - N
  BY BufferSizeAssumption DEF SlotAt, Slots, N

\* Advancing t adds one to the distance, unless t runs into h.
LEMMA DistanceNextTail ==
  ASSUME NEW h \in Slots, NEW t \in Slots, next_index(t) # h
  PROVE  /\ Distance(h, t) \in 0 .. N - 2
         /\ Distance(h, next_index(t)) = Distance(h, t) + 1
<1>1. next_index(t) \in Slots /\ next_index(t) = IF t = N - 1 THEN 0 ELSE t + 1
  BY NextIndex
<1>2. Distance(h, t) = IF t >= h THEN t - h ELSE t + N - h
  BY DistanceValue
<1>3. Distance(h, next_index(t)) =
        IF next_index(t) >= h THEN next_index(t) - h ELSE next_index(t) + N - h
  BY <1>1, DistanceValue
<1> QED BY <1>1, <1>2, <1>3, BufferSizeAssumption DEF Slots, N

\* Advancing h takes one from the distance, unless h is already at t.
LEMMA DistanceNextHead ==
  ASSUME NEW h \in Slots, NEW t \in Slots, h # t
  PROVE  /\ Distance(h, t) \in 1 .. N - 1
         /\ Distance(next_index(h), t) = Distance(h, t) - 1
<1>1. next_index(h) \in Slots /\ next_index(h) = IF h = N - 1 THEN 0 ELSE h + 1
  BY NextIndex
<1>2. Distance(h, t) = IF t >= h THEN t - h ELSE t + N - h
  BY DistanceValue
<1>3. Distance(next_index(h), t) =
        IF t >= next_index(h) THEN t - next_index(h) ELSE t + N - next_index(h)
  BY <1>1, DistanceValue
<1> QED BY <1>1, <1>2, <1>3, BufferSizeAssumption DEF Slots, N

\* The slot Distance(h, t) places from h is t, and no earlier one is.
LEMMA SlotOfTail ==
  ASSUME NEW h \in Slots, NEW t \in Slots
  PROVE  /\ SlotAt(h, Distance(h, t)) = t
         /\ \A k \in 1 .. Distance(h, t) :
              SlotAt(h, k - 1) # t /\ SlotAt(h, k - 1) \in Slots
<1>1. /\ Distance(h, t) \in 0 .. N - 1
      /\ Distance(h, t) = IF t >= h THEN t - h ELSE t + N - h
  BY DistanceValue
<1>2. SlotAt(h, Distance(h, t)) =
        IF h + Distance(h, t) < N THEN h + Distance(h, t) ELSE h + Distance(h, t) - N
  BY <1>1, SlotAtValue
<1>3. SlotAt(h, Distance(h, t)) = t
  BY <1>1, <1>2, BufferSizeAssumption DEF Slots, N
<1>4. ASSUME NEW k \in 1 .. Distance(h, t)
      PROVE  SlotAt(h, k - 1) # t /\ SlotAt(h, k - 1) \in Slots
  <2>1. k - 1 \in 0 .. N - 1
    BY <1>1, BufferSizeAssumption DEF N
  <2>2. /\ SlotAt(h, k - 1) \in Slots
        /\ SlotAt(h, k - 1) = IF h + (k - 1) < N THEN h + (k - 1) ELSE h + (k - 1) - N
    BY <2>1, SlotAtValue
  <2> QED BY <1>1, <2>2, BufferSizeAssumption DEF Slots, N
<1> QED BY <1>3, <1>4

\* Counting k places from the next slot is counting k + 1 places.
LEMMA SlotFromNext ==
  ASSUME NEW h \in Slots, NEW k \in 0 .. N - 2
  PROVE  SlotAt(next_index(h), k) = SlotAt(h, k + 1)
<1>1. next_index(h) \in Slots /\ next_index(h) = IF h = N - 1 THEN 0 ELSE h + 1
  BY NextIndex
<1>2. k \in 0 .. N - 1 /\ k + 1 \in 0 .. N - 1
  BY BufferSizeAssumption DEF N
<1>3. SlotAt(next_index(h), k) =
        IF next_index(h) + k < N THEN next_index(h) + k ELSE next_index(h) + k - N
  BY <1>1, <1>2, SlotAtValue
<1>4. SlotAt(h, k + 1) = IF h + (k + 1) < N THEN h + (k + 1) ELSE h + (k + 1) - N
  BY <1>2, SlotAtValue
<1> QED BY <1>1, <1>3, <1>4, BufferSizeAssumption DEF Slots, N

--------------------------------------------------------------------------------
(* The inductive invariant. *)

\* The initial state has both sides idle and every field in its type.
LEMMA InitIndInv == Init => IndInv
  BY BufferSizeAssumption DEF Init, IndInv, TypeOK, LocalsFresh, ChecksHold, Slots

\* Every step of either side preserves the types of the indices, the
\* freshness of the private copies and the outcome of the two checks.
LEMMA NextIndInv == IndInv /\ [Next]_vars => IndInv'
<1> SUFFICES ASSUME IndInv, [Next]_vars PROVE IndInv'
  OBVIOUS
<1> USE DEF IndInv, TypeOK, LocalsFresh, ChecksHold
<1>1. CASE EnqueueLoadTail
  BY <1>1 DEF EnqueueLoadTail
<1>2. CASE EnqueueCheck
  BY <1>2 DEF EnqueueCheck
<1>3. CASE EnqueueWrite
  <2>1. INPUT_BUFFER' \in [Slots -> Byte]
    BY <1>3 DEF EnqueueWrite
  <2>2. cons.pc = "advance" => INPUT_BUFFER'[HEAD] = cons.byte
    BY <1>3 DEF EnqueueWrite
  <2> QED BY <1>3, <2>1, <2>2 DEF EnqueueWrite
<1>4. CASE EnqueuePublish
  BY <1>4, NextIndex DEF EnqueuePublish
<1>5. CASE DequeueLoadHead
  BY <1>5 DEF DequeueLoadHead
<1>6. CASE DequeueCheck
  BY <1>6 DEF DequeueCheck
<1>7. CASE DequeueRead
  BY <1>7 DEF DequeueRead
<1>8. CASE DequeueAdvance
  <2>1. next_index(TAIL) # HEAD => next_index(TAIL) # next_index(HEAD)
    BY <1>8, NextIndex, BufferSizeAssumption DEF DequeueAdvance, Slots, N
  <2> QED BY <1>8, <2>1, NextIndex DEF DequeueAdvance
<1>9. CASE UNCHANGED vars
  BY <1>9 DEF vars
<1> QED
  BY <1>1, <1>2, <1>3, <1>4, <1>5, <1>6, <1>7, <1>8, <1>9
  DEF Next, enqueue_byte, dequeue_byte

\* Every reachable state of enqueue_byte and dequeue_byte satisfies IndInv:
\* the private index copies are current and a passed full/empty test stays
\* valid until the index is stored.
THEOREM IndInvHolds == Spec => []IndInv
<1> QED BY InitIndInv, NextIndInv, PTL DEF Spec

\* enqueue_byte never stores into the slot dequeue_byte is loading.
THEOREM NoDataRaceHolds == Spec => []NoDataRace
<1>1. IndInv => NoDataRace
  BY DEF IndInv, LocalsFresh, ChecksHold, NoDataRace
<1> QED BY <1>1, IndInvHolds, PTL

--------------------------------------------------------------------------------
(* The refinement of BoundedFifo. *)

\* The occupied slots, read from h on, form a sequence of bytes.
LEMMA ContentsIsSeq ==
  ASSUME NEW buf \in [Slots -> Byte], NEW h \in Slots, NEW t \in Slots
  PROVE  /\ ContentsOf(buf, h, t) \in Seq(Byte)
         /\ Len(ContentsOf(buf, h, t)) = Distance(h, t)
         /\ \A k \in 1 .. Distance(h, t) :
              ContentsOf(buf, h, t)[k] = buf[SlotAt(h, k - 1)]
<1> DEFINE d == Distance(h, t)
<1>1. d \in 0 .. N - 1
  BY DistanceValue
<1>2. ASSUME NEW k \in 1 .. d PROVE buf[SlotAt(h, k - 1)] \in Byte
  <2>1. k - 1 \in 0 .. N - 1
    BY <1>1, BufferSizeAssumption DEF N
  <2> QED BY <2>1, SlotAtValue
<1>3. ContentsOf(buf, h, t) \in [1 .. d -> Byte]
  BY <1>2 DEF ContentsOf
<1>4. ContentsOf(buf, h, t) \in Seq(Byte) /\ Len(ContentsOf(buf, h, t)) = d
  BY <1>1, <1>3, BufferSizeAssumption DEF N
<1> QED BY <1>4 DEF ContentsOf

\* Advancing t over a slot appends that slot's byte, unless the ring is full.
LEMMA AppendContents ==
  ASSUME NEW buf \in [Slots -> Byte], NEW h \in Slots, NEW t \in Slots,
         next_index(t) # h
  PROVE  /\ Len(ContentsOf(buf, h, t)) < N - 1
         /\ ContentsOf(buf, h, next_index(t)) = Append(ContentsOf(buf, h, t), buf[t])
<1> DEFINE d == Distance(h, t)
           C == ContentsOf(buf, h, t)
           D == ContentsOf(buf, h, next_index(t))
           A == Append(C, buf[t])
<1>1. next_index(t) \in Slots
  BY NextIndex
<1>2. d \in 0 .. N - 2 /\ Distance(h, next_index(t)) = d + 1
  BY DistanceNextTail
<1>3. SlotAt(h, d) = t
  BY SlotOfTail
<1>4. /\ C \in Seq(Byte) /\ Len(C) = d
      /\ \A k \in 1 .. d : C[k] = buf[SlotAt(h, k - 1)]
  BY ContentsIsSeq
<1>5. /\ D \in Seq(Byte) /\ Len(D) = d + 1
      /\ \A k \in 1 .. d + 1 : D[k] = buf[SlotAt(h, k - 1)]
  BY <1>1, <1>2, ContentsIsSeq, SMTT(60)
<1>6. /\ A \in Seq(Byte) /\ Len(A) = d + 1
      /\ \A k \in 1 .. d : A[k] = C[k]
      /\ A[d + 1] = buf[t]
  BY <1>4
<1> HIDE DEF d
<1>7. ASSUME NEW k \in 1 .. d + 1 PROVE D[k] = A[k]
  <2>1. CASE k = d + 1
    <3>1. k - 1 = d
      BY <1>2, <2>1
    <3> QED BY <2>1, <3>1, <1>3, <1>5, <1>6
  <2>2. CASE k \in 1 .. d
    BY <2>2, <1>4, <1>5, <1>6
  <2>3. k = d + 1 \/ k \in 1 .. d
    BY <1>2
  <2> QED BY <2>1, <2>2, <2>3
<1>8. D = A
  <2> HIDE DEF D, A
  <2> QED BY <1>5, <1>6, <1>7, SeqEqual
<1> QED BY <1>2, <1>4, <1>8, BufferSizeAssumption DEF N

\* Storing into the slot at t changes no occupied slot.
LEMMA WriteContents ==
  ASSUME NEW buf \in [Slots -> Byte], NEW h \in Slots, NEW t \in Slots,
         NEW b \in Byte
  PROVE  ContentsOf([buf EXCEPT ![t] = b], h, t) = ContentsOf(buf, h, t)
<1>1. ASSUME NEW k \in 1 .. Distance(h, t)
      PROVE  SlotAt(h, k - 1) # t /\ SlotAt(h, k - 1) \in Slots
  BY SlotOfTail
<1> QED BY <1>1 DEF ContentsOf

\* Advancing h over a slot removes that slot's byte from the front.
LEMMA TailContents ==
  ASSUME NEW buf \in [Slots -> Byte], NEW h \in Slots, NEW t \in Slots, h # t
  PROVE  /\ ContentsOf(buf, h, t) # << >>
         /\ Head(ContentsOf(buf, h, t)) = buf[h]
         /\ ContentsOf(buf, next_index(h), t) = Tail(ContentsOf(buf, h, t))
<1> DEFINE d == Distance(h, t)
           C == ContentsOf(buf, h, t)
           D == ContentsOf(buf, next_index(h), t)
<1>1. next_index(h) \in Slots
  BY NextIndex
<1>2. d \in 1 .. N - 1 /\ Distance(next_index(h), t) = d - 1
  BY DistanceNextHead
<1>3. /\ C \in Seq(Byte) /\ Len(C) = d
      /\ \A k \in 1 .. d : C[k] = buf[SlotAt(h, k - 1)]
  BY ContentsIsSeq
<1>4. /\ D \in Seq(Byte) /\ Len(D) = d - 1
      /\ \A k \in 1 .. d - 1 : D[k] = buf[SlotAt(next_index(h), k - 1)]
  BY <1>1, <1>2, ContentsIsSeq, SMTT(60)
<1>5. C # << >>
  BY <1>2, <1>3
<1>6. /\ Tail(C) \in Seq(Byte) /\ Len(Tail(C)) = d - 1
      /\ \A k \in 1 .. d - 1 : Tail(C)[k] = C[k + 1]
  <2> HIDE DEF C
  <2> QED BY <1>3, <1>5, HeadTailProperties
<1>7. Head(C) = buf[h]
  <2>1. SlotAt(h, 0) = h
    BY SlotAtValue, BufferSizeAssumption DEF Slots, N
  <2>2. C[1] = buf[SlotAt(h, 0)]
    BY <1>2, <1>3
  <2>3. Head(C) = C[1]
    BY <1>3, <1>5
  <2> QED BY <2>1, <2>2, <2>3
<1>8. ASSUME NEW k \in 1 .. d - 1 PROVE D[k] = Tail(C)[k]
  <2>1. SlotAt(next_index(h), k - 1) = SlotAt(h, k)
    <3>1. k - 1 \in 0 .. N - 2 /\ (k - 1) + 1 = k
      BY <1>2, BufferSizeAssumption DEF N
    <3> QED BY <3>1, SlotFromNext
  <2>2. k + 1 \in 1 .. d /\ (k + 1) - 1 = k
    BY <1>2
  <2> QED BY <2>1, <2>2, <1>3, <1>4, <1>6
<1>9. D = Tail(C)
  <2> HIDE DEF D, C
  <2> QED BY <1>4, <1>6, <1>8, SeqEqual
<1> QED BY <1>5, <1>7, <1>9

\* The empty ring is the empty queue.
LEMMA InitRefines == Init => Fifo!Init
<1> SUFFICES ASSUME Init PROVE Fifo!Init
  OBVIOUS
<1>1. INPUT_BUFFER \in [Slots -> Byte] /\ HEAD \in Slots /\ TAIL \in Slots /\ HEAD = TAIL
  BY InitIndInv DEF IndInv, TypeOK, Init
<1>2. Distance(HEAD, TAIL) = 0
  BY <1>1, DistanceValue DEF Slots
<1>3. Contents = << >>
  BY <1>1, <1>2, ContentsIsSeq DEF Contents
<1> QED BY <1>3 DEF Init, Fifo!Init

\* Each step of the code is a step of the queue or leaves it alone.  An
\* enqueue takes effect when TAIL is stored and a drop when HEAD is compared;
\* a dequeue takes effect when HEAD is stored, an empty answer when TAIL is
\* compared.
LEMMA NextRefines == IndInv /\ [Next]_vars => [Fifo!Next]_Fifo!vars
<1> SUFFICES ASSUME IndInv, [Next]_vars PROVE [Fifo!Next]_Fifo!vars
  OBVIOUS
<1>1. /\ INPUT_BUFFER \in [Slots -> Byte] /\ HEAD \in Slots /\ TAIL \in Slots
      /\ prod.byte \in Byte
  BY DEF IndInv, TypeOK
<1>2. CASE EnqueueLoadTail
  BY <1>2 DEF EnqueueLoadTail, Fifo!vars, Contents
<1>3. CASE EnqueueCheck
  <2>1. CASE next_index(prod.current_tail) # HEAD
    BY <1>3, <2>1 DEF EnqueueCheck, Fifo!vars, Contents
  <2>2. CASE next_index(prod.current_tail) = HEAD
    <3>1. next_index(TAIL) = HEAD
      BY <1>3, <2>2 DEF EnqueueCheck, IndInv, LocalsFresh
    <3>2. Distance(HEAD, TAIL) = N - 1
      <4>1. HEAD = IF TAIL = N - 1 THEN 0 ELSE TAIL + 1
        BY <1>1, <3>1, NextIndex
      <4>2. Distance(HEAD, TAIL) = IF TAIL >= HEAD THEN TAIL - HEAD ELSE TAIL + N - HEAD
        BY <1>1, DistanceValue
      <4> QED BY <1>1, <4>1, <4>2, BufferSizeAssumption DEF Slots, N
    <3>3. Len(Contents) = BUFFER_SIZE - 1
      BY <1>1, <3>2, ContentsIsSeq DEF Contents, N
    <3>4. stored' = FALSE /\ UNCHANGED <<Contents, out>>
      BY <1>3, <2>2 DEF EnqueueCheck, Contents
    <3>5. Fifo!Drop
      BY <3>3, <3>4 DEF Fifo!Drop
    <3> QED BY <3>5 DEF Fifo!Next
  <2> QED BY <2>1, <2>2
<1>4. CASE EnqueueWrite
  <2>1. INPUT_BUFFER' = [INPUT_BUFFER EXCEPT ![TAIL] = prod.byte]
    BY <1>4 DEF EnqueueWrite, IndInv, LocalsFresh
  <2>2. UNCHANGED <<HEAD, TAIL, stored, out>>
    BY <1>4 DEF EnqueueWrite
  <2>3. ContentsOf([INPUT_BUFFER EXCEPT ![TAIL] = prod.byte], HEAD, TAIL) = Contents
    BY <1>1, WriteContents DEF Contents
  <2>4. Contents' = Contents
    BY <2>1, <2>2, <2>3 DEF Contents
  <2> QED BY <2>2, <2>4 DEF Fifo!vars
<1>5. CASE EnqueuePublish
  <2>1. /\ TAIL' = next_index(TAIL) /\ next_index(TAIL) # HEAD
        /\ INPUT_BUFFER[TAIL] = prod.byte
        /\ UNCHANGED <<INPUT_BUFFER, HEAD, out>> /\ stored' = TRUE
    BY <1>5 DEF EnqueuePublish, IndInv, LocalsFresh, ChecksHold
  <2>2. Len(Contents) < BUFFER_SIZE - 1 /\ Contents' = Append(Contents, prod.byte)
    BY <1>1, <2>1, AppendContents DEF Contents, N
  <2>3. Fifo!Enqueue
    BY <1>1, <2>1, <2>2 DEF Fifo!Enqueue
  <2> QED BY <2>3 DEF Fifo!Next
<1>6. CASE DequeueLoadHead
  BY <1>6 DEF DequeueLoadHead, Fifo!vars, Contents
<1>7. CASE DequeueCheck
  <2>1. CASE cons.current_head = TAIL
    <3>1. HEAD = TAIL /\ out' = None /\ UNCHANGED <<Contents, stored>>
      BY <1>7, <2>1 DEF DequeueCheck, Contents, IndInv, LocalsFresh
    <3>2. Distance(HEAD, TAIL) = 0
      BY <1>1, <3>1, DistanceValue DEF Slots
    <3>3. Contents = << >>
      BY <1>1, <3>2, ContentsIsSeq DEF Contents
    <3>4. Fifo!DequeueEmpty
      BY <3>1, <3>3 DEF Fifo!DequeueEmpty
    <3> QED BY <3>4 DEF Fifo!Next
  <2>2. CASE cons.current_head # TAIL
    BY <1>7, <2>2 DEF DequeueCheck, Fifo!vars, Contents
  <2> QED BY <2>1, <2>2
<1>8. CASE DequeueRead
  BY <1>8 DEF DequeueRead, Fifo!vars, Contents
<1>9. CASE DequeueAdvance
  <2>1. /\ HEAD' = next_index(HEAD) /\ HEAD # TAIL
        /\ INPUT_BUFFER[HEAD] = cons.byte /\ out' = cons.byte
        /\ UNCHANGED <<INPUT_BUFFER, TAIL, stored>>
    BY <1>9 DEF DequeueAdvance, IndInv, LocalsFresh, ChecksHold
  <2>2. /\ Contents # << >> /\ Head(Contents) = cons.byte
        /\ Contents' = Tail(Contents)
    BY <1>1, <2>1, TailContents DEF Contents
  <2>3. Fifo!Dequeue
    BY <2>1, <2>2 DEF Fifo!Dequeue
  <2> QED BY <2>3 DEF Fifo!Next
<1>10. CASE UNCHANGED vars
  BY <1>10 DEF vars, Fifo!vars, Contents
<1> QED
  BY <1>2, <1>3, <1>4, <1>5, <1>6, <1>7, <1>8, <1>9, <1>10
  DEF Next, enqueue_byte, dequeue_byte

\* The lock-free ring is a bounded FIFO of BUFFER_SIZE - 1 bytes, whatever
\* the buffer size and however enqueue_byte and dequeue_byte interleave.
THEOREM RefinesFifo == Spec => ImplementsFifo
<1> QED
  BY IndInvHolds, InitRefines, NextRefines, PTL DEF Spec, Fifo!Spec, ImplementsFifo
================================================================================
