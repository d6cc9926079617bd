-------------------------- MODULE SwapQueueProofs ---------------------------
(***************************************************************************)
(* SwapQueue is correct for every queue size, every set of buffers and     *)
(* every interleaving of the two threads, and implements BoundedFifo:      *)
(* every step of the two threads is a step of the abstract queue or leaves *)
(* it unchanged.                                                           *)
(***************************************************************************)
EXTENDS SwapQueue, SequenceTheorems, TLAPS

(***************************************************************************)
(* None of the properties is inductive alone: that the checks still hold   *)
(* needs nothing else, that the slots are disjoint needs the indexes to    *)
(* agree, and that buffers are conserved needs the slots to be disjoint.   *)
(***************************************************************************)
IInv ==
  /\ TypeOK
  /\ IndexesAgree
  /\ CheckStillHolds
  /\ OldNumBelowSize
  /\ SizeIsLowerBound

\* Distance from the oldest element to the free slot: while both threads are
\* swapping, it is neither zero nor a full turn.
LEMMA SlotsDisjoint == IInv => NoSlotRace
  BY SizeAssumption
  DEF IInv, TypeOK, IndexesAgree, CheckStillHolds, NoSlotRace, FreeSlot,
      FirstSlot, Wrap, ProducerHasRoom, ConsumerHasItem, Slot

\* The index arithmetic of Insert, Remove and Clear stays within the ring.
LEMMA WrapInSlot == \A i \in Slot, n \in 0 .. Size : Wrap(i + n) \in Slot
  BY SizeAssumption DEF Wrap, Slot

\* Going n steps around the ring and one more is going n + 1 steps.
LEMMA WrapNext ==
  \A i \in Slot, n \in 0 .. Size - 1 :
    /\ Wrap(Wrap(i + n) + 1) = Wrap(i + (n + 1))
    /\ Wrap(Wrap(i + 1) + n) = Wrap(i + (n + 1))
  BY SizeAssumption DEF Wrap, Slot

\* The increment of Insert and Remove is a step around the ring.
LEMMA IncrementIsWrap ==
  \A i \in Slot : (IF i + 1 = Size THEN 0 ELSE i + 1) = Wrap(i + 1)
  BY SizeAssumption DEF Wrap, Slot

LEMMA FirstSlotInSlot == TypeOK => FirstSlot \in Slot
<1> SUFFICES ASSUME TypeOK PROVE FirstSlot \in Slot
    OBVIOUS
<1>1. /\ read_index \in Slot
      /\ Wrap(read_index + 1) \in Slot
      /\ Wrap(read_index + cleared) \in Slot
      BY SizeAssumption, WrapInSlot DEF TypeOK
<1>2. QED
      BY <1>1 DEF FirstSlot

LEMMA InitIInv == Init => IInv
  BY SizeAssumption
  DEF Init, IInv, TypeOK, IndexesAgree, CheckStillHolds, OldNumBelowSize,
      SizeIsLowerBound, FreeSlot, FirstSlot, Wrap, ProducerHasRoom,
      ConsumerHasItem, Slot, ProducerPc, ConsumerPc

LEMMA NextIInv == IInv /\ [Next]_vars => IInv'
<1> SUFFICES ASSUME IInv, [Next]_vars PROVE IInv'
    OBVIOUS
<1> USE SizeAssumption
    DEF IInv, TypeOK, IndexesAgree, CheckStillHolds, OldNumBelowSize,
        SizeIsLowerBound, FreeSlot, FirstSlot, Wrap, ProducerHasRoom,
        ConsumerHasItem, Slot, ProducerPc, ConsumerPc, producerVars,
        consumerVars
<1>1. CASE \E v \in Value : Fill(v)
      BY <1>1 DEF Fill
<1>2. CASE InsertRefused
      BY <1>2 DEF InsertRefused
<1>3. CASE InsertLoad
      BY SMTT(30), <1>3 DEF InsertLoad
<1>4. CASE InsertSwapRead
      BY <1>4 DEF InsertSwapRead
<1>5. CASE InsertSwapWrite
      BY <1>5 DEF InsertSwapWrite
<1>6. CASE InsertFetchAdd
  <2>1. TypeOK' /\ CheckStillHolds' /\ OldNumBelowSize' /\ SizeIsLowerBound'
        BY SMTT(30), <1>6 DEF InsertFetchAdd
  <2> HIDE DEF IInv, TypeOK, Wrap, Slot
  <2>2. write_index = Wrap(FirstSlot + num_elements)
        BY <1>6 DEF InsertFetchAdd, IInv
  <2>3. FirstSlot \in Slot /\ num_elements \in 0 .. Size - 1
        BY <1>6, FirstSlotInSlot DEF InsertFetchAdd, IInv, TypeOK
  <2>4. Wrap(write_index + 1) = Wrap(FirstSlot + (num_elements + 1))
        BY <2>2, <2>3, WrapNext
  <2>5. FreeSlot' = Wrap(write_index + 1) /\ FirstSlot' = FirstSlot
        BY <1>6 DEF InsertFetchAdd, Wrap
  <2>6. IndexesAgree'
        BY <1>6, <2>4, <2>5 DEF InsertFetchAdd, Wrap
  <2>7. QED
        BY <2>1, <2>6 DEF IInv
<1>7. CASE InsertAdvance
  <2>1. write_index' = Wrap(write_index + 1)
        BY <1>7, IncrementIsWrap DEF InsertAdvance
  <2>2. write_index' \in Slot
    <3> HIDE DEF Wrap, Slot
    <3>1. write_index \in Slot /\ 1 \in 0 .. Size
          OBVIOUS
    <3>2. QED
          BY <2>1, <3>1, WrapInSlot
  <2>3. FreeSlot' = FreeSlot /\ FirstSlot' = FirstSlot
        BY <1>7, <2>1 DEF InsertAdvance
  <2>4. QED
        BY SMTT(30), <1>7, <2>2, <2>3 DEF InsertAdvance
<1>8. CASE RemoveRefused
      BY <1>8 DEF RemoveRefused
<1>9. CASE RemoveLoad
      BY <1>9 DEF RemoveLoad
<1>10. CASE RemoveSwapRead
      BY <1>10 DEF RemoveSwapRead
<1>11. CASE RemoveSwapWrite
      BY <1>11 DEF RemoveSwapWrite
<1>12. CASE RemoveFetchSub
  <2>0. num_elements' \in 0 .. Size /\ at_least' \in 0 .. Size
        BY SMTT(30), <1>12 DEF RemoveFetchSub
  <2>1. TypeOK' /\ CheckStillHolds' /\ OldNumBelowSize' /\ SizeIsLowerBound'
    <3>1. TypeOK'
          BY SMTT(30), <1>12, <2>0 DEF RemoveFetchSub
    <3>2. CheckStillHolds' /\ OldNumBelowSize'
          BY <1>12 DEF RemoveFetchSub
    <3>3. SizeIsLowerBound'
          BY <1>12 DEF RemoveFetchSub
    <3>4. QED
          BY Zenon, <3>1, <3>2, <3>3
  <2> HIDE DEF IInv, TypeOK, Wrap, Slot
  <2>2. FreeSlot = Wrap(read_index + num_elements)
        BY <1>12 DEF RemoveFetchSub, IInv
  <2>3. /\ read_index \in Slot
        /\ num_elements - 1 \in 0 .. Size - 1
        /\ (num_elements - 1) + 1 = num_elements
        BY <1>12 DEF RemoveFetchSub, IInv, TypeOK
  <2>4. Wrap(Wrap(read_index + 1) + (num_elements - 1))
          = Wrap(read_index + num_elements)
        BY <2>3, WrapNext
  <2>5. FreeSlot' = FreeSlot /\ FirstSlot' = Wrap(read_index + 1)
        BY <1>12 DEF RemoveFetchSub, Wrap
  <2>6. IndexesAgree'
        BY <1>12, <2>2, <2>4, <2>5 DEF RemoveFetchSub, Wrap
  <2>7. QED
        BY <2>1, <2>6 DEF IInv
<1>13. CASE RemoveAdvance
  <2>1. read_index' = Wrap(read_index + 1)
        BY <1>13, IncrementIsWrap DEF RemoveAdvance
  <2>2. read_index' \in Slot
    <3> HIDE DEF Wrap, Slot
    <3>1. read_index \in Slot /\ 1 \in 0 .. Size
          OBVIOUS
    <3>2. QED
          BY <2>1, <3>1, WrapInSlot
  <2>3. FreeSlot' = FreeSlot /\ FirstSlot' = FirstSlot
        BY <1>13, <2>1 DEF RemoveAdvance
  <2>4. QED
        BY Zenon, <1>13, <2>2, <2>3 DEF RemoveAdvance
<1>14. CASE Drink
      BY <1>14 DEF Drink
<1>15. CASE ClearExchange
      BY <1>15 DEF ClearExchange
<1>16. CASE ClearAdvance
  <2>1. read_index' = Wrap(read_index + cleared)
        BY <1>16 DEF ClearAdvance
  <2>2. read_index' \in Slot
    <3> HIDE DEF Wrap, Slot
    <3>1. read_index \in Slot /\ cleared \in 0 .. Size
          OBVIOUS
    <3>2. QED
          BY <2>1, <3>1, WrapInSlot
  <2>3. FreeSlot' = FreeSlot /\ FirstSlot' = FirstSlot
        BY <1>16, <2>1 DEF ClearAdvance
  <2>4. QED
        BY SMTT(30), <1>16, <2>2, <2>3 DEF ClearAdvance
<1>17. CASE SizeAtLeast
      BY <1>17 DEF SizeAtLeast
<1>18. CASE UNCHANGED vars
      BY SMTT(30), <1>18 DEF vars
<1>19. QED
      BY Zenon, <1>1, <1>2, <1>3, <1>4, <1>5, <1>6, <1>7, <1>8, <1>9, <1>10, <1>11,
         <1>12, <1>13, <1>14, <1>15, <1>16, <1>17, <1>18
      DEF Next, Producer, Consumer, RemoveStep

\* The part of the state that says where the buffers are: only the four
\* halves of the two swaps change it.
LEMMA BuffersStep ==
  IInv /\ BuffersConserved /\ [Next]_vars => BuffersConserved'
<1> SUFFICES ASSUME IInv, BuffersConserved, [Next]_vars
             PROVE  BuffersConserved'
    OBVIOUS
<1>0. NoSlotRace /\ TypeOK
      BY SlotsDisjoint DEF IInv
<1> USE DEF BuffersConserved, ProducerHolds, ConsumerHolds, producerVars,
            consumerVars
<1>1. CASE InsertSwapRead
      BY <1>0, <1>1 DEF InsertSwapRead, TypeOK
<1>2. CASE InsertSwapWrite
      BY <1>0, <1>2 DEF InsertSwapWrite, TypeOK, NoSlotRace
<1>3. CASE RemoveSwapRead
      BY <1>0, <1>3 DEF RemoveSwapRead, TypeOK
<1>4. CASE RemoveSwapWrite
      BY <1>0, <1>4 DEF RemoveSwapWrite, TypeOK, NoSlotRace
<1>5. CASE (\E v \in Value : Fill(v)) \/ InsertRefused \/ InsertLoad
      BY <1>5 DEF Fill, InsertRefused, InsertLoad
<1>6. CASE InsertFetchAdd \/ InsertAdvance
      BY <1>6 DEF InsertFetchAdd, InsertAdvance
<1>7. CASE RemoveRefused \/ RemoveLoad \/ RemoveFetchSub
      BY <1>7 DEF RemoveRefused, RemoveLoad, RemoveFetchSub
<1>8. CASE RemoveAdvance \/ Drink
      BY <1>8 DEF RemoveAdvance, Drink
<1>9. CASE ClearExchange \/ ClearAdvance \/ SizeAtLeast
      BY <1>9 DEF ClearExchange, ClearAdvance, SizeAtLeast
<1>10. CASE UNCHANGED vars
      BY <1>10 DEF vars
<1>11. QED
      BY <1>1, <1>2, <1>3, <1>4, <1>5, <1>6, <1>7, <1>8, <1>9, <1>10
      DEF Next, Producer, Consumer, RemoveStep

-----------------------------------------------------------------------------
\* The inductive invariant holds in every reachable state.
THEOREM Invariance == Spec => []IInv
  BY InitIInv, NextIInv, PTL DEF Spec

\* Every reachable state is well typed; in particular num_elements_ never
\* underflows or exceeds the size and both indexes stay inside queue_, which
\* is what the RTC_DCHECK_LTs at the end of Insert, Remove and Clear assert.
THEOREM TypeCorrect == Spec => []TypeOK
  BY Invariance, PTL DEF IInv

\* The two private indexes and the shared counter agree at every step of
\* every interleaving.
THEOREM IndexesAlwaysAgree == Spec => []IndexesAgree
  BY Invariance, PTL DEF IInv

\* The two threads never access the same slot at the same time.
THEOREM SlotsNeverShared == Spec => []NoSlotRace
  BY Invariance, SlotsDisjoint, PTL

\* A loaded num_elements_ that is stale when it is used does no harm.
THEOREM ChecksStayValid == Spec => []CheckStillHolds
  BY Invariance, PTL DEF IInv

\* SizeAtLeast() is a lower bound whatever the producer does.
THEOREM SizeAtLeastSound == Spec => []SizeIsLowerBound
  BY Invariance, PTL DEF IInv

\* No T object is duplicated or lost by the unlocked swaps.
THEOREM BuffersAlwaysConserved == Spec => []BuffersConserved
<1>1. Init => BuffersConserved
      BY DEF Init, BuffersConserved, ProducerHolds, ConsumerHolds
<1>2. QED
      BY <1>1, Invariance, BuffersStep, PTL DEF Spec

-----------------------------------------------------------------------------
(***************************************************************************)
(* SwapQueue implements BoundedFifo.                                       *)
(***************************************************************************)

RInv == IInv /\ BuffersConserved

Content == Value \cup {proto}

\* Different distances from the same slot are different slots.
LEMMA WrapInjective ==
  \A i \in Slot, m, n \in 0 .. Size - 1 : Wrap(i + m) = Wrap(i + n) => m = n
  BY SizeAssumption DEF Wrap, Slot

\* A thread between its check and its update of num_elements_ owns its slot.
LEMMA OwnSlots ==
  IInv /\ ProducerHasRoom /\ ConsumerHasItem => write_index # read_index
  BY SizeAssumption
  DEF IInv, TypeOK, IndexesAgree, CheckStillHolds, FreeSlot, FirstSlot, Wrap,
      ProducerHasRoom, ConsumerHasItem, Slot

\* The abstract queue is a sequence of contents, as long as num_elements_
\* says.
LEMMA QueuedType ==
  TypeOK => /\ Queued \in Seq(Content)
            /\ Len(Queued) = num_elements
            /\ \A k \in 1 .. num_elements :
                 Queued[k] = IF k = 1 /\ cpc = "sub" THEN content[output]
                             ELSE content[queue[Wrap(FirstSlot + (k - 1))]]
<1> SUFFICES ASSUME TypeOK
             PROVE  /\ Queued \in Seq(Content)
                    /\ Len(Queued) = num_elements
                    /\ \A k \in 1 .. num_elements :
                         Queued[k] = IF k = 1 /\ cpc = "sub" THEN content[output]
                                     ELSE content[queue[Wrap(FirstSlot + (k - 1))]]
    OBVIOUS
<1>1. num_elements \in Nat /\ FirstSlot \in Slot
      BY SizeAssumption, FirstSlotInSlot DEF TypeOK
<1>2. \A k \in 1 .. num_elements : FirstSlot + k - 1 = FirstSlot + (k - 1)
      BY <1>1, SizeAssumption DEF Slot
<1>3. ASSUME NEW k \in 1 .. num_elements
      PROVE  Queued[k] \in Content
  <2>1. k - 1 \in 0 .. Size
        BY SizeAssumption DEF TypeOK
  <2>2. Wrap(FirstSlot + (k - 1)) \in Slot
        BY <1>1, <2>1, WrapInSlot
  <2>3. QED
        BY <1>2, <2>2 DEF Queued, TypeOK, Content
<1>4. Queued \in [1 .. num_elements -> Content]
      BY <1>3 DEF Queued
<1>5. QED
      BY <1>1, <1>2, <1>4 DEF Queued

LEMMA QueuedTypeNext ==
  TypeOK' => /\ Queued' \in Seq(Content)
             /\ Len(Queued') = num_elements'
             /\ \A k \in 1 .. num_elements' :
                  Queued'[k] = IF k = 1 /\ cpc' = "sub" THEN content'[output']
                               ELSE content'[queue'[Wrap(FirstSlot' + (k - 1))]]
<1>1. (TypeOK => /\ Queued \in Seq(Content)
                 /\ Len(Queued) = num_elements
                 /\ \A k \in 1 .. num_elements :
                      Queued[k] = IF k = 1 /\ cpc = "sub" THEN content[output]
                                  ELSE content[queue[Wrap(FirstSlot + (k - 1))]])'
      BY QueuedType, PTL
<1>2. QED
      BY <1>1 DEF Content, Wrap

\* Two states with the same number of elements, equal position by position,
\* show the same abstract queue.
LEMMA SameQueue ==
  ASSUME TypeOK, TypeOK', num_elements' = num_elements,
         \A k \in 1 .. num_elements : Queued'[k] = Queued[k]
  PROVE  Queued' = Queued
  BY QueuedType, QueuedTypeNext, SeqEqual

\* Every distance below num_elements_ is a slot of the ring, and none of them
\* is the slot the producer is swapping with.
LEMMA CountedSlot ==
  ASSUME IInv, NEW k \in 1 .. num_elements
  PROVE  /\ Wrap(FirstSlot + (k - 1)) \in Slot
         /\ ProducerHasRoom => Wrap(FirstSlot + (k - 1)) # write_index
         /\ (cpc \in {"swap_read", "swap_write", "sub"} /\ k # 1)
              => Wrap(FirstSlot + (k - 1)) # read_index
<1>1. /\ FirstSlot \in Slot
      /\ k - 1 \in 0 .. Size - 1
      /\ k - 1 \in 0 .. Size
      /\ num_elements \in 0 .. Size
      /\ 0 \in 0 .. Size - 1
      BY SizeAssumption, FirstSlotInSlot DEF IInv, TypeOK
<1>2. Wrap(FirstSlot + (k - 1)) \in Slot
      BY <1>1, WrapInSlot
<1>3. ASSUME ProducerHasRoom
      PROVE  Wrap(FirstSlot + (k - 1)) # write_index
  <2>1. write_index = Wrap(FirstSlot + num_elements)
        BY <1>3 DEF IInv, IndexesAgree, FreeSlot, ProducerHasRoom
  <2>2. num_elements \in 0 .. Size - 1 /\ k - 1 # num_elements
        BY <1>1, <1>3, SizeAssumption DEF IInv, CheckStillHolds
  <2>3. QED
        BY <1>1, <2>1, <2>2, WrapInjective
<1>4. ASSUME cpc \in {"swap_read", "swap_write", "sub"}, k # 1
      PROVE  Wrap(FirstSlot + (k - 1)) # read_index
  <2>1. FirstSlot = read_index
        BY <1>4 DEF FirstSlot
  <2>2. read_index = Wrap(FirstSlot + 0)
        BY <1>1, <2>1, SizeAssumption DEF Wrap, Slot
  <2>3. QED
        BY <1>1, <1>4, <2>2, WrapInjective
<1>5. QED
      BY <1>2, <1>3, <1>4

-----------------------------------------------------------------------------
(* The steps of the producer. *)

\* Filling the buffer is the abstract Offer: the buffer is in nobody else's
\* hands, so the queued contents stay what they are.
LEMMA FillSim ==
  ASSUME RInv, RInv', NEW v \in Value, Fill(v)
  PROVE  Fifo!Offer(v)
<1> USE DEF RInv, IInv
<1>1. /\ ppc = "fill" /\ ppc' = "insert" /\ input' = input
      /\ content' = [content EXCEPT ![input] = v]
      /\ num_elements' = num_elements /\ queue' = queue
      /\ cpc' = cpc /\ output' = output
      /\ read_index' = read_index /\ cleared' = cleared
      BY DEF Fill, consumerVars
<1>2. FirstSlot' = FirstSlot
      BY <1>1 DEF FirstSlot, Wrap
<1>3. output # input /\ \A i \in Slot : queue[i] # input
      BY <1>1 DEF BuffersConserved, ProducerHolds, ConsumerHolds, TypeOK
<1>4. ASSUME NEW k \in 1 .. num_elements
      PROVE  Queued'[k] = Queued[k]
  <2>1. Wrap(FirstSlot + (k - 1)) \in Slot
        BY CountedSlot
  <2>2. queue[Wrap(FirstSlot + (k - 1))] \in Buffer /\ output \in Buffer
        BY <2>1 DEF TypeOK
  <2>3. QED
        BY SMTT(20), <1>1, <1>2, <1>3, <2>1, <2>2, QueuedType, QueuedTypeNext DEF TypeOK
<1>5. Queued' = Queued
      BY <1>1, <1>4, SameQueue
<1>6. Taken' = Taken
      BY <1>1, <1>3 DEF Taken, TypeOK
<1>7. Offered = Nothing /\ Offered' = v
      BY <1>1 DEF Offered, TypeOK
<1>8. QED
      BY <1>5, <1>6, <1>7 DEF Fifo!Offer

\* A refused insertion found the abstract queue full.
LEMMA InsertRefusedSim ==
  ASSUME RInv, RInv', InsertRefused
  PROVE  Fifo!PutRefused
<1> USE DEF RInv, IInv
<1>1. /\ ppc = "insert" /\ ppc' = "fill" /\ num_elements = Size
      /\ UNCHANGED <<queue, content, num_elements, input, consumerVars>>
      BY DEF InsertRefused
<1>2. Queued' = Queued /\ Taken' = Taken
      BY <1>1 DEF Queued, Taken, FirstSlot, Wrap, consumerVars
<1>3. Offered # Nothing /\ Offered' = Nothing
      BY <1>1, ValueAssumption DEF Offered, TypeOK
<1>4. Len(Queued) = Size
      BY <1>1, QueuedType
<1>5. QED
      BY <1>2, <1>3, <1>4 DEF Fifo!PutRefused

\* The steps of Insert before the counter is incremented change nothing the
\* users of the abstract queue can see.
LEMMA InsertLoadSim ==
  ASSUME RInv, RInv', InsertLoad
  PROVE  UNCHANGED Fifo!fifoVars
<1>1. UNCHANGED <<queue, content, num_elements, input, consumerVars>>
      BY DEF InsertLoad
<1>2. Queued' = Queued /\ Taken' = Taken
      BY <1>1 DEF Queued, Taken, FirstSlot, Wrap, consumerVars
<1>3. Offered' = Offered
      BY <1>1 DEF InsertLoad, Offered
<1>4. QED
      BY <1>2, <1>3 DEF Fifo!fifoVars

LEMMA InsertSwapReadSim ==
  ASSUME RInv, RInv', InsertSwapRead
  PROVE  UNCHANGED Fifo!fifoVars
<1>1. UNCHANGED <<queue, content, num_elements, consumerVars>>
      BY DEF InsertSwapRead
<1>2. Queued' = Queued /\ Taken' = Taken
      BY <1>1 DEF Queued, Taken, FirstSlot, Wrap, consumerVars
<1>3. Offered' = Offered
      BY <1>1 DEF InsertSwapRead, Offered
<1>4. QED
      BY <1>2, <1>3 DEF Fifo!fifoVars

\* The slot that is written is not one of the counted ones.
LEMMA InsertSwapWriteSim ==
  ASSUME RInv, RInv', InsertSwapWrite
  PROVE  UNCHANGED Fifo!fifoVars
<1> USE DEF RInv, IInv
<1>1. /\ ppc = "swap_write" /\ ppc' = "add"
      /\ queue' = [queue EXCEPT ![write_index] = in_tmp]
      /\ UNCHANGED <<content, num_elements, write_index, in_tmp, read_index,
                     output, cleared, cpc>>
      BY DEF InsertSwapWrite, consumerVars
<1>2. FirstSlot' = FirstSlot /\ ProducerHasRoom
      BY <1>1 DEF FirstSlot, Wrap, ProducerHasRoom
<1>3. ASSUME NEW k \in 1 .. num_elements
      PROVE  Queued'[k] = Queued[k]
      BY <1>1, <1>2, CountedSlot, QueuedType, QueuedTypeNext DEF TypeOK
<1>4. Queued' = Queued
      BY <1>1, <1>3, SameQueue
<1>5. Taken' = Taken /\ Offered' = Offered
      BY <1>1 DEF Taken, Offered, TypeOK
<1>6. QED
      BY <1>4, <1>5 DEF Fifo!fifoVars

\* The increment makes the swapped-in buffer the last element: Put.
LEMMA InsertFetchAddSim ==
  ASSUME RInv, RInv', InsertFetchAdd
  PROVE  Fifo!Put
<1> USE DEF RInv, IInv
<1>1. /\ ppc = "add" /\ ppc' = "advance"
      /\ num_elements' = num_elements + 1
      /\ UNCHANGED <<queue, content, write_index, read_index, output, cleared,
                     cpc>>
      BY DEF InsertFetchAdd, consumerVars
<1>2. FirstSlot' = FirstSlot /\ num_elements \in Nat /\ num_elements < Size
      BY <1>1, SizeAssumption
      DEF FirstSlot, Wrap, TypeOK, CheckStillHolds, ProducerHasRoom
<1>3. write_index = Wrap(FirstSlot + num_elements)
      BY <1>1 DEF IndexesAgree, FreeSlot
<1>4. Offered = content[queue[write_index]] /\ Offered' = Nothing
      BY <1>1 DEF Offered
<1>5. Offered \in Content /\ Offered # Nothing
      BY <1>4, ValueAssumption DEF TypeOK, Content
<1>6. Queued \in Seq(Content) /\ Len(Queued) = num_elements
      BY QueuedType
<1>7. /\ Append(Queued, Offered) \in Seq(Content)
      /\ Len(Append(Queued, Offered)) = num_elements + 1
      /\ \A k \in 1 .. num_elements : Append(Queued, Offered)[k] = Queued[k]
      /\ Append(Queued, Offered)[num_elements + 1] = Offered
      BY <1>5, <1>6, AppendProperties
<1>8. Queued' \in Seq(Content) /\ Len(Queued') = num_elements + 1
      BY <1>1, QueuedTypeNext
<1>9. ASSUME NEW k \in 1 .. num_elements + 1
      PROVE  Queued'[k] = Append(Queued, Offered)[k]
  <2>1. CASE k = num_elements + 1
    <3>1. ~(k = 1 /\ cpc = "sub")
          BY <1>1, <1>2, <2>1
          DEF CheckStillHolds, ConsumerHasItem
    <3>2. FirstSlot + (k - 1) = FirstSlot + num_elements
          BY <1>2, <2>1
    <3>3. QED
          BY <1>1, <1>2, <1>3, <1>4, <1>7, <2>1, <3>1, <3>2, QueuedTypeNext
  <2>2. CASE k \in 1 .. num_elements
    <3>1. Queued'[k] = Queued[k]
          BY ZenonT(30), <1>1, <1>2, <2>2, QueuedType, QueuedTypeNext
    <3>2. QED
          BY <1>7, <2>2, <3>1
  <2>3. k = num_elements + 1 \/ k \in 1 .. num_elements
        BY <1>2
  <2>4. QED
        BY Zenon, <2>1, <2>2, <2>3
<1>10. Queued' = Append(Queued, Offered)
      BY <1>7, <1>8, <1>9, SeqEqual
<1>11. Taken' = Taken
      BY <1>1 DEF Taken
<1>12. QED
      BY <1>2, <1>4, <1>5, <1>6, <1>10, <1>11 DEF Fifo!Put

LEMMA InsertAdvanceSim ==
  ASSUME RInv, RInv', InsertAdvance
  PROVE  UNCHANGED Fifo!fifoVars
<1>1. UNCHANGED <<queue, content, num_elements, consumerVars>>
      BY DEF InsertAdvance
<1>2. Queued' = Queued /\ Taken' = Taken
      BY <1>1 DEF Queued, Taken, FirstSlot, Wrap, consumerVars
<1>3. Offered' = Offered
      BY DEF InsertAdvance, Offered
<1>4. QED
      BY <1>2, <1>3 DEF Fifo!fifoVars

-----------------------------------------------------------------------------
(* The steps of the consumer. *)

\* The producer's side of the abstract state does not depend on the
\* consumer's variables.
LEMMA OfferedKept ==
  ASSUME UNCHANGED <<queue, content, producerVars>>
  PROVE  Offered' = Offered
  BY DEF Offered, producerVars

\* No elements is the empty sequence.
LEMMA EmptyQueue == TypeOK => (num_elements = 0 <=> Queued = << >>)
<1> SUFFICES ASSUME TypeOK PROVE num_elements = 0 <=> Queued = << >>
    OBVIOUS
<1>1. Queued \in Seq(Content) /\ Len(Queued) = num_elements
      BY QueuedType
<1>2. QED
      BY <1>1, EmptySeq

\* A refused removal found the abstract queue empty.
LEMMA RemoveRefusedSim ==
  ASSUME RInv, RInv', RemoveRefused
  PROVE  Fifo!TakeRefused
<1> USE DEF RInv, IInv
<1>1. /\ cpc = "remove" /\ cpc' = "no_item" /\ num_elements = 0
      /\ UNCHANGED <<queue, content, num_elements, producerVars, read_index,
                     output, cleared>>
      BY DEF RemoveRefused
<1>2. Queued = << >> /\ Queued' = Queued
      BY <1>1, EmptyQueue DEF Queued, FirstSlot, Wrap
<1>3. Taken = Nothing /\ Taken' = Refused
      BY <1>1 DEF Taken
<1>4. QED
      BY <1>1, <1>2, <1>3, OfferedKept DEF Fifo!TakeRefused

LEMMA RemoveLoadSim ==
  ASSUME RInv, RInv', RemoveLoad
  PROVE  UNCHANGED Fifo!fifoVars
<1>1. /\ cpc = "remove" /\ cpc' = "swap_read"
      /\ UNCHANGED <<queue, content, num_elements, producerVars, read_index,
                     output, cleared>>
      BY DEF RemoveLoad
<1>2. Queued' = Queued /\ Taken' = Taken
      BY <1>1 DEF Queued, Taken, FirstSlot, Wrap
<1>3. QED
      BY <1>1, <1>2, OfferedKept DEF Fifo!fifoVars

LEMMA RemoveSwapReadSim ==
  ASSUME RInv, RInv', RemoveSwapRead
  PROVE  UNCHANGED Fifo!fifoVars
<1>1. /\ cpc = "swap_read" /\ cpc' = "swap_write"
      /\ UNCHANGED <<queue, content, num_elements, producerVars, read_index,
                     cleared>>
      BY DEF RemoveSwapRead
<1>2. Queued' = Queued /\ Taken' = Taken
      BY <1>1 DEF Queued, Taken, FirstSlot, Wrap
<1>3. QED
      BY <1>1, <1>2, OfferedKept DEF Fifo!fifoVars

\* The front element moves from its slot into the consumer's hands; the slot
\* of the producer's pending element is another one.
LEMMA RemoveSwapWriteSim ==
  ASSUME RInv, RInv', RemoveSwapWrite
  PROVE  UNCHANGED Fifo!fifoVars
<1> USE DEF RInv, IInv
<1>1. /\ cpc = "swap_write" /\ cpc' = "sub"
      /\ queue' = [queue EXCEPT ![read_index] = out_tmp]
      /\ UNCHANGED <<content, num_elements, read_index, output, cleared>>
      /\ UNCHANGED producerVars
      BY DEF RemoveSwapWrite
<1>2. FirstSlot = read_index /\ FirstSlot' = read_index
      BY <1>1 DEF FirstSlot
<1>3. output = queue[read_index]
      BY <1>1 DEF BuffersConserved
<1>4. read_index = Wrap(FirstSlot + (1 - 1))
      BY <1>2, SizeAssumption DEF TypeOK, Wrap, Slot
<1>5. ASSUME NEW k \in 1 .. num_elements
      PROVE  Queued'[k] = Queued[k]
  <2>1. CASE k = 1
        BY SMTT(20), <1>1, <1>3, <1>4, <2>1, QueuedType, QueuedTypeNext
  <2>2. CASE k # 1
    <3>1. Wrap(FirstSlot + (k - 1)) # read_index
          BY <1>1, <2>2, CountedSlot
    <3>2. Wrap(FirstSlot + (k - 1)) \in Slot
          BY CountedSlot
    <3>3. QED
          BY SMTT(20), <1>1, <1>2, <2>2, <3>1, <3>2, QueuedType, QueuedTypeNext
          DEF TypeOK
  <2>3. QED
        BY <2>1, <2>2
<1>6. Queued' = Queued
      BY <1>1, <1>5, SameQueue
<1>7. Taken' = Taken
      BY <1>1 DEF Taken
<1>8. Offered' = Offered
  <2>1. ProducerHasRoom => write_index # read_index
        BY <1>1, OwnSlots DEF ConsumerHasItem
  <2>2. QED
        BY <1>1, <2>1 DEF Offered, ProducerHasRoom, producerVars, TypeOK
<1>9. QED
      BY <1>6, <1>7, <1>8 DEF Fifo!fifoVars

\* The decrement hands the front element over: Take.
LEMMA RemoveFetchSubSim ==
  ASSUME RInv, RInv', RemoveFetchSub
  PROVE  Fifo!Take
<1> USE DEF RInv, IInv
<1>1. /\ cpc = "sub" /\ cpc' = "advance"
      /\ num_elements' = num_elements - 1
      /\ UNCHANGED <<queue, content, producerVars, read_index, output>>
      BY DEF RemoveFetchSub
<1>2. /\ num_elements \in 1 .. Size
      /\ FirstSlot = read_index
      /\ FirstSlot' = Wrap(read_index + 1)
      /\ read_index \in Slot
      BY <1>1, SizeAssumption
      DEF FirstSlot, Wrap, TypeOK, CheckStillHolds, ConsumerHasItem
<1>3. /\ Queued \in Seq(Content)
      /\ Len(Queued) = num_elements
      /\ Queued # << >>
      BY <1>2, QueuedType, EmptyQueue
<1>4. Head(Queued) = content[output]
  <2>1. Head(Queued) = Queued[1]
        BY <1>3
  <2>2. Queued[1] = content[output]
        BY <1>1, <1>2, QueuedType
  <2>3. QED
        BY <2>1, <2>2
<1>5. /\ Tail(Queued) \in Seq(Content)
      /\ Len(Tail(Queued)) = num_elements - 1
      /\ \A k \in 1 .. num_elements - 1 : Tail(Queued)[k] = Queued[k + 1]
      BY <1>3, HeadTailProperties
<1>6. Queued' \in Seq(Content) /\ Len(Queued') = num_elements - 1
      BY <1>1, QueuedTypeNext
<1>7. ASSUME NEW k \in 1 .. num_elements - 1
      PROVE  Queued'[k] = Queued[k + 1]
  <2>1. /\ k + 1 \in 1 .. num_elements /\ k + 1 # 1
        /\ (k - 1) + 1 = (k + 1) - 1
        /\ k - 1 \in 0 .. Size - 1
        BY <1>2, SizeAssumption
  <2>2. Wrap(FirstSlot' + (k - 1)) = Wrap(FirstSlot + ((k + 1) - 1))
        BY <1>2, <2>1, WrapNext
  <2>3. Queued[k + 1] = content[queue[Wrap(FirstSlot + ((k + 1) - 1))]]
        BY <2>1, QueuedType
  <2>4. Queued'[k] = content[queue[Wrap(FirstSlot' + (k - 1))]]
        BY <1>1, QueuedTypeNext
  <2>5. QED
        BY <2>2, <2>3, <2>4
<1>8. Queued' = Tail(Queued)
      BY <1>5, <1>6, <1>7, SeqEqual
<1>9. Taken = Nothing /\ Taken' = content[output]
      BY <1>1 DEF Taken
<1>10. QED
      BY <1>1, <1>3, <1>4, <1>8, <1>9, OfferedKept DEF Fifo!Take

LEMMA RemoveAdvanceSim ==
  ASSUME RInv, RInv', RemoveAdvance
  PROVE  UNCHANGED Fifo!fifoVars
<1> USE DEF RInv, IInv
<1>1. /\ cpc = "advance" /\ cpc' = "drink"
      /\ UNCHANGED <<queue, content, num_elements, producerVars, output>>
      BY DEF RemoveAdvance
<1>2. read_index' = Wrap(read_index + 1)
      BY IncrementIsWrap DEF RemoveAdvance, TypeOK
<1>3. FirstSlot' = FirstSlot
      BY <1>1, <1>2 DEF FirstSlot
<1>4. Queued' = Queued /\ Taken' = Taken
      BY <1>1, <1>3 DEF Queued, Taken, Wrap
<1>5. QED
      BY <1>1, <1>4, OfferedKept DEF Fifo!fifoVars

LEMMA DrinkSim ==
  ASSUME RInv, RInv', Drink
  PROVE  Fifo!Use
<1> USE DEF RInv, IInv
<1>1. /\ cpc \in {"drink", "no_item"} /\ cpc' = "remove"
      /\ UNCHANGED <<queue, content, num_elements, producerVars, read_index,
                     output>>
      BY DEF Drink
<1>2. Queued' = Queued
      BY <1>1 DEF Queued, FirstSlot, Wrap
<1>3. Taken # Nothing /\ Taken' = Nothing
      BY <1>1, ValueAssumption DEF Taken, TypeOK
<1>4. QED
      BY <1>1, <1>2, <1>3, OfferedKept DEF Fifo!Use

\* The exchange drops every element at once: Drop.
LEMMA ClearExchangeSim ==
  ASSUME RInv, RInv', ClearExchange
  PROVE  Fifo!Drop
<1> USE DEF RInv, IInv
<1>1. /\ cpc = "remove" /\ cpc' = "clear_advance" /\ num_elements' = 0
      /\ UNCHANGED <<queue, content, producerVars>>
      BY DEF ClearExchange
<1>2. Queued' \in Seq(Content) /\ Len(Queued') = 0
      BY <1>1, QueuedTypeNext
<1>3. Queued' = << >>
      BY <1>2, EmptySeq
<1>4. Taken = Nothing /\ Taken' = Nothing
      BY <1>1 DEF Taken
<1>5. QED
      BY <1>1, <1>3, <1>4, OfferedKept DEF Fifo!Drop

LEMMA ClearAdvanceSim ==
  ASSUME RInv, RInv', ClearAdvance
  PROVE  UNCHANGED Fifo!fifoVars
<1>1. /\ cpc = "clear_advance" /\ cpc' = "remove"
      /\ read_index' = Wrap(read_index + cleared)
      /\ UNCHANGED <<queue, content, num_elements, producerVars, output>>
      BY DEF ClearAdvance
<1>2. FirstSlot' = FirstSlot
      BY <1>1 DEF FirstSlot
<1>3. Queued' = Queued /\ Taken' = Taken
      BY <1>1, <1>2 DEF Queued, Taken, Wrap
<1>4. QED
      BY <1>1, <1>3, OfferedKept DEF Fifo!fifoVars

LEMMA SizeAtLeastSim ==
  ASSUME RInv, RInv', SizeAtLeast
  PROVE  UNCHANGED Fifo!fifoVars
<1>1. UNCHANGED <<queue, content, num_elements, producerVars, read_index,
                  output, cleared, cpc>>
      BY DEF SizeAtLeast
<1>2. Queued' = Queued /\ Taken' = Taken
      BY <1>1 DEF Queued, Taken, FirstSlot, Wrap
<1>3. QED
      BY <1>1, <1>2, OfferedKept DEF Fifo!fifoVars

-----------------------------------------------------------------------------
LEMMA InitSim == Init => Fifo!FifoInit
<1> SUFFICES ASSUME Init PROVE Fifo!FifoInit
    OBVIOUS
<1>1. TypeOK
      BY InitIInv DEF IInv
<1>2. Queued = << >>
      BY <1>1, EmptyQueue DEF Init
<1>3. Offered = Nothing /\ Taken = Nothing
      BY DEF Init, Offered, Taken
<1>4. QED
      BY <1>2, <1>3 DEF Fifo!FifoInit

LEMMA StepSim ==
  RInv /\ RInv' /\ [Next]_vars => [Fifo!FifoNext]_(Fifo!fifoVars)
<1> SUFFICES ASSUME RInv, RInv', [Next]_vars
             PROVE  Fifo!FifoNext \/ UNCHANGED Fifo!fifoVars
    OBVIOUS
<1>1. CASE UNCHANGED vars
      BY <1>1
      DEF vars, producerVars, consumerVars, Fifo!fifoVars, Queued, Offered,
          Taken, FirstSlot, Wrap
<1>2. CASE Producer
      BY <1>2, FillSim, InsertRefusedSim, InsertLoadSim, InsertSwapReadSim,
         InsertSwapWriteSim, InsertFetchAddSim, InsertAdvanceSim
      DEF Producer, Fifo!FifoNext
<1>3. CASE Consumer
      BY <1>3, RemoveRefusedSim, RemoveLoadSim, RemoveSwapReadSim,
         RemoveSwapWriteSim, RemoveFetchSubSim, RemoveAdvanceSim, DrinkSim,
         ClearExchangeSim, ClearAdvanceSim, SizeAtLeastSim
      DEF Consumer, RemoveStep, Fifo!FifoNext
<1>4. QED
      BY <1>1, <1>2, <1>3 DEF Next

\* SwapQueue implements the bounded FIFO queue: for every size, whatever the
\* interleaving of the two threads, Insert, Remove and Clear behave as if each
\* happened at the instant it updates num_elements_.
THEOREM Refinement == Spec => ImplementsBoundedFifo
<1>1. Spec => []RInv
      BY Invariance, BuffersAlwaysConserved, PTL DEF RInv
<1>2. QED
      BY <1>1, InitSim, StepSim, PTL
      DEF Spec, ImplementsBoundedFifo, Fifo!FifoSpec
=============================================================================
