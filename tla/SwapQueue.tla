------------------------------ MODULE SwapQueue ------------------------------
(***************************************************************************)
(* SwapQueue<T> (rtc_base/swap_queue.h): a ring of T buffers shared by one *)
(* producer and one consumer thread without a lock.  The two threads meet  *)
(* only in the atomic num_elements_ and in the slots of queue_; each       *)
(* atomic operation and each half of a swap() of a slot is a step of its   *)
(* own here, so every interleaving of Insert, Remove and Clear is covered. *)
(*                                                                         *)
(* A T is a buffer with an identity (it owns heap memory and moves by      *)
(* swap) and a content.  "Empty" buffers keep whatever content they had:   *)
(* the code never clears them.                                             *)
(***************************************************************************)
EXTENDS Naturals

CONSTANTS Size,       \* queue_.size(), fixed by the constructor
          Buffer,     \* identities of the T objects in circulation
          Value,      \* contents the producer may put in a buffer
          proto,      \* content of the prototype the slots are filled with
          Nothing,    \* stands for "no value" in the abstract queue ...
          Refused     \* ... and for a removal that found it empty

\* A queue without slots fails the index check at the end of Clear().
ASSUME SizeAssumption == Size \in Nat \ {0}

ASSUME ValueAssumption ==
  Nothing # Refused /\ {Nothing, Refused} \cap (Value \cup {proto}) = {}

VARIABLES queue,        \* queue_: slot -> buffer
          content,      \* buffer -> what it contains
          num_elements,
          write_index,  \* next_write_index_, only the producer's
          read_index,   \* next_read_index_, only the consumer's
          input,        \* buffer behind Insert's argument
          output,       \* buffer behind Remove's argument
          in_tmp,       \* the temporary of the producer's swap()
          out_tmp,      \* the temporary of the consumer's swap()
          old_num,      \* the producer's old_num_elements
          cleared,      \* the value Clear's exchange returned
          at_least,     \* the consumer's last SizeAtLeast(), less what it
                        \* removed since
          ppc, cpc      \* where the producer and the consumer are

producerVars == <<write_index, input, in_tmp, old_num, ppc>>
consumerVars == <<read_index, output, out_tmp, cleared, at_least, cpc>>
vars == <<queue, content, num_elements, producerVars, consumerVars>>

Slot == 0 .. Size - 1

ProducerPc == {"fill", "insert", "swap_read", "swap_write", "add", "advance"}
ConsumerPc == {"remove", "swap_read", "swap_write", "sub", "advance", "drink",
               "no_item", "clear_advance"}

(***************************************************************************)
(* The code keeps its indexes in range with a comparison and a             *)
(* subtraction, never with %.                                              *)
(***************************************************************************)
Wrap(i) == IF i >= Size THEN i - Size ELSE i

\* The constructors: every slot holds a copy of the prototype, both users
\* bring a buffer of their own.
Init ==
  /\ queue \in [Slot -> Buffer]
  /\ \A i, j \in Slot : queue[i] = queue[j] => i = j
  /\ input \in Buffer /\ output \in Buffer /\ input # output
  /\ \A i \in Slot : queue[i] # input /\ queue[i] # output
  /\ content = [b \in Buffer |-> proto]
  /\ num_elements = 0
  /\ write_index = 0 /\ read_index = 0
  /\ in_tmp = input /\ out_tmp = output
  /\ old_num = 0 /\ cleared = 0 /\ at_least = 0
  /\ ppc = "fill" /\ cpc = "remove"

-----------------------------------------------------------------------------
(* The producer. *)

\* The caller fills its buffer, overwriting what the last swap gave it.
Fill(v) ==
  /\ ppc = "fill"
  /\ content' = [content EXCEPT ![input] = v]
  /\ ppc' = "insert"
  /\ UNCHANGED <<queue, num_elements, write_index, input, in_tmp, old_num,
                 consumerVars>>

\* Insert: the early return when the queue is full.  The caller keeps its
\* buffer and decides anew what to put in it.
InsertRefused ==
  /\ ppc = "insert"
  /\ num_elements = Size
  /\ ppc' = "fill"
  /\ UNCHANGED <<queue, content, num_elements, write_index, input, in_tmp,
                 old_num, consumerVars>>

\* Mutant: Insert without the test for a full queue.
InsertLoad_NoTest ==
  /\ ppc = "insert"
  /\ ppc' = "swap_read"
  /\ UNCHANGED <<queue, content, num_elements, write_index, input, in_tmp,
                 old_num, consumerVars>>

\* Insert: the acquire load finds room.
InsertLoad ==
  /\ ppc = "insert"
  /\ num_elements # Size
  /\ ppc' = "swap_read"
  /\ UNCHANGED <<queue, content, num_elements, write_index, input, in_tmp,
                 old_num, consumerVars>>

\* swap(*input, queue_[next_write_index_]): tmp = *input; *input = slot ...
InsertSwapRead ==
  /\ ppc = "swap_read"
  /\ in_tmp' = input
  /\ input' = queue[write_index]
  /\ ppc' = "swap_write"
  /\ UNCHANGED <<queue, content, num_elements, write_index, old_num,
                 consumerVars>>

\* Mutant: a move out of the slot instead of a swap with it.
InsertSwapWrite_Dropped ==
  /\ ppc = "swap_write"
  /\ ppc' = "add"
  /\ UNCHANGED <<queue, content, num_elements, write_index, input, in_tmp,
                 old_num, consumerVars>>

\* ... slot = tmp.
InsertSwapWrite ==
  /\ ppc = "swap_write"
  /\ queue' = [queue EXCEPT ![write_index] = in_tmp]
  /\ ppc' = "add"
  /\ UNCHANGED <<content, num_elements, write_index, input, in_tmp, old_num,
                 consumerVars>>

InsertFetchAdd ==
  /\ ppc = "add"
  /\ old_num' = num_elements
  /\ num_elements' = num_elements + 1
  /\ ppc' = "advance"
  /\ UNCHANGED <<queue, content, write_index, input, in_tmp, consumerVars>>

InsertAdvance ==
  /\ ppc = "advance"
  /\ write_index' = IF write_index + 1 = Size THEN 0 ELSE write_index + 1
  /\ ppc' = "fill"
  /\ UNCHANGED <<queue, content, num_elements, input, in_tmp, old_num,
                 consumerVars>>

-----------------------------------------------------------------------------
(* The consumer. *)

\* Remove: the early return when the queue is empty.
RemoveRefused ==
  /\ cpc = "remove"
  /\ num_elements = 0
  /\ cpc' = "no_item"
  /\ UNCHANGED <<queue, content, num_elements, producerVars, read_index,
                 output, out_tmp, cleared, at_least>>

\* Mutants: Remove without the test for an empty queue, and with a test that
\* is off by one.
RemoveLoad_NoTest ==
  /\ cpc = "remove"
  /\ cpc' = "swap_read"
  /\ UNCHANGED <<queue, content, num_elements, producerVars, read_index,
                 output, out_tmp, cleared, at_least>>

RemoveLoad_OffByOne ==
  /\ cpc = "remove"
  /\ num_elements > 1
  /\ cpc' = "swap_read"
  /\ UNCHANGED <<queue, content, num_elements, producerVars, read_index,
                 output, out_tmp, cleared, at_least>>

\* Remove: the acquire load finds an element.
RemoveLoad ==
  /\ cpc = "remove"
  /\ num_elements # 0
  /\ cpc' = "swap_read"
  /\ UNCHANGED <<queue, content, num_elements, producerVars, read_index,
                 output, out_tmp, cleared, at_least>>

RemoveSwapRead ==
  /\ cpc = "swap_read"
  /\ out_tmp' = output
  /\ output' = queue[read_index]
  /\ cpc' = "swap_write"
  /\ UNCHANGED <<queue, content, num_elements, producerVars, read_index,
                 cleared, at_least>>

RemoveSwapWrite ==
  /\ cpc = "swap_write"
  /\ queue' = [queue EXCEPT ![read_index] = out_tmp]
  /\ cpc' = "sub"
  /\ UNCHANGED <<content, num_elements, producerVars, read_index, output,
                 out_tmp, cleared, at_least>>

RemoveFetchSub ==
  /\ cpc = "sub"
  /\ num_elements' = num_elements - 1
  /\ at_least' = IF at_least = 0 THEN 0 ELSE at_least - 1
  /\ cpc' = "advance"
  /\ UNCHANGED <<queue, content, producerVars, read_index, output, out_tmp,
                 cleared>>

RemoveAdvance ==
  /\ cpc = "advance"
  /\ read_index' = IF read_index + 1 = Size THEN 0 ELSE read_index + 1
  /\ cpc' = "drink"
  /\ UNCHANGED <<queue, content, num_elements, producerVars, output, out_tmp,
                 cleared, at_least>>

\* The caller uses the removed buffer, or learns that there was none; from
\* now on the content of its buffer has no value.
Drink ==
  /\ cpc \in {"drink", "no_item"}
  /\ cpc' = "remove"
  /\ UNCHANGED <<queue, content, num_elements, producerVars, read_index,
                 output, out_tmp, cleared, at_least>>

\* Clear: the exchange of num_elements_ with zero ...
ClearExchange ==
  /\ cpc = "remove"
  /\ cleared' = num_elements
  /\ num_elements' = 0
  /\ at_least' = 0
  /\ cpc' = "clear_advance"
  /\ UNCHANGED <<queue, content, producerVars, read_index, output, out_tmp>>

\* Mutant: Clear forgets to move its index.
ClearAdvance_Dropped ==
  /\ cpc = "clear_advance"
  /\ cpc' = "remove"
  /\ UNCHANGED <<queue, content, num_elements, producerVars, read_index,
                 output, out_tmp, cleared, at_least>>

\* ... and the update of the consumer's own index by what it returned.
ClearAdvance ==
  /\ cpc = "clear_advance"
  /\ read_index' = Wrap(read_index + cleared)
  /\ cpc' = "remove"
  /\ UNCHANGED <<queue, content, num_elements, producerVars, output, out_tmp,
                 cleared, at_least>>

\* Mutant: the size counts an insertion that is still in progress.
SizeAtLeast_Pending ==
  /\ cpc = "remove"
  /\ at_least' = num_elements + (IF ppc = "add" THEN 1 ELSE 0)
  /\ UNCHANGED <<queue, content, num_elements, producerVars, read_index,
                 output, out_tmp, cleared, cpc>>

SizeAtLeast ==
  /\ cpc = "remove"
  /\ at_least' = num_elements
  /\ UNCHANGED <<queue, content, num_elements, producerVars, read_index,
                 output, out_tmp, cleared, cpc>>

-----------------------------------------------------------------------------
Producer ==
  \/ \E v \in Value : Fill(v)
  \/ InsertRefused
  \/ InsertLoad
  \/ InsertSwapRead
  \/ InsertSwapWrite
  \/ InsertFetchAdd
  \/ InsertAdvance

RemoveStep ==
  \/ RemoveRefused
  \/ RemoveLoad
  \/ RemoveSwapRead
  \/ RemoveSwapWrite
  \/ RemoveFetchSub
  \/ RemoveAdvance
  \/ Drink
  \/ ClearAdvance

Consumer == RemoveStep \/ ClearExchange \/ SizeAtLeast

Next == Producer \/ Consumer

Spec == Init /\ [][Next]_vars

\* The consumer's thread keeps running and keeps calling Remove.  Nothing is
\* assumed of the producer: it may stop for ever in the middle of Insert.
FairSpec == Spec /\ WF_vars(RemoveStep)

-----------------------------------------------------------------------------
(* What the two threads agree on between their steps. *)

\* The slot the oldest counted element is in: the consumer's index, or, once
\* num_elements_ no longer counts what it removed or dropped, the index it is
\* about to store.
FirstSlot ==
  CASE cpc = "advance"       -> Wrap(read_index + 1)
    [] cpc = "clear_advance" -> Wrap(read_index + cleared)
    [] OTHER                 -> read_index

\* The slot the next element goes to.
FreeSlot == IF ppc = "advance" THEN Wrap(write_index + 1) ELSE write_index

ProducerHasRoom == ppc \in {"swap_read", "swap_write", "add"}
ConsumerHasItem == cpc \in {"swap_read", "swap_write", "sub"}

TypeOK ==
  /\ queue \in [Slot -> Buffer]
  /\ content \in [Buffer -> Value \cup {proto}]
  /\ num_elements \in 0 .. Size
  /\ write_index \in Slot /\ read_index \in Slot
  /\ input \in Buffer /\ output \in Buffer
  /\ in_tmp \in Buffer /\ out_tmp \in Buffer
  /\ old_num \in 0 .. Size /\ cleared \in 0 .. Size /\ at_least \in 0 .. Size
  /\ ppc \in ProducerPc /\ cpc \in ConsumerPc

\* The producer's and the consumer's private indexes and the shared counter
\* never drift apart, whatever step either thread is at: the producer writes
\* exactly num_elements_ slots after the slot the consumer reads.  Insert,
\* Remove and Clear each update the counter and an index in two separate
\* steps, with the other thread running in between.
IndexesAgree == FreeSlot = Wrap(FirstSlot + num_elements)

\* A thread that passed its check of num_elements_ still has what it checked
\* for: the value loaded by Insert or Remove is stale by the time the slot is
\* swapped and the counter updated, but only in the harmless direction.
CheckStillHolds ==
  /\ ProducerHasRoom => num_elements < Size
  /\ ConsumerHasItem => num_elements > 0

\* Insert and Remove never touch the same slot of queue_ at the same time,
\* although no lock protects it.
NoSlotRace ==
  (ppc \in {"swap_read", "swap_write"} /\ cpc \in {"swap_read", "swap_write"})
    => write_index # read_index

\* The RTC_DCHECKs at the end of Insert: fetch_add never ran on a full queue.
OldNumBelowSize == ppc = "advance" => old_num < Size

\* Every T passed through the queue is at one place only: in a slot, or with
\* the producer, or with the consumer (the swaps never duplicate or lose one).
\* In the middle of its swap a thread has a buffer in its temporary and not
\* yet in the slot it is swapping with.
ProducerHolds == IF ppc = "swap_write" THEN in_tmp ELSE input
ConsumerHolds == IF cpc = "swap_write" THEN out_tmp ELSE output
BuffersConserved ==
  /\ \A i, j \in Slot : queue[i] = queue[j] => i = j
  /\ ProducerHolds # ConsumerHolds
  /\ \A i \in Slot : queue[i] # ProducerHolds /\ queue[i] # ConsumerHolds
  /\ ppc = "swap_write" => input = queue[write_index]
  /\ cpc = "swap_write" => output = queue[read_index]

\* SizeAtLeast() is a lower bound until the consumer itself removes or drops
\* elements: what the producer does meanwhile never makes it too large, so
\* that many calls of Remove succeed.
SizeIsLowerBound == at_least <= num_elements

(***************************************************************************)
(* The abstract queue as a function of the state of the code.              *)
(***************************************************************************)
Queued ==
  [k \in 1 .. num_elements |->
     IF k = 1 /\ cpc = "sub" THEN content[output]
     ELSE content[queue[Wrap(FirstSlot + k - 1)]]]

Offered ==
  CASE ppc \in {"insert", "swap_read"} -> content[input]
    [] ppc = "swap_write"              -> content[in_tmp]
    [] ppc = "add"                     -> content[queue[write_index]]
    [] OTHER                           -> Nothing

Taken ==
  CASE cpc \in {"advance", "drink"} -> content[output]
    [] cpc = "no_item"              -> Refused
    [] OTHER                        -> Nothing

Fifo == INSTANCE BoundedFifo
        WITH Capacity <- Size, fifo <- Queued, offered <- Offered,
             taken <- Taken

\* The three steps of Insert, the four of Remove and the two of Clear look
\* atomic to the two users: SwapQueue implements a bounded FIFO queue.  An
\* insertion takes effect when num_elements_ is incremented, a removal when it
\* is decremented and Clear when it is exchanged.
ImplementsBoundedFifo == Fifo!FifoSpec

\* The consumer never waits for the producer: while it keeps calling Remove no
\* element stays in the queue for ever, it is handed over or dropped by Clear,
\* even if the producer's thread stops in the middle of an Insert.
InsertedIsHandedOver ==
  (num_elements > 0) ~> (cpc \in {"drink", "clear_advance"})

==============================================================================
