----------------------------- MODULE BoundedFifo -----------------------------
(***************************************************************************)
(* What SwapQueue promises its two users: a bounded first-in first-out     *)
(* queue whose operations are atomic.  One producer hands over the value   *)
(* it holds, one consumer takes the oldest value or drops all of them, an  *)
(* insertion is refused exactly when the queue is full and a removal is    *)
(* refused exactly when it is empty.                                       *)
(***************************************************************************)
EXTENDS Naturals, Sequences

CONSTANTS Capacity,   \* number of values the queue can hold
          Value,      \* the values passed from producer to consumer
          Nothing,    \* held by a user that holds no value
          Refused     \* what a removal from an empty queue leaves behind

VARIABLES fifo,       \* the queued values, oldest first
          offered,    \* the value the producer wants to insert, or Nothing
          taken       \* the value the consumer removed and still uses

fifoVars == <<fifo, offered, taken>>

FifoInit ==
  /\ fifo = << >>
  /\ offered = Nothing
  /\ taken = Nothing

Offer(v) ==
  /\ offered = Nothing
  /\ offered' = v
  /\ UNCHANGED <<fifo, taken>>

Put ==
  /\ offered # Nothing
  /\ Len(fifo) < Capacity
  /\ fifo' = Append(fifo, offered)
  /\ offered' = Nothing
  /\ UNCHANGED taken

PutRefused ==
  /\ offered # Nothing
  /\ Len(fifo) = Capacity
  /\ offered' = Nothing
  /\ UNCHANGED <<fifo, taken>>

Take ==
  /\ taken = Nothing
  /\ fifo # << >>
  /\ taken' = Head(fifo)
  /\ fifo' = Tail(fifo)
  /\ UNCHANGED offered

TakeRefused ==
  /\ taken = Nothing
  /\ fifo = << >>
  /\ taken' = Refused
  /\ UNCHANGED <<fifo, offered>>

Use ==
  /\ taken # Nothing
  /\ taken' = Nothing
  /\ UNCHANGED <<fifo, offered>>

Drop ==
  /\ taken = Nothing
  /\ fifo' = << >>
  /\ UNCHANGED <<offered, taken>>

FifoNext ==
  \/ \E v \in Value : Offer(v)
  \/ Put
  \/ PutRefused
  \/ Take
  \/ TakeRefused
  \/ Use
  \/ Drop

FifoSpec == FifoInit /\ [][FifoNext]_fifoVars

==============================================================================
