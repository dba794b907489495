---------------------------- MODULE BoundedFifo ----------------------------
(***************************************************************************)
(* What every stream of the system promises, whatever carries it: values   *)
(* enter a buffer of bounded capacity and leave it once each, in the order *)
(* they entered, never altered.                                            *)
(***************************************************************************)
EXTENDS Naturals, Sequences

CONSTANTS Capacity,  \* how many values may be in transit
          Val        \* the values a producer may hand over

VARIABLES buffer,    \* the values in transit, oldest first
          taken      \* the values the consumer has received, in order

fifoVars == <<buffer, taken>>

FifoInit == buffer = <<>> /\ taken = <<>>

Put(v) ==
  /\ Len(buffer) < Capacity
  /\ buffer' = Append(buffer, v)
  /\ UNCHANGED taken

Take ==
  /\ buffer # <<>>
  /\ taken' = Append(taken, Head(buffer))
  /\ buffer' = Tail(buffer)

FifoNext == Take \/ \E v \in Val : Put(v)

FifoSpec == FifoInit /\ [][FifoNext]_fifoVars
=============================================================================
