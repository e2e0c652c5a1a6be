------------------------------ MODULE SeqArith ------------------------------
(***************************************************************************)
(* Wrap-safe sequence arithmetic: core/src/seq.c, the one implementation    *)
(* every receive window and every event ring of the protocol is built on.   *)
(*                                                                         *)
(* A uint16_t is an element of Seqs.  SeqModulus is 65536 in the C code; the    *)
(* runs shrink it so that the counters wrap, and the theorems of            *)
(* ServerProofs hold for every even modulus.                               *)
(***************************************************************************)
EXTENDS Integers

CONSTANT SeqModulus       \* number of distinct sequence values, 0x10000 in seq.c

ASSUME SeqModAssumption ==
  SeqModulus \in Nat /\ \E h \in 2 .. SeqModulus : SeqModulus = 2 * h

Seqs == 0 .. SeqModulus - 1

\* APAD_SEQ_HALF: distances from here on are behind us, or ambiguous.
SeqHalf == SeqModulus \div 2

\* (uint16_t)((unsigned)a - (unsigned)b), written without % so that the
\* provers stay in linear arithmetic.
SeqDistance(a, b) == IF a >= b THEN a - b ELSE a - b + SeqModulus

SeqNext(s) == IF s = SeqModulus - 1 THEN 0 ELSE s + 1

SeqNewer(a, b) ==
  /\ SeqDistance(a, b) # 0
  /\ SeqDistance(a, b) < SeqHalf

SeqDiff(a, b) ==
  IF SeqDistance(a, b) < SeqHalf THEN SeqDistance(a, b)
                                 ELSE SeqDistance(a, b) - SeqModulus

\* How many trailing slots of an event ring of ringLen slots are news to a
\* receiver that last applied event number lastSeq.
EventRingNew(eventSeq, lastSeq, ringLen) ==
  LET gap == SeqDiff(eventSeq, lastSeq)
  IN  IF ringLen <= 0 \/ gap <= 0 THEN 0
      ELSE IF gap > ringLen THEN ringLen ELSE gap

\* *out_overflow: events were lost that the ring can no longer carry.
EventRingOverflow(eventSeq, lastSeq, ringLen) ==
  ringLen > 0 /\ SeqDiff(eventSeq, lastSeq) > ringLen

=============================================================================
