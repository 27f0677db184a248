------------------------------- MODULE Queues -------------------------------
(* The lists of waiting threads, messages and ports that the kernel keeps  *)
(* in deques and erases from in place.                                     *)
EXTENDS Integers, Sequences, SequencesExt

(* std::erase_if: the elements of q that are not in T, in their order.     *)
Erased(q, T) ==
    LET Kept[i \in 0..Len(q)] ==
            IF i = 0 THEN <<>>
            ELSE IF q[i] \in T THEN Kept[i - 1] ELSE Append(Kept[i - 1], q[i])
    IN  Kept[Len(q)]
=============================================================================
