------------------------------ MODULE Selection ------------------------------
(***************************************************************************)
(* What is left of a sequence when only some elements are kept.  Written   *)
(* as a recursive function and with a set instead of a test, so that facts *)
(* about it can be proved.                                                 *)
(***************************************************************************)
EXTENDS Integers, Sequences

(* The elements of s that are in S, in their order. *)
Only(s, S) ==
  LET kept[k \in 0 .. Len(s)] ==
        IF k = 0 THEN <<>>
        ELSE IF s[k] \in S THEN Append(kept[k - 1], s[k]) ELSE kept[k - 1]
  IN kept[Len(s)]
=============================================================================
