-------------------------------- MODULE Filter --------------------------------
(***************************************************************************)
(* The elements of a sequence that are in a set, in their order: what a    *)
(* loop leaves that takes the others out of an array with splice, or that  *)
(* pushes what matches to a new one.                                       *)
(***************************************************************************)
EXTENDS Integers, Sequences

\* What the first k elements of s contribute, for every k.
Filtered(s, S) ==
    LET kept[k \in 0 .. Len(s)] ==
            IF k = 0 THEN <<>>
            ELSE IF s[k] \in S THEN Append(kept[k - 1], s[k]) ELSE kept[k - 1]
    IN  kept

Filter(s, S) == Filtered(s, S)[Len(s)]
=============================================================================
