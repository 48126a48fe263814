------------------------------- MODULE Filter -------------------------------
(***************************************************************************)
(* Dropping an element from a list, element by element as slices.DeleteFunc *)
(* and Array.prototype.filter do.  (SelectSeq of Sequences says the same,   *)
(* but no proof can look into it.)                                          *)
(***************************************************************************)
EXTENDS Integers, Sequences

(* The elements of s but x, in their order. *)
Without(s, x) ==
    LET kept[n \in 0 .. Len(s)] ==
          IF n = 0 THEN <<>>
          ELSE IF s[n] = x THEN kept[n - 1] ELSE Append(kept[n - 1], s[n])
    IN  kept[Len(s)]
=============================================================================
