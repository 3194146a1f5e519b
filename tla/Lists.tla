------------------------------- MODULE Lists --------------------------------
(* Lists and tables, in terms that the provers know: lists by recursive      *)
(* functions instead of SelectSeq and FlattenSeq, tables instead of the      *)
(* operators @@ and :> of TLC.                                               *)
(***************************************************************************)
EXTENDS Integers, Sequences, SequencesExt

(* The members of a list that are in S, in their order.                      *)
Kept(list, S) ==
    LET kept[n \in 0..Len(list)] ==
            IF n = 0 THEN <<>>
            ELSE IF list[n] \in S THEN Append(kept[n - 1], list[n])
            ELSE kept[n - 1]
    IN  kept[Len(list)]

(* The lists of a list, one after the other.                                 *)
Flat(lists) ==
    LET flat[n \in 0..Len(lists)] ==
            IF n = 0 THEN <<>> ELSE flat[n - 1] \o lists[n]
    IN  flat[Len(lists)]

(* The table f with v under x.                                               *)
Entered(f, x, v) == [y \in DOMAIN f \cup {x} |-> IF y = x THEN v ELSE f[y]]

(* The table f, and what g has besides.                                      *)
Backed(f, g) == [x \in DOMAIN f \cup DOMAIN g |-> IF x \in DOMAIN f THEN f[x] ELSE g[x]]
=============================================================================
