-------------------------------- MODULE Seqs --------------------------------
(***************************************************************************)
(* The operators on sequences that the models share.  SequencesExt has     *)
(* them too, but it extends Bags, and the theorems of that module, which   *)
(* would be part of every proof obligation, make a proof run several times *)
(* as long.                                                                *)
(***************************************************************************)
EXTENDS Naturals, Sequences, FiniteSetsExt

\* op applied to base and the elements of s, from the first one to the last one.
FoldLeft(op(_, _), base, s) ==
    MapThenFoldSet(LAMBDA x, y : op(y, x), base, LAMBDA i : s[i], Max, DOMAIN s)

IsPrefix(s, t) == Len(s) <= Len(t) /\ s = SubSeq(t, 1, Len(s))
=============================================================================
