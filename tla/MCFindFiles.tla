----------------------------- MODULE MCFindFiles -----------------------------
(* FindFiles on small trees, with a file at most two levels down. *)
EXTENDS FindFiles

CONSTANTS d1, d2, f, a, b

\* A file in a directory; the other directory beside it, in it, or not yet made.
SmallTrees ==
  {[i \in {d1, d2, f} |->
      CASE i = d1 -> Place(Root, a) [] i = f -> Place(d1, a) [] i = d2 -> there] :
    there \in {Place(Root, b), Place(d1, b), Nowhere}}
=============================================================================
