----------------------------- MODULE MCFraming -----------------------------
(* Values for the constants of Framing.                                      *)
EXTENDS Framing

\* Segments end around every boundary and inside the fields, or only where
\* messages end.
MCCutSets ==
    {{1, 2, 3, 4, 6, 19, 34, 35, 36, 37, 50, 66, 67, 90, 99},
     {Boundary(k) : k \in 1 .. Messages + 1}}
=============================================================================
