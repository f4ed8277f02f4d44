------------------------------ MODULE MCSystem ------------------------------
(* Values for the constants of System.                                       *)
EXTENDS System, TLC

MCValues == -1 .. 3
MCConns == Nodes \X (1 .. MaxConnects)

\* Two nodes that name each other.
Pair == 1 :> 2 @@ 2 :> 1
=============================================================================
