------------------------------- MODULE MCNode -------------------------------
(***************************************************************************)
(* A small phone for Node: a cell that is well, critical, or past the hard  *)
(* stop with no charge left; mains, or an outage from the start.            *)
(***************************************************************************)
EXTENDS Node

Nominal ==
    [temp |-> 250, capacity |-> 58, current |-> -180, full |-> 3600, design |-> 4000]

Critical == [Nominal EXCEPT !.temp = 520]

Spent == [Nominal EXCEPT !.temp = 600, !.capacity = 10]

MCReadings == {Nominal, Critical, Spent}

MCOutages == {OnMains, 0}
=============================================================================
