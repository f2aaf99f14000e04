------------------------------- MODULE RegionsMC -------------------------------
(* A small instance of Regions for TLC. *)
EXTENDS Regions, TLC

CONSTANTS p1, p2, east, west, acc, tx

MCProcesses == {p1, p2}
MCRegions == {east, west}
MCAggregates == {acc, tx}
MCSymmetry == Permutations(MCAggregates)
MCRegionOf == [p \in MCProcesses |-> IF p = p1 THEN east ELSE west]

==============================================================================
