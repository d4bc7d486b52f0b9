-------------------------- MODULE MCYardOccupancy --------------------------
(* The values the TLC runs of YardOccupancy give its constants. *)
EXTENDS YardOccupancy, TLC

CONSTANTS East, West    \* two yards

TwoSpots == 1 .. 2

\* Two spots in two yards.
Apart == [s \in TwoSpots |-> IF s = 2 THEN East ELSE West]

\* The requests about the spots and the exits; with the edits of a spot.
ExitCalls == {"assign", "vacate", "move", "repair", "return"}
AllCalls  == ExitCalls \cup {"edit"}

Interchangeable == Permutations(Clerks) \cup Permutations(Processes)
=============================================================================
