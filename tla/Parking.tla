------------------------------ MODULE Parking ------------------------------
(***************************************************************************)
(* What the occupancy of a yard promises: invariant I1 of the study of the *)
(* system (src/docs/rodadas/omega5p/ESTUDO_SIGPRV_PATIOS.md).  A vehicle   *)
(* is parked in a free spot only while it stands in no other, leaves its   *)
(* spot, or goes from its spot to a free one in one step.                  *)
(***************************************************************************)
CONSTANTS Spots, Processes, NoProcess

VARIABLE occupant   \* the vehicle in each spot

Init == occupant = [s \in Spots |-> NoProcess]

Park(p, s) ==
    /\ occupant[s] = NoProcess
    /\ \A t \in Spots : occupant[t] # p
    /\ occupant' = [occupant EXCEPT ![s] = p]

Leave(s) ==
    /\ occupant[s] # NoProcess
    /\ occupant' = [occupant EXCEPT ![s] = NoProcess]

Drive(s, t) ==
    /\ occupant[s] # NoProcess
    /\ occupant[t] = NoProcess
    /\ occupant' = [occupant EXCEPT ![s] = NoProcess, ![t] = occupant[s]]

Next ==
    \/ \E p \in Processes, s \in Spots : Park(p, s)
    \/ \E s \in Spots : Leave(s)
    \/ \E s, t \in Spots : Drive(s, t)

Spec == Init /\ [][Next]_occupant
=============================================================================
