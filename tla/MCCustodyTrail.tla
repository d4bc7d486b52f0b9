--------------------------- MODULE MCCustodyTrail ---------------------------
(* The values the TLC runs of CustodyTrail give its constants. *)
EXTENDS CustodyTrail, TLC

\* Into custody, one edge that suspends the rite and one that stops it.
CustodyEdges ==
    {<<"IN_REMOVAL", "RECEPTION">>, <<"RECEPTION", "ACTIVE_CUSTODY">>,
     <<"ACTIVE_CUSTODY", "JUDICIAL_HOLD">>,
     <<"ACTIVE_CUSTODY", "RELEASE_IN_PROGRESS">>}

\* A repair and the return from it.
RepairEdges ==
    {<<"RECEPTION", "ACTIVE_CUSTODY">>, <<"ACTIVE_CUSTODY", "RELEASED_FOR_REPAIR">>,
     <<"RELEASED_FOR_REPAIR", "ACTIVE_CUSTODY">>}
=============================================================================
