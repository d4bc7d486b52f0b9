------------------------- MODULE ImpoundLifecycle -------------------------
(***************************************************************************)
(* What a custody process promises, whoever drives it: its status follows  *)
(* the table of impound.transitions.ts, one enabled edge at a time, and    *)
(* T_stop (frozen_at) is stamped by the edges that end the storage         *)
(* charges and never taken back.                                           *)
(*                                                                         *)
(* CustodyRelease and AuctionSale drive disjoint parts of the table from   *)
(* several transactions each; both are shown to implement this module.     *)
(***************************************************************************)
VARIABLES
    status,     \* impound_processes.status
    stopped     \* impound_processes.frozen_at is not null

lifecycleVars == <<status, stopped>>

Statuses ==
    {"IN_REMOVAL", "RECEPTION", "ACTIVE_CUSTODY", "RELEASE_IN_PROGRESS",
     "RELEASED_FOR_REPAIR", "RELEASED", "AUCTION_ELIGIBLE", "AUCTION_PREP",
     "LOTTED", "AUCTIONED", "AUCTION_CLOSED", "DIRECT_RECYCLING",
     "JUDICIAL_HOLD", "CLOSED"}

(***************************************************************************)
(* The edges with an enabled guard.  RELEASED_FOR_REPAIR -> RELEASED and   *)
(* DIRECT_RECYCLING -> CLOSED are legal in IMPOUND_TRANSITIONS and have no *)
(* entry in GUARDS, so resolveTransition refuses them.                     *)
(***************************************************************************)
EnabledEdges ==
    {<<"IN_REMOVAL", "RECEPTION">>,
     <<"RECEPTION", "ACTIVE_CUSTODY">>,
     <<"ACTIVE_CUSTODY", "JUDICIAL_HOLD">>,
     <<"JUDICIAL_HOLD", "ACTIVE_CUSTODY">>,
     <<"ACTIVE_CUSTODY", "RELEASE_IN_PROGRESS">>,
     <<"RELEASE_IN_PROGRESS", "RELEASED">>,
     <<"ACTIVE_CUSTODY", "RELEASED_FOR_REPAIR">>,
     <<"RELEASED_FOR_REPAIR", "ACTIVE_CUSTODY">>,
     <<"ACTIVE_CUSTODY", "AUCTION_ELIGIBLE">>,
     <<"AUCTION_ELIGIBLE", "DIRECT_RECYCLING">>,
     <<"ACTIVE_CUSTODY", "DIRECT_RECYCLING">>,
     <<"AUCTION_ELIGIBLE", "AUCTION_PREP">>,
     <<"AUCTION_PREP", "LOTTED">>,
     <<"LOTTED", "AUCTIONED">>,
     <<"AUCTIONED", "AUCTION_CLOSED">>,
     <<"AUCTIONED", "LOTTED">>,
     <<"LOTTED", "ACTIVE_CUSTODY">>}

\* The edges whose GuardSpec says setFrozenAt: true.
StoppingEdges ==
    {<<"ACTIVE_CUSTODY", "RELEASE_IN_PROGRESS">>,
     <<"AUCTION_ELIGIBLE", "DIRECT_RECYCLING">>,
     <<"ACTIVE_CUSTODY", "DIRECT_RECYCLING">>,
     <<"LOTTED", "AUCTIONED">>}

Init ==
    /\ status = "IN_REMOVAL"
    /\ stopped = FALSE

Follow(edge) ==
    /\ status = edge[1]
    /\ status' = edge[2]
    /\ stopped' = (stopped \/ edge \in StoppingEdges)

Next == \E edge \in EnabledEdges : Follow(edge)

Spec == Init /\ [][Next]_lifecycleVars
=============================================================================
