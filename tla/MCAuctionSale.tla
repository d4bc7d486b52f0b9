--------------------------- MODULE MCAuctionSale ---------------------------
(* The values the TLC runs of AuctionSale give its constants. *)
EXTENDS AuctionSale

TwoRounds   == 1 .. 2
ThreeRounds == 1 .. 3

\* SCRAP stands for UNRECOVERABLE too: both are recycled and never sold.
AnyClass  == {"CONSERVED", "SCRAP"}
Conserved == {"CONSERVED"}

TwoPrices == 1 .. 2
OnePrice  == {1}
=============================================================================
