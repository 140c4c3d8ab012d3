----------------------------- MODULE MCRtlBook -----------------------------
(* A window of four ticks in two blocks, with one bid below it and one     *)
(* offer above.                                                            *)
EXTENDS RtlBookFeed

MCBids   == {50, 100, 150, 200, 250}
MCOffers == {100, 150, 200, 250, 300}
MCShareCounts == {1, 2}
MCCountsAtReset == {0}
MCOldContents == {0, 3}
=============================================================================
