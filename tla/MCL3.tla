-------------------------------- MODULE MCL3 --------------------------------
(* A two-line table of one way each with a one-entry CAM, and four order   *)
(* ids of which three share a line: lines fill, orders spill, the CAM      *)
(* fills, and freed slots are taken again.                                 *)
EXTENDS L3Table

MCOrderIds    == {0, 1, 2, 4}
MCShareCounts == {1, 2}
MCPrices      == {50}
=============================================================================
