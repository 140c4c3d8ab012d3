----------------------------- MODULE MCRtlMold -----------------------------
(* Sessions that differ from the first in one half each, and messages of   *)
(* every length modulo the word.                                           *)
EXTENDS RtlMoldFeed

MCSessions == {[i \in 1 .. 5 |-> IF i = d THEN 9 ELSE 8] : d \in 0 .. 5}
MCLengths  == 12 .. 15
=============================================================================
