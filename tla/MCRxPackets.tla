---- MODULE MCRxPackets ----
(* RxPackets with short packets: 12 samples of 12 bits in 11 words, 16 of  *)
(* 14 bits in 16 words, 6 of 16 bits in 8 words.                           *)
EXTENDS RxPackets

MCGroups == [w \in Widths |-> CASE w = 12 -> 3 [] w = 14 -> 2 [] OTHER -> 6]
====
