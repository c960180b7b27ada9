------------------------------ MODULE MCTamer ------------------------------
EXTENDS Tamer

MCGains   == {<<1, 10>>, <<1, 6>>, <<1, 4>>, <<2, 5>>}
MCCentres == {60, 127, 150, 212}
MCTol     == [w \in Windows |-> 1]
=============================================================================
