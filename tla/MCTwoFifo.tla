---- MODULE MCTwoFifo ----
EXTENDS TwoFifo
====
