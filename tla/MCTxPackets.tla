---- MODULE MCTxPackets ----
EXTENDS TxPackets
====
