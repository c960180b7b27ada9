---- MODULE MCControlChannel ----
EXTENDS ControlChannel
====
