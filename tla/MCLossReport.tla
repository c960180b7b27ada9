---------------------------- MODULE MCLossReport ----------------------------
EXTENDS LossReport
=============================================================================
