----------------------------- MODULE MCWfmPlayer -----------------------------
EXTENDS WfmPlayer
=============================================================================
