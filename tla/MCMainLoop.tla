---- MODULE MCMainLoop ----
EXTENDS MainLoop

\* A second configuration may meet the end of a first one that timed out; a
\* phase request or a reset falls in with one configuration; or no requests.
MCBudgets == {b \in [Kinds -> 0 .. 2] :
                \/ b["config"] > 0 /\ b["config"] + b["phase"] + b["reset"] = 2
                \/ \A k \in Kinds : b[k] = 0}
====
