----------------------------- MODULE MCReviewDesk -----------------------------
EXTENDS ReviewDesk

CONSTANTS s, r, c, w

\* Two browsers; a browser of either kind and a worker; a client of all routes
\* and a worker.
MCOverlaps == {{s, r}, {s, w}, {r, w}, {c, w}}
\* A browser and a client of the same route.
MCReaders == {{s, c}}
MCRoleOf == [a \in Session \cup Client |-> IF a = c THEN "admin" ELSE "reviewer"]
MCBatchOf == [p \in Row |-> 1]
MCWindow == {DashboardWindow, [skip |-> 0, limit |-> 1]}
MCPredicted == [p \in Row |-> "letter"]
=============================================================================
