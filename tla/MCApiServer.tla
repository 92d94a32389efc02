----------------------------- MODULE MCApiServer ------------------------------
EXTENDS ApiServer

CONSTANTS dashboard, elsewhere

\* All sessions of the dashboard share its address.
MCHostOf == [b \in Browser |-> IF b = 1 THEN elsewhere ELSE dashboard]
=============================================================================
