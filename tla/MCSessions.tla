----------------------------- MODULE MCSessions -----------------------------
EXTENDS Sessions

CONSTANTS a, b, c, d   \* chunks

OneChunk  == { <<a>> }
TwoChunks == { <<a, b>> }
OneOther  == { <<c>> }
TwoOther  == { <<c, d>> }

\* The first server process draws the identifier 1.
RestartInit == SessionsInit /\ sDraw.conn_id = 1
RestartSpec == RestartInit /\ [][SessionsNext]_sessionVars
=============================================================================
