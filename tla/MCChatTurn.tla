----------------------------- MODULE MCChatTurn -----------------------------
EXTENDS ChatTurn

\* Every path of a turn; an offer of the service is expected exactly in
\* service mode, so that both verdicts on one occur.
AskedHere == {d \in Decisions : d.offer <=> d.service}
=============================================================================
