------------------------------ MODULE MCReview ------------------------------
EXTENDS Review

\* A pull request whose review takes three parts.
ThreeParts == <<<<1>>, <<1, 1, 1>>, <<1>>>>

\* The hunks of three files, the third of which is not reviewed: all in one
\* chunk, with a file without hunks; a file cut between hunks, whose last piece
\* the next file joins; a hunk longer than a chunk, then a file cut where its
\* first hunk fills the chunk; a file that fits before one that is cut.
PullRequests == {<<<<1>>, <<>>, <<1>>>>, <<<<1, 1, 1>>, <<>>, <<1>>>>,
                 <<<<4, 1>>, <<2, 1>>, <<1>>>>, ThreeParts}

\* One push at the most to the pull request with the longest review; the script's
\* own steps are as in Spec.
PacedPush == Push /\ (hunks = ThreeParts => pushes = 0)

PacedSpec == Init /\ [][Step \/ PacedPush \/ Killed]_vars /\ WF_vars(Step)
=============================================================================
