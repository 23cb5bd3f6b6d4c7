----------------------------- MODULE MCTopics -----------------------------
EXTENDS Topics

\* Of two chains the first has the second name, the other one the rest.
SmallHash == <<3, 4, 1, 5>>
===========================================================================
