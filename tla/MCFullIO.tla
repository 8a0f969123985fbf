------------------------------ MODULE MCFullIO ------------------------------
EXTENDS FullIO

\* A segment that can be cut twice, an empty one and one that can be cut once.
ThreeSegments == <<3, 0, 2>>
=============================================================================
