----------------------------- MODULE MCDataPath -----------------------------
EXTENDS DataPath

\* Lists that other users of the library may ask for: none, the same channel
\* twice, one the device does not have, and one more than is allowed.
SomeLists == {<< >>, <<3, 3>>, <<8>>, <<0, 8>>, [j \in 1 .. 9 |-> 0]}
=============================================================================
