--------------------------- MODULE MCStreamReplay ---------------------------
\* Instances of StreamReplay for TLC.
EXTENDS StreamReplay, TLC

\* Tabs are interchangeable, and so are connections.
Symmetric == Permutations(Tab) \union Permutations(Conn)
=============================================================================
