----------------------------- MODULE MCSidebar -----------------------------
\* Instances of Sidebar for TLC.
EXTENDS Sidebar, TLC

\* Tabs and profiles are interchangeable, and so are publishers.
Symmetric == Permutations(Tab) \union Permutations(Profile) \union Permutations(Publisher)
=============================================================================
