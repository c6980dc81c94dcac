-------------------------- MODULE MCSessionBackup --------------------------
\* SessionBackup on one session.  Dup = {3} with StartRows = 3 starts it with a
\* healthy file of two rows or with a third row that repeats a partial one; with
\* Dup = {} the file is healthy.  Clears, truncations, mistaken saves, crashes
\* and repairs are bounded by the cfg.
EXTENDS SessionBackup

CONSTANT MaxStray   \* marks, faults, crashes and repairs of a run with a stray turn

FewWithStray == stray # NoFile \/ revived => marks + faults + crashes + repairs <= MaxStray
=============================================================================
