---------------------------- MODULE MCTemplateLock ----------------------------
\* TemplateLock for TLC: the processes are interchangeable.  For the safety
\* run only; a liveness property is checked without symmetry.
EXTENDS TemplateLock, TLC

Symmetry == Permutations(Process)
=============================================================================
