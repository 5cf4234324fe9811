---------------------------- MODULE MCDesiredSets ----------------------------
EXTENDS DesiredSets, TLC

\* Chunks differ only by name; used by the runs without a liveness property.
KeySymmetry == Permutations(Keys)
=============================================================================
