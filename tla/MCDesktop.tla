------------------------------ MODULE MCDesktop ------------------------------
EXTENDS Desktop, TLC

\* Names are interchangeable, and the properties of the run are invariants.
Symmetry == Permutations(Name)
=============================================================================
