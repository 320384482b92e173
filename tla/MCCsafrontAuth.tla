---------------------------- MODULE MCCsafrontAuth ----------------------------
EXTENDS CsafrontAuth, TLC

\* The requests are interchangeable.
MCSymmetry == Permutations(Callers)
===============================================================================
