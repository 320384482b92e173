-------------------------- MODULE MCIntentDispatch --------------------------
EXTENDS IntentDispatch, TLC

MCSymmetry == Permutations(Homes)
===============================================================================
