----------------------------- MODULE MCTokenAuth -----------------------------
EXTENDS TokenAuth, TLC

CONSTANTS gateway1, gateway2, settings

MCChannel == [c \in Callers |-> IF c = settings THEN "sberid" ELSE "companion"]

\* The gateway requests are interchangeable.
MCSymmetry == Permutations({gateway1, gateway2})

===============================================================================
