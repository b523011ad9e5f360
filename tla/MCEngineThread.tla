---------------------------- MODULE MCEngineThread ----------------------------
(* TLC instances of EngineThread.                                             *)
EXTENDS EngineThread

CONSTANTS r1, r2, r3

MCMaxGen == [r \in Request |-> IF r = r1 THEN 3 ELSE 1]
MCOneToken == [r \in Request |-> 1]

\* r1 generates longer than the others, which are interchangeable.
MCSymmetry == Permutations(Request \ {r1})
===============================================================================
