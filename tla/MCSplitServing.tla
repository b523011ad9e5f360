---------------------------- MODULE MCSplitServing ----------------------------
(* TLC instances of SplitServing: prompts that share their history prefix.    *)
EXTENDS SplitServing

CONSTANTS r1, r2, r3

MCPrompt == [r \in Request |-> IF r = r1 THEN <<1, 1, 2>> ELSE <<1, 1, 3, 2>>]
MCSnapPrefix == [r \in Request |-> IF r = r1 THEN 2 ELSE 3]
MCTwoTokens == [r \in Request |-> 2]
MCOneToken == [r \in Request |-> 1]
===============================================================================
