------------------------------ MODULE MCQkEngine ------------------------------
(* A TLC instance of QkEngine: two token ids, prompts that share prefixes and *)
(* repeat themselves, so that the cache is hit and drafts are found.          *)
EXTENDS QkEngine

CONSTANTS r1, r2, r3

MCTok == {0, 1}
MCEos == 2
MCPrompt == [r \in Request |->
  CASE r = r1 -> <<0, 1, 0, 0>> [] r = r2 -> <<0, 1, 0, 0, 1>> [] r = r3 -> <<0, 1, 0>>]
MCSnapPrefix == [r \in Request |-> IF r = r2 THEN 3 ELSE 2]
MCMaxGen == [r \in Request |-> IF r = r1 THEN 4 ELSE IF r = r2 THEN 3 ELSE 5]
MCModels == [MCTok -> MCTok \cup {MCEos}]
===============================================================================
