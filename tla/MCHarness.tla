------------------------------- MODULE MCHarness -------------------------------
(* A TLC instance of Harness: two token ids, every bigram model over them,    *)
(* prompts of one to four tokens, so that a prompt is batched, left to serial *)
(* steps, or both, and every loop of a mode takes several rounds.             *)
EXTENDS Harness

MCTok == {0, 1}
MCEos == 2
MCModels == [MCTok -> MCTok \cup {MCEos}]
MCPrompts == {<<0>>, <<0, 1>>, <<1, 0, 1>>, <<0, 0, 1, 0>>}
MCRoundSizes == <<1, 2, 3, 4>>
MCCorruptions == <<0, 2, 1>>
MCSizes == <<1, 2, 3, 4>>
===============================================================================
