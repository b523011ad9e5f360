------------------------------- MODULE Requests -------------------------------
(* The parameters every module of the server shares.                          *)
EXTENDS Naturals

CONSTANTS Request,   \* the requests of a run
          None,      \* "no request"
          NSlots,    \* qk_config.n_slots
          MaxGen     \* [Request -> Nat]: the max_gen of each request's job

ASSUME RequestsAssumption ==
  /\ None \notin Request
  /\ NSlots \in Nat \ {0}
  /\ MaxGen \in [Request -> Nat \ {0}]

Slot == 0 .. NSlots - 1
===============================================================================
