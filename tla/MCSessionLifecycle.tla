------------------------- MODULE MCSessionLifecycle -------------------------
(* SessionLifecycle with one session, two agents and three committers (one *)
(* in the provider call, two waiting): every race of the module is between *)
(* calls on the same session.                                              *)
EXTENDS SessionLifecycle, TLC

\* Agents and threads are interchangeable, and every property is a safety one.
Symmetric == Permutations(Agent) \union Permutations(Thread)
=============================================================================
