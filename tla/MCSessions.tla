----------------------------- MODULE MCSessions -----------------------------
(***************************************************************************)
(* Instances of Sessions for TLC.                                          *)
(***************************************************************************)
EXTENDS SessionsOverlaps, TLC

\* Accounts, tokens and handlers are interchangeable.
Symmetry == Permutations(Users) \union Permutations(Tokens) \union Permutations(Handlers)
=============================================================================
