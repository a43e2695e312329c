-------------------------- MODULE MCBrowserSession --------------------------
(* Tabs, accounts, tokens and slots for calls are interchangeable. *)
EXTENDS BrowserSessionHistory, TLC

Symmetry ==
    Permutations(Tabs) \union Permutations(Accounts) \union Permutations(Tokens) \union Permutations(Calls)
=============================================================================
