------------------------------- MODULE MCAccounts -------------------------------
(* Instances of Accounts for TLC; names, tokens and requests are               *)
(* interchangeable.                                                            *)
EXTENDS Accounts, TLC

Symmetry == Permutations(Name) \cup Permutations(Token) \cup Permutations(Request)
================================================================================
