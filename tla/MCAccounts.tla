------------------------------- MODULE MCAccounts -------------------------------
(* Accounts.tla on small sets.  The calls are interchangeable, and so are the *)
(* onboarding rows.                                                           *)
EXTENDS Accounts, TLC

Symmetry == Permutations(Call) \cup Permutations(Answer)
================================================================================
