------------------------------- MODULE MCAccounts -------------------------------
EXTENDS AccountsProperties, TLC

Symmetry == Permutations(User) \cup Permutations(SessionId) \cup Permutations(Slot)
================================================================================
