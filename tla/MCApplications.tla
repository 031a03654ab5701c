----------------------------- MODULE MCApplications -----------------------------
EXTENDS Applications, TLC

Symmetry == Permutations(User) \cup Permutations(Request) \cup Permutations(Editor)
              \cup Permutations(Content)
================================================================================
