------------------------------- MODULE MCWorkflow -------------------------------
EXTENDS WorkflowProperties, TLC

\* Users are interchangeable: every assignment of roles is an initial state.
Symmetry == Permutations(User) \cup Permutations(Request)
================================================================================
