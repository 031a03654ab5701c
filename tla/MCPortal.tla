--------------------------------- MODULE MCPortal ---------------------------------
EXTENDS PortalProperties, TLC

Symmetry == Permutations(Content)

S(uses, elsewhere, faults, refetches) ==
  [uses |-> uses, elsewhere |-> elsewhere, faults |-> faults, refetches |-> refetches]

\* Three changes outside: a decision goes back for information and returns.
MCSessions ==
  {S({"actions"}, 3, 0, 0), S({"actions"}, 1, 1, 0), S({"actions"}, 1, 0, 1), S({"actions", "timeline"}, 1, 0, 0),
   S({"actions", "draft"}, 1, 0, 0), S({"draft", "timeline"}, 0, 1, 0), S({"draft"}, 1, 1, 1),
   S({"create", "upload"}, 1, 1, 0), S({"create", "draft", "upload"}, 0, 0, 0)}
===================================================================================
