----------------------------- MODULE AuditedMachine -----------------------------
(***************************************************************************)
(* What the workflow promises, with no requests, transactions or versions: *)
(* items move along the rules one step at a time, and the move and its     *)
(* entry in the item's trail are one step.  "Anything not in the table is  *)
(* rejected" and "state change and audit log commit atomically" are this   *)
(* next-state relation.                                                    *)
(***************************************************************************)
EXTENDS Sequences

CONSTANTS Item,       \* the things that have a state
          Rules,      \* records with at least the fields action, from and to
          Name,       \* Name[action]: how the trail calls it
          Opened,     \* the trail's name for the creation of an item
          Unborn,     \* the state of an item before its creation
          Initial     \* the state of an item at its creation

VARIABLES state,      \* state[i]: the state of item i
          trail       \* trail[i]: what happened to item i, oldest first

vars == <<state, trail>>

Init == /\ state = [i \in Item |-> Unborn]
        /\ trail = [i \in Item |-> << >>]

\* An item comes into being, and its trail starts.
Open(i) ==
  /\ state[i] = Unborn
  /\ state' = [state EXCEPT ![i] = Initial]
  /\ trail' = [trail EXCEPT ![i] =
                 Append(@, [action |-> Opened, from |-> Unborn, to |-> Initial])]

\* An item moves along one rule, and its trail says which.
Move(i, rule) ==
  /\ state[i] = rule.from
  /\ state' = [state EXCEPT ![i] = rule.to]
  /\ trail' = [trail EXCEPT ![i] =
                 Append(@, [action |-> Name[rule.action],
                            from |-> rule.from, to |-> rule.to])]

Next == \E i \in Item : Open(i) \/ \E rule \in Rules : Move(i, rule)

Spec == Init /\ [][Next]_vars
================================================================================
