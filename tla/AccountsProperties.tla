--------------------------- MODULE AccountsProperties ---------------------------
(***************************************************************************)
(* What UsersService and AuthService say they keep.  Three of the promises *)
(* are kept as long as requests of certain kinds do not overlap; these     *)
(* properties name the kinds.                                              *)
(***************************************************************************)
EXTENDS Accounts

(* "Without this, the last admin could lock everyone out with no recovery   *)
(* path": the self-protection of update() keeps an active admin around.    *)
AnAdminRemains == \E u \in User : user[u] = [role |-> "ADMIN", active |-> TRUE]

(* ... as long as no two updates overlap.                                  *)
AnAdminRemainsInTurn == "updates" \notin overlap => AnAdminRemains

(* "Revoke sessions on deactivation.  Also revoke on role change so the old *)
(* role isn't carried in the JWT": a token whose session lives belongs to  *)
(* an active account and carries the role the account has.                 *)
LiveTokensAreCurrent ==
  \A t \in tokens :
    [sid |-> t.sid, user |-> t.user] \in rows =>
      user[t.user] = [role |-> t.role, active |-> TRUE]

(* ... as long as no update overlaps another of the same account, or a     *)
(* login of it.                                                            *)
LiveTokensAreCurrentInTurn ==
  {"same account", "login"} \cap overlap = {} => LiveTokensAreCurrent

Mentions(u, f) == {i \in DOMAIN log[u] : f \in DOMAIN log[u][i].changes}

(* "So audit reads tell exactly what changed": the recorded changes of a   *)
(* field form a chain, and the chain ends at the row's value.              *)
TrailTellsTheAccount ==
  \A u \in User, f \in {"role", "active"} :
    \A i \in Mentions(u, f) :
      LET later == {k \in Mentions(u, f) : k > i} IN
        IF later = {} THEN log[u][i].changes[f].to = user[u][f]
        ELSE \E k \in later :
               /\ \A q \in later : k <= q
               /\ log[u][k].changes[f].from = log[u][i].changes[f].to

(* ... as long as no two updates of one account overlap.                   *)
TrailTellsTheAccountInTurn == "same account" \notin overlap => TrailTellsTheAccount

(* Updates of one account that overlap keep each other's fields: a step    *)
(* that changes a field is the commit of an update that set it, or the     *)
(* creation of the account.                                                *)
UpdatesKeepEachOther ==
  [][\A u \in User : user[u] # NoAccount =>
       \A f \in {"role", "active"} : user'[u][f] # user[u][f] =>
         \E k \in Slot : /\ job[k].stage = "revoked" /\ job'[k] = Idle
                         /\ job[k].id = u /\ f \in DOMAIN job[k].dto]_avars

(* Nobody holds a token whose login is not in the audit log.               *)
EveryLoginIsLogged ==
  \A u \in User :
    Cardinality({t \in tokens : t.user = u})
      <= Cardinality({i \in DOMAIN log[u] : log[u][i].action = "USER_LOGGED_IN"})
================================================================================
