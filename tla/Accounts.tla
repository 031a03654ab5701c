-------------------------------- MODULE Accounts --------------------------------
(***************************************************************************)
(* Who may come in: UsersService (create, update), AuthService (login,     *)
(* logout) and JwtStrategy.validate, over the users, sessions and audit    *)
(* tables.  A request is a few awaited steps; an update reads the account, *)
(* then writes it, revokes the sessions and records what changed in one    *)
(* transaction; login reads the account, then creates a session and signs  *)
(* a token that carries the role it read.                                  *)
(*                                                                         *)
(* overlap is a history variable: which kinds of requests have ever been   *)
(* under way at the same time.  No action looks at it.                     *)
(***************************************************************************)
EXTENDS Transitions, Sequences, FiniteSets

CONSTANTS Role,      \* bound: the roles in play
          SessionId, \* bound: the sessions ever created
          Slot,      \* requests the server serves at the same time
          MaxLog     \* bound: audit entries

ASSUME AccountsAssumption ==
  /\ "ADMIN" \in Role /\ Role \subseteq UserRole
  /\ MaxLog \in Nat

VARIABLES
  user,     \* user[u]: the row of the User table, NoAccount if there is none
  rows,     \* the unexpired rows of the Session table
  tokens,   \* the signed tokens clients hold
  log,      \* log[u]: the audit entries about u
  job,      \* job[k]: the request in slot k
  overlap   \* history: "updates", "same account", "login" (see Overlaps)

avars == <<user, rows, tokens, log, job, overlap>>

--------------------------------------------------------------------------------
Account == [role : Role, active : BOOLEAN]

NoAccount == [role |-> "NONE", active |-> FALSE]

Session == [sid : SessionId, user : User]

Token == [sid : SessionId, user : User, role : Role]

\* UpdateUserDto: the fields that are there.  One with fullName only is empty.
UpdateUserDto ==
  UNION {{[f \in F |-> a[f]] : a \in Account} : F \in SUBSET {"role", "active"}}

Idle == [stage |-> "idle"]

InUpdate == {"written", "revoked"}

Updating == {"admitted", "read"} \cup InUpdate

LoggingIn == {"verified", "session", "audited"}

Patched(a, dto) == [f \in DOMAIN a |-> IF f \in DOMAIN dto THEN dto[f] ELSE a[f]]

\* What update() looks for in the dto: fields that differ from a.
Differs(a, dto) == {f \in DOMAIN dto : dto[f] # a[f]}

\* Faulty form: only the deactivation is looked at.
SelfProtected_NoRole(dto) == "active" \in DOMAIN dto => dto.active

\* An admin's dto for his own account.
SelfProtected(dto) ==
  /\ "active" \in DOMAIN dto => dto.active
  /\ "role" \in DOMAIN dto => dto.role = "ADMIN"

\* Faulty form: a new role keeps the sessions.
Revokes_Inactive(existing, dto) == "active" \in Differs(existing, dto) /\ ~dto.active

Revokes(existing, dto) ==
  \/ "active" \in Differs(existing, dto) /\ ~dto.active
  \/ "role" \in Differs(existing, dto)

\* Faulty form: the difference between the row and itself.
Changes_FromUpdated(existing, dto) ==
  [f \in Differs(existing, dto) |-> [from |-> dto[f], to |-> dto[f]]]

Changes(existing, dto) ==
  [f \in Differs(existing, dto) |-> [from |-> existing[f], to |-> dto[f]]]

Logged == [action : {"USER_CREATED", "USER_UPDATED", "USER_LOGGED_IN", "USER_LOGGED_OUT"},
           actor : User]

Record(u, action, actor, changes) ==
  log' = [log EXCEPT ![u] = Append(@, [action |-> action, actor |-> actor,
                                       changes |-> changes])]

Room ==
  Cardinality({e \in User \X (1 .. MaxLog) : e[2] \in DOMAIN log[e[1]]})
  + Cardinality({k \in Slot : job[k] # Idle}) < MaxLog

\* JwtStrategy.validate: the token's session is there and its account active.
\* The role a request runs with is the row's, not the token's.
Valid(t) == user[t.user].active /\ [sid |-> t.sid, user |-> t.user] \in rows

--------------------------------------------------------------------------------
\* The database as seeded: some accounts, an active admin among them.
AInit ==
  /\ user \in [User -> Account \cup {NoAccount}]
  /\ \E u \in User : user[u] = [role |-> "ADMIN", active |-> TRUE]
  /\ rows = {}
  /\ tokens = {}
  /\ log = [u \in User |-> << >>]
  /\ job = [k \in Slot |-> Idle]
  /\ overlap = {}

Become(k, j) == job' = [job EXCEPT ![k] = j]

\* What overlaps when request j starts: two updates, two updates of one account,
\* an update and a login of one account.
Overlaps(j) ==
  LET Beside(stages) == {k \in Slot : job[k].stage \in stages}
      Mine(stages) == {k \in Beside(stages) : job[k].id = j.id}
  IN {o \in {"updates", "same account", "login"} :
        \/ o = "updates" /\ j.stage \in Updating /\ Beside(Updating) # {}
        \/ o = "same account" /\ j.stage \in Updating /\ Mine(Updating) # {}
        \/ o = "login" /\ \/ j.stage \in Updating /\ Mine(LoggingIn) # {}
                          \/ j.stage \in LoggingIn /\ Mine(Updating) # {}}

Start(k, j) == Become(k, j) /\ overlap' = overlap \cup Overlaps(j)

Stage(k, stage) == job' = [job EXCEPT ![k].stage = stage]

\* An admin's request passes JwtAuthGuard and RolesGuard, and for an update of
\* himself the checks at the head of update().
BeginAdmin(k) ==
  /\ job[k] = Idle /\ Room
  /\ \E t \in tokens, u \in User :
       /\ Valid(t) /\ user[t.user].role = "ADMIN"
       /\ \/ \E r \in Role :
               Start(k, [stage |-> "creating", actor |-> t.user, id |-> u, role |-> r])
          \/ \E dto \in UpdateUserDto :
               /\ u = t.user => SelfProtected(dto)
               /\ Start(k, [stage |-> "admitted", actor |-> t.user, id |-> u,
                            dto |-> dto, existing |-> NoAccount, doomed |-> {}])
  /\ UNCHANGED <<user, rows, tokens, log>>

\* create(): the row and its audit entry, or 409 on a taken email.
Create(k) ==
  /\ job[k].stage = "creating"
  /\ LET u == job[k].id IN
       IF user[u] = NoAccount
       THEN /\ user' = [user EXCEPT ![u] = [role |-> job[k].role, active |-> TRUE]]
            /\ Record(u, "USER_CREATED", job[k].actor,
                      Changes(NoAccount, [role |-> job[k].role, active |-> TRUE]))
       ELSE UNCHANGED <<user, log>>
  /\ Become(k, Idle)
  /\ UNCHANGED <<rows, tokens, overlap>>

\* existing is read before the transaction; 404 when there is none.
ReadExisting(k) ==
  /\ job[k].stage = "admitted"
  /\ IF user[job[k].id] = NoAccount THEN Become(k, Idle)
     ELSE job' = [job EXCEPT ![k].existing = user[job[k].id], ![k].stage = "read"]
  /\ UNCHANGED <<user, rows, tokens, log, overlap>>

\* UPDATE: the row stays locked until the transaction ends.
Write(k) ==
  /\ job[k].stage = "read"
  /\ \A q \in Slot : job[q].stage \in InUpdate => job[q].id # job[k].id
  /\ Stage(k, "written")
  /\ UNCHANGED <<user, rows, tokens, log, overlap>>

\* deleteMany: the sessions committed when it runs.  An insert into sessions
\* does not wait for the update of the user's row.
Revoke(k) ==
  /\ job[k].stage = "written"
  /\ job' = [job EXCEPT
       ![k].stage = "revoked",
       ![k].doomed = IF Revokes(job[k].existing, job[k].dto)
                     THEN {s \in rows : s.user = job[k].id} ELSE {}]
  /\ UNCHANGED <<user, rows, tokens, log, overlap>>

\* Faulty form: the whole row is written back as it was read.
Commit_WholeRow(k) ==
  /\ job[k].stage = "revoked"
  /\ LET j == job[k] IN
       /\ user' = [user EXCEPT ![j.id] = Patched(j.existing, j.dto)]
       /\ rows' = rows \ j.doomed
       /\ Record(j.id, "USER_UPDATED", j.actor, Changes(j.existing, j.dto))
  /\ Become(k, Idle)
  /\ UNCHANGED <<tokens, overlap>>

\* The audit entry, and the commit of all three writes.
Commit(k) ==
  /\ job[k].stage = "revoked"
  /\ LET j == job[k] IN
       /\ user' = [user EXCEPT ![j.id] = Patched(@, j.dto)]
       /\ rows' = rows \ j.doomed
       /\ Record(j.id, "USER_UPDATED", j.actor, Changes(j.existing, j.dto))
  /\ Become(k, Idle)
  /\ UNCHANGED <<tokens, overlap>>

\* login() with the right password: the account is read, once.
BeginLogin(k) ==
  /\ job[k] = Idle /\ Room
  /\ \E u \in User :
       /\ user[u].active
       /\ Start(k, [stage |-> "verified", id |-> u, role |-> user[u].role])
  /\ UNCHANGED <<user, rows, tokens, log>>

\* An unknown email, a wrong password or a deactivated account: 401, and an
\* audit entry that is about nobody.
BeginBadLogin(k) ==
  /\ job[k] = Idle
  /\ Become(k, [stage |-> "refused"])
  /\ UNCHANGED <<user, rows, tokens, log, overlap>>

AuditBadLogin(k) ==
  /\ job[k].stage = "refused"
  /\ Become(k, Idle)
  /\ UNCHANGED <<user, rows, tokens, log, overlap>>

Fresh(sid) ==
  /\ \A s \in rows : s.sid # sid
  /\ \A t \in tokens : t.sid # sid
  /\ \A k \in Slot : job[k].stage \in {"session", "audited"} => job[k].sid # sid

\* Faulty form: the audit entry is not waited for.
CreateSession_NoAudit(k) ==
  /\ job[k].stage = "verified"
  /\ \E sid \in SessionId :
       /\ Fresh(sid)
       /\ rows' = rows \cup {[sid |-> sid, user |-> job[k].id]}
       /\ Become(k, [stage |-> "audited", id |-> job[k].id, role |-> job[k].role,
                     sid |-> sid])
  /\ UNCHANGED <<user, tokens, log, overlap>>

CreateSession(k) ==
  /\ job[k].stage = "verified"
  /\ \E sid \in SessionId :
       /\ Fresh(sid)
       /\ rows' = rows \cup {[sid |-> sid, user |-> job[k].id]}
       /\ Become(k, [stage |-> "session", id |-> job[k].id, role |-> job[k].role,
                     sid |-> sid])
  /\ UNCHANGED <<user, tokens, log, overlap>>

AuditLogin(k) ==
  /\ job[k].stage = "session"
  /\ Record(job[k].id, "USER_LOGGED_IN", job[k].id, << >>)
  /\ Stage(k, "audited")
  /\ UNCHANGED <<user, rows, tokens, overlap>>

\* The cookies are set, with the token signed for the role read at first.
AnswerLogin(k) ==
  /\ job[k].stage = "audited"
  /\ tokens' = tokens \cup {[sid |-> job[k].sid, user |-> job[k].id, role |-> job[k].role]}
  /\ Become(k, Idle)
  /\ UNCHANGED <<user, rows, log, overlap>>

\* logout(): the session is deleted, whether or not it is still there, ...
Logout(k) ==
  /\ job[k] = Idle /\ Room
  /\ \E t \in tokens :
       /\ Valid(t)
       /\ rows' = {s \in rows : s.sid # t.sid}
       /\ Become(k, [stage |-> "left", id |-> t.user])
  /\ UNCHANGED <<user, tokens, log, overlap>>

\* ... and then recorded.
AuditLogout(k) ==
  /\ job[k].stage = "left"
  /\ Record(job[k].id, "USER_LOGGED_OUT", job[k].id, << >>)
  /\ Become(k, Idle)
  /\ UNCHANGED <<user, rows, tokens, overlap>>

\* A statement fails or the process dies: an open transaction is rolled back, what
\* was committed before stays.
Fail(k) ==
  /\ job[k] # Idle
  /\ Become(k, Idle)
  /\ UNCHANGED <<user, rows, tokens, log, overlap>>

\* The hour of a session is over: from now on its row counts as missing.
Expire ==
  /\ \E s \in rows : rows' = rows \ {s}
  /\ UNCHANGED <<user, tokens, log, job, overlap>>

ANext ==
  \/ Expire
  \/ \E k \in Slot :
       \/ BeginAdmin(k) \/ Create(k)
       \/ ReadExisting(k) \/ Write(k) \/ Revoke(k) \/ Commit(k)
       \/ BeginLogin(k) \/ CreateSession(k) \/ AuditLogin(k) \/ AnswerLogin(k)
       \/ BeginBadLogin(k) \/ AuditBadLogin(k)
       \/ Logout(k) \/ AuditLogout(k)
       \/ Fail(k)

ASpec == AInit /\ [][ANext]_avars
================================================================================
