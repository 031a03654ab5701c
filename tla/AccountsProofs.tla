----------------------------- MODULE AccountsProofs -----------------------------
(***************************************************************************)
(* Proofs about accounts, sessions and tokens, for any number of accounts, *)
(* sessions, requests and audit entries.                                   *)
(***************************************************************************)
EXTENDS AccountsProperties, FiniteSetTheorems, TLAPS

--------------------------------------------------------------------------------
(***************************************************************************)
(* The inductive invariant, in parts.                                      *)
(***************************************************************************)
\* The stages in which an update has read the account.
Reading == {"read"} \cup InUpdate

UpdateJob ==
  [stage : {"admitted"}, actor : User, id : User, dto : UpdateUserDto,
   existing : {NoAccount}, doomed : {{}}]
  \cup
  [stage : Reading, actor : User, id : User, dto : UpdateUserDto,
   existing : Account, doomed : SUBSET Session]

OtherJob ==
  [stage : {"idle", "refused"}]
  \cup [stage : {"creating"}, actor : User, id : User, role : Role]
  \cup [stage : {"verified"}, id : User, role : Role]
  \cup [stage : {"session", "audited"}, id : User, role : Role, sid : SessionId]
  \cup [stage : {"left"}, id : User]

Changed ==
  {<< >>} \cup {Changes(a, dto) : a \in Account \cup {NoAccount}, dto \in UpdateUserDto}

Entry ==
  [action : {"USER_CREATED", "USER_UPDATED", "USER_LOGGED_IN", "USER_LOGGED_OUT"},
   actor : User, changes : Changed]

Types ==
  /\ user \in [User -> Account \cup {NoAccount}]
  /\ rows \subseteq Session
  /\ tokens \subseteq Token
  /\ log \in [User -> Seq(Entry)]
  /\ job \in [Slot -> UpdateJob \cup OtherJob]
  /\ \A k \in Slot : job[k].stage \in Reading => user[job[k].id] # NoAccount

\* As long as no two updates overlap there is one, of an active admin's, and it
\* does not take his own role or account away.
AdminInv ==
  "updates" \notin overlap =>
    /\ AnAdminRemains
    /\ \A k \in Slot : job[k].stage \in Updating =>
         /\ user[job[k].actor] = [role |-> "ADMIN", active |-> TRUE]
         /\ job[k].id = job[k].actor => SelfProtected(job[k].dto)
         /\ \A q \in Slot : job[q].stage \in Updating => q = k

\* As long as no two updates of one account overlap, what an update has read is
\* what the row still says.
ReadInv ==
  "same account" \notin overlap =>
    \A k \in Slot : job[k].stage \in Updating =>
      /\ job[k].stage \in Reading => job[k].existing = user[job[k].id]
      /\ \A q \in Slot \ {k} : job[q].stage \in Updating => job[q].id # job[k].id

\* As long as logins do not overlap updates of their account either: the account
\* is as the login read it, and a revocation has seen every session there is.
LoginInv ==
  {"same account", "login"} \cap overlap = {} =>
    /\ LiveTokensAreCurrent
    /\ \A k \in Slot : job[k].stage \in LoggingIn =>
         /\ user[job[k].id] = [role |-> job[k].role, active |-> TRUE]
         /\ \A q \in Slot : job[q].stage \in Updating => job[q].id # job[k].id
    /\ \A k \in Slot : job[k].stage = "revoked" /\ Revokes(job[k].existing, job[k].dto) =>
         {s \in rows : s.user = job[k].id} \subseteq job[k].doomed

TokensOf(u) == {t \in tokens : t.user = u}

\* The logins that are in the log and not yet answered.
Unanswered(u) == {k \in Slot : job[k].stage = "audited" /\ job[k].id = u}

Logins(l) == {i \in DOMAIN l : l[i].action = "USER_LOGGED_IN"}

LoginsInv ==
  \A u \in User :
    /\ IsFiniteSet(TokensOf(u)) /\ IsFiniteSet(Unanswered(u))
    /\ Cardinality(TokensOf(u)) + Cardinality(Unanswered(u)) <= Cardinality(Logins(log[u]))

\* The changes of field f that log l tells form a chain that ends at value v.
Telling(l, f) == {i \in DOMAIN l : f \in DOMAIN l[i].changes}

Chain(l, f, v) ==
  \A i \in Telling(l, f) :
    LET later == {k \in Telling(l, f) : k > i} IN
      IF later = {} THEN l[i].changes[f].to = v
      ELSE \E k \in later : /\ \A q \in later : k <= q
                            /\ l[k].changes[f].from = l[i].changes[f].to

TellingInv ==
  "same account" \notin overlap =>
    \A u \in User : /\ Chain(log[u], "role", user[u]["role"])
                    /\ Chain(log[u], "active", user[u]["active"])

--------------------------------------------------------------------------------
(***************************************************************************)
(* Lemmas about the accounts and the requests.                             *)
(***************************************************************************)
\* A dto has some of the two fields, each with a value an account may have.
LEMMA DtoFields ==
  ASSUME NEW dto \in UpdateUserDto
  PROVE  /\ DOMAIN dto \subseteq {"role", "active"}
         /\ "role" \in DOMAIN dto => dto["role"] \in Role
         /\ "active" \in DOMAIN dto => dto["active"] \in BOOLEAN
<1>1. PICK F \in SUBSET {"role", "active"} : dto \in {[f \in F |-> a[f]] : a \in Account}
  BY DEF UpdateUserDto
<1>2. PICK a \in Account : dto = [f \in F |-> a[f]]
  BY <1>1
<1> QED BY <1>2 DEF Account

\* A patched account is an account, and has the value of the dto where the dto
\* has the field.
LEMMA PatchedFields ==
  ASSUME NEW a \in Account, NEW dto \in UpdateUserDto
  PROVE  /\ Patched(a, dto) \in Account
         /\ \A f \in {"role", "active"} :
              Patched(a, dto)[f] = IF f \in DOMAIN dto THEN dto[f] ELSE a[f]
<1>1. DOMAIN a = {"role", "active"} /\ a["role"] \in Role /\ a["active"] \in BOOLEAN
  BY DEF Account
<1>2. \A f \in {"role", "active"} :
        Patched(a, dto)[f] = IF f \in DOMAIN dto THEN dto[f] ELSE a[f]
  BY <1>1 DEF Patched
<1>3. Patched(a, dto) = [role |-> Patched(a, dto)["role"], active |-> Patched(a, dto)["active"]]
  BY <1>1 DEF Patched
<1>4. Patched(a, dto)["role"] \in Role /\ Patched(a, dto)["active"] \in BOOLEAN
  BY <1>1, <1>2, DtoFields
<1>5. Patched(a, dto) \in Account
  BY <1>3, <1>4 DEF Account
<1> QED BY <1>2, <1>5

\* An account is its two fields, and no account is the missing one.
LEMMA AccountFields ==
  /\ \A a, b \in Account \cup {NoAccount} :
       a = b <=> a["role"] = b["role"] /\ a["active"] = b["active"]
  /\ \A a \in Account : a # NoAccount
  /\ \A a \in Account : a["role"] \in Role /\ a["active"] \in BOOLEAN
  /\ NoAccount["role"] = "NONE" /\ NoAccount["active"] = FALSE
  /\ \A r \in Role : [role |-> r, active |-> TRUE] \in Account
BY AccountsAssumption DEF Account, NoAccount, UserRole

\* An update that revokes no session leaves an active account as it is.
LEMMA PatchKeeps ==
  ASSUME NEW a \in Account, a["active"] = TRUE, NEW dto \in UpdateUserDto, ~Revokes(a, dto)
  PROVE  Patched(a, dto) = a
<1>1. /\ "role" \in DOMAIN dto => dto["role"] = a["role"]
      /\ "active" \in DOMAIN dto => dto["active"] = a["active"]
  BY DtoFields DEF Revokes, Differs
<1>2. Patched(a, dto)["role"] = a["role"] /\ Patched(a, dto)["active"] = a["active"]
  BY <1>1, PatchedFields
<1>3. Patched(a, dto) \in Account
  BY PatchedFields
<1> QED BY <1>2, <1>3, AccountFields

\* An account is a dto of both fields.
LEMMA AccountIsDto ==
  ASSUME NEW a \in Account
  PROVE  a \in UpdateUserDto
<1>1. a = [f \in {"role", "active"} |-> a[f]]
  BY DEF Account
<1> DEFINE Dtos(F) == {[f \in F |-> b[f]] : b \in Account}
<1>2. a \in Dtos({"role", "active"})
  BY <1>1
<1>3. Dtos({"role", "active"}) \in {Dtos(F) : F \in SUBSET {"role", "active"}}
  OBVIOUS
<1> QED BY <1>2, <1>3 DEF UpdateUserDto

\* The changes an audit entry records.
LEMMA ChangesTyped ==
  ASSUME NEW a \in Account \cup {NoAccount}, NEW dto \in UpdateUserDto
  PROVE  Changes(a, dto) \in Changed
BY DEF Changed

\* What a request of each stage carries.
LEMMA JobFields ==
  ASSUME NEW j \in UpdateJob \cup OtherJob
  PROVE  /\ j.stage \in Updating => j \in UpdateJob
         /\ j \in UpdateJob => /\ j.stage \in Updating
                              /\ j.actor \in User /\ j.id \in User
                              /\ j.dto \in UpdateUserDto
                              /\ j.doomed \subseteq Session
         /\ j.stage \in Reading => j.existing \in Account
         /\ j.stage = "creating" => j.actor \in User /\ j.id \in User /\ j.role \in Role
         /\ j.stage \in LoggingIn => j.id \in User /\ j.role \in Role
         /\ j.stage \in {"session", "audited"} => j.sid \in SessionId
         /\ j.stage = "left" => j.id \in User
BY DEF UpdateJob, OtherJob, Reading, Updating, InUpdate, LoggingIn

--------------------------------------------------------------------------------
(***************************************************************************)
(* Types.                                                                  *)
(***************************************************************************)
\* Recording a well-formed entry keeps the log well-formed.
LEMMA RecordTypes ==
  ASSUME Types, NEW u \in User, NEW actor \in User, NEW changes \in Changed,
         NEW action \in {"USER_CREATED", "USER_UPDATED", "USER_LOGGED_IN", "USER_LOGGED_OUT"},
         Record(u, action, actor, changes)
  PROVE  log' \in [User -> Seq(Entry)]
<1>1. [action |-> action, actor |-> actor, changes |-> changes] \in Entry
  BY DEF Entry
<1>2. Append(log[u], [action |-> action, actor |-> actor, changes |-> changes]) \in Seq(Entry)
  BY <1>1 DEF Types
<1> QED BY <1>2 DEF Record, Types

\* A step of slot k changes that slot only.
LEMMA Becoming ==
  ASSUME Types, NEW k \in Slot, NEW j \in UpdateJob \cup OtherJob,
         job' = [job EXCEPT ![k] = j],
         j.stage \in Reading => user'[j.id] # NoAccount,
         \A u \in User : user[u] # NoAccount => user'[u] # NoAccount
  PROVE  /\ job' \in [Slot -> UpdateJob \cup OtherJob]
         /\ job'[k] = j
         /\ \A q \in Slot \ {k} : job'[q] = job[q]
         /\ \A q \in Slot : job'[q].stage \in Reading => user'[job'[q].id] # NoAccount
<1>1. job' \in [Slot -> UpdateJob \cup OtherJob] /\ job'[k] = j
  BY DEF Types
<1>2. \A q \in Slot \ {k} : job'[q] = job[q]
  BY DEF Types
<1>3. \A q \in Slot : job[q].stage \in Reading => job[q].id \in User
  BY JobFields DEF Types, Updating, Reading
<1> QED BY <1>1, <1>2, <1>3 DEF Types

\* The idle job, and the ones without fields.
LEMMA PlainJobs ==
  /\ Idle \in OtherJob /\ [stage |-> "refused"] \in OtherJob
  /\ Idle.stage = "idle"
  /\ \A s \in Updating \cup LoggingIn \cup {"creating", "refused", "left"} : s # "idle"
  /\ Reading \subseteq Updating /\ Updating \cap LoggingIn = {}
  /\ "idle" \notin Reading /\ "idle" \notin Updating /\ "idle" \notin LoggingIn
BY DEF Idle, OtherJob, Updating, LoggingIn, Reading, InUpdate

\* The tables, the tokens, the log and the requests are well-typed in every
\* state, and an account that an update has read is not taken away.
THEOREM AccountsAreTyped == ASpec => []Types
<1>1. AInit => Types
  <2> SUFFICES ASSUME AInit PROVE Types
    OBVIOUS
  <2>1. log \in [User -> Seq(Entry)]
    BY DEF AInit
  <2>2. job \in [Slot -> UpdateJob \cup OtherJob] /\ \A k \in Slot : job[k] = Idle
    BY PlainJobs DEF AInit
  <2> QED BY <2>1, <2>2, PlainJobs DEF AInit, Types
<1>2. Types /\ [ANext]_avars => Types'
  <2> SUFFICES ASSUME Types, [ANext]_avars PROVE Types'
    OBVIOUS
  <2>1. CASE UNCHANGED avars
    BY <2>1 DEF avars, Types
  <2>2. CASE Expire
    BY <2>2 DEF Expire, Types
  <2>3. ASSUME NEW k \in Slot, BeginAdmin(k) PROVE Types'
    <3>1. PICK t \in tokens, u \in User :
            \/ \E r \in Role : Become(k, [stage |-> "creating", actor |-> t.user, id |-> u, role |-> r])
            \/ \E dto \in UpdateUserDto :
                 Become(k, [stage |-> "admitted", actor |-> t.user, id |-> u,
                            dto |-> dto, existing |-> NoAccount, doomed |-> {}])
      BY <2>3 DEF BeginAdmin, Start
    <3>2. t.user \in User
      BY DEF Types, Token
    <3>3. PICK j \in UpdateJob \cup OtherJob : j.stage \notin Reading /\ Become(k, j)
      BY <3>1, <3>2 DEF UpdateJob, OtherJob, Reading, InUpdate
    <3>4. UNCHANGED <<user, rows, tokens, log>>
      BY <2>3 DEF BeginAdmin
    <3> QED BY <3>3, <3>4, Becoming DEF Become, Types
  <2>4. ASSUME NEW k \in Slot, Create(k) PROVE Types'
    <3> DEFINE u == job[k].id
    <3>1. u \in User /\ job[k].actor \in User /\ job[k].role \in Role
      BY <2>4, JobFields DEF Create, Types
    <3>2. CASE user[u] = NoAccount
      <4> DEFINE a == [role |-> job[k].role, active |-> TRUE]
      <4>1. a \in Account /\ a # NoAccount /\ a \in UpdateUserDto
        BY <3>1, AccountFields, AccountIsDto
      <4>2. Changes(NoAccount, a) \in Changed
        BY <4>1, ChangesTyped
      <4>3. user' = [user EXCEPT ![u] = a] /\ Record(u, "USER_CREATED", job[k].actor, Changes(NoAccount, a))
        BY <2>4, <3>2 DEF Create
      <4>4. log' \in [User -> Seq(Entry)]
        BY <4>2, <4>3, <3>1, RecordTypes
      <4>5. user' \in [User -> Account \cup {NoAccount}]
        BY <4>1, <4>3, <3>1 DEF Types
      <4>6. \A v \in User : user[v] # NoAccount => user'[v] # NoAccount
        BY <4>1, <4>3, <3>1 DEF Types
      <4> HIDE DEF a, u
      <4>7. job' = [job EXCEPT ![k] = Idle] /\ UNCHANGED <<rows, tokens, overlap>>
        BY <2>4 DEF Create, Become
      <4> QED BY <4>4, <4>5, <4>6, <4>7, Becoming, PlainJobs DEF Types
    <3>3. CASE user[u] # NoAccount
      <4>1. job' = [job EXCEPT ![k] = Idle] /\ UNCHANGED <<user, rows, tokens, log, overlap>>
        BY <2>4, <3>3 DEF Create, Become
      <4> QED BY <4>1, Becoming, PlainJobs DEF Types
    <3> QED BY <3>2, <3>3
  <2>5. ASSUME NEW k \in Slot, ReadExisting(k) PROVE Types'
    <3>1. UNCHANGED <<user, rows, tokens, log, overlap>>
      BY <2>5 DEF ReadExisting
    <3>2. job[k] \in UpdateJob /\ job[k].id \in User /\ job[k].stage = "admitted"
      BY <2>5, JobFields DEF ReadExisting, Types, Updating
    <3>3. CASE user[job[k].id] = NoAccount
      <4>1. job' = [job EXCEPT ![k] = Idle]
        BY <2>5, <3>3 DEF ReadExisting, Become
      <4> QED BY <4>1, <3>1, Becoming, PlainJobs DEF Types
    <3>4. CASE user[job[k].id] # NoAccount
      <4> DEFINE j == [job[k] EXCEPT !.existing = user[job[k].id], !.stage = "read"]
      <4>1. job' = [job EXCEPT ![k] = j]
        BY <2>5, <3>4 DEF ReadExisting, Types
      <4>2. user[job[k].id] \in Account
        BY <3>2, <3>4 DEF Types
      <4>3. j \in UpdateJob /\ j.id = job[k].id
        BY <3>2, <4>2 DEF UpdateJob, Reading
      <4> HIDE DEF j
      <4> QED BY <4>1, <4>3, <3>1, <3>4, Becoming DEF Types
    <3> QED BY <3>3, <3>4
  <2>6. ASSUME NEW k \in Slot, Write(k) \/ Revoke(k) PROVE Types'
    <3>1. UNCHANGED <<user, rows, tokens, log, overlap>>
      BY <2>6 DEF Write, Revoke
    <3>2. job[k] \in UpdateJob /\ job[k].stage \in Reading /\ user[job[k].id] # NoAccount
      BY <2>6, JobFields DEF Write, Revoke, Types, Updating, Reading, InUpdate
    <3> DEFINE w == [job[k] EXCEPT !.stage = "written"]
               r(D) == [job[k] EXCEPT !.stage = "revoked", !.doomed = D]
    <3>3. w \in UpdateJob /\ w.id = job[k].id
      BY <3>2 DEF UpdateJob, Reading, InUpdate
    <3>4. \A D \in SUBSET Session : r(D) \in UpdateJob /\ r(D).id = job[k].id
      BY <3>2 DEF UpdateJob, Reading, InUpdate
    <3>5. job' = [job EXCEPT ![k] = w] \/ \E D \in SUBSET Session : job' = [job EXCEPT ![k] = r(D)]
      <4>1. CASE Write(k)
        BY <4>1 DEF Write, Stage, Types
      <4>2. CASE Revoke(k)
        <5> DEFINE D == IF Revokes(job[k].existing, job[k].dto)
                        THEN {s \in rows : s.user = job[k].id} ELSE {}
        <5>1. D \in SUBSET Session
          BY DEF Types
        <5>2. job' = [job EXCEPT ![k].stage = "revoked", ![k].doomed = D]
          BY <4>2 DEF Revoke
        <5> HIDE DEF D
        <5>3. job' = [job EXCEPT ![k] = r(D)]
          BY <5>2 DEF Types
        <5> QED BY <5>1, <5>3
      <4> QED BY <2>6, <4>1, <4>2
    <3>6. PICK j \in UpdateJob : job' = [job EXCEPT ![k] = j] /\ j.id = job[k].id
      BY <3>3, <3>4, <3>5
    <3> QED BY <3>1, <3>2, <3>6, Becoming DEF Types
  <2>7. ASSUME NEW k \in Slot, Commit(k) PROVE Types'
    <3> DEFINE u == job[k].id
               a == Patched(user[u], job[k].dto)
    <3>1. /\ u \in User /\ job[k].actor \in User /\ job[k].dto \in UpdateUserDto
          /\ job[k].existing \in Account /\ user[u] \in Account
      BY <2>7, JobFields DEF Commit, Types, Updating, Reading, InUpdate
    <3>2. a \in Account /\ a # NoAccount
      BY <3>1, PatchedFields, AccountFields
    <3>3. Changes(job[k].existing, job[k].dto) \in Changed
      BY <3>1, ChangesTyped
    <3>4. /\ user' = [user EXCEPT ![u] = a] /\ rows' = rows \ job[k].doomed
          /\ Record(u, "USER_UPDATED", job[k].actor, Changes(job[k].existing, job[k].dto))
          /\ job' = [job EXCEPT ![k] = Idle] /\ UNCHANGED <<tokens, overlap>>
      BY <2>7 DEF Commit, Become
    <3>5. log' \in [User -> Seq(Entry)]
      BY <3>1, <3>3, <3>4, RecordTypes
    <3> HIDE DEF a, u
    <3> QED BY <3>1, <3>2, <3>4, <3>5, Becoming, PlainJobs DEF Types
  <2>8. ASSUME NEW k \in Slot, BeginLogin(k) PROVE Types'
    <3>1. PICK u \in User :
            /\ user[u].active
            /\ Become(k, [stage |-> "verified", id |-> u, role |-> user[u].role])
      BY <2>8 DEF BeginLogin, Start
    <3>2. user[u] \in Account
      BY <3>1, AccountFields DEF Types
    <3>3. PICK j \in OtherJob : j.stage = "verified" /\ Become(k, j)
      BY <3>1, <3>2, AccountFields DEF OtherJob
    <3>4. UNCHANGED <<user, rows, tokens, log>>
      BY <2>8 DEF BeginLogin
    <3> QED BY <3>3, <3>4, Becoming DEF Become, Types, Reading, InUpdate
  <2>9. ASSUME NEW k \in Slot, CreateSession(k) PROVE Types'
    <3>1. job[k].id \in User /\ job[k].role \in Role
      BY <2>9, JobFields DEF CreateSession, Types, LoggingIn
    <3>2. PICK sid \in SessionId :
            /\ rows' = rows \cup {[sid |-> sid, user |-> job[k].id]}
            /\ Become(k, [stage |-> "session", id |-> job[k].id, role |-> job[k].role, sid |-> sid])
      BY <2>9 DEF CreateSession
    <3>3. PICK j \in OtherJob : j.stage = "session" /\ Become(k, j)
      BY <3>1, <3>2 DEF OtherJob
    <3>4. rows' \subseteq Session
      BY <3>1, <3>2 DEF Types, Session
    <3>5. UNCHANGED <<user, tokens, log, overlap>>
      BY <2>9 DEF CreateSession
    <3> QED BY <3>3, <3>4, <3>5, Becoming DEF Become, Types, Reading, InUpdate
  <2>10. ASSUME NEW k \in Slot, AuditLogin(k) PROVE Types'
    <3>1. job[k] \in OtherJob /\ job[k].stage = "session" /\ job[k].id \in User
      BY <2>10, JobFields DEF AuditLogin, Types, LoggingIn, UpdateJob, Reading, InUpdate
    <3> DEFINE j == [job[k] EXCEPT !.stage = "audited"]
    <3>2. j \in OtherJob /\ j.stage = "audited"
      BY <3>1 DEF OtherJob
    <3>3. job' = [job EXCEPT ![k] = j] /\ UNCHANGED <<user, rows, tokens, overlap>>
      BY <2>10 DEF AuditLogin, Stage, Types
    <3>4. Record(job[k].id, "USER_LOGGED_IN", job[k].id, << >>)
      BY <2>10 DEF AuditLogin
    <3>5. log' \in [User -> Seq(Entry)]
      BY <3>1, <3>4, RecordTypes DEF Changed
    <3> HIDE DEF j
    <3> QED BY <3>2, <3>3, <3>5, Becoming DEF Types, Reading, InUpdate
  <2>11. ASSUME NEW k \in Slot, AnswerLogin(k) PROVE Types'
    <3>1. job[k].id \in User /\ job[k].role \in Role /\ job[k].sid \in SessionId
      BY <2>11, JobFields DEF AnswerLogin, Types, LoggingIn
    <3>2. tokens' \subseteq Token
      BY <2>11, <3>1 DEF AnswerLogin, Types, Token
    <3>3. job' = [job EXCEPT ![k] = Idle] /\ UNCHANGED <<user, rows, log, overlap>>
      BY <2>11 DEF AnswerLogin, Become
    <3> QED BY <3>2, <3>3, Becoming, PlainJobs DEF Types
  <2>12. ASSUME NEW k \in Slot, BeginBadLogin(k) \/ AuditBadLogin(k) \/ Fail(k) PROVE Types'
    <3>1. PICK j \in OtherJob : /\ j.stage \in {"idle", "refused"}
                                /\ job' = [job EXCEPT ![k] = j]
      BY <2>12, PlainJobs DEF BeginBadLogin, AuditBadLogin, Fail, Become
    <3>2. UNCHANGED <<user, rows, tokens, log, overlap>>
      BY <2>12 DEF BeginBadLogin, AuditBadLogin, Fail
    <3> QED BY <3>1, <3>2, Becoming DEF Types, Reading, InUpdate
  <2>13. ASSUME NEW k \in Slot, Logout(k) PROVE Types'
    <3>1. PICK t \in tokens : /\ rows' = {s \in rows : s.sid # t.sid}
                              /\ Become(k, [stage |-> "left", id |-> t.user])
      BY <2>13 DEF Logout
    <3>2. t.user \in User
      BY DEF Types, Token
    <3>3. PICK j \in OtherJob : j.stage = "left" /\ Become(k, j)
      BY <3>1, <3>2 DEF OtherJob
    <3>4. UNCHANGED <<user, tokens, log, overlap>>
      BY <2>13 DEF Logout
    <3> QED BY <3>1, <3>3, <3>4, Becoming DEF Become, Types, Reading, InUpdate
  <2>14. ASSUME NEW k \in Slot, AuditLogout(k) PROVE Types'
    <3>1. job[k].id \in User
      BY <2>14, JobFields DEF AuditLogout, Types
    <3>2. Record(job[k].id, "USER_LOGGED_OUT", job[k].id, << >>)
      BY <2>14 DEF AuditLogout
    <3>3. log' \in [User -> Seq(Entry)]
      BY <3>1, <3>2, RecordTypes DEF Changed
    <3>4. job' = [job EXCEPT ![k] = Idle] /\ UNCHANGED <<user, rows, tokens, overlap>>
      BY <2>14 DEF AuditLogout, Become
    <3> QED BY <3>3, <3>4, Becoming, PlainJobs DEF Types
  <2> QED
    BY <2>1, <2>2, <2>3, <2>4, <2>5, <2>6, <2>7, <2>8, <2>9, <2>10, <2>11, <2>12, <2>13, <2>14
    DEF ANext
<1> QED BY <1>1, <1>2, PTL DEF ASpec

--------------------------------------------------------------------------------
(***************************************************************************)
(* Who changes accounts, and how updates move.                             *)
(***************************************************************************)
\* Accounts change when an update commits and when an account is created where
\* there is none.
LEMMA AccountsMove ==
  ASSUME Types, ANext, NEW u \in User, user'[u] # user[u]
  PROVE  \/ user[u] = NoAccount
         \/ \E k \in Slot : /\ Commit(k) /\ job[k].id = u /\ job'[k] = Idle
                            /\ user'[u] = Patched(user[u], job[k].dto)
<1>1. PICK k \in Slot : Create(k) \/ Commit(k)
  BY DEF ANext, Expire, BeginAdmin, ReadExisting, Write, Revoke, BeginLogin, CreateSession,
         AuditLogin, AnswerLogin, BeginBadLogin, AuditBadLogin, Logout, AuditLogout, Fail
<1>2. CASE Create(k)
  BY <1>2 DEF Create, Types
<1>3. CASE Commit(k)
  <2>1. user' = [user EXCEPT ![job[k].id] = Patched(user[job[k].id], job[k].dto)] /\ job'[k] = Idle
    BY <1>3 DEF Commit, Become, Types
  <2> QED BY <2>1, <1>3 DEF Types
<1> QED BY <1>1, <1>2, <1>3

\* A step that changes a field of an account is the commit of an update that
\* set it, or the creation of the account.
THEOREM UpdatesKeepOtherFields == ASpec => UpdatesKeepEachOther
<1>1. Types /\ [ANext]_avars =>
        [\A u \in User : user[u] # NoAccount =>
           \A f \in {"role", "active"} : user'[u][f] # user[u][f] =>
             \E k \in Slot : /\ job[k].stage = "revoked" /\ job'[k] = Idle
                             /\ job[k].id = u /\ f \in DOMAIN job[k].dto]_avars
  <2> SUFFICES ASSUME Types, ANext,
                      NEW u \in User, user[u] # NoAccount,
                      NEW f \in {"role", "active"}, user'[u][f] # user[u][f]
               PROVE  \E k \in Slot : /\ job[k].stage = "revoked" /\ job'[k] = Idle
                                      /\ job[k].id = u /\ f \in DOMAIN job[k].dto
    OBVIOUS
  <2>1. PICK k \in Slot : /\ Commit(k) /\ job[k].id = u /\ job'[k] = Idle
                          /\ user'[u] = Patched(user[u], job[k].dto)
    BY AccountsMove
  <2>2. job[k].stage = "revoked" /\ job[k].dto \in UpdateUserDto /\ user[u] \in Account
    BY <2>1, JobFields DEF Commit, Types, Updating, InUpdate
  <2>3. f \in DOMAIN job[k].dto
    BY <2>1, <2>2, PatchedFields
  <2> QED BY <2>1, <2>2, <2>3
<1> QED BY <1>1, AccountsAreTyped, PTL DEF ASpec, UpdatesKeepEachOther

\* An update that begins is an active admin's, and keeps himself in office.
Admits(k, j) ==
  /\ job[k] = Idle /\ job' = [job EXCEPT ![k] = j]
  /\ j \in UpdateJob /\ j.stage = "admitted"
  /\ user[j.actor] = [role |-> "ADMIN", active |-> TRUE]
  /\ j.id = j.actor => SelfProtected(j.dto)
  /\ overlap' = overlap \cup Overlaps(j)
  /\ UNCHANGED <<user, rows, tokens, log>>

\* An update that goes on is the same update.
Continues(k) ==
  /\ job[k].stage \in Updating
  /\ job'[k].actor = job[k].actor /\ job'[k].id = job[k].id /\ job'[k].dto = job[k].dto
  /\ job'[k].stage \in Reading =>
       IF job[k].stage \in Reading THEN job'[k].existing = job[k].existing
       ELSE job'[k].existing = user[job[k].id] /\ UNCHANGED user
  /\ job'[k].stage = "revoked" => job[k].stage \in Reading
  /\ job'[k].stage = "revoked" =>
       \/ job[k].stage = "revoked" /\ job'[k].doomed = job[k].doomed
       \/ /\ UNCHANGED <<user, rows>>
          /\ Revokes(job[k].existing, job[k].dto) =>
               {s \in rows : s.user = job[k].id} \subseteq job'[k].doomed

\* Every update under way after a step has just begun, or goes on.
LEMMA UpdatesMove ==
  ASSUME Types, ANext, NEW q \in Slot, job'[q].stage \in Updating
  PROVE  Continues(q) \/ \E j \in UpdateJob : Admits(q, j)
<1>0. job[q] \in UpdateJob \cup OtherJob
  BY DEF Types
<1>1. CASE job'[q] = job[q]
  BY <1>1 DEF Continues, Reading, InUpdate
<1>2. CASE job'[q] # job[q]
  <2>1. PICK k \in Slot :
          \/ BeginAdmin(k) \/ ReadExisting(k) \/ Write(k) \/ Revoke(k)
    <3>1. PICK k \in Slot :
            \/ BeginAdmin(k) \/ Create(k)
            \/ ReadExisting(k) \/ Write(k) \/ Revoke(k) \/ Commit(k)
            \/ BeginLogin(k) \/ CreateSession(k) \/ AuditLogin(k) \/ AnswerLogin(k)
            \/ BeginBadLogin(k) \/ AuditBadLogin(k)
            \/ Logout(k) \/ AuditLogout(k)
            \/ Fail(k)
      BY <1>2 DEF ANext, Expire
    <3>2. \A s \in {"idle", "verified", "session", "audited", "refused", "left"} : s \notin Updating
      BY DEF Updating, InUpdate
    <3>3. CASE Create(k) \/ Commit(k) \/ AnswerLogin(k) \/ AuditBadLogin(k) \/ AuditLogout(k) \/ Fail(k)
      BY <3>2, <3>3, <1>2, PlainJobs
      DEF Create, Commit, AnswerLogin, AuditBadLogin, AuditLogout, Fail, Become, Types
    <3>4. CASE BeginLogin(k) \/ CreateSession(k) \/ BeginBadLogin(k) \/ Logout(k)
      <4>1. CASE BeginLogin(k)
        BY <3>2, <4>1, <1>2 DEF BeginLogin, Become, Start, Types
      <4>2. CASE CreateSession(k)
        BY <3>2, <4>2, <1>2 DEF CreateSession, Become, Types
      <4>3. CASE BeginBadLogin(k)
        BY <3>2, <4>3, <1>2 DEF BeginBadLogin, Become, Types
      <4>4. CASE Logout(k)
        BY <3>2, <4>4, <1>2 DEF Logout, Become, Types
      <4> QED BY <3>4, <4>1, <4>2, <4>3, <4>4
    <3>5. CASE AuditLogin(k)
      <4>1. job' = [job EXCEPT ![k] = [job[k] EXCEPT !.stage = "audited"]]
        BY <3>5 DEF AuditLogin, Stage, Types
      <4>2. job'[q].stage = "audited"
        BY <4>1, <1>0, <1>2, <3>5 DEF Types, UpdateJob, OtherJob, AuditLogin
      <4> QED BY <4>2, <3>2
    <3> QED BY <3>1, <3>3, <3>4, <3>5
  <2>2. k = q
    BY <2>1, <1>2 DEF BeginAdmin, ReadExisting, Write, Revoke, Become, Start, Stage, Types
  <2>3. CASE BeginAdmin(q)
    <3>1. PICK t \in tokens, u \in User :
            /\ Valid(t) /\ user[t.user].role = "ADMIN"
            /\ \/ \E r \in Role :
                    Start(q, [stage |-> "creating", actor |-> t.user, id |-> u, role |-> r])
               \/ \E dto \in UpdateUserDto :
                    /\ u = t.user => SelfProtected(dto)
                    /\ Start(q, [stage |-> "admitted", actor |-> t.user, id |-> u,
                                 dto |-> dto, existing |-> NoAccount, doomed |-> {}])
      BY <2>3 DEF BeginAdmin
    <3>2. ASSUME NEW r \in Role,
                 Start(q, [stage |-> "creating", actor |-> t.user, id |-> u, role |-> r])
          PROVE  FALSE
      <4>1. job'[q].stage = "creating"
        BY <3>2 DEF Start, Become, Types
      <4> QED BY <4>1 DEF Updating, InUpdate
    <3>3. PICK dto \in UpdateUserDto :
            /\ u = t.user => SelfProtected(dto)
            /\ Start(q, [stage |-> "admitted", actor |-> t.user, id |-> u,
                         dto |-> dto, existing |-> NoAccount, doomed |-> {}])
      BY <3>1, <3>2
    <3> DEFINE j == [stage |-> "admitted", actor |-> t.user, id |-> u,
                     dto |-> dto, existing |-> NoAccount, doomed |-> {}]
    <3>4. t.user \in User
      BY DEF Types, Token
    <3>5. /\ j \in UpdateJob /\ j.stage = "admitted" /\ j.actor = t.user
          /\ j.id = u /\ j.dto = dto
      BY <3>4 DEF UpdateJob
    <3>6. user[t.user] = [role |-> "ADMIN", active |-> TRUE]
      <4>1. user[t.user] \in Account
        BY <3>1, <3>4, AccountFields DEF Valid, Types
      <4>2. user[t.user].active = TRUE
        BY <3>1, <4>1, AccountFields DEF Valid
      <4> QED BY <3>1, <4>1, <4>2 DEF Account
    <3>7. /\ job[q] = Idle /\ UNCHANGED <<user, rows, tokens, log>>
          /\ job' = [job EXCEPT ![q] = j] /\ overlap' = overlap \cup Overlaps(j)
      BY <2>3, <3>3 DEF BeginAdmin, Start, Become
    <3> HIDE DEF j
    <3> QED BY <3>3, <3>5, <3>6, <3>7 DEF Admits
  <2>4. CASE ReadExisting(q)
    <3>1. user[job[q].id] # NoAccount
      BY <2>4, PlainJobs DEF ReadExisting, Become, Types
    <3>2. job[q].stage = "admitted" /\ job[q] \in UpdateJob /\ UNCHANGED user
      BY <2>4, JobFields DEF ReadExisting, Types, Updating
    <3>3. job'[q] = [job[q] EXCEPT !.existing = user[job[q].id], !.stage = "read"]
      BY <2>4, <3>1 DEF ReadExisting, Types
    <3>4. /\ job'[q].stage = "read" /\ job'[q].existing = user[job[q].id]
          /\ job'[q].actor = job[q].actor /\ job'[q].id = job[q].id /\ job'[q].dto = job[q].dto
      BY <3>2, <3>3 DEF UpdateJob
    <3> QED BY <3>2, <3>4 DEF Continues, Updating, Reading, InUpdate
  <2>5. CASE Write(q)
    <3>1. job[q].stage = "read" /\ job[q] \in UpdateJob
      BY <2>5, JobFields DEF Write, Types, Updating
    <3>2. job'[q] = [job[q] EXCEPT !.stage = "written"]
      BY <2>5 DEF Write, Stage, Types
    <3>3. /\ job'[q].stage = "written" /\ job'[q].existing = job[q].existing
          /\ job'[q].actor = job[q].actor /\ job'[q].id = job[q].id /\ job'[q].dto = job[q].dto
      BY <3>1, <3>2 DEF UpdateJob
    <3> QED BY <3>1, <3>3 DEF Continues, Updating, Reading, InUpdate
  <2>6. CASE Revoke(q)
    <3>1. job[q].stage = "written" /\ job[q] \in UpdateJob /\ UNCHANGED <<user, rows>>
      BY <2>6, JobFields DEF Revoke, Types, Updating, InUpdate
    <3> DEFINE D == IF Revokes(job[q].existing, job[q].dto)
                    THEN {s \in rows : s.user = job[q].id} ELSE {}
    <3>2. job' = [job EXCEPT ![q].stage = "revoked", ![q].doomed = D]
      BY <2>6 DEF Revoke
    <3>3. Revokes(job[q].existing, job[q].dto) => D = {s \in rows : s.user = job[q].id}
      OBVIOUS
    <3> HIDE DEF D
    <3>4. job'[q] = [job[q] EXCEPT !.stage = "revoked", !.doomed = D]
      BY <3>2 DEF Types
    <3>5. /\ job'[q].stage = "revoked" /\ job'[q].existing = job[q].existing
          /\ job'[q].actor = job[q].actor /\ job'[q].id = job[q].id /\ job'[q].dto = job[q].dto
          /\ job'[q].doomed = D
      BY <3>1, <3>4 DEF UpdateJob
    <3> QED BY <3>1, <3>3, <3>5 DEF Continues, Updating, Reading, InUpdate
  <2> QED BY <2>1, <2>2, <2>3, <2>4, <2>5, <2>6
<1> QED BY <1>1, <1>2

--------------------------------------------------------------------------------
(***************************************************************************)
(* Every login is logged: a token is given for an entry of the log, by the *)
(* request that wrote it.                                                  *)
(***************************************************************************)
\* A log has finitely many logins.
LEMMA LoginsFinite ==
  ASSUME NEW l \in Seq(Entry)
  PROVE  IsFiniteSet(Logins(l)) /\ Cardinality(Logins(l)) \in Nat
<1>1. IsFiniteSet(1 .. Len(l)) /\ Logins(l) \subseteq 1 .. Len(l)
  BY FS_Interval DEF Logins
<1> QED BY <1>1, FS_Subset, FS_CardinalityType

\* The logins of a longer log are the ones of the log, and the last entry if it
\* is a login.
LEMMA LoginsGrow ==
  ASSUME NEW l \in Seq(Entry), NEW e \in Entry
  PROVE  /\ IsFiniteSet(Logins(l)) /\ Cardinality(Logins(l)) \in Nat
         /\ IsFiniteSet(Logins(Append(l, e)))
         /\ Cardinality(Logins(Append(l, e))) =
              Cardinality(Logins(l)) + IF e.action = "USER_LOGGED_IN" THEN 1 ELSE 0
<1>2. IsFiniteSet(Logins(l)) /\ Cardinality(Logins(l)) \in Nat
  BY LoginsFinite
<1>3. /\ DOMAIN Append(l, e) = 1 .. Len(l) + 1 /\ DOMAIN l = 1 .. Len(l)
      /\ Append(l, e)[Len(l) + 1] = e
      /\ \A i \in 1 .. Len(l) : Append(l, e)[i] = l[i]
  OBVIOUS
<1>4. CASE e.action = "USER_LOGGED_IN"
  <2>1. Logins(Append(l, e)) = Logins(l) \cup {Len(l) + 1} /\ Len(l) + 1 \notin Logins(l)
    BY <1>3, <1>4 DEF Logins
  <2> QED BY <1>2, <1>4, <2>1, FS_AddElement
<1>5. CASE e.action # "USER_LOGGED_IN"
  <2>1. Logins(Append(l, e)) = Logins(l)
    BY <1>3, <1>5 DEF Logins
  <2> QED BY <1>2, <1>5, <2>1
<1> QED BY <1>4, <1>5

\* A step records one entry or none; only the login's step records a login.
LEMMA LogMoves ==
  ASSUME Types, [ANext]_avars, NEW u \in User
  PROVE  \/ log'[u] = log[u]
         \/ \E e \in Entry :
              /\ log'[u] = Append(log[u], e)
              /\ e.action = "USER_LOGGED_IN" => \E k \in Slot : AuditLogin(k) /\ job[k].id = u
<1>1. CASE UNCHANGED log
  BY <1>1
<1>2. CASE log' # log
  <2>1. PICK k \in Slot : Create(k) \/ Commit(k) \/ AuditLogin(k) \/ AuditLogout(k)
    BY <1>2 DEF ANext, avars, Expire, BeginAdmin, ReadExisting, Write, Revoke, BeginLogin,
                CreateSession, AnswerLogin, BeginBadLogin, AuditBadLogin, Logout, Fail
  <2>2. job[k].id \in User
    BY <2>1, JobFields DEF Create, Commit, AuditLogin, AuditLogout, Types, Updating, InUpdate, LoggingIn
  <2>3. PICK action, actor, changes :
          /\ Record(job[k].id, action, actor, changes)
          /\ action \in {"USER_CREATED", "USER_UPDATED", "USER_LOGGED_IN", "USER_LOGGED_OUT"}
          /\ actor \in User /\ changes \in Changed
          /\ action = "USER_LOGGED_IN" => AuditLogin(k)
    <3>1. CASE Create(k)
      <4> DEFINE a == [role |-> job[k].role, active |-> TRUE]
      <4>1. job[k].actor \in User /\ job[k].role \in Role
        BY <3>1, JobFields DEF Create, Types
      <4>2. NoAccount \in Account \cup {NoAccount} /\ a \in UpdateUserDto
        BY <4>1, AccountFields, AccountIsDto
      <4>3. Record(job[k].id, "USER_CREATED", job[k].actor, Changes(NoAccount, a))
        BY <3>1, <1>2 DEF Create
      <4> HIDE DEF a
      <4> QED BY <4>1, <4>2, <4>3, ChangesTyped
    <3>2. CASE Commit(k)
      <4>1. job[k].actor \in User /\ job[k].existing \in Account /\ job[k].dto \in UpdateUserDto
        BY <3>2, JobFields DEF Commit, Types, Updating, Reading, InUpdate
      <4>2. Record(job[k].id, "USER_UPDATED", job[k].actor, Changes(job[k].existing, job[k].dto))
        BY <3>2 DEF Commit
      <4> QED BY <4>1, <4>2, ChangesTyped
    <3>3. CASE AuditLogin(k)
      BY <3>3, <2>2 DEF AuditLogin, Changed
    <3>4. CASE AuditLogout(k)
      BY <3>4, <2>2 DEF AuditLogout, Changed
    <3> QED BY <2>1, <3>1, <3>2, <3>3, <3>4
  <2> DEFINE e == [action |-> action, actor |-> actor, changes |-> changes]
  <2>4. e \in Entry /\ e.action = action
    BY <2>3 DEF Entry
  <2>5. log' = [log EXCEPT ![job[k].id] = Append(log[job[k].id], e)]
    BY <2>3 DEF Record
  <2> HIDE DEF e
  <2>6. CASE u = job[k].id
    <3>1. log'[u] = Append(log[u], e)
      BY <2>5, <2>6 DEF Types
    <3> QED BY <2>3, <2>4, <2>6, <3>1
  <2>7. CASE u # job[k].id
    BY <2>5, <2>7 DEF Types
  <2> QED BY <2>6, <2>7
<1> QED BY <1>1, <1>2

\* The answer to a login gives one token; nothing else gives one.
LEMMA TokensMove ==
  ASSUME Types, [ANext]_avars, NEW u \in User
  PROVE  \/ TokensOf(u)' = TokensOf(u)
         \/ \E k \in Slot, t \in Token :
              /\ AnswerLogin(k) /\ job[k].id = u
              /\ TokensOf(u)' = TokensOf(u) \cup {t}
<1>1. CASE UNCHANGED tokens
  BY <1>1 DEF TokensOf
<1>2. CASE tokens' # tokens
  <2>1. PICK k \in Slot : AnswerLogin(k)
    BY <1>2 DEF ANext, avars, Expire, BeginAdmin, Create, ReadExisting, Write, Revoke, Commit,
                BeginLogin, CreateSession, AuditLogin, BeginBadLogin, AuditBadLogin, Logout,
                AuditLogout, Fail
  <2> DEFINE t == [sid |-> job[k].sid, user |-> job[k].id, role |-> job[k].role]
  <2>2. t \in Token /\ t.user = job[k].id
    BY <2>1, JobFields DEF AnswerLogin, Types, LoggingIn, Token
  <2>3. tokens' = tokens \cup {t}
    BY <2>1 DEF AnswerLogin
  <2> HIDE DEF t
  <2>4. CASE job[k].id = u
    <3>1. TokensOf(u)' = TokensOf(u) \cup {t}
      BY <2>2, <2>3, <2>4 DEF TokensOf
    <3> QED BY <2>1, <2>2, <2>4, <3>1
  <2>5. CASE job[k].id # u
    BY <2>2, <2>3, <2>5 DEF TokensOf
  <2> QED BY <2>4, <2>5
<1> QED BY <1>1, <1>2

\* A login that is in the log was put there by this step, or before it; the one
\* that is answered is so no more.
LEMMA UnansweredMove ==
  ASSUME Types, [ANext]_avars, NEW u \in User
  PROVE  /\ \/ Unanswered(u)' \subseteq Unanswered(u)
            \/ \E k \in Slot : /\ AuditLogin(k) /\ job[k].id = u
                               /\ Unanswered(u)' = Unanswered(u) \cup {k}
         /\ \A k \in Slot : AnswerLogin(k) /\ job[k].id = u =>
              k \in Unanswered(u) /\ Unanswered(u)' = Unanswered(u) \ {k}
<1>1. ASSUME NEW q \in Slot, q \in Unanswered(u)', q \notin Unanswered(u)
      PROVE  /\ AuditLogin(q) /\ job[q].id = u /\ Unanswered(u)' = Unanswered(u) \cup {q}
  <2>1. job'[q].stage = "audited" /\ job'[q].id = u /\ job'[q] # job[q]
    BY <1>1 DEF Unanswered
  <2>2. AuditLogin(q)
    <3>1. PICK k \in Slot :
            \/ BeginAdmin(k) \/ Create(k)
            \/ ReadExisting(k) \/ Write(k) \/ Revoke(k) \/ Commit(k)
            \/ BeginLogin(k) \/ CreateSession(k) \/ AuditLogin(k) \/ AnswerLogin(k)
            \/ BeginBadLogin(k) \/ AuditBadLogin(k)
            \/ Logout(k) \/ AuditLogout(k)
            \/ Fail(k)
      BY <2>1 DEF ANext, avars, Expire
    <3>2. CASE Create(k) \/ Commit(k) \/ AnswerLogin(k) \/ AuditBadLogin(k) \/ AuditLogout(k) \/ Fail(k)
      BY <3>2, <2>1, PlainJobs
      DEF Create, Commit, AnswerLogin, AuditBadLogin, AuditLogout, Fail, Become, Types, LoggingIn
    <3>3. CASE BeginLogin(k)
      BY <2>1, <3>3 DEF BeginLogin, Become, Start, Types
    <3>4. CASE CreateSession(k)
      BY <2>1, <3>4 DEF CreateSession, Become, Types
    <3>5. CASE BeginBadLogin(k)
      BY <2>1, <3>5 DEF BeginBadLogin, Become, Types
    <3>6. CASE Logout(k)
      BY <2>1, <3>6 DEF Logout, Become, Types
    <3>7. CASE AuditLogin(k)
      BY <2>1, <3>7 DEF AuditLogin, Stage, Types
    <3>8. CASE BeginAdmin(k) \/ ReadExisting(k) \/ Write(k) \/ Revoke(k)
      <4>1. job'[q].stage \in Updating \cup {"creating", "idle"}
        <5>1. k = q
          BY <2>1, <3>8 DEF BeginAdmin, ReadExisting, Write, Revoke, Become, Start, Stage, Types
        <5>2. CASE BeginAdmin(q)
          <6>1. PICK t \in tokens, u1 \in User :
                  \/ \E r \in Role :
                       Become(q, [stage |-> "creating", actor |-> t.user, id |-> u1, role |-> r])
                  \/ \E dto \in UpdateUserDto :
                       Become(q, [stage |-> "admitted", actor |-> t.user, id |-> u1,
                                  dto |-> dto, existing |-> NoAccount, doomed |-> {}])
            BY <5>2 DEF BeginAdmin, Start
          <6>2. CASE \E r \in Role :
                       Become(q, [stage |-> "creating", actor |-> t.user, id |-> u1, role |-> r])
            BY <6>2 DEF Become, Types
          <6>3. CASE \E dto \in UpdateUserDto :
                       Become(q, [stage |-> "admitted", actor |-> t.user, id |-> u1,
                                  dto |-> dto, existing |-> NoAccount, doomed |-> {}])
            BY <6>3 DEF Become, Types, Updating
          <6> QED BY <6>1, <6>2, <6>3
        <5>3. CASE ReadExisting(q)
          <6>1. job[q] \in UpdateJob
            BY <5>3, JobFields DEF ReadExisting, Types, Updating
          <6> QED BY <5>3, <6>1 DEF ReadExisting, Become, Idle, Types, Updating, UpdateJob
        <5>4. CASE Write(q) \/ Revoke(q)
          <6>1. job[q] \in UpdateJob
            BY <5>4, JobFields DEF Write, Revoke, Types, Updating, InUpdate
          <6> QED BY <5>4, <6>1 DEF Write, Revoke, Stage, Types, Updating, InUpdate, UpdateJob
        <5> QED BY <3>8, <5>1, <5>2, <5>3, <5>4
      <4> QED BY <4>1, <2>1 DEF Updating, InUpdate
    <3> QED BY <3>1, <3>2, <3>3, <3>4, <3>5, <3>6, <3>7, <3>8
  <2>3. /\ job' = [job EXCEPT ![q] = [job[q] EXCEPT !.stage = "audited"]]
        /\ job[q].stage = "session" /\ job[q] \in OtherJob
    BY <2>2, JobFields DEF AuditLogin, Stage, Types, UpdateJob, Reading, InUpdate
  <2>4. job'[q].id = job[q].id
    BY <2>3 DEF Types, OtherJob
  <2>5. Unanswered(u)' = Unanswered(u) \cup {q}
    BY <2>1, <2>3 DEF Unanswered, Types
  <2> QED BY <2>1, <2>2, <2>4, <2>5
<1>2. ASSUME NEW k \in Slot, AnswerLogin(k), job[k].id = u
      PROVE  k \in Unanswered(u) /\ Unanswered(u)' = Unanswered(u) \ {k}
  <2>1. job' = [job EXCEPT ![k] = Idle] /\ job[k].stage = "audited"
    BY <1>2 DEF AnswerLogin, Become
  <2>2. job'[k].stage = "idle" /\ \A q \in Slot \ {k} : job'[q] = job[q]
    BY <2>1, PlainJobs DEF Types
  <2> QED BY <1>2, <2>1, <2>2 DEF Unanswered
<1>3. Unanswered(u)' \subseteq Slot
  BY DEF Unanswered
<1> QED BY <1>1, <1>2, <1>3

\* Nobody holds a token whose login is not in the audit log.
THEOREM LoginsAreLogged == ASpec => []EveryLoginIsLogged
<1>1. AInit => LoginsInv
  <2> SUFFICES ASSUME AInit, NEW u \in User
               PROVE  /\ IsFiniteSet(TokensOf(u)) /\ IsFiniteSet(Unanswered(u))
                      /\ Cardinality(TokensOf(u)) + Cardinality(Unanswered(u))
                           <= Cardinality(Logins(log[u]))
    BY DEF LoginsInv
  <2>1. TokensOf(u) = {} /\ Unanswered(u) = {} /\ Logins(log[u]) = {}
    BY PlainJobs DEF AInit, TokensOf, Unanswered, Logins, LoggingIn
  <2> QED BY <2>1, FS_EmptySet
<1>2. Types /\ LoginsInv /\ [ANext]_avars => LoginsInv'
  <2> SUFFICES ASSUME Types, LoginsInv, [ANext]_avars, NEW u \in User
               PROVE  /\ IsFiniteSet(TokensOf(u)') /\ IsFiniteSet(Unanswered(u)')
                      /\ Cardinality(TokensOf(u)') + Cardinality(Unanswered(u)')
                           <= Cardinality(Logins(log'[u]))
    BY DEF LoginsInv
  <2> DEFINE T == Cardinality(TokensOf(u))
             U == Cardinality(Unanswered(u))
             L == Cardinality(Logins(log[u]))
  <2>1. /\ IsFiniteSet(TokensOf(u)) /\ IsFiniteSet(Unanswered(u))
        /\ T \in Nat /\ U \in Nat /\ T + U <= L /\ log[u] \in Seq(Entry)
    BY FS_CardinalityType DEF LoginsInv, Types
  <2>2. L \in Nat /\ Cardinality(Logins(log'[u])) \in Nat /\ Cardinality(Logins(log'[u])) >= L
    <3>1. CASE log'[u] = log[u]
      <4> HIDE DEF L
      <4>1. L = Cardinality(Logins(log'[u]))
        BY <3>1 DEF L
      <4>2. L \in Nat
        BY <2>1, LoginsFinite DEF L
      <4> QED BY <4>1, <4>2
    <3>2. CASE log'[u] # log[u]
      <4>1. PICK e \in Entry : log'[u] = Append(log[u], e)
        BY <3>2, LogMoves
      <4>2. /\ L \in Nat
            /\ Cardinality(Logins(log'[u])) = L + IF e.action = "USER_LOGGED_IN" THEN 1 ELSE 0
        BY <2>1, <4>1, LoginsGrow
      <4> HIDE DEF L
      <4> QED BY <4>2
    <3> QED BY <3>1, <3>2
  <2>3. ASSUME NEW k \in Slot, AnswerLogin(k), job[k].id = u
        PROVE  /\ IsFiniteSet(TokensOf(u)') /\ IsFiniteSet(Unanswered(u)')
               /\ Cardinality(TokensOf(u)') <= T + 1 /\ Cardinality(TokensOf(u)') \in Nat
               /\ Cardinality(Unanswered(u)') = U - 1
    <3>1. k \in Unanswered(u) /\ Unanswered(u)' = Unanswered(u) \ {k}
      BY <2>3, UnansweredMove
    <3>2. IsFiniteSet(Unanswered(u)') /\ Cardinality(Unanswered(u)') = U - 1
      BY <2>1, <3>1, FS_RemoveElement
    <3>3. PICK t : TokensOf(u)' \in {TokensOf(u), TokensOf(u) \cup {t}}
      BY TokensMove
    <3>4. IsFiniteSet(TokensOf(u)') /\ Cardinality(TokensOf(u)') \in {T, T + 1}
      BY <2>1, <3>3, FS_AddElement
    <3> QED BY <2>1, <3>2, <3>4
  <2>4. ASSUME NEW k \in Slot, AuditLogin(k), job[k].id = u
        PROVE  /\ TokensOf(u)' = TokensOf(u) /\ IsFiniteSet(Unanswered(u)')
               /\ Cardinality(Unanswered(u)') <= U + 1 /\ Cardinality(Unanswered(u)') \in Nat
               /\ Cardinality(Logins(log'[u])) = L + 1
    <3>1. TokensOf(u)' = TokensOf(u)
      BY <2>4 DEF AuditLogin, TokensOf
    <3>2. Unanswered(u)' = Unanswered(u) \cup {k}
      BY <2>4 DEF AuditLogin, Stage, Types, Unanswered
    <3>3. IsFiniteSet(Unanswered(u)') /\ Cardinality(Unanswered(u)') \in {U, U + 1}
      BY <2>1, <3>2, FS_AddElement
    <3> DEFINE e == [action |-> "USER_LOGGED_IN", actor |-> u, changes |-> << >>]
    <3>4. e \in Entry /\ e.action = "USER_LOGGED_IN"
      BY DEF Entry, Changed
    <3>5. log'[u] = Append(log[u], e)
      BY <2>4 DEF AuditLogin, Record, Types
    <3> HIDE DEF e
    <3>6. Cardinality(Logins(log'[u])) = L + 1
      BY <2>1, <3>4, <3>5, LoginsGrow
    <3> QED BY <2>1, <3>1, <3>3, <3>6
  <2>5. CASE \E k \in Slot : (AnswerLogin(k) \/ AuditLogin(k)) /\ job[k].id = u
    <3> HIDE DEF T, U, L
    <3> QED BY <2>1, <2>2, <2>3, <2>4, <2>5 DEF T, U, L
  <2>6. CASE ~\E k \in Slot : (AnswerLogin(k) \/ AuditLogin(k)) /\ job[k].id = u
    <3>1. TokensOf(u)' = TokensOf(u)
      BY <2>6, TokensMove
    <3>2. Unanswered(u)' \subseteq Unanswered(u)
      BY <2>6, UnansweredMove
    <3>3. /\ IsFiniteSet(Unanswered(u)') /\ Cardinality(Unanswered(u)') <= U
          /\ Cardinality(Unanswered(u)') \in Nat
      BY <2>1, <3>2, FS_Subset, FS_CardinalityType
    <3> QED BY <2>1, <2>2, <3>1, <3>3
  <2> QED BY <2>5, <2>6
<1>3. Types /\ LoginsInv => EveryLoginIsLogged
  <2> SUFFICES ASSUME Types, LoginsInv, NEW u \in User
               PROVE  Cardinality(TokensOf(u)) <= Cardinality(Logins(log[u]))
    BY DEF EveryLoginIsLogged, TokensOf, Logins
  <2>1. /\ Cardinality(TokensOf(u)) \in Nat /\ Cardinality(Unanswered(u)) \in Nat
        /\ Cardinality(TokensOf(u)) + Cardinality(Unanswered(u)) <= Cardinality(Logins(log[u]))
    BY FS_CardinalityType DEF LoginsInv
  <2>2. Cardinality(Logins(log[u])) \in Nat
    BY LoginsFinite DEF Types
  <2> QED BY <2>1, <2>2
<1> QED BY <1>1, <1>2, <1>3, AccountsAreTyped, PTL DEF ASpec

--------------------------------------------------------------------------------
(***************************************************************************)
(* What holds as long as requests of certain kinds do not overlap.         *)
(***************************************************************************)
\* What has overlapped stays so, and what an update or a login overlaps when it
\* begins is written down.
LEMMA OverlapsTold ==
  ASSUME Types, NEW j
  PROVE  /\ j.stage \in Updating /\ "updates" \notin Overlaps(j) =>
              \A q \in Slot : job[q].stage \notin Updating
         /\ j.stage \in Updating /\ "same account" \notin Overlaps(j) =>
              \A q \in Slot : job[q].stage \in Updating => job[q].id # j.id
         /\ j.stage \in Updating /\ "login" \notin Overlaps(j) =>
              \A q \in Slot : job[q].stage \in LoggingIn => job[q].id # j.id
         /\ j.stage \in LoggingIn /\ "login" \notin Overlaps(j) =>
              \A q \in Slot : job[q].stage \in Updating => job[q].id # j.id
BY DEF Overlaps

\* The history variable only grows.
LEMMA OverlapGrows ==
  ASSUME [ANext]_avars
  PROVE  overlap \subseteq overlap'
<1>1. CASE UNCHANGED overlap
  BY <1>1
<1>2. CASE overlap' # overlap
  <2>1. PICK k \in Slot : BeginAdmin(k) \/ BeginLogin(k)
    BY <1>2 DEF ANext, avars, Expire, Create, ReadExisting, Write, Revoke, Commit, CreateSession,
                AuditLogin, AnswerLogin, BeginBadLogin, AuditBadLogin, Logout, AuditLogout, Fail
  <2>2. \E j : overlap' = overlap \cup Overlaps(j)
    <3>1. CASE BeginAdmin(k)
      BY <3>1 DEF BeginAdmin, Start
    <3>2. CASE BeginLogin(k)
      BY <3>2 DEF BeginLogin, Start
    <3> QED BY <2>1, <3>1, <3>2
  <2> QED BY <2>2
<1> QED BY <1>1, <1>2

\* While no two updates of one account overlap, another update of the account
\* an update works on does not commit: what was read stays what the row says.
LEMMA ReadStep ==
  ASSUME Types, ReadInv, [ANext]_avars
  PROVE  ReadInv'
<1> SUFFICES ASSUME "same account" \notin overlap',
                    NEW k \in Slot, job'[k].stage \in Updating
             PROVE  /\ job'[k].stage \in Reading => job'[k].existing = user'[job'[k].id]
                    /\ \A q \in Slot \ {k} : job'[q].stage \in Updating => job'[q].id # job'[k].id
  BY DEF ReadInv
<1>1. "same account" \notin overlap
  BY OverlapGrows
<1>2. CASE UNCHANGED avars
  BY <1>1, <1>2 DEF avars, ReadInv
<1>3. CASE ANext
  <2>1. CASE Continues(k)
    <3>1. job[k].stage \in Updating /\ job'[k].id = job[k].id /\ job[k].id \in User
      BY <2>1, JobFields DEF Continues, Types
    <3>2. ASSUME job'[k].stage \in Reading PROVE job'[k].existing = user'[job[k].id]
      <4>1. CASE job[k].stage \in Reading
        <5>1. job'[k].existing = user[job[k].id] /\ user[job[k].id] # NoAccount
          BY <1>1, <2>1, <3>1, <3>2, <4>1 DEF Continues, ReadInv, Types
        <5>2. ASSUME user'[job[k].id] # user[job[k].id] PROVE FALSE
          <6>1. PICK q \in Slot : Commit(q) /\ job[q].id = job[k].id /\ job'[q] = Idle
            BY <1>3, <3>1, <5>1, <5>2, AccountsMove
          <6>2. job[q].stage \in Updating /\ q # k
            BY <6>1, PlainJobs DEF Commit, Updating, InUpdate
          <6> QED BY <1>1, <3>1, <6>1, <6>2 DEF ReadInv
        <5> QED BY <5>1, <5>2
      <4>2. CASE job[k].stage \notin Reading
        BY <2>1, <3>2, <4>2 DEF Continues
      <4> QED BY <4>1, <4>2
    <3>3. ASSUME NEW q \in Slot \ {k}, job'[q].stage \in Updating PROVE job'[q].id # job[k].id
      <4>1. CASE Continues(q)
        BY <1>1, <3>1, <4>1 DEF Continues, ReadInv
      <4>2. ASSUME NEW j \in UpdateJob, Admits(q, j) PROVE job'[q].id # job[k].id
        BY <3>1, <4>2, OverlapsTold DEF Admits, Types, Updating
      <4> QED BY <1>3, <3>3, <4>1, <4>2, UpdatesMove
    <3> QED BY <3>1, <3>2, <3>3
  <2>2. ASSUME NEW j \in UpdateJob, Admits(k, j)
        PROVE  /\ job'[k].stage \notin Reading
               /\ \A q \in Slot \ {k} : job'[q].stage \in Updating => job'[q].id # job'[k].id
    <3>1. job'[k] = j /\ j.stage = "admitted" /\ \A q \in Slot \ {k} : job'[q] = job[q]
      BY <2>2 DEF Admits, Types
    <3>2. "same account" \notin Overlaps(j)
      BY <2>2 DEF Admits
    <3> QED BY <3>1, <3>2, OverlapsTold DEF Updating, Reading, InUpdate
  <2> QED BY <1>3, <2>1, <2>2, UpdatesMove
<1> QED BY <1>2, <1>3

\* While no two updates overlap, the one under way is an active admin's: nobody
\* else can take his role or account away, and he does not.
LEMMA AdminStep ==
  ASSUME Types, AdminInv, [ANext]_avars
  PROVE  AdminInv'
<1> SUFFICES ASSUME "updates" \notin overlap'
             PROVE  /\ AnAdminRemains'
                    /\ \A k \in Slot : job'[k].stage \in Updating =>
                         /\ user'[job'[k].actor] = [role |-> "ADMIN", active |-> TRUE]
                         /\ job'[k].id = job'[k].actor => SelfProtected(job'[k].dto)
                         /\ \A q \in Slot : job'[q].stage \in Updating => q = k
  BY DEF AdminInv, SelfProtected
<1> DEFINE Admin == [role |-> "ADMIN", active |-> TRUE]
<1>1. "updates" \notin overlap
  BY OverlapGrows
<1>2. CASE UNCHANGED avars
  BY <1>1, <1>2 DEF avars, AdminInv, AnAdminRemains
<1>3. CASE ANext
  <2>0. Admin # NoAccount
    BY DEF NoAccount
  <2>1. ASSUME NEW k \in Slot, job'[k].stage \in Updating
        PROVE  /\ user'[job'[k].actor] = Admin
               /\ job'[k].id = job'[k].actor => SelfProtected(job'[k].dto)
               /\ \A q \in Slot : job'[q].stage \in Updating => q = k
    <3>1. CASE Continues(k)
      <4>1. /\ job[k].stage \in Updating /\ job'[k].actor = job[k].actor
            /\ job'[k].id = job[k].id /\ job'[k].dto = job[k].dto
            /\ user[job[k].actor] = Admin /\ job[k].actor \in User
            /\ job[k].id = job[k].actor => SelfProtected(job[k].dto)
            /\ \A q \in Slot : job[q].stage \in Updating => q = k
        BY <1>1, <3>1, JobFields DEF Continues, AdminInv, Types
      <4>2. ASSUME user'[job[k].actor] # Admin PROVE FALSE
        <5>1. PICK q \in Slot : Commit(q) /\ job'[q] = Idle
          BY <1>3, <2>0, <4>1, <4>2, AccountsMove
        <5>2. q = k
          BY <4>1, <5>1 DEF Commit, Updating, InUpdate
        <5> QED BY <2>1, <5>1, <5>2, PlainJobs
      <4>3. ASSUME NEW q \in Slot, job'[q].stage \in Updating PROVE q = k
        <5>1. CASE Continues(q)
          BY <4>1, <5>1 DEF Continues
        <5>2. ASSUME NEW j \in UpdateJob, Admits(q, j) PROVE FALSE
          BY <4>1, <5>2, OverlapsTold DEF Admits, Updating
        <5> QED BY <1>3, <4>3, <5>1, <5>2, UpdatesMove
      <4> QED BY <4>1, <4>2, <4>3
    <3>2. ASSUME NEW j \in UpdateJob, Admits(k, j)
          PROVE  /\ user'[job'[k].actor] = Admin
                 /\ job'[k].id = job'[k].actor => SelfProtected(job'[k].dto)
                 /\ \A q \in Slot : job'[q].stage \in Updating => q = k
      <4>1. /\ job'[k] = j /\ j.stage = "admitted" /\ user' = user
            /\ \A q \in Slot \ {k} : job'[q] = job[q]
        BY <3>2 DEF Admits, Types
      <4>2. \A q \in Slot : job[q].stage \notin Updating
        BY <3>2, OverlapsTold DEF Admits, Updating
      <4> QED BY <3>2, <4>1, <4>2 DEF Admits
    <3> QED BY <1>3, <2>1, <3>1, <3>2, UpdatesMove
  <2>2. \E u \in User : user'[u] = Admin
    <3>1. PICK u \in User : user[u] = Admin
      BY <1>1 DEF AdminInv, AnAdminRemains
    <3>2. CASE user'[u] = user[u]
      BY <3>1, <3>2
    <3>3. CASE user'[u] # user[u]
      <4>1. PICK k \in Slot : /\ Commit(k) /\ job[k].id = u
                              /\ user'[u] = Patched(user[u], job[k].dto)
        BY <1>3, <2>0, <3>1, <3>3, AccountsMove
      <4>2. /\ job[k].stage \in Updating /\ job[k].actor \in User /\ job[k].dto \in UpdateUserDto
            /\ user[job[k].actor] = Admin
            /\ job[k].id = job[k].actor => SelfProtected(job[k].dto)
            /\ \A q \in Slot : job[q].stage \in Updating => q = k
        <5>1. job[k].stage \in Updating
          BY <4>1 DEF Commit, Updating, InUpdate
        <5> QED BY <1>1, <5>1, JobFields DEF AdminInv, Types
      <4>3. CASE job[k].actor = u
        <5>1. Admin \in Account /\ Admin["role"] = "ADMIN" /\ Admin["active"] = TRUE
          BY AccountsAssumption DEF Account
        <5>2. /\ "role" \in DOMAIN job[k].dto => job[k].dto["role"] = "ADMIN"
              /\ "active" \in DOMAIN job[k].dto => job[k].dto["active"] = TRUE
          BY <4>1, <4>2, <4>3, DtoFields DEF SelfProtected
        <5>3. user'[u] \in Account /\ user'[u]["role"] = "ADMIN" /\ user'[u]["active"] = TRUE
          BY <3>1, <4>1, <4>2, <5>1, <5>2, PatchedFields
        <5>4. user'[u] = Admin
          BY <5>3 DEF Account
        <5> QED BY <5>4
      <4>4. CASE job[k].actor # u
        <5>1. user'[job[k].actor] = Admin
          <6> SUFFICES ASSUME user'[job[k].actor] # Admin PROVE FALSE
            OBVIOUS
          <6>1. PICK q \in Slot : Commit(q) /\ job[q].id = job[k].actor
            BY <1>3, <2>0, <4>2, AccountsMove
          <6>2. q = k
            BY <4>2, <6>1 DEF Commit, Updating, InUpdate
          <6> QED BY <4>1, <4>4, <6>1, <6>2
        <5> QED BY <4>2, <5>1
      <4> QED BY <4>3, <4>4
    <3> QED BY <3>2, <3>3
  <2> QED BY <2>1, <2>2 DEF AnAdminRemains
<1> QED BY <1>2, <1>3

\* As long as no two updates overlap, an active admin remains.
THEOREM AnAdminAlwaysRemains == ASpec => []AnAdminRemainsInTurn
<1>1. AInit => AdminInv
  BY PlainJobs DEF AInit, AdminInv, AnAdminRemains
<1>2. Types /\ AdminInv /\ [ANext]_avars => AdminInv'
  BY AdminStep
<1>3. AdminInv => AnAdminRemainsInTurn
  BY DEF AdminInv, AnAdminRemainsInTurn
<1> QED BY <1>1, <1>2, <1>3, AccountsAreTyped, PTL DEF ASpec

\* Every login under way after a step has just begun, with the role the account
\* has, or goes on.
LEMMA LoginsMove ==
  ASSUME Types, ANext, NEW q \in Slot, job'[q].stage \in LoggingIn
  PROVE  \/ /\ job[q].stage \in LoggingIn
            /\ job'[q].id = job[q].id /\ job'[q].role = job[q].role
         \/ \E j \in OtherJob :
              /\ j.stage = "verified" /\ job' = [job EXCEPT ![q] = j]
              /\ user[j.id] = [role |-> j.role, active |-> TRUE]
              /\ overlap' = overlap \cup Overlaps(j) /\ UNCHANGED user
<1>0. job[q] \in UpdateJob \cup OtherJob
  BY DEF Types
<1>1. CASE job'[q] = job[q]
  BY <1>1
<1>2. CASE job'[q] # job[q]
  <2>1. PICK k \in Slot :
          \/ BeginAdmin(k) \/ Create(k)
          \/ ReadExisting(k) \/ Write(k) \/ Revoke(k) \/ Commit(k)
          \/ BeginLogin(k) \/ CreateSession(k) \/ AuditLogin(k) \/ AnswerLogin(k)
          \/ BeginBadLogin(k) \/ AuditBadLogin(k)
          \/ Logout(k) \/ AuditLogout(k)
          \/ Fail(k)
    BY <1>2 DEF ANext, Expire
  <2>2. CASE BeginAdmin(k) \/ ReadExisting(k) \/ Write(k) \/ Revoke(k)
    <3> SUFFICES ASSUME job'[q].stage \notin Updating \cup {"creating", "idle"} PROVE FALSE
      BY DEF Updating, InUpdate, LoggingIn
    <3>1. k = q
      BY <2>2, <1>2 DEF BeginAdmin, ReadExisting, Write, Revoke, Become, Start, Stage, Types
    <3>2. CASE BeginAdmin(q)
      <4>1. PICK t \in tokens, u \in User :
              \/ \E r \in Role :
                   Become(q, [stage |-> "creating", actor |-> t.user, id |-> u, role |-> r])
              \/ \E dto \in UpdateUserDto :
                   Become(q, [stage |-> "admitted", actor |-> t.user, id |-> u,
                              dto |-> dto, existing |-> NoAccount, doomed |-> {}])
        BY <3>2 DEF BeginAdmin, Start
      <4>2. CASE \E r \in Role :
                   Become(q, [stage |-> "creating", actor |-> t.user, id |-> u, role |-> r])
        BY <4>2 DEF Become, Types
      <4>3. CASE \E dto \in UpdateUserDto :
                   Become(q, [stage |-> "admitted", actor |-> t.user, id |-> u,
                              dto |-> dto, existing |-> NoAccount, doomed |-> {}])
        BY <4>3 DEF Become, Types, Updating
      <4> QED BY <4>1, <4>2, <4>3
    <3>3. CASE ReadExisting(q)
      <4>1. job[q] \in UpdateJob
        BY <3>3, JobFields DEF ReadExisting, Types, Updating
      <4> QED BY <3>3, <4>1 DEF ReadExisting, Become, Idle, Types, Updating, UpdateJob
    <3>4. CASE Write(q) \/ Revoke(q)
      <4>1. job[q] \in UpdateJob
        BY <3>4, JobFields DEF Write, Revoke, Types, Updating, InUpdate
      <4> QED BY <3>4, <4>1 DEF Write, Revoke, Stage, Types, Updating, InUpdate, UpdateJob
    <3> QED BY <2>2, <3>1, <3>2, <3>3, <3>4
  <2>3. CASE Create(k) \/ Commit(k) \/ AnswerLogin(k) \/ AuditBadLogin(k) \/ AuditLogout(k) \/ Fail(k)
    BY <2>3, <1>2, PlainJobs
    DEF Create, Commit, AnswerLogin, AuditBadLogin, AuditLogout, Fail, Become, Types
  <2>4. CASE BeginBadLogin(k)
    BY <1>2, <2>4 DEF BeginBadLogin, Become, Types, LoggingIn
  <2>5. CASE Logout(k)
    BY <1>2, <2>5 DEF Logout, Become, Types, LoggingIn
  <2>6. CASE CreateSession(k)
    <3>1. PICK sid \in SessionId :
            Become(k, [stage |-> "session", id |-> job[k].id, role |-> job[k].role, sid |-> sid])
      BY <2>6 DEF CreateSession
    <3>2. k = q /\ job[q].stage = "verified"
      BY <1>2, <2>6, <3>1 DEF CreateSession, Become, Types
    <3>3. job'[q] = [stage |-> "session", id |-> job[q].id, role |-> job[q].role, sid |-> sid]
      BY <3>1, <3>2 DEF Become, Types
    <3> QED BY <3>2, <3>3 DEF LoggingIn
  <2>7. CASE AuditLogin(k)
    <3>1. k = q /\ job[q] \in OtherJob /\ job[q].stage = "session"
      BY <1>2, <2>7, <1>0 DEF AuditLogin, Stage, Types, UpdateJob, Reading, InUpdate
    <3>2. job'[q] = [job[q] EXCEPT !.stage = "audited"]
      BY <2>7, <3>1 DEF AuditLogin, Stage, Types
    <3> QED BY <3>1, <3>2 DEF OtherJob, LoggingIn
  <2>8. CASE BeginLogin(k)
    <3>1. PICK u \in User :
            /\ user[u].active
            /\ Start(k, [stage |-> "verified", id |-> u, role |-> user[u].role])
      BY <2>8 DEF BeginLogin
    <3> DEFINE j == [stage |-> "verified", id |-> u, role |-> user[u].role]
    <3>2. user[u] \in Account /\ user[u] = [role |-> user[u].role, active |-> TRUE]
      <4>1. user[u] \in Account
        BY <3>1, AccountFields DEF Types
      <4>2. user[u].active = TRUE
        BY <3>1, <4>1, AccountFields
      <4> QED BY <4>1, <4>2 DEF Account
    <3>3. /\ j \in OtherJob /\ j.stage = "verified"
          /\ user[j.id] = [role |-> j.role, active |-> TRUE]
      BY <3>2 DEF OtherJob, Account
    <3>4. job' = [job EXCEPT ![k] = j] /\ overlap' = overlap \cup Overlaps(j) /\ UNCHANGED user
      BY <2>8, <3>1 DEF BeginLogin, Start, Become
    <3> HIDE DEF j
    <3>5. k = q
      BY <1>2, <3>4 DEF Types
    <3> QED BY <3>3, <3>4, <3>5
  <2> QED BY <2>1, <2>2, <2>3, <2>4, <2>5, <2>6, <2>7, <2>8
<1> QED BY <1>1, <1>2

\* A session is new, and a login's.
LEMMA SessionsMove ==
  ASSUME Types, [ANext]_avars, NEW s \in rows', s \notin rows
  PROVE  \E k \in Slot : /\ CreateSession(k) /\ s.user = job[k].id
                         /\ \A t \in tokens : t.sid # s.sid
<1>1. PICK k \in Slot : CreateSession(k)
  BY DEF ANext, avars, Expire, BeginAdmin, Create, ReadExisting, Write, Revoke, Commit,
         BeginLogin, AuditLogin, AnswerLogin, BeginBadLogin, AuditBadLogin, Logout,
         AuditLogout, Fail
<1>2. PICK sid \in SessionId : /\ Fresh(sid)
                               /\ rows' = rows \cup {[sid |-> sid, user |-> job[k].id]}
  BY <1>1 DEF CreateSession
<1>3. s = [sid |-> sid, user |-> job[k].id]
  BY <1>2
<1> QED BY <1>1, <1>2, <1>3 DEF Fresh

\* While no update overlaps another of the account or a login of it: an update
\* that takes a role or the account away takes every session with it, and a
\* login signs what the account still is.
LEMMA LoginStep ==
  ASSUME Types, ReadInv, LoginInv, [ANext]_avars
  PROVE  LoginInv'
<1> SUFFICES ASSUME "same account" \notin overlap', "login" \notin overlap'
             PROVE  /\ \A t \in tokens' : [sid |-> t.sid, user |-> t.user] \in rows' =>
                         user'[t.user] = [role |-> t.role, active |-> TRUE]
                    /\ \A k \in Slot : job'[k].stage \in LoggingIn =>
                         /\ user'[job'[k].id] = [role |-> job'[k].role, active |-> TRUE]
                         /\ \A q \in Slot : job'[q].stage \in Updating => job'[q].id # job'[k].id
                    /\ \A k \in Slot :
                         job'[k].stage = "revoked" /\ Revokes(job'[k].existing, job'[k].dto) =>
                           {s \in rows' : s.user = job'[k].id} \subseteq job'[k].doomed
  BY DEF LoginInv, LiveTokensAreCurrent, Revokes, Differs
<1>1. "same account" \notin overlap /\ "login" \notin overlap
  BY OverlapGrows
<1>2. /\ LiveTokensAreCurrent
      /\ \A k \in Slot : job[k].stage \in LoggingIn =>
           /\ user[job[k].id] = [role |-> job[k].role, active |-> TRUE]
           /\ \A q \in Slot : job[q].stage \in Updating => job[q].id # job[k].id
      /\ \A k \in Slot : job[k].stage = "revoked" /\ Revokes(job[k].existing, job[k].dto) =>
           {s \in rows : s.user = job[k].id} \subseteq job[k].doomed
  BY <1>1 DEF LoginInv
<1>3. CASE UNCHANGED avars
  BY <1>2, <1>3 DEF avars, LiveTokensAreCurrent
<1>4. CASE ANext
  <2>0. \A r : [role |-> r, active |-> TRUE] # NoAccount
    BY DEF NoAccount
  <2>1. ASSUME NEW t \in tokens', [sid |-> t.sid, user |-> t.user] \in rows'
        PROVE  user'[t.user] = [role |-> t.role, active |-> TRUE]
    <3> DEFINE s == [sid |-> t.sid, user |-> t.user]
    <3>1. CASE t \in tokens /\ s \in rows
      <4>1. user[t.user] = [role |-> t.role, active |-> TRUE] /\ t.user \in User
        BY <1>2, <3>1 DEF LiveTokensAreCurrent, Types, Token
      <4>2. ASSUME user'[t.user] # user[t.user] PROVE FALSE
        <5>1. PICK k \in Slot : /\ Commit(k) /\ job[k].id = t.user
                                /\ user'[t.user] = Patched(user[t.user], job[k].dto)
          BY <1>4, <2>0, <4>1, <4>2, AccountsMove
        <5>2. /\ job[k].stage = "revoked" /\ job[k].stage \in Updating /\ job[k].stage \in Reading
              /\ rows' = rows \ job[k].doomed
          BY <5>1 DEF Commit, Updating, Reading, InUpdate
        <5>3. job[k].existing = user[t.user] /\ job[k].dto \in UpdateUserDto
          BY <1>1, <5>1, <5>2, JobFields DEF ReadInv, Types
        <5>4. ~Revokes(user[t.user], job[k].dto)
          <6>1. s \notin job[k].doomed
            BY <2>1, <5>2
          <6> QED BY <1>2, <3>1, <5>1, <5>2, <5>3, <6>1
        <5>5. user[t.user] \in Account
          BY <2>0, <4>1 DEF Types
        <5>6. user[t.user]["active"] = TRUE
          <6> DEFINE a == user[t.user]
          <6>1. a = [role |-> t.role, active |-> TRUE]
            BY <4>1
          <6> HIDE DEF a
          <6>2. a["active"] = TRUE
            BY <6>1
          <6> QED BY <6>2 DEF a
        <5> QED BY <4>2, <5>1, <5>3, <5>4, <5>5, <5>6, PatchKeeps
      <4> QED BY <4>1, <4>2
    <3>2. CASE t \in tokens /\ s \notin rows
      BY <2>1, <3>2, SessionsMove
    <3>3. CASE t \notin tokens
      <4>1. PICK k \in Slot : AnswerLogin(k)
        BY <1>4, <2>1, <3>3 DEF ANext, Expire, BeginAdmin, Create, ReadExisting, Write, Revoke,
             Commit, BeginLogin, CreateSession, AuditLogin, BeginBadLogin, AuditBadLogin, Logout,
             AuditLogout, Fail
      <4>2. /\ t = [sid |-> job[k].sid, user |-> job[k].id, role |-> job[k].role]
            /\ job[k].stage \in LoggingIn /\ UNCHANGED user
        BY <2>1, <3>3, <4>1 DEF AnswerLogin, LoggingIn
      <4> QED BY <1>2, <4>2
    <3> QED BY <3>1, <3>2, <3>3
  <2>2. ASSUME NEW k \in Slot, job'[k].stage \in LoggingIn
        PROVE  /\ user'[job'[k].id] = [role |-> job'[k].role, active |-> TRUE]
               /\ \A q \in Slot : job'[q].stage \in Updating => job'[q].id # job'[k].id
    <3>1. CASE job[k].stage \in LoggingIn /\ job'[k].id = job[k].id /\ job'[k].role = job[k].role
      <4>1. /\ user[job[k].id] = [role |-> job[k].role, active |-> TRUE] /\ job[k].id \in User
            /\ \A q \in Slot : job[q].stage \in Updating => job[q].id # job[k].id
        BY <1>2, <3>1, JobFields DEF Types
      <4>2. ASSUME user'[job[k].id] # user[job[k].id] PROVE FALSE
        <5>1. PICK q \in Slot : Commit(q) /\ job[q].id = job[k].id
          BY <1>4, <2>0, <4>1, <4>2, AccountsMove
        <5> QED BY <4>1, <5>1 DEF Commit, Updating, InUpdate
      <4>3. ASSUME NEW q \in Slot, job'[q].stage \in Updating PROVE job'[q].id # job[k].id
        <5>1. CASE Continues(q)
          BY <4>1, <5>1 DEF Continues
        <5>2. ASSUME NEW j \in UpdateJob, Admits(q, j) PROVE job'[q].id # job[k].id
          BY <3>1, <5>2, OverlapsTold DEF Admits, Types, Updating
        <5> QED BY <1>4, <4>3, <5>1, <5>2, UpdatesMove
      <4> QED BY <3>1, <4>1, <4>2, <4>3
    <3>2. ASSUME NEW j \in OtherJob, j.stage = "verified", job' = [job EXCEPT ![k] = j],
                 user[j.id] = [role |-> j.role, active |-> TRUE],
                 overlap' = overlap \cup Overlaps(j), UNCHANGED user
          PROVE  /\ user'[job'[k].id] = [role |-> job'[k].role, active |-> TRUE]
                 /\ \A q \in Slot : job'[q].stage \in Updating => job'[q].id # job'[k].id
      <4>1. job'[k] = j /\ \A q \in Slot \ {k} : job'[q] = job[q]
        BY <3>2 DEF Types
      <4>2. j.stage \in LoggingIn /\ j.stage \notin Updating
        BY <3>2 DEF LoggingIn, Updating, InUpdate
      <4>3. \A q \in Slot : job[q].stage \in Updating => job[q].id # j.id
        BY <3>2, <4>2, OverlapsTold
      <4> QED BY <3>2, <4>1, <4>2, <4>3
    <3> QED BY <1>4, <2>2, <3>1, <3>2, LoginsMove
  <2>3. ASSUME NEW k \in Slot, job'[k].stage = "revoked",
               Revokes(job'[k].existing, job'[k].dto),
               NEW s \in rows', s.user = job'[k].id
        PROVE  s \in job'[k].doomed
    <3>1. Continues(k)
      <4>1. job'[k].stage \in Updating
        BY <2>3 DEF Updating, InUpdate
      <4>2. ASSUME NEW j \in UpdateJob, Admits(k, j) PROVE FALSE
        BY <2>3, <4>2 DEF Admits, Types
      <4> QED BY <1>4, <4>1, <4>2, UpdatesMove
    <3>2. /\ job[k].stage \in Updating
          /\ job'[k].existing = job[k].existing /\ job'[k].dto = job[k].dto /\ job'[k].id = job[k].id
      BY <2>3, <3>1 DEF Continues, Reading, InUpdate
    <3>3. Revokes(job[k].existing, job[k].dto)
      BY <2>3, <3>2
    <3>4. s \in rows
      <4> SUFFICES ASSUME s \notin rows PROVE FALSE
        OBVIOUS
      <4>1. PICK q \in Slot : CreateSession(q) /\ s.user = job[q].id
        BY SessionsMove
      <4>2. job[q].stage \in LoggingIn
        BY <4>1 DEF CreateSession, LoggingIn
      <4> QED BY <1>2, <2>3, <3>2, <4>1, <4>2
    <3>5. CASE job[k].stage = "revoked" /\ job'[k].doomed = job[k].doomed
      BY <1>2, <2>3, <3>2, <3>3, <3>4, <3>5
    <3>6. CASE Revokes(job[k].existing, job[k].dto) =>
                 {x \in rows : x.user = job[k].id} \subseteq job'[k].doomed
      BY <2>3, <3>2, <3>3, <3>4, <3>6
    <3> QED BY <2>3, <3>1, <3>5, <3>6 DEF Continues
  <2> QED BY <2>1, <2>2, <2>3
<1> QED BY <1>3, <1>4

\* As long as no two updates of one account overlap, what an update under way has
\* read of it is what the account still is.
LEMMA ReadsHold == ASpec => []ReadInv
<1>1. AInit => ReadInv
  BY PlainJobs DEF AInit, ReadInv
<1>2. Types /\ ReadInv /\ [ANext]_avars => ReadInv'
  BY ReadStep
<1> QED BY <1>1, <1>2, AccountsAreTyped, PTL DEF ASpec

\* As long as no update overlaps another of the same account, or a login of it, a
\* token whose session lives carries the role of an active account.
THEOREM LiveTokensStayCurrent == ASpec => []LiveTokensAreCurrentInTurn
<1>1. AInit => LoginInv
  BY PlainJobs DEF AInit, LoginInv, LiveTokensAreCurrent
<1>2. Types /\ ReadInv /\ LoginInv /\ [ANext]_avars => LoginInv'
  BY LoginStep
<1>3. LoginInv => LiveTokensAreCurrentInTurn
  BY DEF LoginInv, LiveTokensAreCurrentInTurn
<1> QED BY <1>1, <1>2, <1>3, AccountsAreTyped, ReadsHold, PTL DEF ASpec

--------------------------------------------------------------------------------
(***************************************************************************)
(* The trail of an account tells what the account is.                      *)
(***************************************************************************)
\* A chain that ends at v goes on to w when the next entry tells the way from v
\* to w, and stays one when the next entry does not speak of the field.
LEMMA ChainGrows ==
  ASSUME NEW l \in Seq(Entry), NEW e \in Entry, NEW f, NEW v, NEW w, Chain(l, f, v),
         f \notin DOMAIN e.changes => w = v,
         f \in DOMAIN e.changes => e.changes[f].from = v /\ e.changes[f].to = w
  PROVE  Chain(Append(l, e), f, w)
<1> DEFINE m == Append(l, e)
           n == Len(l) + 1
           Later(i) == {k \in Telling(m, f) : k > i}
           Before(i) == {k \in Telling(l, f) : k > i}
<1>1. /\ DOMAIN m = 1 .. n /\ DOMAIN l = 1 .. n - 1 /\ n \in Nat \ {0}
      /\ m[n] = e /\ \A i \in 1 .. n - 1 : m[i] = l[i]
  OBVIOUS
<1>2. /\ Telling(l, f) \subseteq 1 .. n - 1
      /\ Telling(m, f) = IF f \in DOMAIN e.changes THEN Telling(l, f) \cup {n} ELSE Telling(l, f)
  BY <1>1 DEF Telling
<1> HIDE DEF m, n
<1> SUFFICES ASSUME NEW i \in Telling(m, f)
             PROVE  IF Later(i) = {} THEN m[i].changes[f].to = w
                    ELSE \E k \in Later(i) : /\ \A q \in Later(i) : k <= q
                                             /\ m[k].changes[f].from = m[i].changes[f].to
  BY DEF Chain, m
<1>3. CASE i = n
  <2>1. Later(i) = {} /\ f \in DOMAIN e.changes
    BY <1>1, <1>2, <1>3
  <2> QED BY <1>1, <1>3, <2>1
<1>4. CASE i # n
  <2>1. i \in Telling(l, f) /\ i \in 1 .. n - 1 /\ m[i] = l[i] /\ i < n
    BY <1>1, <1>2, <1>4
  <2>2. CASE Before(i) = {}
    <3>1. l[i].changes[f].to = v
      BY <2>1, <2>2 DEF Chain
    <3>2. CASE f \in DOMAIN e.changes
      <4>1. Later(i) = {n}
        BY <1>1, <1>2, <2>1, <2>2, <3>2
      <4> QED BY <1>1, <2>1, <3>1, <3>2, <4>1
    <3>3. CASE f \notin DOMAIN e.changes
      BY <1>2, <2>1, <2>2, <3>1, <3>3
    <3> QED BY <3>2, <3>3
  <2>3. CASE Before(i) # {}
    <3>1. PICK k \in Before(i) : /\ \A q \in Before(i) : k <= q
                                 /\ l[k].changes[f].from = l[i].changes[f].to
      BY <2>1, <2>3 DEF Chain
    <3>2. k \in 1 .. n - 1 /\ m[k] = l[k] /\ k \in Later(i)
      BY <1>1, <1>2
    <3>3. \A q \in Later(i) : k <= q
      BY <1>1, <1>2, <3>1, <3>2
    <3> QED BY <2>1, <3>1, <3>2, <3>3
  <2> QED BY <2>2, <2>3
<1> QED BY <1>3, <1>4

\* An entry without changes speaks of no field.
LEMMA NothingTold == DOMAIN << >> = {}
OBVIOUS

\* What an entry of u tells of the step that wrote it.
Tells(u, e) ==
  \/ e.changes = << >> /\ user'[u] = user[u]
  \/ \E a \in Account : /\ user[u] = NoAccount /\ user'[u] = a
                        /\ e.changes = Changes(NoAccount, a)
  \/ \E k \in Slot : /\ job[k].stage = "revoked" /\ job[k].id = u
                     /\ e.changes = Changes(job[k].existing, job[k].dto)
                     /\ user'[u] = Patched(user[u], job[k].dto)

\* A step that changes an account adds an entry about it, in the same commit.
LEMMA TrailMoves ==
  ASSUME Types, [ANext]_avars, NEW u \in User
  PROVE  \/ log'[u] = log[u] /\ user'[u] = user[u]
         \/ \E e \in Entry : log'[u] = Append(log[u], e) /\ Tells(u, e)
<1>1. CASE UNCHANGED <<log, user>>
  BY <1>1
<1>2. CASE ~UNCHANGED <<log, user>>
  <2>1. PICK k \in Slot : Create(k) \/ Commit(k) \/ AuditLogin(k) \/ AuditLogout(k)
    BY <1>2 DEF ANext, avars, Expire, BeginAdmin, ReadExisting, Write, Revoke, BeginLogin,
                CreateSession, AnswerLogin, BeginBadLogin, AuditBadLogin, Logout, Fail
  <2>2. job[k].id \in User
    BY <2>1, JobFields DEF Create, Commit, AuditLogin, AuditLogout, Types, Updating, InUpdate, LoggingIn
  <2>3. CASE u # job[k].id
    BY <2>1, <2>2, <2>3 DEF Create, Commit, AuditLogin, AuditLogout, Record, Types
  <2>4. CASE u = job[k].id
    <3>1. CASE Create(k)
      <4> DEFINE a == [role |-> job[k].role, active |-> TRUE]
                 e == [action |-> "USER_CREATED", actor |-> job[k].actor,
                       changes |-> Changes(NoAccount, a)]
      <4>1. job[k].actor \in User /\ job[k].role \in Role /\ user[u] = NoAccount
        BY <1>2, <2>4, <3>1, JobFields DEF Create, Types
      <4>2. NoAccount \in Account \cup {NoAccount} /\ a \in Account /\ a \in UpdateUserDto
        BY <4>1, AccountFields, AccountIsDto
      <4>3. /\ log' = [log EXCEPT ![u] = Append(log[u], e)] /\ user' = [user EXCEPT ![u] = a]
        BY <2>4, <3>1, <4>1 DEF Create, Record
      <4> HIDE DEF a
      <4>4. e \in Entry
        BY <4>1, <4>2, ChangesTyped DEF Entry
      <4>5. e.changes = Changes(NoAccount, a)
        OBVIOUS
      <4> HIDE DEF e
      <4>6. log'[u] = Append(log[u], e) /\ user'[u] = a
        BY <4>3 DEF Types
      <4> QED BY <4>1, <4>2, <4>4, <4>5, <4>6 DEF Tells
    <3>2. CASE Commit(k)
      <4> DEFINE c == Changes(job[k].existing, job[k].dto)
                 e == [action |-> "USER_UPDATED", actor |-> job[k].actor, changes |-> c]
      <4>1. /\ job[k].actor \in User /\ job[k].stage = "revoked"
            /\ job[k].existing \in Account /\ job[k].dto \in UpdateUserDto
        BY <3>2, JobFields DEF Commit, Types, Updating, Reading, InUpdate
      <4>2. /\ log' = [log EXCEPT ![u] = Append(log[u], e)]
            /\ user' = [user EXCEPT ![u] = Patched(user[u], job[k].dto)]
        BY <2>4, <3>2 DEF Commit, Record
      <4>3. c \in Changed
        BY <4>1, ChangesTyped
      <4> HIDE DEF c
      <4>4. e \in Entry /\ e.changes = c
        BY <4>1, <4>3 DEF Entry
      <4> HIDE DEF e
      <4>5. log'[u] = Append(log[u], e) /\ user'[u] = Patched(user[u], job[k].dto)
        BY <4>2 DEF Types
      <4> QED BY <2>4, <4>1, <4>4, <4>5 DEF Tells, c
    <3>3. CASE AuditLogin(k) \/ AuditLogout(k)
      <4>1. PICK action \in {"USER_LOGGED_IN", "USER_LOGGED_OUT"} : Record(u, action, u, << >>)
        BY <2>4, <3>3 DEF AuditLogin, AuditLogout
      <4> DEFINE e == [action |-> action, actor |-> u, changes |-> << >>]
      <4>2. e \in Entry /\ e.changes = << >>
        BY DEF Entry, Changed
      <4>3. log' = [log EXCEPT ![u] = Append(log[u], e)]
        BY <4>1 DEF Record
      <4>4. UNCHANGED user
        BY <3>3 DEF AuditLogin, AuditLogout
      <4> HIDE DEF e
      <4> QED BY <4>2, <4>3, <4>4 DEF Tells, Types
    <3> QED BY <2>1, <3>1, <3>2, <3>3
  <2> QED BY <2>3, <2>4
<1> QED BY <1>1, <1>2

\* What was read is what the row says, so that each entry goes on where the last
\* one about the field ended.
LEMMA TellingStep ==
  ASSUME Types, ReadInv, TellingInv, [ANext]_avars
  PROVE  TellingInv'
<1> SUFFICES ASSUME "same account" \notin overlap', NEW u \in User,
                    NEW f \in {"role", "active"}
             PROVE  Chain(log'[u], f, user'[u][f])
  BY DEF TellingInv, Chain, Telling
<1>1. "same account" \notin overlap
  BY OverlapGrows
<1>2. Chain(log[u], f, user[u][f]) /\ log[u] \in Seq(Entry)
  BY <1>1 DEF TellingInv, Types
<1>3. CASE log'[u] = log[u] /\ user'[u] = user[u]
  BY <1>2, <1>3
<1>4. ASSUME NEW e \in Entry, log'[u] = Append(log[u], e), Tells(u, e)
      PROVE  Chain(log'[u], f, user'[u][f])
  <2>1. /\ f \notin DOMAIN e.changes => user'[u][f] = user[u][f]
        /\ f \in DOMAIN e.changes => e.changes[f].from = user[u][f] /\ e.changes[f].to = user'[u][f]
    <3>1. CASE e.changes = << >> /\ user'[u] = user[u]
      <4>1. f \notin DOMAIN e.changes
        BY <3>1, NothingTold
      <4> QED BY <3>1, <4>1
    <3>2. ASSUME NEW a \in Account, user[u] = NoAccount, user'[u] = a,
                 e.changes = Changes(NoAccount, a)
          PROVE  /\ f \notin DOMAIN e.changes => user'[u][f] = user[u][f]
                 /\ f \in DOMAIN e.changes =>
                      e.changes[f].from = user[u][f] /\ e.changes[f].to = user'[u][f]
      <4>1. f \in DOMAIN a
        BY DEF Account
      <4>2. /\ f \in DOMAIN Changes(NoAccount, a) <=> f \in DOMAIN a /\ a[f] # NoAccount[f]
            /\ f \in DOMAIN Changes(NoAccount, a) =>
                 /\ Changes(NoAccount, a)[f].from = NoAccount[f]
                 /\ Changes(NoAccount, a)[f].to = a[f]
        BY DEF Changes, Differs
      <4>3. user'[u][f] = a[f] /\ user[u][f] = NoAccount[f]
        BY <3>2
      <4> QED BY <3>2, <4>1, <4>2, <4>3
    <3>3. ASSUME NEW k \in Slot, job[k].stage = "revoked", job[k].id = u,
                 e.changes = Changes(job[k].existing, job[k].dto),
                 user'[u] = Patched(user[u], job[k].dto)
          PROVE  /\ f \notin DOMAIN e.changes => user'[u][f] = user[u][f]
                 /\ f \in DOMAIN e.changes =>
                      e.changes[f].from = user[u][f] /\ e.changes[f].to = user'[u][f]
      <4>1. /\ job[k].existing = user[u] /\ job[k].dto \in UpdateUserDto
            /\ user[u] \in Account
        BY <1>1, <3>3, JobFields DEF ReadInv, Types, Updating, Reading, InUpdate
      <4>2. user'[u][f] = IF f \in DOMAIN job[k].dto THEN job[k].dto[f] ELSE user[u][f]
        BY <3>3, <4>1, PatchedFields
      <4>3. e.changes = Changes(user[u], job[k].dto)
        BY <3>3, <4>1
      <4> DEFINE c == Changes(user[u], job[k].dto)
      <4>4. /\ f \in DOMAIN c <=> f \in DOMAIN job[k].dto /\ job[k].dto[f] # user[u][f]
            /\ f \in DOMAIN c => c[f].from = user[u][f] /\ c[f].to = job[k].dto[f]
        BY DEF Changes, Differs
      <4> HIDE DEF c
      <4> QED BY <4>2, <4>3, <4>4 DEF c
    <3> QED BY <1>4, <3>1, <3>2, <3>3 DEF Tells
  <2> QED BY <1>2, <1>4, <2>1, ChainGrows
<1> QED BY <1>3, <1>4, TrailMoves

\* As long as no two updates of one account overlap, the recorded changes of a
\* field form a chain that ends at the row's value.
THEOREM TrailsTellTheAccounts == ASpec => []TrailTellsTheAccountInTurn
<1>1. AInit => TellingInv
  <2> SUFFICES ASSUME AInit, NEW u \in User PROVE \A f, v : Chain(log[u], f, v)
    BY DEF TellingInv
  <2>1. log[u] = << >>
    BY DEF AInit
  <2>2. \A f : Telling(log[u], f) = {}
    BY <2>1 DEF Telling
  <2> QED BY <2>2 DEF Chain
<1>2. Types /\ ReadInv /\ TellingInv /\ [ANext]_avars => TellingInv'
  BY TellingStep
<1>3. TellingInv => TrailTellsTheAccountInTurn
  <2>1. \A u, f : Telling(log[u], f) = Mentions(u, f)
    BY DEF Telling, Mentions
  <2>2. ASSUME TellingInv, "same account" \notin overlap,
               NEW u \in User, NEW f \in {"role", "active"}, NEW i \in Mentions(u, f)
        PROVE  LET later == {k \in Mentions(u, f) : k > i} IN
                 IF later = {} THEN log[u][i].changes[f].to = user[u][f]
                 ELSE \E k \in later :
                        /\ \A q \in later : k <= q
                        /\ log[u][k].changes[f].from = log[u][i].changes[f].to
    <3>1. Chain(log[u], f, user[u][f]) /\ Telling(log[u], f) = Mentions(u, f)
      BY <2>1, <2>2 DEF TellingInv
    <3> QED BY <2>2, <3>1 DEF Chain
  <2> QED BY <2>2 DEF TrailTellsTheAccountInTurn, TrailTellsTheAccount
<1> QED BY <1>1, <1>2, <1>3, AccountsAreTyped, ReadsHold, PTL DEF ASpec
================================================================================
