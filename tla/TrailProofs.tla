------------------------------ MODULE TrailProofs ------------------------------
(***************************************************************************)
(* What the audit trail and the answers say.  First what they say whatever *)
(* versions clients send: one entry per version, and an OK that is true    *)
(* and the only one on its version.  Then, where clients send only         *)
(* versions they were shown, the rest, from the fact that rows and trails  *)
(* change by legal steps only (StepsAreLegal): the trail is complete, it   *)
(* names the right people, together with the states it is the history of   *)
(* the abstract machine, and what a refusal says is true as well.          *)
(***************************************************************************)
EXTENDS WorkflowProofs

(* What Append does to a trail. *)
LEMMA AppendFacts ==
  ASSUME NEW s \in Seq(AuditEntry), NEW e \in AuditEntry
  PROVE  /\ Append(s, e) \in Seq(AuditEntry)
         /\ Len(Append(s, e)) = Len(s) + 1 /\ Len(s) \in Nat
         /\ DOMAIN s = 1 .. Len(s)
         /\ DOMAIN Append(s, e) = 1 .. Len(s) + 1
         /\ \A i \in 1 .. Len(s) : Append(s, e)[i] = s[i]
         /\ Append(s, e)[Len(s) + 1] = e
  OBVIOUS

(* An entry once written stays where it is, and versions only grow.        *)
LEMMA TrailsGrow ==
  ASSUME CoreInv, [Next]_vars, NEW a \in App
  PROVE  /\ DOMAIN audit[a] \subseteq DOMAIN audit'[a]
         /\ \A i \in DOMAIN audit[a] : audit'[a][i] = audit[a][i]
         /\ app[a].version <= app'[a].version
         /\ app[a].version \in Nat /\ app'[a].version \in Nat
         /\ app[a].state # "ABSENT" => app'[a].state # "ABSENT"
<1>1. audit[a] \in Seq(AuditEntry) /\ app[a].version \in Nat
  BY DEF CoreInv, TypeOK, Row
<1>2. CASE app'[a] = app[a] /\ audit'[a] = audit[a]
  BY <1>1, <1>2
<1>3. ASSUME NEW e \in AuditEntry, audit'[a] = Append(audit[a], e)
      PROVE  /\ DOMAIN audit[a] \subseteq DOMAIN audit'[a]
             /\ \A i \in DOMAIN audit[a] : audit'[a][i] = audit[a][i]
  BY <1>1, <1>3, AppendFacts
<1>4. CASE app[a] = NoRow /\ app'[a].version = 0
           /\ \E e \in AuditEntry : audit'[a] = Append(audit[a], e)
  BY <1>1, <1>3, <1>4 DEF NoRow
<1>5. CASE app'[a].state # "ABSENT" /\ app'[a].version = app[a].version + 1
           /\ \E e \in AuditEntry : audit'[a] = Append(audit[a], e)
  BY <1>1, <1>3, <1>5
<1>6. QED
  BY <1>2, <1>4, <1>5, RowsGrow

--------------------------------------------------------------------------------
(* What holds whatever versions clients send. *)

\* An application has an entry for its creation and one for every version.
CountInv ==
  \A a \in App :
    /\ app[a].state = "ABSENT" => audit[a] = << >>
    /\ app[a].state # "ABSENT" => Len(audit[a]) = app[a].version + 1

\* The call's own entry is where its version leads in the trail.
DoneIn(trail, c) ==
  /\ c.action \in WorkflowAction
  /\ c.version + 2 \in DOMAIN trail
  /\ trail[c.version + 2].action = MapToAuditAction[c.action]
  /\ trail[c.version + 2].actorId = c.user
  /\ trail[c.version + 2].actorRole = c.role

\* Who was told that it is done has done it, and the row is past his version.
OkTold(r) ==
  phase[r] = "OK" /\ call[r].action \in WorkflowAction =>
    DoneIn(audit[call[r].id], call[r]) /\ call[r].version < app[call[r].id].version

OkInv == CountInv /\ OneWinner /\ \A r \in Request : OkTold(r)

(* Every step keeps the count.                                             *)
LEMMA CountStep ==
  ASSUME CoreInv, CountInv, [Next]_vars
  PROVE  CountInv'
<1> SUFFICES ASSUME NEW a \in App
             PROVE  /\ app'[a].state = "ABSENT" => audit'[a] = << >>
                    /\ app'[a].state # "ABSENT" => Len(audit'[a]) = app'[a].version + 1
  BY DEF CountInv
<1>1. /\ audit[a] \in Seq(AuditEntry) /\ app[a].version \in Nat
      /\ app[a].state = "ABSENT" => audit[a] = << >>
      /\ app[a].state # "ABSENT" => Len(audit[a]) = app[a].version + 1
  BY DEF CoreInv, CountInv, TypeOK, Row
<1>2. CASE app'[a] = app[a] /\ audit'[a] = audit[a]
  BY <1>1, <1>2
<1>3. ASSUME NEW e \in AuditEntry, audit'[a] = Append(audit[a], e)
      PROVE  Len(audit'[a]) = Len(audit[a]) + 1
  BY <1>1, <1>3, AppendFacts
<1>4. CASE app[a] = NoRow /\ app'[a].state = "DRAFT" /\ app'[a].version = 0
           /\ \E e \in AuditEntry : audit'[a] = Append(audit[a], e)
  <2>1. audit[a] = << >>
    BY <1>1, <1>4 DEF NoRow
  <2>2. Len(audit[a]) = 0
    BY <2>1
  <2>3. QED
    BY <1>3, <1>4, <2>2
<1>5. CASE app[a].state # "ABSENT" /\ app'[a].state # "ABSENT"
           /\ app'[a].version = app[a].version + 1
           /\ \E e \in AuditEntry : audit'[a] = Append(audit[a], e)
  BY <1>1, <1>3, <1>5
<1>6. QED
  BY <1>2, <1>4, <1>5, RowsGrow

(* What was done stays done.                                               *)
LEMMA DoneStays ==
  ASSUME CoreInv, [Next]_vars, NEW c \in Call, DoneIn(audit[c.id], c)
  PROVE  DoneIn(audit'[c.id], c)
  BY TrailsGrow DEF DoneIn, Call

(* Only its own steps change how far a request is and what it asks for.    *)
LEMMA OthersStand ==
  ASSUME TypeOK, NEW r \in Request, Step(r), NEW q \in Request \ {r}
  PROVE  phase'[q] = phase[q] /\ call'[q] = call[q]
  BY DEF Step, Serve, BeginCreate, BeginTransition, Admit, Create, Resolve, Refuse,
     Update, RecordAudit, Commit, Abort, Recycle, Drop, Finish, TypeOK

(* Who is told that it is done has just committed it.                      *)
LEMMA OkIsACommit ==
  ASSUME TypeOK, NEW r \in Request, Step(r), phase'[r] = "OK"
  PROVE  call'[r] = call[r] /\ (Create(r) \/ Commit(r))
  BY Phases DEF Step, Serve, BeginCreate, BeginTransition, Admit, Create, Resolve, Refuse,
     Update, RecordAudit, Commit, Abort, Recycle, Drop, Finish, TypeOK

(* A commit is told truly, and nobody else has committed on its version.   *)
LEMMA CommitIsTold ==
  ASSUME CoreInv, CountInv, NEW r \in Request, Commit(r)
  PROVE  /\ DoneIn(audit'[call[r].id], call[r])
         /\ call[r].version < app'[call[r].id].version
<1> DEFINE c == call[r]
           a == call[r].id
           n == Len(audit[a])
           e == EntryOf(r)
<1>1. /\ a \in App /\ c.action \in WorkflowAction
      /\ app[a].state # "ABSENT" /\ app[a].version \in Nat /\ app[a].version = c.version
      /\ e \in AuditEntry
  BY CommitWrites
<1>2. audit'[a] = Append(audit[a], e)
  BY <1>1, CommitWrites DEF CoreInv, TypeOK
<1>3. app'[a].version = app[a].version + 1
  <2>1. app'[a] = ComputePatch(app[a], c.action, tx[r].to, c.user)
    BY <1>1, CommitWrites DEF CoreInv, TypeOK
  <2>2. QED
    BY <2>1 DEF ComputePatch
<1>4. audit[a] \in Seq(AuditEntry) /\ n = c.version + 1
  BY <1>1 DEF CoreInv, TypeOK, CountInv
<1>5. n + 1 \in DOMAIN audit'[a] /\ audit'[a][n + 1] = e
  BY <1>1, <1>2, <1>4, AppendFacts
<1>6. n + 1 = c.version + 2
  BY <1>1, <1>4
<1>7. c.version < app'[a].version
  BY <1>1, <1>3
<1>8. e.action = MapToAuditAction[c.action] /\ e.actorId = c.user /\ e.actorRole = c.role
  BY DEF EntryOf
<1> HIDE DEF n, e
<1>9. QED
  BY <1>1, <1>5, <1>6, <1>7, <1>8 DEF DoneIn

(* A request that does not move keeps its success.                         *)
LEMMA OkStays ==
  ASSUME CoreInv, [Next]_vars, NEW q \in Request, OkTold(q),
         phase'[q] = phase[q], call'[q] = call[q]
  PROVE  OkTold(q)'
<1> SUFFICES ASSUME phase[q] = "OK", call[q].action \in WorkflowAction
             PROVE  DoneIn(audit'[call[q].id], call[q])
                    /\ call[q].version < app'[call[q].id].version
  BY DEF OkTold
<1>1. call[q] \in Call /\ call[q].id \in App /\ call[q].version \in Nat
  BY Phases DEF CoreInv, TypeOK, RequestOK, Call
<1>2. DoneIn(audit'[call[q].id], call[q])
  BY <1>1, DoneStays DEF OkTold
<1>3. call[q].version < app'[call[q].id].version
  BY <1>1, TrailsGrow DEF OkTold
<1>4. QED
  BY <1>2, <1>3

(* Two successes on one application are on two versions.                   *)
LEMMA WinnersDiffer ==
  ASSUME CoreInv, NEW r \in Request, Step(r), OneWinner,
         \A q \in Request : OkTold(q)
  PROVE  OneWinner'
<1>1. \A q \in Request \ {r} : phase'[q] = phase[q] /\ call'[q] = call[q]
  BY OthersStand DEF CoreInv
<1>2. ASSUME NEW q \in Request \ {r},
             phase'[r] = "OK", call'[r].action \in WorkflowAction,
             phase'[q] = "OK", call'[q].action \in WorkflowAction,
             call'[q].id = call'[r].id
      PROVE  call'[q].version # call'[r].version
  <2>1. call'[r] = call[r] /\ Commit(r)
    BY <1>2, OkIsACommit DEF CoreInv, Create, WorkflowAction
  <2>2. call[r].version = app[call[r].id].version /\ app[call[r].id].version \in Nat
    BY <2>1, CommitWrites
  <2>3. call[q].version < app[call[q].id].version
    BY <1>1, <1>2 DEF OkTold
  <2>4. QED
    BY <1>1, <1>2, <2>1, <2>2, <2>3
<1>3. QED
  BY <1>1, <1>2 DEF OneWinner

(* Every step keeps the successes true and single.                         *)
LEMMA OkStep ==
  ASSUME CoreInv, OkInv, [Next]_vars
  PROVE  OkInv'
<1>1. CountInv'
  BY CountStep DEF OkInv
<1>2. CASE UNCHANGED <<phase, call>>
  <2>1. \A q \in Request : OkTold(q)'
    BY <1>2, OkStays DEF OkInv
  <2>2. OneWinner'
    BY <1>2 DEF OkInv, OneWinner
  <2>3. QED
    BY <1>1, <2>1, <2>2 DEF OkInv
<1>3. ASSUME NEW r \in Request, Step(r)
      PROVE  OkInv'
  <2>1. \A q \in Request \ {r} : OkTold(q)'
    BY <1>3, OthersStand, OkStays DEF OkInv, CoreInv
  <2>2. OkTold(r)'
    <3>1. SUFFICES ASSUME phase'[r] = "OK", call'[r].action \in WorkflowAction
                   PROVE  OkTold(r)'
      BY DEF OkTold
    <3>2. call'[r] = call[r] /\ Commit(r)
      BY <1>3, <3>1, OkIsACommit DEF CoreInv, Create, WorkflowAction
    <3>3. QED
      BY <3>2, CommitIsTold DEF OkTold, OkInv
  <2>3. OneWinner'
    BY <1>3, WinnersDiffer DEF OkInv
  <2>4. QED
    BY <1>1, <2>1, <2>2, <2>3 DEF OkInv
<1>4. QED
  BY <1>2, <1>3 DEF Next, ChangeRole, vars

(* What an OK says is always true.                                         *)
LEMMA OkAlways == Spec => []OkInv
<1>1. Init => OkInv
  BY DEF Init, OkInv, CountInv, OkTold, OneWinner, NoRow
<1>2. CoreInv /\ OkInv /\ [Next]_vars => OkInv'
  BY OkStep
<1>3. QED
  BY <1>1, <1>2, CoreInductive, PTL DEF Spec

(* No change without its entry and no entry without its change, whatever   *)
(* versions are sent: the trail is as long as the version says.            *)
THEOREM OneEntryPerVersion == Spec => []CountInv
<1>1. OkInv => CountInv
  BY DEF OkInv
<1>2. QED
  BY <1>1, OkAlways, PTL

(* Whoever was told that his action succeeded finds it in the trail, at    *)
(* the version he sent, under his name and role, whatever happened since   *)
(* and whatever version that was.                                          *)
THEOREM AnswersOkAreTrue == Spec => []OkIsTrue
<1>1. OkInv => OkIsTrue
  BY DEF OkInv, OkTold, OkIsTrue, Done, DoneIn
<1>2. QED
  BY <1>1, OkAlways, PTL

(* Of all the requests that race on one version of an application at most  *)
(* one is told that it succeeded, whatever versions are sent.              *)
THEOREM AtMostOneWinner == Spec => []OneWinner
<1>1. OkInv => OneWinner
  BY DEF OkInv
<1>2. QED
  BY <1>1, OkAlways, PTL

--------------------------------------------------------------------------------
(* What holds where clients send only versions they were shown. *)

\* The trail invariant: the two properties and the CHECK of every row.
TrailInv ==
  /\ AuditTellsTheStory
  /\ EveryEntryIsAuthorised
  /\ \A a \in App : ReviewerNotApprover(app[a])

\* The part of it that belongs to one application.
Story(a) ==
  IF app[a].state = "ABSENT" THEN audit[a] = << >>
  ELSE /\ Len(audit[a]) = app[a].version + 1
       /\ audit[a][1].action = "APPLICATION_CREATED"
       /\ audit[a][1].newState = "DRAFT"
       /\ \A i \in 1 .. app[a].version :
            audit[a][i + 1].previousState = audit[a][i].newState
       /\ audit[a][Len(audit[a])].newState = app[a].state

Authorised(e, row) ==
  /\ e.action \in {"APPLICATION_CREATED", "APPLICATION_SUBMITTED",
                   "APPLICATION_RESUBMITTED"}
       => e.actorRole = "APPLICANT" /\ e.actorId = row.applicantId
  /\ e.action \in {"REVIEW_STARTED", "INFO_REQUESTED"}
       => e.actorRole = "REVIEWER" /\ e.actorId = row.reviewerId
  /\ e.action \in {"APPLICATION_APPROVED", "APPLICATION_REJECTED"}
       => e.actorRole = "APPROVER" /\ e.actorId = row.approverId

RowTrail(a) ==
  /\ Story(a)
  /\ \A i \in DOMAIN audit[a] : Authorised(audit[a][i], app[a])
  /\ ReviewerNotApprover(app[a])

(* The trail invariant, for each application.                              *)
LEMMA TrailByRow == TrailInv <=> \A a \in App : RowTrail(a)
  BY DEF TrailInv, AuditTellsTheStory, EveryEntryIsAuthorised, RowTrail, Story, Authorised

(* Where neither row nor trail changes, the invariant of the application   *)
(* stays.                                                                  *)
LEMMA SameRowSameTrail ==
  ASSUME NEW a \in App, RowTrail(a), app'[a] = app[a], audit'[a] = audit[a]
  PROVE  RowTrail(a)'
  BY DEF RowTrail, Story

(* An application that is created starts its story. *)
LEMMA OpenKeepsTrail ==
  ASSUME IInv, TrailInv, NEW a \in App, NEW u \in User, LegalOpen(a, u)
  PROVE  TrailInv'
<1> DEFINE e == [action        |-> "APPLICATION_CREATED",
                 previousState |-> "ABSENT",
                 newState      |-> "DRAFT",
                 actorId       |-> u,
                 actorRole     |-> "APPLICANT"]
<1>1. /\ audit[a] = << >>
      /\ app'[a] = NewRow(u) /\ audit'[a] = Append(audit[a], e)
      /\ \A b \in App \ {a} : app'[b] = app[b] /\ audit'[b] = audit[b]
  BY TrailByRow DEF LegalOpen, NoRow, IInv, CoreInv, TypeOK, RowTrail, Story
<1>2. audit'[a] = <<e>>
  BY <1>1
<1>3. RowTrail(a)'
  <2>1. Story(a)'
    BY <1>1, <1>2 DEF Story, NewRow
  <2>2. Authorised(e, NewRow(u))
    BY DEF Authorised, NewRow
  <2>3. ReviewerNotApprover(NewRow(u))
    BY DEF ReviewerNotApprover, NewRow
  <2>4. DOMAIN <<e>> = {1} /\ <<e>>[1] = e
    OBVIOUS
  <2>5. QED
    BY <1>1, <1>2, <2>1, <2>2, <2>3, <2>4 DEF RowTrail
<1>4. \A b \in App \ {a} : RowTrail(b)'
  BY <1>1, SameRowSameTrail, TrailByRow
<1>5. TrailInv' <=> \A b \in App : RowTrail(b)'
  BY DEF TrailInv, AuditTellsTheStory, EveryEntryIsAuthorised, RowTrail, Story, Authorised
<1>6. QED
  BY <1>3, <1>4, <1>5

(* Which entries the rules write, and for whom. *)
LEMMA RuleEntries ==
  ASSUME NEW rule \in TRANSITIONS
  PROVE  LET n == MapToAuditAction[rule.action] IN
         /\ n \in AuditAction /\ n # "APPLICATION_CREATED"
         /\ n \in {"APPLICATION_SUBMITTED", "APPLICATION_RESUBMITTED"}
              => rule.role = "APPLICANT" /\ rule.bond = "applicant"
         /\ n = "REVIEW_STARTED" => rule.role = "REVIEWER" /\ rule.action = "START_REVIEW"
         /\ n = "INFO_REQUESTED"
              => /\ rule.role = "REVIEWER" /\ rule.bond = "reviewer"
                 /\ rule.action # "START_REVIEW"
         /\ n \in {"APPLICATION_APPROVED", "APPLICATION_REJECTED"}
              => rule.role = "APPROVER" /\ rule.action \in Decisions
  BY DEF TRANSITIONS, MapToAuditAction, WorkflowAction, AuditAction, Decisions

(* A move continues the story. *)
LEMMA MoveKeepsTrail ==
  ASSUME IInv, TrailInv, NEW a \in App, NEW u \in User,
         NEW rule \in TRANSITIONS, NEW ro \in UserRole, LegalMove(a, rule, u, ro)
  PROVE  TrailInv'
<1> DEFINE e == [action        |-> MapToAuditAction[rule.action],
                 previousState |-> rule.from,
                 newState      |-> rule.to,
                 actorId       |-> u,
                 actorRole     |-> ro]
           p == ComputePatch(app[a], rule.action, rule.to, u)
           n == Len(audit[a])
<1>1. /\ app'[a] = p /\ audit'[a] = Append(audit[a], e)
      /\ \A b \in App \ {a} : app'[b] = app[b] /\ audit'[b] = audit[b]
  BY DEF LegalMove, IInv, CoreInv, TypeOK
<1>2. /\ app[a].state = rule.from /\ rule.from # "ABSENT"
      /\ rule.from \notin TERMINAL_STATES /\ rule.to \in ApplicationState
      /\ ro = rule.role
      /\ rule.bond = "applicant" => app[a].applicantId = u
      /\ rule.bond = "reviewer" => app[a].reviewerId = u
      /\ rule.action \in Decisions => app[a].reviewerId # u
  BY RuleTypes DEF LegalMove, Permitted, CanAct, ActorContext, SamePersonDecides,
     ApplicationState
<1>3. /\ p.state = rule.to /\ p.version = app[a].version + 1
      /\ p.applicantId = app[a].applicantId
      /\ p.reviewerId = IF rule.action = "START_REVIEW" THEN u ELSE app[a].reviewerId
      /\ p.approverId = IF rule.action \in Decisions THEN u ELSE app[a].approverId
  BY DEF ComputePatch
<1>4. /\ audit[a] \in Seq(AuditEntry) /\ e \in AuditEntry /\ app[a].version \in Nat
  BY RuleTypes, RuleEntries DEF IInv, CoreInv, TypeOK, AuditEntry, Row
<1>5. RowTrail(a)
  BY TrailByRow
<1>6. app[a].approverId = NoUser /\ (rule.from = "SUBMITTED" => app[a].reviewerId = NoUser)
  BY <1>2 DEF IInv, RowInv
<1>7. /\ Len(audit'[a]) = n + 1 /\ n \in Nat /\ DOMAIN audit[a] = 1 .. n
      /\ DOMAIN audit'[a] = 1 .. n + 1
      /\ \A i \in 1 .. n : audit'[a][i] = audit[a][i]
      /\ audit'[a][n + 1] = e
  BY <1>1, <1>4, AppendFacts
<1>8. Story(a)'
  <2>1. /\ n = app[a].version + 1 /\ audit[a][1].action = "APPLICATION_CREATED"
        /\ audit[a][1].newState = "DRAFT" /\ audit[a][n].newState = rule.from
        /\ \A i \in 1 .. app[a].version :
             audit[a][i + 1].previousState = audit[a][i].newState
    BY <1>2, <1>5 DEF RowTrail, Story
  <2>2. app'[a].version = n /\ app'[a].state = rule.to /\ rule.to # "ABSENT"
    BY <1>1, <1>2, <1>3, <2>1 DEF ApplicationState
  <2>3. ASSUME NEW i \in 1 .. n
        PROVE  audit'[a][i + 1].previousState = audit'[a][i].newState
    <3>1. i \in 1 .. n /\ audit'[a][i] = audit[a][i]
      BY <1>7
    <3>2. CASE i = n
      <4>1. audit'[a][i + 1].previousState = rule.from
        BY <1>7, <3>2
      <4>2. audit'[a][i].newState = rule.from
        BY <2>1, <3>1, <3>2
      <4>3. QED
        BY <4>1, <4>2
    <3>3. CASE i # n
      <4>1. i + 1 \in 1 .. n /\ i \in 1 .. app[a].version
        <5>1. n = app[a].version + 1 /\ app[a].version \in Nat /\ i \in 1 .. n
          BY <1>4, <2>1
        <5> HIDE DEF n
        <5>2. QED
          BY <5>1, <3>3
      <4>2. audit'[a][i + 1] = audit[a][i + 1]
        BY <1>7, <4>1
      <4>3. audit[a][i + 1].previousState = audit[a][i].newState
        BY <2>1, <4>1
      <4>4. QED
        BY <3>1, <4>2, <4>3
    <3>4. QED
      BY <3>2, <3>3
  <2>4. audit'[a][1] = audit[a][1]
    <3>1. 1 \in 1 .. n
      BY <1>4, <2>1
    <3>2. QED
      BY <1>7, <3>1
  <2>5. audit'[a][Len(audit'[a])].newState = rule.to
    BY <1>7
  <2>6. /\ app'[a].state # "ABSENT" /\ Len(audit'[a]) = app'[a].version + 1
        /\ audit'[a][Len(audit'[a])].newState = app'[a].state
    BY <1>7, <2>2, <2>5
  <2>7. \A i \in 1 .. app'[a].version :
          audit'[a][i + 1].previousState = audit'[a][i].newState
    BY <2>2, <2>3
  <2> HIDE DEF n, e, p
  <2>8. QED
    BY <2>1, <2>4, <2>6, <2>7 DEF Story
<1>9. ASSUME NEW i \in 1 .. n + 1 PROVE Authorised(audit'[a][i], p)
  <2>1. CASE i = n + 1
    BY <1>2, <1>3, <1>7, <2>1, RuleEntries DEF Authorised
  <2>2. CASE i # n + 1
    <3>1. i \in 1 .. n /\ audit'[a][i] = audit[a][i] /\ audit[a][i] \in AuditEntry
      BY <1>4, <1>7, <2>2
    <3>2. Authorised(audit[a][i], app[a]) /\ audit[a][i].actorId # NoUser
      BY <1>5, <1>7, <3>1, NoUserAssumption DEF RowTrail, AuditEntry
    <3>3. app[a].reviewerId # NoUser => p.reviewerId = app[a].reviewerId
      <4>1. rule.action = "START_REVIEW" => rule.from = "SUBMITTED" \/ rule.bond = "reviewer"
        BY DEF TRANSITIONS
      <4>2. QED
        BY <1>2, <1>3, <1>6, <4>1
    <3>4. QED
      BY <1>3, <1>6, <3>1, <3>2, <3>3 DEF Authorised
  <2>3. QED
    BY <2>1, <2>2
<1>10. ReviewerNotApprover(p)
  <2>1. rule.action \in Decisions => rule.action # "START_REVIEW"
    BY DEF Decisions
  <2>2. QED
    BY <1>2, <1>3, <1>6, <2>1 DEF ReviewerNotApprover
<1>11. RowTrail(a)'
  BY <1>1, <1>7, <1>8, <1>9, <1>10 DEF RowTrail
<1>12. \A b \in App \ {a} : RowTrail(b)'
  BY <1>1, SameRowSameTrail, TrailByRow
<1>13. TrailInv' <=> \A b \in App : RowTrail(b)'
  BY DEF TrailInv, AuditTellsTheStory, EveryEntryIsAuthorised, RowTrail, Story, Authorised
<1>14. QED
  BY <1>11, <1>12, <1>13

(* Every step keeps the trail invariant.                                   *)
LEMMA TrailStep ==
  ASSUME IInv, TrailInv, [Next]_vars
  PROVE  TrailInv'
<1>1. CASE UNCHANGED <<app, audit>>
  BY <1>1 DEF TrailInv, AuditTellsTheStory, EveryEntryIsAuthorised
<1>2. CASE ~UNCHANGED <<app, audit>>
  BY <1>2, StepsAreLegal, OpenKeepsTrail, MoveKeepsTrail
<1>3. QED
  BY <1>1, <1>2

(* The trail invariant holds always.                                       *)
LEMMA TrailAlways ==
  ASSUME ShownVersions
  PROVE  Spec => []TrailInv
<1>1. Init => TrailInv
  BY DEF Init, TrailInv, AuditTellsTheStory, EveryEntryIsAuthorised, NoRow,
     ReviewerNotApprover
<1>2. IInv /\ TrailInv /\ [Next]_vars => TrailInv'
  BY TrailStep
<1>3. QED
  BY <1>1, <1>2, Inductive, PTL DEF Spec

(* The trail of every application is complete and without gaps: one entry  *)
(* per version, each starting where the one before it ended.               *)
THEOREM TrailIsComplete ==
  ASSUME ShownVersions
  PROVE  Spec => []AuditTellsTheStory
<1>1. TrailInv => AuditTellsTheStory
  BY DEF TrailInv
<1>2. QED
  BY <1>1, TrailAlways, PTL

(* Every entry is by the owner, the reviewer or the approver the row names,*)
(* in the role the action needs.                                           *)
THEOREM EntriesAreAuthorised ==
  ASSUME ShownVersions
  PROVE  Spec => []EveryEntryIsAuthorised
<1>1. TrailInv => EveryEntryIsAuthorised
  BY DEF TrailInv
<1>2. QED
  BY <1>1, TrailAlways, PTL

(* Separation of duties over the whole history: whoever did a review step  *)
(* of an application never decides it.                                     *)
THEOREM ReviewersNeverDecide ==
  ASSUME ShownVersions
  PROVE  Spec => []ReviewerNeverDecides
<1>1. TypeOK /\ TrailInv => ReviewerNeverDecides
  <2> SUFFICES ASSUME TypeOK, TrailInv, NEW a \in App,
                      NEW i \in DOMAIN audit[a], NEW j \in DOMAIN audit[a],
                      audit[a][i].action \in {"REVIEW_STARTED", "INFO_REQUESTED"},
                      audit[a][j].action \in {"APPLICATION_APPROVED",
                                              "APPLICATION_REJECTED"}
               PROVE  audit[a][i].actorId # audit[a][j].actorId
    BY DEF ReviewerNeverDecides
  <2>1. audit[a][i] \in AuditEntry /\ audit[a][j] \in AuditEntry
    BY DEF TypeOK
  <2>2. /\ audit[a][i].actorId = app[a].reviewerId
        /\ audit[a][j].actorId = app[a].approverId
        /\ ReviewerNotApprover(app[a])
    BY DEF TrailInv, EveryEntryIsAuthorised
  <2>3. audit[a][i].actorId # NoUser /\ audit[a][j].actorId # NoUser
    BY <2>1, NoUserAssumption DEF AuditEntry
  <2>4. QED
    BY <2>2, <2>3 DEF ReviewerNotApprover
<1>2. QED
  BY <1>1, TypeCorrect, TrailAlways, PTL

--------------------------------------------------------------------------------
(* The refinement. *)

\* The values the refinement mapping gives the abstract variables.
MState == [a \in App |-> app[a].state]

MEntry(e) == [action |-> e.action, from |-> e.previousState, to |-> e.newState]

MTrail == [a \in App |-> [i \in DOMAIN audit[a] |-> MEntry(audit[a][i])]]

(* The mapped trail of an appended trail is the mapped trail, appended to. *)
LEMMA MapOfAppend ==
  ASSUME NEW s \in Seq(AuditEntry), NEW e \in AuditEntry
  PROVE  [i \in DOMAIN Append(s, e) |-> MEntry(Append(s, e)[i])]
           = Append([i \in DOMAIN s |-> MEntry(s[i])], MEntry(e))
<1> DEFINE m == [i \in DOMAIN s |-> MEntry(s[i])]
           t == [i \in DOMAIN Append(s, e) |-> MEntry(Append(s, e)[i])]
<1>1. /\ Len(s) \in Nat /\ DOMAIN s = 1 .. Len(s)
      /\ DOMAIN Append(s, e) = 1 .. Len(s) + 1
      /\ \A i \in 1 .. Len(s) : Append(s, e)[i] = s[i]
      /\ Append(s, e)[Len(s) + 1] = e
  BY AppendFacts
<1>2. m \in Seq({MEntry(x) : x \in AuditEntry}) /\ Len(m) = Len(s)
  <2>1. \A i \in 1 .. Len(s) : s[i] \in AuditEntry
    OBVIOUS
  <2>2. m \in [1 .. Len(s) -> {MEntry(x) : x \in AuditEntry}]
    BY <1>1, <2>1
  <2>3. QED
    BY <1>1, <2>2
<1>3. /\ Append(m, MEntry(e)) = [i \in 1 .. Len(m) + 1 |->
                                   IF i = Len(m) + 1 THEN MEntry(e) ELSE m[i]]
  BY <1>2
<1>4. t = [i \in 1 .. Len(s) + 1 |-> IF i = Len(s) + 1 THEN MEntry(e) ELSE m[i]]
  BY <1>1
<1>5. QED
  BY <1>2, <1>3, <1>4

(* A trail that grows by one entry, seen through the mapping. *)
LEMMA MapOfGrowth ==
  ASSUME TypeOK, NEW a \in App, NEW e \in AuditEntry,
         audit' = [audit EXCEPT ![a] = Append(@, e)]
  PROVE  MTrail' = [MTrail EXCEPT ![a] = Append(@, MEntry(e))]
<1>1. audit[a] \in Seq(AuditEntry) /\ DOMAIN audit = App
  BY DEF TypeOK
<1>2. audit'[a] = Append(audit[a], e) /\ \A b \in App \ {a} : audit'[b] = audit[b]
  BY <1>1
<1>3. MTrail'[a] = Append(MTrail[a], MEntry(e))
  BY <1>1, <1>2, MapOfAppend DEF MTrail
<1>4. ASSUME NEW b \in App \ {a} PROVE MTrail'[b] = MTrail[b]
  BY <1>2 DEF MTrail
<1>5. /\ MTrail' = [b \in App |-> MTrail'[b]]
      /\ MTrail = [b \in App |-> MTrail[b]]
  BY DEF MTrail
<1>6. [MTrail EXCEPT ![a] = Append(@, MEntry(e))] =
        [b \in App |-> IF b = a THEN Append(MTrail[a], MEntry(e)) ELSE MTrail[b]]
  BY <1>5
<1>7. \A b \in App :
        MTrail'[b] = IF b = a THEN Append(MTrail[a], MEntry(e)) ELSE MTrail[b]
  BY <1>3, <1>4
<1>8. QED
  BY <1>5, <1>6, <1>7

(* A change of one row is a change of one state of the machine.            *)
LEMMA MapOfRow ==
  ASSUME TypeOK, NEW a \in App, NEW row,
         app' = [app EXCEPT ![a] = row]
  PROVE  MState' = [MState EXCEPT ![a] = row.state]
  BY DEF MState, TypeOK

(* A creation is the machine's Open, a transition its Move. *)
LEMMA OpenMapped ==
  ASSUME TypeOK, NEW a \in App, NEW u \in User, LegalOpen(a, u)
  PROVE  Machine!Next
<1> DEFINE e == [action        |-> "APPLICATION_CREATED",
                 previousState |-> "ABSENT",
                 newState      |-> "DRAFT",
                 actorId       |-> u,
                 actorRole     |-> "APPLICANT"]
<1>1. e \in AuditEntry /\ audit' = [audit EXCEPT ![a] = Append(@, e)]
  BY DEF LegalOpen, AuditEntry, AuditAction, ApplicationState, UserRole
<1>2. MTrail' = [MTrail EXCEPT ![a] = Append(@, MEntry(e))]
  BY <1>1, MapOfGrowth
<1>3. MState' = [MState EXCEPT ![a] = NewRow(u).state]
  BY MapOfRow DEF LegalOpen
<1>4. MState[a] = "ABSENT"
  BY DEF MState, LegalOpen, NoRow
<1>5. MEntry(e) = [action |-> "APPLICATION_CREATED", from |-> "ABSENT", to |-> "DRAFT"]
  BY DEF MEntry
<1>6. NewRow(u).state = "DRAFT"
  BY DEF NewRow
<1>7. Machine!Open(a)
  BY <1>2, <1>3, <1>4, <1>5, <1>6 DEF Machine!Open, MState, MTrail, MEntry
<1>8. QED
  BY <1>7 DEF Machine!Next

(* A transition is the machine's Move.                                     *)
LEMMA MoveMapped ==
  ASSUME TypeOK, NEW a \in App, NEW u \in User, NEW rule \in TRANSITIONS,
         NEW ro \in UserRole, LegalMove(a, rule, u, ro)
  PROVE  Machine!Next
<1> DEFINE e == [action        |-> MapToAuditAction[rule.action],
                 previousState |-> rule.from,
                 newState      |-> rule.to,
                 actorId       |-> u,
                 actorRole     |-> ro]
<1>1. e \in AuditEntry /\ audit' = [audit EXCEPT ![a] = Append(@, e)]
  BY RuleTypes, RuleEntries DEF LegalMove, AuditEntry
<1>2. MTrail' = [MTrail EXCEPT ![a] = Append(@, MEntry(e))]
  BY <1>1, MapOfGrowth
<1>3. MState' = [MState EXCEPT ![a] = rule.to]
  <2>1. ComputePatch(app[a], rule.action, rule.to, u).state = rule.to
    BY DEF ComputePatch
  <2>2. QED
    BY <2>1, MapOfRow DEF LegalMove
<1>4. MState[a] = rule.from
  BY DEF MState, LegalMove, Permitted
<1>5. MEntry(e) = [action |-> MapToAuditAction[rule.action],
                   from |-> rule.from, to |-> rule.to]
  BY DEF MEntry
<1>6. Machine!Move(a, rule)
  BY <1>2, <1>3, <1>4, <1>5 DEF Machine!Move, MState, MTrail, MEntry
<1>7. QED
  BY <1>6 DEF Machine!Next

(* The requests, however they interleave, fail or are lost, implement the  *)
(* machine in which a move and its entry in the trail are one step.        *)
THEOREM Refinement ==
  ASSUME ShownVersions
  PROVE  Spec => ImplementsMachine
<1>1. Init => Machine!Init
  BY DEF Init, Machine!Init, NoRow
<1>2. IInv /\ [Next]_vars => [Machine!Next]_(Machine!vars)
  <2> SUFFICES ASSUME IInv, [Next]_vars PROVE [Machine!Next]_(Machine!vars)
    OBVIOUS
  <2>1. CASE UNCHANGED <<app, audit>>
    BY <2>1 DEF Machine!vars
  <2>2. CASE ~UNCHANGED <<app, audit>>
    BY <2>2, StepsAreLegal, OpenMapped, MoveMapped DEF IInv, CoreInv
  <2>3. QED
    BY <2>1, <2>2
<1>3. QED
  BY <1>1, <1>2, Inductive, PTL DEF Spec, ImplementsMachine, Machine!Spec

--------------------------------------------------------------------------------
(***************************************************************************)
(* The truth of the refusals: what "modified by someone else" and "not     *)
(* allowed" say of an application stays true as long as the client may     *)
(* look at the answer.  The proof needs the history of the versions, which *)
(* is the trail: the entry a version led to is the one two places further  *)
(* on.                                                                     *)
(***************************************************************************)

\* What an entry of the trail has left behind in the state.
Past(a) ==
  \A i \in DOMAIN audit[a] :
    /\ audit[a][i].action = "APPLICATION_SUBMITTED" => app[a].state # "DRAFT"
    /\ audit[a][i].action = "REVIEW_STARTED" => app[a].state \notin {"DRAFT", "SUBMITTED"}
    /\ audit[a][i].action \in {"APPLICATION_APPROVED", "APPLICATION_REJECTED"}
         => app[a].state \in TERMINAL_STATES

\* Nothing in the table lets the caller do to the row what he asked for.
NoRuleFor(c, row) ==
  \A rule \in TRANSITIONS :
    rule.action = c.action => ~Permitted(rule, c.user, c.role, row)

\* A call the table has refused, on this row and trail or on earlier ones.
RightlyRefused(c, row, trail) ==
  /\ row.state # "ABSENT" /\ ~DoneIn(trail, c)
  /\ c.version <= row.version
  /\ row.version = c.version => NoRuleFor(c, row)

(***************************************************************************)
(* The inductive invariant of the answers.  A call that was refused as     *)
(* forbidden either had the version the row is still at, and then the      *)
(* caller may not do it now; or the row is past that version, and then the *)
(* entry that took it there is not the caller's.                           *)
(***************************************************************************)
Told(r) ==
  LET c == call[r] IN
  /\ phase[r] = "CONCURRENT_MODIFICATION" => c.version < app[c.id].version
  /\ phase[r] = "FORBIDDEN" =>
       c.action \in WorkflowAction /\ RightlyRefused(c, app[c.id], audit[c.id])

AnswerInv ==
  /\ \A a \in App : Past(a)
  /\ \A r \in Request : Told(r)

--------------------------------------------------------------------------------
(* How the rows and trails move: not at all, by a creation, or by a rule   *)
(* that was permitted on the row.                                          *)
LEMMA RowMoves ==
  ASSUME IInv, TrailInv, [Next]_vars, NEW a \in App
  PROVE  \/ app'[a] = app[a] /\ audit'[a] = audit[a]
         \/ /\ app[a] = NoRow /\ audit[a] = << >>
            /\ app'[a].state = "DRAFT" /\ app'[a].version = 0
            /\ \E e \in AuditEntry :
                 audit'[a] = Append(audit[a], e) /\ e.action = "APPLICATION_CREATED"
         \/ \E rule \in TRANSITIONS, u \in User, ro \in UserRole :
              /\ Permitted(rule, u, ro, app[a])
              /\ app'[a] = ComputePatch(app[a], rule.action, rule.to, u)
              /\ audit'[a] = Append(audit[a],
                               [action        |-> MapToAuditAction[rule.action],
                                previousState |-> rule.from,
                                newState      |-> rule.to,
                                actorId       |-> u,
                                actorRole     |-> ro])
<1>1. CASE UNCHANGED <<app, audit>>
  BY <1>1
<1>2. ASSUME NEW b \in App, NEW u \in User, LegalOpen(b, u), a = b
      PROVE  /\ app[a] = NoRow /\ audit[a] = << >>
             /\ app'[a].state = "DRAFT" /\ app'[a].version = 0
             /\ \E e \in AuditEntry :
                  audit'[a] = Append(audit[a], e) /\ e.action = "APPLICATION_CREATED"
  <2>1. app[a] = NoRow /\ app'[a] = NewRow(u)
    BY <1>2 DEF LegalOpen, IInv, CoreInv, TypeOK
  <2>2. audit[a] = << >>
    BY <2>1, TrailByRow DEF RowTrail, Story, NoRow
  <2>3. [action |-> "APPLICATION_CREATED", previousState |-> "ABSENT",
         newState |-> "DRAFT", actorId |-> u, actorRole |-> "APPLICANT"] \in AuditEntry
    BY DEF AuditEntry, AuditAction, ApplicationState, UserRole
  <2>4. audit'[a] = Append(audit[a],
          [action |-> "APPLICATION_CREATED", previousState |-> "ABSENT",
           newState |-> "DRAFT", actorId |-> u, actorRole |-> "APPLICANT"])
    BY <1>2 DEF LegalOpen, IInv, CoreInv, TypeOK
  <2>5. QED
    BY <2>1, <2>2, <2>3, <2>4 DEF NewRow
<1>3. ASSUME NEW b \in App, NEW u \in User, NEW rule \in TRANSITIONS, NEW ro \in UserRole,
             LegalMove(b, rule, u, ro), a = b
      PROVE  /\ Permitted(rule, u, ro, app[a])
             /\ app'[a] = ComputePatch(app[a], rule.action, rule.to, u)
             /\ audit'[a] = Append(audit[a],
                              [action        |-> MapToAuditAction[rule.action],
                               previousState |-> rule.from,
                               newState      |-> rule.to,
                               actorId       |-> u,
                               actorRole     |-> ro])
  BY <1>3 DEF LegalMove, IInv, CoreInv, TypeOK
<1>4. ASSUME NEW b \in App, NEW u \in User, a # b,
             \/ LegalOpen(b, u)
             \/ \E rule \in TRANSITIONS, ro \in UserRole : LegalMove(b, rule, u, ro)
      PROVE  app'[a] = app[a] /\ audit'[a] = audit[a]
  BY <1>4 DEF LegalOpen, LegalMove, IInv, CoreInv, TypeOK
<1>5. QED
  BY <1>1, <1>2, <1>3, <1>4, StepsAreLegal

(* What the table says of the way back: there is none.                     *)
LEMMA NoWayBack ==
  ASSUME NEW rule \in TRANSITIONS
  PROVE  LET n == MapToAuditAction[rule.action] IN
         /\ rule.to # "DRAFT"
         /\ rule.to = "SUBMITTED" => rule.from = "DRAFT" /\ n # "REVIEW_STARTED"
         /\ n \in {"APPLICATION_APPROVED", "APPLICATION_REJECTED"}
              => rule.to \in TERMINAL_STATES
  BY DEF TRANSITIONS, MapToAuditAction, WorkflowAction, TERMINAL_STATES

(* What the trail has left behind stays behind.                            *)
LEMMA PastKept ==
  ASSUME IInv, TrailInv, [Next]_vars, NEW a \in App, Past(a)
  PROVE  Past(a)'
<1>1. CASE app'[a] = app[a] /\ audit'[a] = audit[a]
  BY <1>1 DEF Past
<1>2. ASSUME NEW e \in AuditEntry, audit[a] = << >>, audit'[a] = Append(audit[a], e),
             e.action = "APPLICATION_CREATED"
      PROVE  Past(a)'
  <2>1. audit'[a] = <<e>>
    BY <1>2
  <2>2. QED
    BY <1>2, <2>1 DEF Past
<1>3. ASSUME NEW rule \in TRANSITIONS, NEW u \in User, NEW ro \in UserRole,
             Permitted(rule, u, ro, app[a]),
             app'[a] = ComputePatch(app[a], rule.action, rule.to, u),
             audit'[a] = Append(audit[a],
                           [action        |-> MapToAuditAction[rule.action],
                            previousState |-> rule.from,
                            newState      |-> rule.to,
                            actorId       |-> u,
                            actorRole     |-> ro])
      PROVE  Past(a)'
  <2> DEFINE e == [action |-> MapToAuditAction[rule.action], previousState |-> rule.from,
                   newState |-> rule.to, actorId |-> u, actorRole |-> ro]
  <2>1. e \in AuditEntry /\ audit[a] \in Seq(AuditEntry)
    BY RuleTypes, RuleEntries DEF AuditEntry, IInv, CoreInv, TypeOK
  <2>2. app[a].state = rule.from /\ app'[a].state = rule.to
    BY <1>3 DEF Permitted, ComputePatch
  <2>3. e.action = MapToAuditAction[rule.action]
    OBVIOUS
  <2> HIDE DEF e
  <2>4. ASSUME NEW i \in DOMAIN audit'[a]
        PROVE  \/ i \in DOMAIN audit[a] /\ audit'[a][i] = audit[a][i]
               \/ audit'[a][i] = e
    BY <1>3, <2>1, AppendFacts DEF e
  <2>5. QED
    BY <2>2, <2>3, <2>4, NoWayBack, RuleTypes DEF Past
<1>4. QED
  BY <1>1, <1>2, <1>3, RowMoves

(* The names of the actions in the log are different ones.                 *)
LEMMA NamesDiffer ==
  ASSUME NEW x \in WorkflowAction, NEW y \in WorkflowAction,
         MapToAuditAction[x] = MapToAuditAction[y]
  PROVE  x = y
  BY DEF MapToAuditAction, WorkflowAction

(* What was refused stays refused: somebody else's step takes the row past *)
(* the version of the call, and the entry it writes is not the caller's.   *)
LEMMA RefusalStays ==
  ASSUME IInv, TrailInv, [Next]_vars, NEW c \in Call, c.action \in WorkflowAction,
         RightlyRefused(c, app[c.id], audit[c.id])
  PROVE  RightlyRefused(c, app'[c.id], audit'[c.id])
<1> DEFINE a == c.id
<1>1. a \in App /\ c.version \in Nat
  BY DEF Call
<1>2. CASE app'[a] = app[a] /\ audit'[a] = audit[a]
  BY <1>2
<1>3. ASSUME NEW rule \in TRANSITIONS, NEW u \in User, NEW ro \in UserRole,
             Permitted(rule, u, ro, app[a]),
             app'[a] = ComputePatch(app[a], rule.action, rule.to, u),
             audit'[a] = Append(audit[a],
                           [action        |-> MapToAuditAction[rule.action],
                            previousState |-> rule.from,
                            newState      |-> rule.to,
                            actorId       |-> u,
                            actorRole     |-> ro])
      PROVE  RightlyRefused(c, app'[a], audit'[a])
  <2> DEFINE e == [action |-> MapToAuditAction[rule.action], previousState |-> rule.from,
                   newState |-> rule.to, actorId |-> u, actorRole |-> ro]
             n == Len(audit[a])
  <2>1. e \in AuditEntry /\ audit[a] \in Seq(AuditEntry) /\ app[a].version \in Nat
    BY <1>1, RuleTypes, RuleEntries DEF AuditEntry, IInv, CoreInv, TypeOK, Row
  <2>2. /\ DOMAIN audit[a] = 1 .. n /\ DOMAIN audit'[a] = 1 .. n + 1
        /\ \A i \in 1 .. n : audit'[a][i] = audit[a][i]
        /\ audit'[a][n + 1] = e
    BY <1>3, <2>1, AppendFacts
  <2>3. n = app[a].version + 1
    BY <1>1, TrailByRow DEF RightlyRefused, RowTrail, Story
  <2>4. app'[a].version = app[a].version + 1 /\ app'[a].state # "ABSENT"
    BY <1>3, RuleTypes DEF ComputePatch, ApplicationState
  <2>5. ~DoneIn(audit'[a], c)
    <3>1. CASE app[a].version = c.version
      <4>1. c.version + 2 = n + 1
        BY <1>1, <2>1, <2>3, <3>1
      <4>2. ASSUME DoneIn(audit'[a], c) PROVE FALSE
        <5>1. MapToAuditAction[rule.action] = MapToAuditAction[c.action]
              /\ u = c.user /\ ro = c.role
          BY <2>2, <4>1, <4>2 DEF DoneIn
        <5>2. rule.action = c.action
          BY <5>1, NamesDiffer, RuleTypes
        <5>3. NoRuleFor(c, app[a])
          BY <3>1 DEF RightlyRefused
        <5>4. QED
          BY <1>3, <5>1, <5>2, <5>3 DEF NoRuleFor
      <4>3. QED
        BY <4>2
    <3>2. CASE app[a].version # c.version
      <4>1. c.version + 2 \in 1 .. n
        <5>1. c.version <= app[a].version
          BY DEF RightlyRefused
        <5> HIDE DEF n, a
        <5>2. QED
          BY <1>1, <2>1, <2>3, <3>2, <5>1
      <4>2. ~DoneIn(audit[a], c)
        BY DEF RightlyRefused
      <4>3. QED
        BY <2>2, <4>1, <4>2 DEF DoneIn
    <3>3. QED
      BY <3>1, <3>2
  <2>6. c.version < app'[a].version
    BY <1>1, <2>1, <2>4 DEF RightlyRefused
  <2>7. QED
    BY <1>1, <2>1, <2>4, <2>5, <2>6 DEF RightlyRefused
<1>4. app[a] # NoRow
  BY DEF RightlyRefused, NoRow
<1>5. QED
  BY <1>1, <1>2, <1>3, <1>4, RowMoves

--------------------------------------------------------------------------------
(* A request that does not move keeps what it was told.                    *)
LEMMA ToldStays ==
  ASSUME IInv, TrailInv, [Next]_vars, NEW q \in Request, Told(q),
         phase'[q] = phase[q], call'[q] = call[q]
  PROVE  Told(q)'
<1>1. CASE phase[q] = "CONCURRENT_MODIFICATION"
  <2>1. call[q].id \in App /\ call[q].version \in Nat
    BY <1>1, Phases DEF IInv, CoreInv, TypeOK, RequestOK, Call
  <2>2. call[q].version < app'[call[q].id].version
    BY <1>1, <2>1, TrailsGrow DEF Told, IInv
  <2>3. QED
    BY <1>1, <2>2 DEF Told
<1>2. CASE phase[q] = "FORBIDDEN"
  <2>1. call[q] \in Call
    BY <1>2, Phases DEF IInv, CoreInv, TypeOK, RequestOK
  <2>2. RightlyRefused(call[q], app'[call[q].id], audit'[call[q].id])
    BY <1>2, <2>1, RefusalStays DEF Told
  <2>3. QED
    BY <1>2, <2>2 DEF Told
<1>3. QED
  BY <1>1, <1>2 DEF Told

(* A conflict is heard from an update that matched nothing.                *)
LEMMA ConflictIsAnUpdate ==
  ASSUME TypeOK, NEW r \in Request, Step(r), phase'[r] = "CONCURRENT_MODIFICATION"
  PROVE  Update(r) /\ ~VersionMatches(r)
  BY Phases DEF Step, Serve, BeginCreate, BeginTransition, Admit, Create, Resolve, Refuse,
     Update, RecordAudit, Commit, Abort, Recycle, Drop, Finish, TypeOK

(* 403 is heard when there are rules for the state, none of which lets the *)
(* caller act.                                                             *)
LEMMA ForbiddenIsARefusal ==
  ASSUME TypeOK, NEW r \in Request, Step(r), phase'[r] = "FORBIDDEN"
  PROVE  /\ Refuse(r)
         /\ RulesFor(Loaded(r).state, call[r].action) # {}
         /\ \A rule \in RulesFor(Loaded(r).state, call[r].action) :
              ~Permitted(rule, call[r].user, call[r].role, Loaded(r))
  BY Phases DEF Step, Serve, BeginCreate, BeginTransition, Admit, Create, Resolve, Refuse,
     Update, RecordAudit, Commit, Abort, Recycle, Drop, Finish, TypeOK

(* Who did the action at its version may do it again now or the state has  *)
(* no rule for it: the table never forbids a repetition.                   *)
LEMMA RepetitionIsNotForbidden ==
  ASSUME IInv, TrailInv, NEW c \in Call, Past(c.id), DoneIn(audit[c.id], c),
         NEW rule \in RulesFor(app[c.id].state, c.action)
  PROVE  Permitted(rule, c.user, c.role, app[c.id])
<1> DEFINE a == c.id
           row == app[a]
           e == audit[a][c.version + 2]
<1>1. a \in App /\ rule \in TRANSITIONS /\ rule.from = row.state
      /\ rule.action = c.action
  BY DEF Call, RulesFor
<1>2. /\ c.version + 2 \in DOMAIN audit[a]
      /\ e.action = MapToAuditAction[rule.action] /\ e.actorId = c.user
      /\ e.actorRole = c.role
  BY <1>1 DEF DoneIn
<1>3. Authorised(e, row)
  BY <1>1, <1>2, TrailByRow DEF RowTrail
<1>4. /\ e.action = "APPLICATION_SUBMITTED" => row.state # "DRAFT"
      /\ e.action = "REVIEW_STARTED" => row.state \notin {"DRAFT", "SUBMITTED"}
      /\ e.action \in {"APPLICATION_APPROVED", "APPLICATION_REJECTED"}
           => row.state \in TERMINAL_STATES
  BY <1>2 DEF Past
<1> HIDE DEF a, row, e
<1>5. /\ rule.action = "SUBMIT" => rule.from = "DRAFT"
      /\ rule.action = "START_REVIEW" /\ rule.from # "SUBMITTED" => rule.role = "REVIEWER"
      /\ rule.action = "REQUEST_INFO" => rule.role = "REVIEWER"
      /\ rule.action = "RESUBMIT" => rule.role = "APPLICANT"
      /\ rule.bond = "applicant" => rule.action \in {"SUBMIT", "RESUBMIT"}
      /\ rule.bond = "reviewer" => rule.action \in {"START_REVIEW", "REQUEST_INFO"}
  BY <1>1 DEF TRANSITIONS
<1>6. /\ rule.action \in WorkflowAction
      /\ rule.from \notin TERMINAL_STATES
  BY <1>1, RuleTypes
<1>7. /\ rule.action = "SUBMIT" => e.action = "APPLICATION_SUBMITTED"
      /\ rule.action = "START_REVIEW" => e.action = "REVIEW_STARTED"
      /\ rule.action = "REQUEST_INFO" => e.action = "INFO_REQUESTED"
      /\ rule.action = "RESUBMIT" => e.action = "APPLICATION_RESUBMITTED"
      /\ rule.action = "APPROVE" => e.action = "APPLICATION_APPROVED"
      /\ rule.action = "REJECT" => e.action = "APPLICATION_REJECTED"
  BY <1>2, <1>6 DEF MapToAuditAction
<1>8. rule.action \in {"START_REVIEW", "REQUEST_INFO", "RESUBMIT"}
  BY <1>1, <1>4, <1>5, <1>6, <1>7 DEF WorkflowAction
<1>9. /\ c.role = rule.role
      /\ rule.bond = "applicant" => row.applicantId = c.user
      /\ rule.bond = "reviewer" => row.reviewerId = c.user
  BY <1>1, <1>2, <1>3, <1>4, <1>5, <1>7, <1>8 DEF Authorised
<1>10. rule.action \notin Decisions
  BY <1>8 DEF Decisions
<1>11. Permitted(rule, c.user, c.role, row)
  BY <1>1, <1>9, <1>10 DEF Permitted, CanAct, ActorContext, SamePersonDecides
<1>12. QED
  BY <1>11 DEF row, a

(* What 403 says is true when it is said.                                  *)
LEMMA RefusalIsTold ==
  ASSUME IInv, TrailInv, NEW r \in Request, Step(r), phase'[r] = "FORBIDDEN",
         \A a \in App : Past(a)
  PROVE  Told(r)'
<1> DEFINE c == call[r]
<1>1. /\ Loading(r) /\ UNCHANGED <<app, audit, call>>
      /\ RulesFor(app[c.id].state, c.action) # {}
      /\ \A rule \in RulesFor(app[c.id].state, c.action) :
           ~Permitted(rule, c.user, c.role, app[c.id])
  BY ForbiddenIsARefusal DEF IInv, CoreInv, Refuse, Loaded
<1>2. c \in Call /\ c.action \in WorkflowAction /\ c.id \in App
  BY <1>1, Phases DEF IInv, CoreInv, TypeOK, RequestOK, Loading, Call
<1>3. c.version <= app[c.id].version
  BY <1>1, Phases DEF Loading, IInv, NotAhead
<1>4. NoRuleFor(c, app[c.id])
  BY <1>1 DEF NoRuleFor, RulesFor, Permitted
<1>5. ~DoneIn(audit[c.id], c)
  BY <1>1, <1>2, RepetitionIsNotForbidden
<1>6. app[c.id].state # "ABSENT"
  BY <1>1, RuleTypes DEF RulesFor, ApplicationState
<1>7. RightlyRefused(c, app[c.id], audit[c.id])
  BY <1>3, <1>4, <1>5, <1>6 DEF RightlyRefused
<1>8. c' = c /\ app' = app /\ audit' = audit
  BY <1>1
<1>9. QED
  BY <1>2, <1>7, <1>8 DEF Told

(* The request that moves is told the truth.                               *)
LEMMA MoverIsTold ==
  ASSUME IInv, TrailInv, NEW r \in Request, Step(r), \A a \in App : Past(a)
  PROVE  Told(r)'
<1>1. ASSUME phase'[r] = "CONCURRENT_MODIFICATION"
      PROVE  Told(r)'
  <2>1. Update(r) /\ ~VersionMatches(r)
    BY <1>1, ConflictIsAnUpdate DEF IInv, CoreInv
  <2>2. phase[r] \in InTransaction /\ UNCHANGED <<app, audit, call>>
    BY <2>1, Phases DEF Update
  <2>3. call[r] \in Call /\ call[r].version <= app[call[r].id].version
    BY <2>2, Phases DEF IInv, CoreInv, TypeOK, RequestOK, NotAhead
  <2>4. call[r].version < app[call[r].id].version
    BY <2>1, <2>3 DEF VersionMatches, Call, IInv, CoreInv, TypeOK, Row
  <2>5. QED
    BY <1>1, <2>2, <2>4 DEF Told
<1>2. QED
  BY <1>1, RefusalIsTold DEF Told

(* Every step keeps what the answers say true.                             *)
LEMMA AnswerStep ==
  ASSUME IInv, TrailInv, AnswerInv, [Next]_vars
  PROVE  AnswerInv'
<1>1. \A a \in App : Past(a)'
  BY PastKept DEF AnswerInv
<1>2. CASE UNCHANGED <<phase, call>>
  <2>1. \A q \in Request : Told(q)'
    BY <1>2, ToldStays DEF AnswerInv
  <2>2. QED
    BY <1>1, <2>1 DEF AnswerInv
<1>3. ASSUME NEW r \in Request, Step(r)
      PROVE  AnswerInv'
  <2>1. \A q \in Request \ {r} : Told(q)'
    BY <1>3, OthersStand, ToldStays DEF AnswerInv, IInv, CoreInv
  <2>2. Told(r)'
    BY <1>3, MoverIsTold DEF AnswerInv
  <2>3. QED
    BY <1>1, <2>1, <2>2 DEF AnswerInv
<1>4. QED
  BY <1>2, <1>3 DEF Next, ChangeRole, vars

(* What the answers say is always true.                                    *)
LEMMA AnswersAlways ==
  ASSUME ShownVersions
  PROVE  Spec => []AnswerInv
<1>1. Init => AnswerInv
  BY DEF Init, AnswerInv, Past, Told
<1>2. IInv /\ TrailInv /\ AnswerInv /\ [Next]_vars => AnswerInv'
  BY AnswerStep
<1>3. QED
  BY <1>1, <1>2, Inductive, TrailAlways, PTL DEF Spec

--------------------------------------------------------------------------------
(* The row really was modified when somebody is told that it was, so a     *)
(* reload shows him something new.                                         *)
THEOREM ConflictsAreReal ==
  ASSUME ShownVersions
  PROVE  Spec => []ConflictIsReal
<1>1. IInv /\ AnswerInv => ConflictIsReal
  <2> SUFFICES ASSUME IInv, AnswerInv, NEW r \in Request,
                      phase[r] = "CONCURRENT_MODIFICATION"
               PROVE  app[call[r].id].version > call[r].version
    BY DEF ConflictIsReal
  <2>1. call[r].version < app[call[r].id].version
    BY DEF AnswerInv, Told
  <2>2. call[r] \in Call
    BY Phases DEF IInv, CoreInv, TypeOK, RequestOK
  <2>3. QED
    BY <2>1, <2>2 DEF Call, IInv, CoreInv, TypeOK, Row
<1>2. QED
  BY <1>1, AnswersAlways, Inductive, PTL

(* A call that was carried out and is sent again is never refused as       *)
(* forbidden, also not when its first answer was lost or the row has       *)
(* changed since.                                                          *)
THEOREM RetriesAreNotForbidden ==
  ASSUME ShownVersions
  PROVE  Spec => []RetryIsNotForbidden
<1>1. AnswerInv => RetryIsNotForbidden
  BY DEF AnswerInv, Told, RightlyRefused, RetryIsNotForbidden, Done, DoneIn
<1>2. QED
  BY <1>1, AnswersAlways, PTL

===============================================================================
