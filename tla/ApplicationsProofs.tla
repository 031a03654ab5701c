--------------------------- MODULE ApplicationsProofs ---------------------------
(***************************************************************************)
(* Proofs about the applications beside the workflow: edits of a draft     *)
(* leave the workflow as it is, so that everything proved of it still      *)
(* holds; and what people see and are offered fits what they may do.  Only *)
(* two theorems need clients that send no version they were not shown.     *)
(***************************************************************************)
EXTENDS Applications, TrailProofs

(* The edits of drafts never move a row, a trail or a request: the system  *)
(* with them is still the workflow, and every theorem about it applies.    *)
THEOREM EditsLeaveTheWorkflow == ASpec => Spec
<1>1. AInit => Init
  BY DEF AInit
<1>2. [ANext]_allVars => [Next]_vars
  BY DEF ANext, allVars, vars, BeginEdit, ServeEdit, CheckEdit, WriteEdit, EndEdit
<1>3. QED
  BY <1>1, <1>2, PTL DEF ASpec, Spec

(* The separation of duties, in the presence of edits, where clients send  *)
(* only versions they were shown.                                          *)
THEOREM ReviewersNeverDecideBesideEdits ==
  ASSUME ShownVersions
  PROVE  ASpec => []ReviewerNeverDecides
  BY EditsLeaveTheWorkflow, ReviewersNeverDecide, PTL

(* The owner and the reviewer of a row stay, in the presence of edits,     *)
(* where clients send only versions they were shown.                       *)
THEOREM ReviewersKeepTheirCasesBesideEdits ==
  ASSUME ShownVersions
  PROVE  ASpec => ReviewerKeepsTheApplication
  BY EditsLeaveTheWorkflow, ReviewersKeepTheirCases, PTL

--------------------------------------------------------------------------------
(* The owner of a row is who created it, whatever versions are sent.       *)
LEMMA OwnerStays ==
  ASSUME CoreInv, [Next]_vars, NEW a \in App, app[a].state # "ABSENT"
  PROVE  app'[a].state # "ABSENT" /\ app'[a].applicantId = app[a].applicantId
<1>1. app[a] # NoRow
  BY DEF NoRow
<1>2. QED
  BY <1>1, RowsGrow

\* The inductive invariant of the edits.
EditStage == EditAnswer \cup {"received", "checked"}

OwnEdit(s) ==
  edit[s].stage \in {"checked", "OK"} =>
    /\ app[edit[s].edit.id].state # "ABSENT"
    /\ app[edit[s].edit.id].applicantId = edit[s].edit.user

EditInv ==
  /\ content \in [App -> Content]
  /\ edit \in [Editor -> {NoEdit} \cup [stage : EditStage, edit : Edit]]
  /\ \A s \in Editor : OwnEdit(s)

(* The steps of the edits and the steps beside them keep it.               *)
LEMMA EditStep ==
  ASSUME CoreInv, EditInv, [ANext]_allVars
  PROVE  EditInv'
<1>1. [Next]_vars
  BY DEF ANext, allVars, vars, BeginEdit, ServeEdit, CheckEdit, WriteEdit, EndEdit
<1>2. CASE UNCHANGED <<content, edit>>
  <2>1. ASSUME NEW s \in Editor, edit[s].stage \in {"checked", "OK"}
        PROVE  OwnEdit(s)'
    <3>1. edit[s] \in [stage : EditStage, edit : Edit]
      BY <2>1 DEF EditInv, NoEdit
    <3>2. edit[s].edit.id \in App
      BY <3>1 DEF Edit
    <3>3. QED
      BY <1>1, <1>2, <2>1, <3>2, OwnerStays DEF EditInv, OwnEdit
  <2>2. QED
    BY <1>2, <2>1 DEF EditInv, OwnEdit
<1>3. ASSUME NEW s \in Editor, BeginEdit(s) \/ ServeEdit(s) \/ EndEdit(s)
      PROVE  EditInv'
  <2>1. app' = app /\ \A t \in Editor \ {s} : edit'[t] = edit[t]
    BY <1>3 DEF BeginEdit, ServeEdit, CheckEdit, WriteEdit, EndEdit, Put, vars, EditInv
  <2>2. \A t \in Editor \ {s} : OwnEdit(t)'
    BY <2>1 DEF EditInv, OwnEdit
  <2>3. CASE BeginEdit(s)
    BY <2>2, <2>3 DEF BeginEdit, Put, EditInv, OwnEdit, EditStage
  <2>4. CASE CheckEdit(s)
    <3>1. edit[s] \in [stage : EditStage, edit : Edit]
      BY <2>4 DEF CheckEdit, EditInv, NoEdit
    <3>2. Verdict(edit[s].edit) \in EditStage
      BY DEF Verdict, EditStage, EditAnswer
    <3>3. Verdict(edit[s].edit) \in {"checked", "OK"} =>
            /\ app[edit[s].edit.id] # NoRow
            /\ app[edit[s].edit.id].applicantId = edit[s].edit.user
      BY DEF Verdict, Visible
    <3>4. app[edit[s].edit.id] # NoRow => app[edit[s].edit.id].state # "ABSENT"
      BY <3>1 DEF CoreInv, AbsentInv, Edit
    <3>5. edit' = [edit EXCEPT ![s] = [stage |-> Verdict(edit[s].edit), edit |-> edit[s].edit]]
          /\ content' = content
      BY <2>4 DEF CheckEdit, Put
    <3>6. OwnEdit(s)'
      BY <2>1, <3>3, <3>4, <3>5 DEF OwnEdit, EditInv
    <3>7. edit' \in [Editor -> {NoEdit} \cup [stage : EditStage, edit : Edit]]
      BY <3>1, <3>2, <3>5 DEF EditInv
    <3>8. QED
      BY <2>2, <3>5, <3>6, <3>7 DEF EditInv
  <2>5. CASE WriteEdit(s)
    <3>1. edit[s] \in [stage : EditStage, edit : Edit]
      BY <2>5 DEF WriteEdit, EditInv, NoEdit
    <3>2. /\ content' = [content EXCEPT ![edit[s].edit.id] = edit[s].edit.new]
          /\ edit' = [edit EXCEPT ![s] = [stage |-> "OK", edit |-> edit[s].edit]]
          /\ edit[s].stage = "checked"
      BY <2>5 DEF WriteEdit, Put
    <3>3. content' \in [App -> Content]
      BY <3>1, <3>2 DEF Edit, EditInv
    <3>4. edit' \in [Editor -> {NoEdit} \cup [stage : EditStage, edit : Edit]]
      BY <3>1, <3>2 DEF EditInv, EditStage, EditAnswer
    <3>5. OwnEdit(s)'
      BY <2>1, <3>2 DEF OwnEdit, EditInv
    <3>6. QED
      BY <2>2, <3>3, <3>4, <3>5 DEF EditInv
  <2>6. CASE EndEdit(s)
    BY <2>2, <2>6 DEF EndEdit, EditInv, OwnEdit, NoEdit
  <2>7. QED
    BY <1>3, <2>3, <2>4, <2>5, <2>6 DEF ServeEdit
<1>4. QED
  BY <1>2, <1>3 DEF ANext, allVars

(* The invariant of the edits holds always.                                *)
LEMMA EditsAlways == ASpec => []EditInv
<1>1. AInit => EditInv
  BY DEF AInit, EditInv, OwnEdit, NoEdit
<1>2. CoreInv /\ EditInv /\ [ANext]_allVars => EditInv'
  BY EditStep
<1>3. QED
  BY <1>1, <1>2, CoreInductive, EditsLeaveTheWorkflow, PTL DEF ASpec

(* Types of the edits, and that an edit that may write is its owner's,     *)
(* whatever happened to the row since it was checked.                      *)
THEOREM EditsAreTyped == ASpec => []ATypeOK
<1>1. EditInv => ATypeOK
  BY DEF EditInv, OwnEdit, ATypeOK, EditStage
<1>2. QED
  BY <1>1, EditsAlways, PTL

\* A change of the content is an edit of the owner that was let through.
OwnerWrites ==
  \A a \in App : content'[a] # content[a] =>
    \E s \in Editor : /\ edit[s].stage = "checked" /\ edit[s].edit.id = a
                      /\ edit[s].edit.user = app[a].applicantId
                      /\ content'[a] = edit[s].edit.new

(* Nobody but the owner of an application ever writes its content, also    *)
(* while transitions of the row are under way (update() in the service).   *)
THEOREM OnlyTheOwnerWrites == ASpec => [][OwnerWrites]_allVars
<1>1. EditInv /\ [ANext]_allVars => [OwnerWrites]_allVars
  <2> SUFFICES ASSUME EditInv, [ANext]_allVars, NEW a \in App, content'[a] # content[a]
               PROVE  \E s \in Editor :
                        /\ edit[s].stage = "checked" /\ edit[s].edit.id = a
                        /\ edit[s].edit.user = app[a].applicantId
                        /\ content'[a] = edit[s].edit.new
    BY DEF OwnerWrites
  <2>1. PICK s \in Editor : WriteEdit(s)
    BY DEF ANext, allVars, BeginEdit, ServeEdit, CheckEdit, EndEdit
  <2>2. edit[s].stage = "checked"
        /\ content' = [content EXCEPT ![edit[s].edit.id] = edit[s].edit.new]
    BY <2>1 DEF WriteEdit
  <2>3. edit[s].edit.id = a /\ content'[a] = edit[s].edit.new
    BY <2>2 DEF EditInv
  <2>4. QED
    BY <2>2, <2>3 DEF EditInv, OwnEdit
<1>2. QED
  BY <1>1, EditsAlways, PTL DEF ASpec

--------------------------------------------------------------------------------
(* What the table has to do with the filter and the buttons.               *)

(* Whoever a rule is for can see the row it starts from.                   *)
LEMMA PermittedIsVisible ==
  ASSUME NEW row, NEW u \in User, NEW ro, NEW rule \in TRANSITIONS,
         Permitted(rule, u, ro, row)
  PROVE  Visible(row, u, ro)
<1>1. /\ row.state = rule.from /\ ro = rule.role
      /\ rule.bond = "applicant" => row.applicantId = u
      /\ rule.bond = "reviewer" => row.reviewerId = u
  BY DEF Permitted, CanAct, ActorContext
<1>2. row # NoRow
  BY <1>1, RuleTypes DEF NoRow, ApplicationState
<1>3. \/ rule.role = "APPLICANT" /\ rule.bond = "applicant"
      \/ rule.role = "REVIEWER" /\ (rule.bond = "reviewer" \/ rule.from = "SUBMITTED")
      \/ rule.role = "APPROVER" /\ rule.from = "UNDER_REVIEW"
  BY DEF TRANSITIONS
<1>4. QED
  BY <1>1, <1>2, <1>3 DEF Visible

(* The buttons are the actions the guards, the table and the service       *)
(* together let the user do, for any row.                                  *)
LEMMA ButtonsFit ==
  ASSUME NEW row, NEW u \in User, NEW ro
  PROVE  AvailableActions(row, u, ro) =
           {c \in WorkflowAction :
              /\ ro = RequiredRole[c]
              /\ \E rule \in RulesFor(row.state, c) : Permitted(rule, u, ro, row)}
<1>1. ASSUME NEW rule \in TRANSITIONS
      PROVE  Permitted(rule, u, ro, row) <=>
               /\ rule.from = row.state
               /\ CanAct(rule, ActorContext(u, ro, row))
               /\ ~(rule.action \in Decisions /\ row.reviewerId = u)
  BY DEF Permitted, SamePersonDecides
<1>2. AvailableActions(row, u, ro) =
        {rule.action : rule \in {rule \in TRANSITIONS : Permitted(rule, u, ro, row)}}
  BY <1>1 DEF AvailableActions
<1>3. ASSUME NEW rule \in TRANSITIONS, Permitted(rule, u, ro, row)
      PROVE  rule.action \in WorkflowAction /\ ro = RequiredRole[rule.action]
             /\ rule \in RulesFor(row.state, rule.action)
  BY <1>3, RuleTypes DEF Permitted, CanAct, ActorContext, RulesFor
<1>4. \A c : \A rule \in RulesFor(row.state, c) : rule \in TRANSITIONS /\ rule.action = c
  BY DEF RulesFor
<1>5. QED
  BY <1>2, <1>3, <1>4

(* The list of available actions is exact, for every row the workflow      *)
(* reaches, every user who sees it and every role.                         *)
THEOREM ButtonsFitTheGuards == ASpec => []ButtonsAreExact
<1>1. ButtonsAreExact
  BY ButtonsFit DEF ButtonsAreExact
<1>2. QED
  BY <1>1, PTL

(* The visibility filter hides no row from anybody a rule is for.          *)
THEOREM ActorsSeeTheirRows == ASpec => []WhoCanActCanSee
<1>1. WhoCanActCanSee
  BY PermittedIsVisible DEF WhoCanActCanSee
<1>2. QED
  BY <1>1, PTL
===============================================================================
