------------------------------ MODULE Applications ------------------------------
(***************************************************************************)
(* ApplicationsService beside the workflow: the applicant edits a draft    *)
(* while transitions of the same row are under way, and everybody looks at *)
(* the rows his role lets him see.                                         *)
(*                                                                         *)
(* An edit is two statements without a transaction around them: a read     *)
(* that checks the state, and an update by id.  The update waits for the   *)
(* row lock of a transition, and neither compares nor moves the version.   *)
(***************************************************************************)
EXTENDS WorkflowProperties, Views

CONSTANTS Content,   \* what may stand in institutionName and licenseType
          Editor     \* edit requests the server serves at the same time

VARIABLES content,   \* content[a]: the committed content of row a
          edit       \* edit[s]: the edit request in slot s

allVars == <<vars, content, edit>>

--------------------------------------------------------------------------------
Edit == [user : User, id : App, new : Content]

EditAnswer == {"OK", "NOT_FOUND", "FORBIDDEN", "IMMUTABLE_STATE"}

NoEdit == [stage |-> "idle"]

AInit == Init /\ content \in [App -> Content] /\ edit = [s \in Editor |-> NoEdit]

Put(s, stage, e) == edit' = [edit EXCEPT ![s] = [stage |-> stage, edit |-> e]]

\* PATCH /applications/:id by someone who is an applicant when he is let in.
BeginEdit(s) ==
  /\ edit[s] = NoEdit
  /\ \E e \in Edit : role[e.user] = "APPLICANT" /\ Put(s, "received", e)
  /\ UNCHANGED <<vars, content>>

\* Faulty forms: only the state is looked at; everything but the state is.
Verdict_StateOnly(e) ==
  IF app[e.id].state \notin {"ABSENT", "DRAFT"} THEN "IMMUTABLE_STATE"
  ELSE "checked"

Verdict_AnyState(e) ==
  IF ~Visible(app[e.id], e.user, "APPLICANT") THEN "NOT_FOUND"
  ELSE IF app[e.id].applicantId # e.user THEN "FORBIDDEN"
  ELSE "checked"

\* What update() makes of the row it reads.
Verdict(e) ==
  IF ~Visible(app[e.id], e.user, "APPLICANT") THEN "NOT_FOUND"
  ELSE IF app[e.id].applicantId # e.user THEN "FORBIDDEN"
  ELSE IF app[e.id].state # "DRAFT" THEN "IMMUTABLE_STATE"
  ELSE "checked"

CheckEdit(s) ==
  /\ edit[s].stage = "received"
  /\ Put(s, Verdict(edit[s].edit), edit[s].edit)
  /\ UNCHANGED <<vars, content>>

\* The UPDATE, by id alone, once no transaction holds the row.
WriteEdit(s) ==
  /\ edit[s].stage = "checked"
  /\ LET e == edit[s].edit IN
       /\ lock[e.id] = NoRequest
       /\ content' = [content EXCEPT ![e.id] = e.new]
       /\ Put(s, "OK", e)
  /\ UNCHANGED vars

\* The answer is on its way, or the process is gone: nothing is left of the edit.
EndEdit(s) ==
  /\ edit[s] # NoEdit
  /\ edit' = [edit EXCEPT ![s] = NoEdit]
  /\ UNCHANGED <<vars, content>>

ServeEdit(s) == CheckEdit(s) \/ WriteEdit(s)

\* A creation brings its content along: the one chosen at the start.
ANext ==
  \/ Next /\ UNCHANGED <<content, edit>>
  \/ \E s \in Editor : BeginEdit(s) \/ ServeEdit(s) \/ EndEdit(s)

ASpec == AInit /\ [][ANext]_allVars

(***************************************************************************)
(* As for the transitions: the server goes on with what it has, and an     *)
(* UPDATE that waits for a row lock is not passed over for ever.           *)
(***************************************************************************)
AFairSpec ==
  /\ ASpec
  /\ \A r \in Request : WF_allVars(Serve(r) /\ UNCHANGED <<content, edit>>)
                        /\ SF_allVars(Update(r) /\ UNCHANGED <<content, edit>>)
  /\ \A s \in Editor : WF_allVars(CheckEdit(s)) /\ SF_allVars(WriteEdit(s))

--------------------------------------------------------------------------------
(* Types of the edits; an edit that may write is its owner's.              *)
ATypeOK ==
  /\ content \in [App -> Content]
  /\ \A s \in Editor : edit[s] # NoEdit =>
       /\ edit[s].stage \in EditAnswer \cup {"received", "checked"}
       /\ edit[s].edit \in Edit
       /\ edit[s].stage \in {"checked", "OK"} =>
            app[edit[s].edit.id].applicantId = edit[s].edit.user

(* The portal draws a button exactly when the click would succeed: what    *)
(* available-actions offers to someone who sees the row is what the guards *)
(* of the endpoints, the table and the service let him do, for every       *)
(* reachable row, user and role.                                           *)
ButtonsAreExact ==
  \A a \in App, u \in User :
    Visible(app[a], u, role[u]) =>
      AvailableActions(app[a], u, role[u]) =
        {c \in WorkflowAction :
           /\ role[u] = RequiredRole[c]
           /\ \E rule \in RulesFor(app[a].state, c) : Permitted(rule, u, role[u], app[a])}

(* Whoever could act on an application can also find it: the filter of the *)
(* reads hides no row from someone the workflow waits for.                 *)
WhoCanActCanSee ==
  \A a \in App, u \in User :
    (\E rule \in TRANSITIONS : Permitted(rule, u, role[u], app[a]))
      => Visible(app[a], u, role[u])

(* The content of an application that has left the draft for good comes to *)
(* rest: edits that were checked before the submission may still land, but *)
(* only those.                                                             *)
ContentComesToRest ==
  \A a \in App :
    \/ []<>(app[a].state \in {"ABSENT", "DRAFT"})
    \/ \E c \in Content : <>[](content[a] = c)

(* An edit waits at most for the transactions before it, and a transition  *)
(* at most for those of the edits and transitions before it: every call    *)
(* the server has let in is answered.                                      *)
EveryCallIsAnswered ==
  /\ EveryRequestIsAnswered
  /\ \A s \in Editor : edit[s].stage = "received" ~>
       edit[s].stage \in EditAnswer \cup {"idle"}

(* "Editing post-submission would let applicants change what was           *)
(* submitted/reviewed": content never changes outside DRAFT.               *)
SubmittedContentIsFrozen ==
  [][\A a \in App : app[a].state \notin {"ABSENT", "DRAFT"} =>
       content'[a] = content[a]]_allVars
================================================================================
