---------------------------------- MODULE Portal ----------------------------------
(***************************************************************************)
(* One tab of a signed-in browser: the form for a new application, and the *)
(* page of one application with its buttons, its draft form and its upload *)
(* form.  What the page shows comes from a cache that is filled by queries *)
(* of their own, each on its way for as long as it likes, while other      *)
(* people and other tabs change the row.                                   *)
(*                                                                         *)
(* The server answers a call in one step here.  For transitions that is    *)
(* what TrailProofs!Refinement and OneWinner allow; the statements inside  *)
(* an edit and an upload are the subject of Applications and Documents.    *)
(***************************************************************************)
EXTENDS Views, Seed, Errors, QueryCache

CONSTANTS Content,       \* what may stand in an application's fields
          Sessions,      \* bound: what happens together in one session
          MaxMade        \* bound: applications made from one form

\* "uses": the parts of the page in use, the others being left alone (the timeline:
\* its query being left out); then the number of changes made outside the tab, of
\* answers lost and queries given up, and of fetches nothing was invalidated for.
Session == [uses : SUBSET {"actions", "timeline", "draft", "create", "upload"},
            elsewhere : Nat, faults : Nat, refetches : Nat]

ASSUME PortalAssumption ==
  /\ User = DOMAIN SEED_USERS
  /\ Sessions \subseteq Session
  /\ MaxMade \in Nat

VARIABLES
  me,       \* who is signed in
  session,  \* the session
  page,     \* "new" or "application"
  row,      \* the row of the application the page is about
  content,  \* its institutionName and licenseType
  made,     \* applications made from the form for a new one
  stored,   \* documents stored from the upload form
  cache,    \* cache[k]: the entry of query k
  panel,    \* the state of ApplicationActions
  post,     \* the transition its mutation has under way; one slot for all mounts: a
            \*   component mounted anew waits for the call of the one before (a bound)
  draft,    \* the state of DraftEdit, if the page shows it
  save,     \* the edit its mutation has under way
  create,   \* the state of NewApplicationPage
  upload,   \* the state of DocumentUpload
  past      \* history: what the properties need to know

server  == <<row, content, made, stored>>
buttons == <<panel, post>>
editor  == <<draft, save>>
forms   == <<create, upload>>
vars    == <<me, session, page, server, cache, buttons, editor, forms, past>>

--------------------------------------------------------------------------------
Key == {"detail", "actions", "audit"}

Role == SEED_USERS[me]

NEEDS_NOTE == {"REQUEST_INFO", "APPROVE", "REJECT"}

IsMutableForUploads(state) == state \in {"DRAFT", "INFO_REQUESTED", "RESUBMITTED"}

NoAction == "none"

NoPanel == [pending |-> NoAction, banner |-> FALSE,
            armedOn |-> 0, refreshed |-> FALSE]

NoPost == [stage |-> "idle"]
NoDraft == [shown |-> FALSE]
NoSave == [stage |-> "idle"]

\* The page of an application is drawn from its detail entry.
Open(c) == c.detail.data # Nothing /\ c.detail.error = "none"

Active(k) == /\ page = "application"
             /\ k # "detail" => Open(cache)
             /\ k = "audit" => "timeline" \in session.uses

InvalidateAll(keys) ==
  [k \in Key |-> IF k \in keys THEN Invalidate(cache[k], Active(k)) ELSE cache[k]]

\* What the server answers to query k: the trail has one entry per version.
Snapshot(k) ==
  CASE k = "detail"  -> [row |-> row, content |-> content]
    [] k = "actions" -> [row |-> row]
    [] k = "audit"   -> [row |-> [NoRow EXCEPT !.version = row.version]]

Look(k) == IF Visible(row, me, Role) THEN [status |-> 200, data |-> Snapshot(k)]
           ELSE ToResponse(Http(404, NoCode))

Init ==
  /\ made = 0 /\ stored = 0
  /\ panel = NoPanel /\ post = NoPost /\ draft = NoDraft /\ save = NoSave
  /\ create = [stage |-> "idle", leaving |-> FALSE]
  /\ upload = [file |-> "none", stage |-> "idle"]
  /\ past = [elsewhere |-> 0, faults |-> 0, refetches |-> 0, heard |-> 0, told |-> 0, flags |-> {}]
  /\ me \in User /\ content \in Content /\ session \in Sessions
  /\ \/ /\ page = "new" /\ Role = "APPLICANT" /\ "create" \in session.uses
        /\ row = NoRow
        /\ cache = [k \in Key |-> NewEntry]
     \/ /\ page = "application"
        /\ row \in {r \in SeedApplications : Visible(r, me, Role)}
        /\ cache = [k \in Key |-> IF k = "detail" THEN Ask(NewEntry) ELSE NewEntry]

--------------------------------------------------------------------------------
(* The world outside the tab. *)

Elsewhere == past.elsewhere < session.elsewhere

OthersAct ==
  /\ Elsewhere
  /\ \E u \in User, rule \in TRANSITIONS :
       /\ Permitted(rule, u, SEED_USERS[u], row)
       /\ row' = ComputePatch(row, rule.action, rule.to, u)
  /\ past' = [past EXCEPT !.elsewhere = @ + 1]
  /\ UNCHANGED <<me, session, page, content, made, stored, cache, buttons, editor, forms>>

\* The applicant edits the draft in another tab.
EditElsewhere ==
  /\ Elsewhere
  /\ row.state = "DRAFT"
  /\ content' \in Content \ {content}
  /\ past' = [past EXCEPT !.elsewhere = @ + 1, !.flags = @ \cup {"edited"}]
  /\ UNCHANGED <<me, session, page, row, made, stored, cache, buttons, editor, forms>>

\* An answer does not arrive.
Fault(flags) ==
  /\ past.faults < session.faults
  /\ past' = [past EXCEPT !.faults = @ + 1, !.flags = @ \cup flags]

--------------------------------------------------------------------------------
(* Queries. *)

\* The draft form is shown to the applicant while the page says DRAFT.  It takes
\* its values from the page when it appears, and not again.
DraftIn(c) ==
  IF ~(Open(c) /\ c.detail.data.row.state = "DRAFT" /\ c.detail.data.row.applicantId = me)
  THEN NoDraft
  ELSE IF draft # NoDraft THEN draft
  ELSE [shown |-> TRUE, editing |-> FALSE, value |-> c.detail.data.content,
        typed |-> FALSE, behind |-> c.detail.data.content # content \/ save # NoSave]

\* The components after entries have changed to c: a page that appears brings its
\* queries along, one that goes takes the state of its components with it.
Render(c) ==
  /\ IF Open(c) /\ ~Open(cache)
     THEN \E a \in Mounted(c.actions),
             t \in IF "timeline" \in session.uses THEN Mounted(c.audit) ELSE {c.audit} :
            cache' = [detail |-> c.detail, actions |-> a, audit |-> t]
     ELSE cache' = c
  /\ draft' = DraftIn(c)
  /\ panel' = IF Open(c) THEN panel ELSE NoPanel

Reply(k) ==
  /\ cache[k].fetch = "asked"
  /\ cache' = [cache EXCEPT ![k].fetch = "answered", ![k].answer = Look(k)]
  /\ UNCHANGED <<me, session, page, server, buttons, editor, forms, past>>

Arrive(k) ==
  /\ cache[k].fetch = "answered"
  /\ Render([cache EXCEPT ![k] = Receive(cache[k])])
  /\ UNCHANGED <<me, session, page, server, post, save, forms, past>>

\* Three attempts without an answer.
FetchFails(k) ==
  /\ cache[k].fetch # "idle"
  /\ Fault({})
  /\ Render([cache EXCEPT ![k] = GiveUp(cache[k], "unreachable")])
  /\ UNCHANGED <<me, session, page, server, post, save, forms>>

\* The network is back and the entry older than staleTime, or "Try again".
Refetch(k) ==
  /\ Active(k) /\ cache[k].fetch = "idle" /\ past.refetches < session.refetches
  /\ cache' = [cache EXCEPT ![k] = Ask(cache[k])]
  /\ panel' = [panel EXCEPT !.refreshed = @ \/ (k = "actions" /\ panel.pending # NoAction)]
  /\ past' = [past EXCEPT !.refetches = @ + 1]
  /\ UNCHANGED <<me, session, page, server, post, editor, forms>>

--------------------------------------------------------------------------------
(* ApplicationActions. *)

Avail == cache.actions.data.row

\* The panel is drawn with the buttons the actions entry offers.
Offered == IF "actions" \in session.uses /\ Open(cache) /\ cache.actions.data # Nothing
           THEN AvailableActions(Avail, me, Role) ELSE {}

Arm ==
  /\ post = NoPost
  /\ \E a \in (Offered \cap NEEDS_NOTE) \ {panel.pending} :
       panel' = [panel EXCEPT !.pending = a, !.refreshed = (cache.actions.fetch # "idle"),
                              !.armedOn = Avail.version]
  /\ UNCHANGED <<me, session, page, server, cache, post, editor, forms, past>>

\* Also while the mutation is under way.
CancelAction ==
  /\ panel.pending # NoAction /\ Offered # {}
  /\ panel' = [panel EXCEPT !.pending = NoAction]
  /\ UNCHANGED <<me, session, page, server, cache, post, editor, forms, past>>

\* Faulty form: the version shown by the page is sent.
ExpectedVersion_OfPage == cache.detail.data.row.version

ExpectedVersion == Avail.version

\* mutate(): the version sent is the one the buttons came with.  "seen" and "told"
\* are history: the row the buttons are of, and whether the user has been warned.
Click ==
  /\ post = NoPost
  /\ \E a \in Offered :
       /\ a \in NEEDS_NOTE => panel.pending = a
       /\ post' = [stage |-> "asked", action |-> a, version |-> ExpectedVersion,
                   seen |-> Avail,
                   told |-> \/ a \notin NEEDS_NOTE \/ panel.armedOn = ExpectedVersion
                           \/ panel.banner \/ panel.refreshed]
  /\ UNCHANGED <<me, session, page, server, cache, panel, editor, forms, past>>

Answered(answer) ==
  post' = [stage |-> "answered", seen |-> post.seen, told |-> post.told,
           answer |-> answer, on |-> row]

\* WorkflowService.transition; the role guard lets through who is offered the button.
ServePost ==
  /\ post.stage = "asked"
  /\ LET rules == RulesFor(row.state, post.action)
         allowed == {t \in rules : Permitted(t, me, Role, row)}
     IN \/ /\ rules = {}
           /\ Answered(ToResponse(Http(409, "ILLEGAL_STATE_TRANSITION")))
           /\ UNCHANGED row
        \/ /\ rules # {} /\ allowed = {}
           /\ Answered(ToResponse(Http(403, "FORBIDDEN")))
           /\ UNCHANGED row
        \/ /\ allowed # {} /\ post.version # row.version
           /\ Answered(ToResponse(Http(409, "CONCURRENT_MODIFICATION")))
           /\ UNCHANGED row
        \/ /\ post.version = row.version
           /\ \E t \in allowed : row' = ComputePatch(row, t.action, t.to, me)
           /\ Answered([status |-> 200])
  /\ UNCHANGED <<me, session, page, content, made, stored, cache, panel, editor, forms, past>>

\* Faulty forms: the timeline is forgotten; the banner is.
OnSuccess_NoTimeline ==
  /\ cache' = InvalidateAll({"detail", "actions"})
  /\ panel' = NoPanel
  /\ past' = [past EXCEPT !.heard = post.on.version + 1, !.told = post.on.version + 1]

\* onSuccess: the detail, the actions, and everything under applications.all.
OnSuccess ==
  /\ cache' = InvalidateAll(Key)
  /\ panel' = NoPanel
  /\ past' = [past EXCEPT !.heard = post.on.version + 1, !.told = post.on.version + 1]

OnConflict_NoBanner ==
  /\ cache' = InvalidateAll({"detail", "actions"})
  /\ past' = [past EXCEPT !.heard = post.on.version]
  /\ UNCHANGED panel

\* onError with one of the two codes: the banner, the detail and the actions.
OnConflict ==
  /\ cache' = InvalidateAll({"detail", "actions"})
  /\ past' = [past EXCEPT !.heard = post.on.version]
  /\ panel' = IF Open(cache) THEN [panel EXCEPT !.banner = TRUE] ELSE panel

EndPost ==
  /\ post.stage = "answered"
  /\ \/ post.answer.status = 200 /\ OnSuccess
     \/ /\ post.answer.status # 200
        /\ post.answer.code \in {"CONCURRENT_MODIFICATION", "ILLEGAL_STATE_TRANSITION"}
        /\ OnConflict
     \/ /\ post.answer.status # 200
        /\ post.answer.code \notin {"CONCURRENT_MODIFICATION", "ILLEGAL_STATE_TRANSITION"}
        /\ UNCHANGED <<cache, panel, past>>
  /\ post' = NoPost
  /\ UNCHANGED <<me, session, page, server, editor, forms>>

\* The call or its answer is lost: the error has no code, and nothing happens.
LosePost ==
  /\ post # NoPost
  /\ Fault({})
  /\ post' = NoPost
  /\ UNCHANGED <<me, session, page, server, cache, panel, editor, forms>>

--------------------------------------------------------------------------------
(* DraftEdit. *)

OpenDraft ==
  /\ "draft" \in session.uses /\ draft.shown /\ ~draft.editing
  /\ draft' = [draft EXCEPT !.editing = TRUE]
  /\ UNCHANGED <<me, session, page, server, cache, buttons, save, forms, past>>

TypeDraft ==
  /\ draft.shown /\ draft.editing
  /\ \E c \in Content \ {draft.value} :
       draft' = [draft EXCEPT !.value = c, !.typed = TRUE]
  /\ UNCHANGED <<me, session, page, server, cache, buttons, save, forms, past>>

\* Faulty form: the fields keep what was typed.
CancelDraft_KeepsFields ==
  /\ draft.shown /\ draft.editing
  /\ draft' = [draft EXCEPT !.editing = FALSE, !.typed = FALSE]
  /\ UNCHANGED <<me, session, page, server, cache, buttons, save, forms, past>>

\* Back to what the page shows now, also while a save is under way.
CancelDraft ==
  /\ draft.shown /\ draft.editing
  /\ draft' = [draft EXCEPT !.editing = FALSE, !.typed = FALSE,
                  !.value = cache.detail.data.content,
                  !.behind = cache.detail.data.content # content \/ save # NoSave]
  /\ UNCHANGED <<me, session, page, server, cache, buttons, save, forms, past>>

\* Both fields are sent, typed into or not.
SaveDraft ==
  /\ draft.shown /\ draft.editing /\ save = NoSave
  /\ save' = [stage |-> "asked", value |-> draft.value, typed |-> draft.typed,
              behind |-> draft.behind]
  /\ UNCHANGED <<me, session, page, server, cache, buttons, draft, forms, past>>

\* ApplicationsService.update
ServeSave ==
  /\ save.stage = "asked"
  /\ content' = IF row.state = "DRAFT" THEN save.value ELSE content
  /\ save' = [save EXCEPT !.stage = IF row.state = "DRAFT" THEN "saved" ELSE "refused"]
  /\ UNCHANGED <<me, session, page, row, made, stored, cache, buttons, draft, forms, past>>

EndSave ==
  /\ save.stage \in {"saved", "refused"}
  /\ IF save.stage = "saved"
     THEN /\ cache' = InvalidateAll(Key)
          /\ draft' = IF draft.shown
                      THEN [draft EXCEPT !.editing = FALSE,
                                         !.typed = (draft.value # save.value) /\ @]
                      ELSE draft
     ELSE UNCHANGED <<cache, draft>>
  /\ save' = NoSave
  /\ UNCHANGED <<me, session, page, server, buttons, forms, past>>

LoseSave ==
  /\ save # NoSave
  /\ Fault({})
  /\ save' = NoSave
  /\ UNCHANGED <<me, session, page, server, cache, buttons, draft, forms>>

--------------------------------------------------------------------------------
(* NewApplicationPage and DocumentUpload: the two calls that make something. *)
(* Both send an Idempotency-Key, which no code of the server reads.          *)

MayCreate == page = "new" /\ made < MaxMade /\ create.stage = "idle"

\* The button is enabled again as soon as the answer is in, and the form is there
\* until the router has gone on.
ClickCreate ==
  /\ MayCreate
  /\ create' = [create EXCEPT !.stage = "asked"]
  /\ past' = IF create.leaving THEN [past EXCEPT !.flags = @ \cup {"again"}] ELSE past
  /\ UNCHANGED <<me, session, page, server, cache, buttons, editor, upload>>

ServeCreate ==
  /\ create.stage = "asked"
  /\ made' = made + 1
  /\ create' = [create EXCEPT !.stage = "answered"]
  /\ UNCHANGED <<me, session, page, row, content, stored, cache, buttons, editor, upload, past>>

EndCreate ==
  /\ create.stage = "answered"
  /\ create' = [stage |-> "idle", leaving |-> TRUE]
  /\ cache' = InvalidateAll(Key)
  /\ UNCHANGED <<me, session, page, server, buttons, editor, upload, past>>

LoseCreate ==
  /\ create.stage # "idle"
  /\ Fault({"lost"})
  /\ create' = [create EXCEPT !.stage = "idle"]
  /\ UNCHANGED <<me, session, page, server, cache, buttons, editor, upload>>

\* The router shows the page of the application that was made last.  A second
\* arrival waits for the calls of the first page (a bound).
Navigate ==
  /\ create.leaving
  /\ post = NoPost /\ save = NoSave /\ upload.stage = "idle"
  /\ create' = [create EXCEPT !.leaving = FALSE]
  /\ page' = "application"
  /\ row' = NewRow(me) /\ content' \in Content
  /\ cache' = [k \in Key |-> IF k = "detail" THEN Ask(NewEntry) ELSE NewEntry]
  /\ panel' = NoPanel /\ draft' = NoDraft
  /\ past' = [past EXCEPT !.heard = 0, !.told = 0]
  /\ UNCHANGED <<me, session, made, stored, post, save, upload>>

ShowsUpload == Open(cache) /\ cache.detail.data.row.applicantId = me
                 /\ IsMutableForUploads(cache.detail.data.row.state)

\* One file in a behaviour (a bound).
ChooseFile ==
  /\ "upload" \in session.uses /\ ShowsUpload /\ upload.file = "none"
  /\ upload' = [upload EXCEPT !.file = "chosen"]
  /\ UNCHANGED <<me, session, page, server, cache, buttons, editor, create, past>>

ClickUpload ==
  /\ ShowsUpload /\ upload = [file |-> "chosen", stage |-> "idle"]
  /\ upload' = [upload EXCEPT !.stage = "asked"]
  /\ UNCHANGED <<me, session, page, server, cache, buttons, editor, create, past>>

\* DocumentsService.upload
ServeUpload ==
  /\ upload.stage = "asked"
  /\ IF IsMutableForUploads(row.state)
     THEN stored' = stored + 1 /\ upload' = [upload EXCEPT !.stage = "stored"]
     ELSE UNCHANGED stored /\ upload' = [upload EXCEPT !.stage = "refused"]
  /\ UNCHANGED <<me, session, page, row, content, made, cache, buttons, editor, create, past>>

\* Faulty form: the file stays in the form.
EndUpload_KeepsFile ==
  /\ upload.stage \in {"stored", "refused"}
  /\ cache' = IF upload.stage = "stored" THEN InvalidateAll({"detail", "audit"}) ELSE cache
  /\ upload' = [upload EXCEPT !.stage = "idle"]
  /\ UNCHANGED <<me, session, page, server, buttons, editor, create, past>>

EndUpload ==
  /\ upload.stage \in {"stored", "refused"}
  /\ cache' = IF upload.stage = "stored" THEN InvalidateAll({"detail", "audit"}) ELSE cache
  /\ upload' = [file |-> IF upload.stage = "stored" THEN "sent" ELSE upload.file,
                stage |-> "idle"]
  /\ UNCHANGED <<me, session, page, server, buttons, editor, create, past>>

LoseUpload ==
  /\ upload.stage # "idle"
  /\ Fault({"lost"})
  /\ upload' = [upload EXCEPT !.stage = "idle"]
  /\ UNCHANGED <<me, session, page, server, cache, buttons, editor, create>>

--------------------------------------------------------------------------------
Next ==
  \/ OthersAct \/ EditElsewhere
  \/ \E k \in Key : Reply(k) \/ Arrive(k) \/ FetchFails(k) \/ Refetch(k)
  \/ Arm \/ Click \/ CancelAction \/ ServePost \/ EndPost \/ LosePost
  \/ OpenDraft \/ TypeDraft \/ CancelDraft \/ SaveDraft \/ ServeSave \/ EndSave \/ LoseSave
  \/ ClickCreate \/ ServeCreate \/ EndCreate \/ LoseCreate \/ Navigate
  \/ ChooseFile \/ ClickUpload \/ ServeUpload \/ EndUpload \/ LoseUpload

Spec == Init /\ [][Next]_vars
===================================================================================
