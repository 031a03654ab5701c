------------------------------ MODULE PortalProofs ------------------------------
(***************************************************************************)
(* The properties of a tab for every person, every number of changes by    *)
(* others, of faults and of refetches.  Two facts carry them: a row never  *)
(* returns to a version, so that a picture of it with the version it is at *)
(* is the row itself; and what an entry of the cache shows of the time     *)
(* before the tab's last news is always marked, in error or on its way.    *)
(***************************************************************************)
EXTENDS PortalProperties, TLAPS

Owners == {u \in User : SEED_USERS[u] = "APPLICANT"}

\* Rows as the portal meets them: whoever filed one is an applicant.
Filed == {r \in Row : r.applicantId \in Owners \cup {NoUser}}

\* What query k may bring.
Shot(k) == IF k = "detail" THEN [row : Filed, content : Content] ELSE [row : Filed]

Answer(S) == [status : {200}, data : S] \cup [status : {404}, code : {"NOT_FOUND"}]

Entry(S) ==
  {e \in [data : S \cup {Nothing}, error : {"none", "refused", "unreachable"},
          invalid : BOOLEAN, fetch : {"idle", "asked", "answered"},
          answer : Answer(S) \cup {Nothing}, overtaken : BOOLEAN] :
     e.fetch = "answered" => e.answer # Nothing}

Panel == [pending : WorkflowAction \cup {NoAction}, banner : BOOLEAN,
          armedOn : Nat, refreshed : BOOLEAN]

Asked == [stage : {"asked"}, action : WorkflowAction, version : Nat, seen : Filed,
          told : BOOLEAN]

Done == [stage : {"answered"}, seen : Filed, told : BOOLEAN, on : Filed,
         answer : [status : {200}] \cup
                  [status : {403, 409},
                   code : {"FORBIDDEN", "ILLEGAL_STATE_TRANSITION", "CONCURRENT_MODIFICATION"}]]

Drafting == {d \in [shown : BOOLEAN, editing : BOOLEAN, value : Content, typed : BOOLEAN,
                     behind : BOOLEAN] : d.shown}

Saving == [stage : {"asked", "saved", "refused"}, value : Content, typed : BOOLEAN,
           behind : BOOLEAN]

Past == [elsewhere : Nat, faults : Nat, refetches : Nat, heard : Nat, told : Nat,
         flags : SUBSET {"edited", "lost", "again"}]

TabTypes ==
  /\ me \in User /\ session \in Session /\ page \in {"new", "application"}
  /\ row \in Filed /\ content \in Content
  /\ made \in Nat /\ stored \in Nat
  /\ past \in Past

CacheTypes ==
  /\ cache = [k \in Key |-> cache[k]]
  /\ \A k \in Key : cache[k] \in Entry(Shot(k))

CallTypes ==
  /\ panel \in Panel
  /\ post \in {NoPost} \cup Asked \cup Done
  /\ draft \in {NoDraft} \cup Drafting
  /\ save \in {NoSave} \cup Saving
  /\ create \in [stage : {"idle", "asked", "answered"}, leaving : BOOLEAN]
  /\ upload \in [file : {"none", "chosen", "sent"},
                 stage : {"idle", "asked", "stored", "refused"}]

\* A component that is gone has no state, and only applicants have drafts and forms.
ScreenInv ==
  /\ panel # NoPanel => Open(cache)
  /\ draft # NoDraft => Open(cache) /\ Role = "APPLICANT"
  /\ save # NoSave \/ page = "new" \/ create.stage # "idle" \/ create.leaving =>
       Role = "APPLICANT"

\* A picture of the row that is as new as the row is the row.
Fits(r) == r.version <= row.version /\ (r.version = row.version => r = row)

FitsInv ==
  /\ \A k \in {"detail", "actions"} :
       /\ cache[k].data # Nothing => Fits(cache[k].data.row)
       /\ cache[k].fetch = "answered" /\ cache[k].answer.status = 200 =>
            Fits(cache[k].answer.data.row)
  /\ post.stage = "asked" => post.version = post.seen.version /\ Fits(post.seen)
  /\ AcceptedAsOffered

\* What an entry may still show of the time before version v.
UpTo(e, v) ==
  /\ e.data # Nothing /\ e.data.row.version < v =>
       e.fetch # "idle" \/ e.invalid \/ e.error # "none" \/ e.overtaken
  /\ e.fetch = "answered" /\ e.answer.status = 200 /\ ~e.overtaken =>
       e.answer.data.row.version >= v

FreshInv ==
  /\ past.heard <= row.version /\ past.told <= row.version
  /\ post.stage = "answered" =>
       /\ post.on.version <= row.version
       /\ post.answer.status = 200 => post.on.version < row.version
  /\ \A k \in Key : UpTo(cache[k], HeardBy(k))

NotesInv ==
  /\ panel.pending # NoAction =>
       /\ Role # "APPLICANT"
       /\ \/ panel.refreshed \/ panel.banner
          \/ /\ cache.actions.data # Nothing /\ cache.actions.fetch = "idle"
             /\ panel.armedOn = Avail.version
  /\ NotesAreForTheirVersion

Clean == past.flags \cap {"lost", "again"} = {}

OnceInv ==
  Clean =>
    /\ page = "new" /\ create.stage = "idle" /\ ~create.leaving => made = 0
    /\ create.stage = "asked" => made = 0
    /\ made <= 1
    /\ upload.stage \in {"asked", "refused"} => stored = 0
    /\ upload.file # "sent" /\ upload.stage # "stored" => stored = 0
    /\ stored <= 1

UntypedInv ==
  "edited" \notin past.flags =>
    /\ draft # NoDraft /\ ~draft.typed /\ ~draft.behind => draft.value = content
    /\ save.stage = "asked" /\ ~save.typed /\ ~save.behind => save.value = content
    /\ save.stage = "saved" => save.value = content
    /\ save # NoSave /\ (save.typed \/ save.behind) /\ draft # NoDraft =>
         draft.typed \/ draft.behind

PInv == /\ TabTypes /\ CacheTypes /\ CallTypes /\ ScreenInv /\ FitsInv /\ FreshInv
        /\ NotesInv /\ OnceInv /\ UntypedInv

--------------------------------------------------------------------------------
(* The rules of the table lead to states there are. *)
LEMMA RulesLead ==
  \A t \in TRANSITIONS : t.to \in ApplicationState /\ t.action \in WorkflowAction
  BY DEF TRANSITIONS, ApplicationState, WorkflowAction

(* A transition leaves a row that an applicant filed, one version on. *)
LEMMA PatchKeepsFiled ==
  ASSUME NEW r \in Filed, NEW u \in User, NEW t \in TRANSITIONS, NEW a
  PROVE  /\ ComputePatch(r, a, t.to, u) \in Filed
         /\ ComputePatch(r, a, t.to, u).version = r.version + 1
         /\ ComputePatch(r, a, t.to, u).state = t.to
         /\ ComputePatch(r, a, t.to, u).applicantId = r.applicantId
  BY RulesLead, SMT DEF Filed, Row, ComputePatch

(* A step of a script follows the rule for the state it starts in. *)
LEMMA DriveFollows ==
  ASSUME NEW r \in Filed, NEW u \in User, NEW t \in TRANSITIONS, t.from = r.state
  PROVE  DriveStep(r, u, t.action) \in Filed /\ DriveStep(r, u, t.action).state = t.to
  <1> DEFINE rules == RulesFor(r.state, t.action)
             rule == CHOOSE x \in rules : TRUE
  <1>1. t \in rules
    BY DEF RulesFor
  <1>2. \A x \in TRANSITIONS : x.from = t.from /\ x.action = t.action => x = t
    BY DEF TRANSITIONS
  <1>3. rules = {t}
    BY <1>1, <1>2 DEF RulesFor
  <1>5. DriveStep(r, u, t.action) = ComputePatch(r, t.action, rule.to, u)
    BY DEF DriveStep
  <1> HIDE DEF rules
  <1>4. rule = t
    BY <1>3
  <1> HIDE DEF rule
  <1> QED
    BY <1>4, <1>5, PatchKeepsFiled

(* What the applicants of the seed file at first. *)
LEMMA NewRowsAreFiled ==
  ASSUME NEW u \in Owners
  PROVE  NewRow(u) \in Filed /\ NewRow(u).state = "DRAFT" /\ NewRow(u).version = 0
  BY SMT DEF NewRow, Filed, Row, Owners, ApplicationState

(* Every application of the seed is one an applicant filed. *)
LEMMA SeedIsFiled == SeedApplications \subseteq Filed
  <1> USE PortalAssumption
  <1>1. {"applicant1", "applicant2"} \subseteq Owners /\ Owners \subseteq User
    BY DEF Owners, SEED_USERS
  <1>2. {"reviewer1", "reviewer2", "approver1"} \subseteq User
    BY DEF SEED_USERS
  <1>3. \A a \in Owners : Submitted(a) \in Filed /\ Submitted(a).state = "SUBMITTED"
    <2> TAKE a \in Owners
    <2> DEFINE t == [action |-> "SUBMIT", from |-> "DRAFT", to |-> "SUBMITTED",
                     role |-> "APPLICANT", bond |-> "applicant"]
    <2>1. t \in TRANSITIONS
      BY DEF TRANSITIONS
    <2> QED
      BY <1>1, <2>1, NewRowsAreFiled, DriveFollows DEF Submitted
  <1>4. \A a \in Owners, r \in User :
          Started(a, r) \in Filed /\ Started(a, r).state = "UNDER_REVIEW"
    <2> TAKE a \in Owners, r \in User
    <2> DEFINE t == [action |-> "START_REVIEW", from |-> "SUBMITTED", to |-> "UNDER_REVIEW",
                     role |-> "REVIEWER", bond |-> "none"]
    <2>1. t \in TRANSITIONS
      BY DEF TRANSITIONS
    <2> QED
      BY <1>3, <2>1, DriveFollows DEF Started
  <1>5. \A a \in Owners, r \in User :
          InfoRequested(a, r) \in Filed /\ InfoRequested(a, r).state = "INFO_REQUESTED"
    <2> TAKE a \in Owners, r \in User
    <2> DEFINE t == [action |-> "REQUEST_INFO", from |-> "UNDER_REVIEW",
                     to |-> "INFO_REQUESTED", role |-> "REVIEWER", bond |-> "reviewer"]
    <2>1. t \in TRANSITIONS
      BY DEF TRANSITIONS
    <2> QED
      BY <1>4, <2>1, DriveFollows DEF InfoRequested
  <1>6. /\ DriveStep(Started("applicant1", "reviewer2"), "approver1", "APPROVE") \in Filed
        /\ DriveStep(Started("applicant2", "reviewer1"), "approver1", "REJECT") \in Filed
        /\ DriveStep(InfoRequested("applicant1", "reviewer2"), "applicant1", "RESUBMIT")
             \in Filed
    <2> DEFINE t1 == [action |-> "APPROVE", from |-> "UNDER_REVIEW", to |-> "APPROVED",
                      role |-> "APPROVER", bond |-> "none"]
               t2 == [action |-> "REJECT", from |-> "UNDER_REVIEW", to |-> "REJECTED",
                      role |-> "APPROVER", bond |-> "none"]
               t3 == [action |-> "RESUBMIT", from |-> "INFO_REQUESTED", to |-> "RESUBMITTED",
                      role |-> "APPLICANT", bond |-> "applicant"]
    <2>1. {t1, t2, t3} \subseteq TRANSITIONS
      BY DEF TRANSITIONS
    <2>2. DriveStep(Started("applicant1", "reviewer2"), "approver1", t1.action) \in Filed
      BY <1>1, <1>2, <1>4, <2>1, DriveFollows
    <2>3. DriveStep(Started("applicant2", "reviewer1"), "approver1", t2.action) \in Filed
      BY <1>1, <1>2, <1>4, <2>1, DriveFollows
    <2>4. DriveStep(InfoRequested("applicant1", "reviewer2"), "applicant1", t3.action) \in Filed
      BY <1>1, <1>2, <1>5, <2>1, DriveFollows
    <2> QED
      BY <2>2, <2>3, <2>4
  <1> QED
    BY <1>1, <1>2, <1>3, <1>4, <1>5, <1>6, NewRowsAreFiled DEF SeedApplications

--------------------------------------------------------------------------------
(* What becomes of an entry. *)

(* What the operations on an entry make of its six fields. *)
LEMMA AskedFields ==
  ASSUME NEW S, NEW e \in Entry(S), NEW r, NEW o
  PROVE  [e EXCEPT !.fetch = "asked", !.answer = Nothing, !.overtaken = o, !.error = r] =
            [data |-> e.data, error |-> r, invalid |-> e.invalid,
             fetch |-> "asked", answer |-> Nothing, overtaken |-> o]
  <1> DEFINE f == [e EXCEPT !.fetch = "asked"]
             g == [f EXCEPT !.answer = Nothing]
             h == [g EXCEPT !.overtaken = o]
  <1>1. f = [data |-> e.data, error |-> e.error, invalid |-> e.invalid,
             fetch |-> "asked", answer |-> e.answer, overtaken |-> e.overtaken]
    BY SMT DEF Entry
  <1> HIDE DEF f
  <1>2. g = [data |-> e.data, error |-> e.error, invalid |-> e.invalid,
             fetch |-> "asked", answer |-> Nothing, overtaken |-> e.overtaken]
    BY <1>1, SMT
  <1> HIDE DEF g
  <1>3. h = [data |-> e.data, error |-> e.error, invalid |-> e.invalid,
             fetch |-> "asked", answer |-> Nothing, overtaken |-> o]
    BY <1>2, SMT
  <1> HIDE DEF h
  <1>4. [h EXCEPT !.error = r] = [data |-> e.data, error |-> r, invalid |-> e.invalid,
             fetch |-> "asked", answer |-> Nothing, overtaken |-> o]
    BY <1>3, SMT
  <1> QED
    BY <1>4 DEF f, g, h

(* So for a fetch that is given up ... *)
LEMMA GivenUpFields ==
  ASSUME NEW S, NEW e \in Entry(S), NEW r
  PROVE  [e EXCEPT !.fetch = "idle", !.answer = Nothing, !.error = r] =
            [data |-> e.data, error |-> r, invalid |-> e.invalid,
             fetch |-> "idle", answer |-> Nothing, overtaken |-> e.overtaken]
  <1> DEFINE f == [e EXCEPT !.fetch = "idle"]
             g == [f EXCEPT !.answer = Nothing]
  <1>1. f = [data |-> e.data, error |-> e.error, invalid |-> e.invalid,
             fetch |-> "idle", answer |-> e.answer, overtaken |-> e.overtaken]
    BY SMT DEF Entry
  <1> HIDE DEF f
  <1>2. g = [data |-> e.data, error |-> e.error, invalid |-> e.invalid,
             fetch |-> "idle", answer |-> Nothing, overtaken |-> e.overtaken]
    BY <1>1, SMT
  <1> HIDE DEF g
  <1>3. [g EXCEPT !.error = r] = [data |-> e.data, error |-> r, invalid |-> e.invalid,
             fetch |-> "idle", answer |-> Nothing, overtaken |-> e.overtaken]
    BY <1>2, SMT
  <1> QED
    BY <1>3 DEF f, g

(* ... for one whose answer is data ... *)
LEMMA ReceivedFields ==
  ASSUME NEW S, NEW e \in Entry(S), NEW d, NEW v
  PROVE  [e EXCEPT !.data = d, !.error = "none", !.invalid = v, !.fetch = "idle", !.answer = Nothing] =
            [data |-> d, error |-> "none", invalid |-> v,
             fetch |-> "idle", answer |-> Nothing, overtaken |-> e.overtaken]
  <1> DEFINE f == [e EXCEPT !.data = d]
             g == [f EXCEPT !.error = "none"]
             h == [g EXCEPT !.invalid = v]
             i == [h EXCEPT !.fetch = "idle"]
  <1>1. f = [data |-> d, error |-> e.error, invalid |-> e.invalid,
             fetch |-> e.fetch, answer |-> e.answer, overtaken |-> e.overtaken]
    BY SMT DEF Entry
  <1> HIDE DEF f
  <1>2. g = [data |-> d, error |-> "none", invalid |-> e.invalid,
             fetch |-> e.fetch, answer |-> e.answer, overtaken |-> e.overtaken]
    BY <1>1, SMT
  <1> HIDE DEF g
  <1>3. h = [data |-> d, error |-> "none", invalid |-> v,
             fetch |-> e.fetch, answer |-> e.answer, overtaken |-> e.overtaken]
    BY <1>2, SMT
  <1> HIDE DEF h
  <1>4. i = [data |-> d, error |-> "none", invalid |-> v,
             fetch |-> "idle", answer |-> e.answer, overtaken |-> e.overtaken]
    BY <1>3, SMT
  <1> HIDE DEF i
  <1>5. [i EXCEPT !.answer = Nothing] = [data |-> d, error |-> "none", invalid |-> v,
             fetch |-> "idle", answer |-> Nothing, overtaken |-> e.overtaken]
    BY <1>4, SMT
  <1> QED
    BY <1>5 DEF f, g, h, i

(* ... and for an entry that is only marked. *)
LEMMA MarkedFields ==
  ASSUME NEW S, NEW e \in Entry(S), NEW i, NEW o
  PROVE  [e EXCEPT !.invalid = i, !.overtaken = o] =
            [data |-> e.data, error |-> e.error, invalid |-> i,
             fetch |-> e.fetch, answer |-> e.answer, overtaken |-> o]
  <1> DEFINE f == [e EXCEPT !.invalid = i]
  <1>1. f = [data |-> e.data, error |-> e.error, invalid |-> i,
             fetch |-> e.fetch, answer |-> e.answer, overtaken |-> e.overtaken]
    BY SMT DEF Entry
  <1> HIDE DEF f
  <1>2. [f EXCEPT !.overtaken = o] = [data |-> e.data, error |-> e.error, invalid |-> i,
             fetch |-> e.fetch, answer |-> e.answer, overtaken |-> o]
    BY <1>1, SMT
  <1> QED
    BY <1>2 DEF f

(* The same for the operations themselves. *)
LEMMA Forms ==
  ASSUME NEW S, NEW e \in Entry(S)
  PROVE  /\ Ask(e) = [data |-> e.data, error |-> IF e.data = Nothing THEN "none" ELSE e.error,
                      invalid |-> e.invalid, fetch |-> "asked", answer |-> Nothing,
                      overtaken |-> FALSE]
         /\ \A why : GiveUp(e, why) =
              [data |-> e.data, error |-> why, invalid |-> e.invalid,
               fetch |-> "idle", answer |-> Nothing, overtaken |-> e.overtaken]
         /\ e.answer.status = 200 => Receive(e) =
              [data |-> e.answer.data, error |-> "none", invalid |-> FALSE,
               fetch |-> "idle", answer |-> Nothing, overtaken |-> e.overtaken]
  <1>1. Ask(e) = [data |-> e.data, error |-> IF e.data = Nothing THEN "none" ELSE e.error,
                  invalid |-> e.invalid, fetch |-> "asked", answer |-> Nothing,
                  overtaken |-> FALSE]
    BY AskedFields, Zenon DEF Ask
  <1>2. \A why : GiveUp(e, why) =
          [data |-> e.data, error |-> why, invalid |-> e.invalid,
           fetch |-> "idle", answer |-> Nothing, overtaken |-> e.overtaken]
    BY GivenUpFields, Zenon DEF GiveUp
  <1>3. e.answer.status = 200 => Receive(e) =
          [data |-> e.answer.data, error |-> "none", invalid |-> FALSE,
           fetch |-> "idle", answer |-> Nothing, overtaken |-> e.overtaken]
    <2> DEFINE d == e.answer.data
               no == FALSE
    <2>1. e.answer.status = 200 => Receive(e) =
            [e EXCEPT !.data = d, !.error = "none", !.invalid = no,
                      !.fetch = "idle", !.answer = Nothing]
      BY DEF Receive
    <2> HIDE DEF d, no
    <2>2. [e EXCEPT !.data = d, !.error = "none", !.invalid = no,
                    !.fetch = "idle", !.answer = Nothing] =
            [data |-> d, error |-> "none", invalid |-> no,
             fetch |-> "idle", answer |-> Nothing, overtaken |-> e.overtaken]
      BY ReceivedFields
    <2>3. e.answer.status = 200 => Receive(e) =
            [data |-> d, error |-> "none", invalid |-> no,
             fetch |-> "idle", answer |-> Nothing, overtaken |-> e.overtaken]
      BY <2>1, <2>2
    <2> QED
      BY <2>3 DEF d, no
  <1> QED
    BY <1>1, <1>2, <1>3, Zenon

(* A fetch that has just been asked for carries nothing from before. *)
LEMMA AskIsTyped ==
  ASSUME NEW S, NEW e \in Entry(S)
  PROVE  /\ Ask(e) \in Entry(S)
         /\ Ask(e).data = e.data /\ Ask(e).fetch = "asked" /\ ~Ask(e).overtaken
         /\ e.data # Nothing => Ask(e).error = e.error
  <1> DEFINE r == IF e.data = Nothing THEN "none" ELSE e.error
             no == FALSE
  <1>1. Ask(e) = [data |-> e.data, error |-> r, invalid |-> e.invalid, fetch |-> "asked",
                  answer |-> Nothing, overtaken |-> no]
    BY Forms
  <1>2. r \in {"none", "refused", "unreachable"} /\ (e.data # Nothing => r = e.error)
    BY DEF Entry
  <1>3. no \in BOOLEAN /\ ~no
    OBVIOUS
  <1> HIDE DEF r, no
  <1> QED
    BY <1>1, <1>2, <1>3, SMT DEF Entry

(* An invalidation keeps the data and, where there is data, the error; data that is *)
(* there is fetched anew or marked, and an answer on its way is marked.             *)
LEMMA InvalidateIsTyped ==
  ASSUME NEW S, NEW e \in Entry(S), NEW a \in BOOLEAN
  PROVE  /\ Invalidate(e, a) \in Entry(S)
         /\ Invalidate(e, a).data = e.data
         /\ e.data # Nothing => Invalidate(e, a).error = e.error
         /\ Invalidate(e, a).fetch = "idle" /\ e.data # Nothing => Invalidate(e, a).invalid
         /\ Invalidate(e, a).fetch = "answered" =>
              /\ e.fetch = "answered" /\ Invalidate(e, a).answer = e.answer
              /\ Invalidate(e, a).overtaken
  <1> DEFINE o == e.fetch # "idle"
             yes == TRUE
  <1>1. o \in BOOLEAN /\ yes \in BOOLEAN /\ yes /\ (o <=> e.fetch # "idle")
    OBVIOUS
  <1>2. \/ Invalidate(e, a) = Ask(e)
        \/ Invalidate(e, a) = e /\ e.data = Nothing /\ e.fetch = "idle"
        \/ Invalidate(e, a) = [e EXCEPT !.overtaken = yes] /\ e.fetch # "idle"
        \/ Invalidate(e, a) = [e EXCEPT !.invalid = yes, !.overtaken = o]
    BY DEF Invalidate
  <1> HIDE DEF o, yes
  <1>3. [e EXCEPT !.overtaken = yes] =
          [data |-> e.data, error |-> e.error, invalid |-> e.invalid, fetch |-> e.fetch,
           answer |-> e.answer, overtaken |-> yes]
    BY SMT DEF Entry
  <1>4. [e EXCEPT !.invalid = yes, !.overtaken = o] =
          [data |-> e.data, error |-> e.error, invalid |-> yes, fetch |-> e.fetch,
           answer |-> e.answer, overtaken |-> o]
    BY MarkedFields
  <1> DEFINE f == Invalidate(e, a)
  <1>5. CASE f = Ask(e) \/ (f = e /\ e.data = Nothing /\ e.fetch = "idle")
    BY <1>5, AskIsTyped
  <1>6. CASE f = [data |-> e.data, error |-> e.error, invalid |-> e.invalid, fetch |-> e.fetch,
                  answer |-> e.answer, overtaken |-> yes] /\ e.fetch # "idle"
    <2> HIDE DEF f
    <2>1. f \in Entry(S) /\ f.data = e.data /\ f.error = e.error /\ f.fetch = e.fetch
            /\ f.answer = e.answer /\ f.overtaken = yes
      BY <1>1, <1>6, SMT DEF Entry
    <2> QED
      BY <1>1, <1>6, <2>1 DEF f
  <1>7. CASE f = [data |-> e.data, error |-> e.error, invalid |-> yes, fetch |-> e.fetch,
                  answer |-> e.answer, overtaken |-> o]
    <2> HIDE DEF f
    <2>1. f \in Entry(S) /\ f.data = e.data /\ f.error = e.error /\ f.fetch = e.fetch
            /\ f.answer = e.answer /\ f.overtaken = o /\ f.invalid = yes
      BY <1>1, <1>7, SMT DEF Entry
    <2> QED
      BY <1>1, <2>1 DEF f
  <1> QED
    BY <1>2, <1>3, <1>4, <1>5, <1>6, <1>7

(* A fetch that is given up leaves the data and an error. *)
LEMMA GiveUpIsTyped ==
  ASSUME NEW S, NEW e \in Entry(S), NEW why \in {"refused", "unreachable"}
  PROVE  /\ GiveUp(e, why) \in Entry(S)
         /\ GiveUp(e, why).data = e.data /\ GiveUp(e, why).fetch = "idle"
         /\ GiveUp(e, why).error = why
  <1>1. GiveUp(e, why) = [data |-> e.data, error |-> why, invalid |-> e.invalid,
                          fetch |-> "idle", answer |-> Nothing, overtaken |-> e.overtaken]
    BY Forms
  <1> QED
    BY <1>1, SMT DEF Entry

(* What arrives is the data of the answer, or an error beside the data there was. *)
LEMMA ReceiveIsTyped ==
  ASSUME NEW S, NEW e \in Entry(S), e.fetch = "answered"
  PROVE  /\ Receive(e) \in Entry(S)
         /\ Receive(e).fetch = "idle"
         /\ \/ e.answer.status # 200 /\ Receive(e).data = e.data /\ Receive(e).error = "refused"
            \/ /\ e.answer.status = 200 /\ Receive(e).data = e.answer.data
               /\ Receive(e).overtaken = e.overtaken
  <1>1. e.answer \in Answer(S)
    BY DEF Entry
  <1>2. CASE e.answer.status # 200
    BY <1>2, GiveUpIsTyped DEF Receive
  <1>3. CASE e.answer.status = 200
    <2>1. e.answer.data \in S
      BY <1>1, <1>3, SMT DEF Answer
    <2> DEFINE no == FALSE
    <2>2. Receive(e) = [data |-> e.answer.data, error |-> "none", invalid |-> no,
                        fetch |-> "idle", answer |-> Nothing, overtaken |-> e.overtaken]
      BY <1>3, Forms
    <2>3. no \in BOOLEAN
      OBVIOUS
    <2> HIDE DEF no
    <2> QED
      BY <1>3, <2>1, <2>2, <2>3, SMT DEF Entry
  <1> QED
    BY <1>2, <1>3

--------------------------------------------------------------------------------
(* How the entries of the cache move. *)

\* What one step may make of the entry e of query k, unless the router goes on.
EntryMoves(k, e, f) ==
  \/ f = e \/ f = Ask(e) \/ \E a \in BOOLEAN : f = Invalidate(e, a)
  \/ e.fetch = "asked" /\ f = [e EXCEPT !.fetch = "answered", !.answer = Look(k)]
  \/ e.fetch = "answered" /\ f = Receive(e)
  \/ f = GiveUp(e, "unreachable")

(* What is drawn anew is the entry that changed, and beside it only fetches start. *)
LEMMA RenderMoves ==
  ASSUME CacheTypes, NEW k \in Key, NEW f, NEW c, c = [cache EXCEPT ![k] = f], Render(c)
  PROVE  /\ cache' = [j \in Key |-> cache'[j]]
         /\ cache'[k] = f
         /\ \A j \in Key \ {k} : cache'[j] = cache[j] \/ cache'[j] = Ask(cache[j])
         /\ Open(cache') <=> Open(c)
         /\ panel' = IF Open(cache') THEN panel ELSE NoPanel
         /\ draft' = DraftIn(cache')
  <1>1. c = [j \in Key |-> IF j = k THEN f ELSE cache[j]]
    BY DEF CacheTypes
  <1>2. \A e : Mounted(e) \subseteq {e, Ask(e)}
    BY DEF Mounted
  <1>3. CASE Open(c) /\ ~Open(cache)
    <2>1. k = "detail"
      <3>1. k # "detail" => c.detail = cache.detail
        BY <1>1 DEF Key
      <3> QED
        BY <1>3, <3>1 DEF Open
    <2>2. PICK a \in Mounted(c.actions),
               t \in IF "timeline" \in session.uses THEN Mounted(c.audit) ELSE {c.audit} :
            cache' = [detail |-> c.detail, actions |-> a, audit |-> t]
      BY <1>3 DEF Render
    <2>3. a \in {c.actions, Ask(c.actions)} /\ t \in {c.audit, Ask(c.audit)}
      BY <1>2
    <2>4. c["detail"] = f /\ c["actions"] = cache["actions"] /\ c["audit"] = cache["audit"]
      BY <1>1, <2>1 DEF Key
    <2>5. /\ cache' = [j \in Key |-> cache'[j]]
          /\ cache'["detail"] = c["detail"] /\ cache'["actions"] = a /\ cache'["audit"] = t
      BY <2>2, SMT DEF Key
    <2>6. /\ cache'[k] = f
          /\ \A j \in Key \ {k} : cache'[j] = cache[j] \/ cache'[j] = Ask(cache[j])
      BY <2>1, <2>3, <2>4, <2>5 DEF Key
    <2>7. cache'.detail = c.detail
      BY <2>5
    <2> QED
      BY <2>5, <2>6, <2>7 DEF Render, Open, DraftIn
  <1>4. CASE ~(Open(c) /\ ~Open(cache))
    <2>1. cache' = c
      BY <1>4 DEF Render
    <2>2. cache' = [j \in Key |-> cache'[j]] /\ cache'[k] = f
      BY <1>1, <2>1
    <2>3. \A j \in Key \ {k} : cache'[j] = cache[j]
      BY <1>1, <2>1
    <2> QED
      BY <2>1, <2>2, <2>3 DEF Render
  <1> QED
    BY <1>3, <1>4

(* An invalidation moves every entry as it may move. *)
LEMMA InvalidateMoves ==
  ASSUME CacheTypes, NEW keys \in SUBSET Key, cache' = InvalidateAll(keys)
  PROVE  /\ cache' = [j \in Key |-> cache'[j]]
         /\ \A k \in Key : EntryMoves(k, cache[k], cache'[k])
         /\ \A k \in keys : \E a \in BOOLEAN : cache'[k] = Invalidate(cache[k], a)
         /\ \A k \in Key \ keys : cache'[k] = cache[k]
  <1>1. \A k \in Key : Active(k) \in BOOLEAN
    BY DEF Active
  <1>2. cache' = [k \in Key |-> IF k \in keys THEN Invalidate(cache[k], Active(k)) ELSE cache[k]]
    BY DEF InvalidateAll
  <1>3. \A k \in keys : cache'[k] = Invalidate(cache[k], Active(k))
    BY <1>2
  <1>4. \A k \in Key \ keys : cache'[k] = cache[k]
    BY <1>2
  <1>5. cache' = [j \in Key |-> cache'[j]]
    BY <1>2
  <1> QED
    BY <1>1, <1>3, <1>4, <1>5 DEF EntryMoves

(* Every step but the router's moves every entry so. *)
LEMMA EntriesMove ==
  ASSUME CacheTypes, Next, ~Navigate
  PROVE  /\ cache' = [k \in Key |-> cache'[k]]
         /\ \A k \in Key : EntryMoves(k, cache[k], cache'[k])
  <1> DEFINE Goal == /\ cache' = [k \in Key |-> cache'[k]]
                     /\ \A k \in Key : EntryMoves(k, cache[k], cache'[k])
  <1>0. ASSUME UNCHANGED cache PROVE Goal
    BY <1>0 DEF CacheTypes, EntryMoves
  <1>1. ASSUME NEW keys \in SUBSET Key, cache' = InvalidateAll(keys) PROVE Goal
    BY <1>1, InvalidateMoves
  <1>2. ASSUME NEW k \in Key, NEW f, cache' = [cache EXCEPT ![k] = f],
               EntryMoves(k, cache[k], f)
        PROVE  Goal
    <2>1. cache' = [j \in Key |-> IF j = k THEN f ELSE cache[j]]
      BY <1>2 DEF CacheTypes
    <2>2. \A j \in Key : cache'[j] = IF j = k THEN f ELSE cache[j]
      BY <2>1
    <2> QED
      BY <1>2, <2>1, <2>2 DEF EntryMoves
  <1>3. ASSUME NEW k \in Key, NEW f, NEW c, c = [cache EXCEPT ![k] = f], Render(c),
               EntryMoves(k, cache[k], f)
        PROVE  Goal
    BY <1>3, RenderMoves DEF EntryMoves
  <1>4. ASSUME NEW k \in Key, Reply(k) PROVE Goal
    <2> DEFINE f == [cache[k] EXCEPT !.fetch = "answered", !.answer = Look(k)]
    <2>1. cache[k].fetch = "asked"
          /\ cache' = [cache EXCEPT ![k].fetch = "answered", ![k].answer = Look(k)]
      BY <1>4 DEF Reply
    <2>2. cache' = [cache EXCEPT ![k] = f]
      BY <2>1 DEF CacheTypes
    <2>3. EntryMoves(k, cache[k], f)
      BY <2>1 DEF EntryMoves
    <2> HIDE DEF f
    <2> QED
      BY <1>2, <2>2, <2>3
  <1>5. ASSUME NEW k \in Key, Arrive(k) PROVE Goal
    BY <1>3, <1>5 DEF Arrive, EntryMoves
  <1>6. ASSUME NEW k \in Key, FetchFails(k) PROVE Goal
    BY <1>3, <1>6 DEF FetchFails, EntryMoves
  <1>7. ASSUME NEW k \in Key, Refetch(k) PROVE Goal
    BY <1>2, <1>7 DEF Refetch, EntryMoves
  <1>8. CASE EndPost
    <2>1. Key \subseteq Key /\ {"detail", "actions"} \subseteq Key
      BY DEF Key
    <2> QED
      BY <1>0, <1>1, <1>8, <2>1 DEF EndPost, OnSuccess, OnConflict
  <1>9. CASE EndSave \/ EndCreate
    BY <1>0, <1>1, <1>9 DEF EndSave, EndCreate
  <1>10. CASE EndUpload
    <2>1. {"detail", "audit"} \subseteq Key
      BY DEF Key
    <2> QED
      BY <1>0, <1>1, <1>10, <2>1 DEF EndUpload
  <1>11. CASE \/ OthersAct \/ EditElsewhere \/ Arm \/ Click \/ CancelAction \/ ServePost
              \/ LosePost \/ OpenDraft \/ TypeDraft \/ CancelDraft \/ SaveDraft \/ ServeSave
              \/ LoseSave \/ ClickCreate \/ ServeCreate \/ LoseCreate \/ ChooseFile
              \/ ClickUpload \/ ServeUpload \/ LoseUpload
    BY <1>0, <1>11
       DEF OthersAct, EditElsewhere, Arm, Click, CancelAction, ServePost, LosePost, OpenDraft,
           TypeDraft, CancelDraft, SaveDraft, ServeSave, LoseSave, ClickCreate, ServeCreate,
           LoseCreate, ChooseFile, ClickUpload, ServeUpload, LoseUpload
  <1> QED
    BY <1>4, <1>5, <1>6, <1>7, <1>8, <1>9, <1>10, <1>11 DEF Next

--------------------------------------------------------------------------------
(* How the records of the tab change field by field. *)

(* A panel that is armed. *)
LEMMA ArmedFields ==
  ASSUME NEW e \in Panel, NEW a, NEW r, NEW v
  PROVE  [e EXCEPT !.pending = a, !.refreshed = r, !.armedOn = v] =
           [pending |-> a, banner |-> e.banner, armedOn |-> v, refreshed |-> r]
  <1> DEFINE e1 == [e EXCEPT !.pending = a]
             e2 == [e1 EXCEPT !.refreshed = r]
  <1>1. e1 = [pending |-> a, banner |-> e.banner, armedOn |-> e.armedOn,
              refreshed |-> e.refreshed]
    BY SMT DEF Panel
  <1> HIDE DEF e1
  <1>2. e2 = [pending |-> a, banner |-> e.banner, armedOn |-> e.armedOn,
              refreshed |-> r]
    BY <1>1, SMT
  <1> HIDE DEF e2
  <1>3. [e2 EXCEPT !.armedOn = v] =
          [pending |-> a, banner |-> e.banner, armedOn |-> v, refreshed |-> r]
    BY <1>2, SMT
  <1> QED
    BY <1>3 DEF e1, e2

(* A draft form whose save has come back. *)
LEMMA SavedFields ==
  ASSUME NEW e \in Drafting, NEW b, NEW t
  PROVE  [e EXCEPT !.editing = b, !.typed = t] =
           [shown |-> e.shown, editing |-> b, value |-> e.value, typed |-> t,
            behind |-> e.behind]
  <1> DEFINE e1 == [e EXCEPT !.editing = b]
  <1>1. e1 = [shown |-> e.shown, editing |-> b, value |-> e.value,
              typed |-> e.typed, behind |-> e.behind]
    BY SMT DEF Drafting
  <1> HIDE DEF e1
  <1>2. [e1 EXCEPT !.typed = t] =
          [shown |-> e.shown, editing |-> b, value |-> e.value, typed |-> t,
           behind |-> e.behind]
    BY <1>1, SMT
  <1> QED
    BY <1>2 DEF e1

(* A draft form somebody types into. *)
LEMMA TypedFields ==
  ASSUME NEW e \in Drafting, NEW v, NEW t
  PROVE  [e EXCEPT !.value = v, !.typed = t] =
           [shown |-> e.shown, editing |-> e.editing, value |-> v, typed |-> t,
            behind |-> e.behind]
  <1> DEFINE e1 == [e EXCEPT !.value = v]
  <1>1. e1 = [shown |-> e.shown, editing |-> e.editing, value |-> v,
              typed |-> e.typed, behind |-> e.behind]
    BY SMT DEF Drafting
  <1> HIDE DEF e1
  <1>2. [e1 EXCEPT !.typed = t] =
          [shown |-> e.shown, editing |-> e.editing, value |-> v, typed |-> t,
           behind |-> e.behind]
    BY <1>1, SMT
  <1> QED
    BY <1>2 DEF e1

(* A draft form that is cancelled. *)
LEMMA CancelledFields ==
  ASSUME NEW e \in Drafting, NEW b, NEW t, NEW v, NEW h
  PROVE  [e EXCEPT !.editing = b, !.typed = t, !.value = v, !.behind = h] =
           [shown |-> e.shown, editing |-> b, value |-> v, typed |-> t, behind |-> h]
  <1> DEFINE e1 == [e EXCEPT !.editing = b]
             e2 == [e1 EXCEPT !.typed = t]
             e3 == [e2 EXCEPT !.value = v]
  <1>1. e1 = [shown |-> e.shown, editing |-> b, value |-> e.value,
              typed |-> e.typed, behind |-> e.behind]
    BY SMT DEF Drafting
  <1> HIDE DEF e1
  <1>2. e2 = [shown |-> e.shown, editing |-> b, value |-> e.value, typed |-> t,
              behind |-> e.behind]
    BY <1>1, SMT
  <1> HIDE DEF e2
  <1>3. e3 = [shown |-> e.shown, editing |-> b, value |-> v, typed |-> t,
              behind |-> e.behind]
    BY <1>2, SMT
  <1> HIDE DEF e3
  <1>4. [e3 EXCEPT !.behind = h] =
          [shown |-> e.shown, editing |-> b, value |-> v, typed |-> t, behind |-> h]
    BY <1>3, SMT
  <1> QED
    BY <1>4 DEF e1, e2, e3

(* The history after a change elsewhere ... *)
LEMMA ElsewhereFields ==
  ASSUME NEW e \in Past, NEW n, NEW f
  PROVE  [e EXCEPT !.elsewhere = n, !.flags = f] =
           [elsewhere |-> n, faults |-> e.faults, refetches |-> e.refetches,
            heard |-> e.heard, told |-> e.told, flags |-> f]
  <1> DEFINE e1 == [e EXCEPT !.elsewhere = n]
  <1>1. e1 = [elsewhere |-> n, faults |-> e.faults, refetches |-> e.refetches,
              heard |-> e.heard, told |-> e.told, flags |-> e.flags]
    BY SMT DEF Past
  <1> HIDE DEF e1
  <1>2. [e1 EXCEPT !.flags = f] =
          [elsewhere |-> n, faults |-> e.faults, refetches |-> e.refetches,
           heard |-> e.heard, told |-> e.told, flags |-> f]
    BY <1>1, SMT
  <1> QED
    BY <1>2 DEF e1

(* ... after a fault ... *)
LEMMA FaultFields ==
  ASSUME NEW e \in Past, NEW n, NEW f
  PROVE  [e EXCEPT !.faults = n, !.flags = f] =
           [elsewhere |-> e.elsewhere, faults |-> n, refetches |-> e.refetches,
            heard |-> e.heard, told |-> e.told, flags |-> f]
  <1> DEFINE e1 == [e EXCEPT !.faults = n]
  <1>1. e1 = [elsewhere |-> e.elsewhere, faults |-> n, refetches |-> e.refetches,
              heard |-> e.heard, told |-> e.told, flags |-> e.flags]
    BY SMT DEF Past
  <1> HIDE DEF e1
  <1>2. [e1 EXCEPT !.flags = f] =
          [elsewhere |-> e.elsewhere, faults |-> n, refetches |-> e.refetches,
           heard |-> e.heard, told |-> e.told, flags |-> f]
    BY <1>1, SMT
  <1> QED
    BY <1>2 DEF e1

(* ... and after a transition that was accepted. *)
LEMMA HeardFields ==
  ASSUME NEW e \in Past, NEW n, NEW m
  PROVE  [e EXCEPT !.heard = n, !.told = m] =
           [elsewhere |-> e.elsewhere, faults |-> e.faults,
            refetches |-> e.refetches, heard |-> n, told |-> m, flags |-> e.flags]
  <1> DEFINE e1 == [e EXCEPT !.heard = n]
  <1>1. e1 = [elsewhere |-> e.elsewhere, faults |-> e.faults,
              refetches |-> e.refetches, heard |-> n, told |-> e.told,
              flags |-> e.flags]
    BY SMT DEF Past
  <1> HIDE DEF e1
  <1>2. [e1 EXCEPT !.told = m] =
          [elsewhere |-> e.elsewhere, faults |-> e.faults,
           refetches |-> e.refetches, heard |-> n, told |-> m, flags |-> e.flags]
    BY <1>1, SMT
  <1> QED
    BY <1>2 DEF e1

--------------------------------------------------------------------------------
(* Which actions write what. *)
LEMMA Writers ==
  ASSUME Next
  PROVE  /\ UNCHANGED <<me, session>>
         /\ \/ UNCHANGED page \/ Navigate
         /\ \/ UNCHANGED row \/ OthersAct \/ ServePost \/ Navigate
         /\ \/ UNCHANGED content \/ EditElsewhere \/ ServeSave \/ Navigate
         /\ \/ UNCHANGED made \/ ServeCreate
         /\ \/ UNCHANGED stored \/ ServeUpload
         /\ \/ UNCHANGED panel \/ Arm \/ CancelAction \/ EndPost \/ Navigate
            \/ \E k \in Key : Arrive(k) \/ FetchFails(k) \/ Refetch(k)
         /\ \/ UNCHANGED post \/ Click \/ ServePost \/ EndPost \/ LosePost
         /\ \/ UNCHANGED draft \/ OpenDraft \/ TypeDraft \/ CancelDraft \/ EndSave
            \/ Navigate \/ \E k \in Key : Arrive(k) \/ FetchFails(k)
         /\ \/ UNCHANGED save \/ SaveDraft \/ ServeSave \/ EndSave \/ LoseSave
         /\ \/ UNCHANGED create \/ ClickCreate \/ ServeCreate \/ EndCreate
            \/ LoseCreate \/ Navigate
         /\ \/ UNCHANGED upload \/ ChooseFile \/ ClickUpload \/ ServeUpload
            \/ EndUpload \/ LoseUpload
         /\ \/ UNCHANGED past \/ OthersAct \/ EditElsewhere \/ EndPost \/ LosePost
            \/ LoseSave \/ ClickCreate \/ LoseCreate \/ Navigate \/ LoseUpload
            \/ \E k \in Key : FetchFails(k) \/ Refetch(k)
  <1> DEFINE Goal == /\ UNCHANGED <<me, session>>
                     /\ \/ UNCHANGED page \/ Navigate
                     /\ \/ UNCHANGED row \/ OthersAct \/ ServePost \/ Navigate
                     /\ \/ UNCHANGED content \/ EditElsewhere \/ ServeSave \/ Navigate
                     /\ \/ UNCHANGED made \/ ServeCreate
                     /\ \/ UNCHANGED stored \/ ServeUpload
                     /\ \/ UNCHANGED panel \/ Arm \/ CancelAction \/ EndPost \/ Navigate
                        \/ \E k \in Key : Arrive(k) \/ FetchFails(k) \/ Refetch(k)
                     /\ \/ UNCHANGED post \/ Click \/ ServePost \/ EndPost \/ LosePost
                     /\ \/ UNCHANGED draft \/ OpenDraft \/ TypeDraft \/ CancelDraft \/ EndSave
                        \/ Navigate \/ \E k \in Key : Arrive(k) \/ FetchFails(k)
                     /\ \/ UNCHANGED save \/ SaveDraft \/ ServeSave \/ EndSave \/ LoseSave
                     /\ \/ UNCHANGED create \/ ClickCreate \/ ServeCreate \/ EndCreate
                        \/ LoseCreate \/ Navigate
                     /\ \/ UNCHANGED upload \/ ChooseFile \/ ClickUpload \/ ServeUpload
                        \/ EndUpload \/ LoseUpload
                     /\ \/ UNCHANGED past \/ OthersAct \/ EditElsewhere \/ EndPost \/ LosePost
                        \/ LoseSave \/ ClickCreate \/ LoseCreate \/ Navigate \/ LoseUpload
                        \/ \E k \in Key : FetchFails(k) \/ Refetch(k)
  <1>1. CASE OthersAct
    BY <1>1 DEF OthersAct, server, buttons, editor, forms
  <1>2. CASE EditElsewhere
    BY <1>2 DEF EditElsewhere, server, buttons, editor, forms
  <1>3. ASSUME NEW k \in Key, Reply(k) PROVE Goal
    BY <1>3 DEF Reply, server, buttons, editor, forms
  <1>4. ASSUME NEW k \in Key, Arrive(k) PROVE Goal
    BY <1>4 DEF Arrive, Render, server, buttons, editor, forms
  <1>5. ASSUME NEW k \in Key, FetchFails(k) PROVE Goal
    BY <1>5 DEF FetchFails, Render, Fault, server, buttons, editor, forms
  <1>6. ASSUME NEW k \in Key, Refetch(k) PROVE Goal
    BY <1>6 DEF Refetch, server, buttons, editor, forms
  <1>7. CASE Arm
    BY <1>7 DEF Arm, server, buttons, editor, forms
  <1>8. CASE Click
    BY <1>8 DEF Click, server, buttons, editor, forms
  <1>9. CASE CancelAction
    BY <1>9 DEF CancelAction, server, buttons, editor, forms
  <1>10. CASE ServePost
    BY <1>10 DEF ServePost, Answered, server, buttons, editor, forms
  <1>11. CASE EndPost
    BY <1>11 DEF EndPost, OnSuccess, OnConflict, server, buttons, editor, forms
  <1>12. CASE LosePost
    BY <1>12 DEF LosePost, Fault, server, buttons, editor, forms
  <1>13. CASE OpenDraft
    BY <1>13 DEF OpenDraft, server, buttons, editor, forms
  <1>14. CASE TypeDraft
    BY <1>14 DEF TypeDraft, server, buttons, editor, forms
  <1>15. CASE CancelDraft
    BY <1>15 DEF CancelDraft, server, buttons, editor, forms
  <1>16. CASE SaveDraft
    BY <1>16 DEF SaveDraft, server, buttons, editor, forms
  <1>17. CASE ServeSave
    BY <1>17 DEF ServeSave, server, buttons, editor, forms
  <1>18. CASE EndSave
    BY <1>18 DEF EndSave, server, buttons, editor, forms
  <1>19. CASE LoseSave
    BY <1>19 DEF LoseSave, Fault, server, buttons, editor, forms
  <1>20. CASE ClickCreate
    BY <1>20 DEF ClickCreate, server, buttons, editor, forms
  <1>21. CASE ServeCreate
    BY <1>21 DEF ServeCreate, server, buttons, editor, forms
  <1>22. CASE EndCreate
    BY <1>22 DEF EndCreate, server, buttons, editor, forms
  <1>23. CASE LoseCreate
    BY <1>23 DEF LoseCreate, Fault, server, buttons, editor, forms
  <1>24. CASE Navigate
    BY <1>24 DEF Navigate, server, buttons, editor, forms
  <1>25. CASE ChooseFile
    BY <1>25 DEF ChooseFile, server, buttons, editor, forms
  <1>26. CASE ClickUpload
    BY <1>26 DEF ClickUpload, server, buttons, editor, forms
  <1>27. CASE ServeUpload
    BY <1>27 DEF ServeUpload, server, buttons, editor, forms
  <1>28. CASE EndUpload
    BY <1>28 DEF EndUpload, server, buttons, editor, forms
  <1>29. CASE LoseUpload
    BY <1>29 DEF LoseUpload, Fault, server, buttons, editor, forms
  <1> QED
    BY <1>1, <1>2, <1>3, <1>4, <1>5, <1>6, <1>7, <1>8, <1>9, <1>10, <1>11, <1>12, <1>13, <1>14,
       <1>15, <1>16, <1>17, <1>18, <1>19, <1>20, <1>21, <1>22, <1>23, <1>24, <1>25, <1>26, <1>27, <1>28, <1>29 DEF Next

--------------------------------------------------------------------------------
(* Types. *)

PTypes == TabTypes /\ CacheTypes /\ CallTypes /\ ScreenInv

(* An entry nobody has asked for. *)
LEMMA NewEntryIsTyped ==
  ASSUME NEW S
  PROVE  /\ NewEntry \in Entry(S)
         /\ NewEntry.data = Nothing /\ NewEntry.fetch = "idle" /\ ~NewEntry.overtaken
  <1> DEFINE no == FALSE
  <1>1. NewEntry = [data |-> Nothing, error |-> "none", invalid |-> no,
                    fetch |-> "idle", answer |-> Nothing, overtaken |-> no]
    BY DEF NewEntry
  <1>2. no \in BOOLEAN /\ ~no
    OBVIOUS
  <1> HIDE DEF no
  <1> QED
    BY <1>1, <1>2, SMT DEF Entry

(* The server answers with a picture of the row, or that there is none. *)
LEMMA LookIsTyped ==
  ASSUME TabTypes, NEW k \in Key
  PROVE  /\ Look(k) \in Answer(Shot(k)) /\ Look(k) # Nothing
         /\ Look(k).status = 200 =>
              /\ k \in {"detail", "actions"} => Look(k).data.row = row
              /\ Look(k).data.row.version = row.version
  <1>1. ToResponse(Http(404, NoCode)) = [status |-> 404, code |-> "NOT_FOUND"]
    BY DEF ToResponse, Http, NoCode, Response, NormalizeNestException, CodeForStatus
  <1>2. /\ Snapshot(k) \in Shot(k)
        /\ k \in {"detail", "actions"} => Snapshot(k).row = row
        /\ Snapshot(k).row.version = row.version
    <2>1. CASE k = "detail"
      BY <2>1, SMT DEF Snapshot, Shot, TabTypes
    <2>2. CASE k = "actions"
      BY <2>2, SMT DEF Snapshot, Shot, TabTypes
    <2>3. CASE k = "audit"
      <3> DEFINE r == [NoRow EXCEPT !.version = row.version]
      <3>1. r \in Filed /\ r.version = row.version
        BY SMT DEF NoRow, Filed, Row, TabTypes
      <3>2. Snapshot(k) = [row |-> r]
        BY <2>3 DEF Snapshot
      <3> HIDE DEF r
      <3> QED
        BY <2>3, <3>1, <3>2, SMT DEF Shot
    <2> QED
      BY <2>1, <2>2, <2>3 DEF Key
  <1> DEFINE s == Snapshot(k)
  <1>3. CASE Visible(row, me, Role)
    <2>1. Look(k) = [status |-> 200, data |-> s]
      BY <1>3 DEF Look
    <2> HIDE DEF s
    <2>2. Look(k) # Nothing
      BY <2>1, SMT DEF Nothing
    <2>3. s \in Shot(k) => Look(k) \in Answer(Shot(k))
      BY <2>1, SMT DEF Answer
    <2> QED
      BY <1>2, <2>1, <2>2, <2>3 DEF s
  <1>4. CASE ~Visible(row, me, Role)
    <2>1. Look(k) = [status |-> 404, code |-> "NOT_FOUND"]
      BY <1>1, <1>4 DEF Look
    <2>2. Look(k) # Nothing
      BY <2>1, SMT DEF Nothing
    <2>3. Look(k).status = 404 /\ Look(k) \in [status : {404}, code : {"NOT_FOUND"}]
      BY <2>1, SMT
    <2>4. Look(k).status # 200
      BY <2>3, SMT
    <2> QED
      BY <2>2, <2>3, <2>4 DEF Answer
  <1> QED
    BY <1>3, <1>4

(* What the panel offers, it offers for a row it has been given. *)
LEMMA OfferedIsTyped ==
  ASSUME CacheTypes, NEW a \in Offered
  PROVE  /\ Open(cache) /\ cache.actions.data # Nothing /\ Avail \in Filed
         /\ a \in WorkflowAction
         /\ a \in NEEDS_NOTE => Role # "APPLICANT"
  <1>1. /\ Open(cache) /\ cache.actions.data # Nothing
        /\ a \in AvailableActions(Avail, me, Role)
    BY DEF Offered
  <1>2. Avail \in Filed
    <2>1. cache["actions"] \in Entry(Shot("actions"))
      BY DEF CacheTypes, Key
    <2>2. cache.actions.data \in [row : Filed]
      BY <1>1, <2>1 DEF Entry, Shot
    <2> QED
      BY <2>2 DEF Avail
  <1>3. PICK t \in TRANSITIONS : a = t.action /\ CanAct(t, ActorContext(me, Role, Avail))
    BY <1>1 DEF AvailableActions
  <1>4. t.role = Role
    BY <1>3 DEF CanAct, ActorContext
  <1>5. t.action \in NEEDS_NOTE => t.role # "APPLICANT"
    BY DEF TRANSITIONS, NEEDS_NOTE
  <1> QED
    BY <1>1, <1>2, <1>3, <1>4, <1>5, RulesLead

(* Which actions write the cache. *)
LEMMA CacheWriters ==
  ASSUME Next
  PROVE  \/ UNCHANGED cache \/ Navigate
         \/ \E keys \in SUBSET Key : cache' = InvalidateAll(keys)
         \/ \E k \in Key : Reply(k) \/ Arrive(k) \/ FetchFails(k) \/ Refetch(k)
  <1>1. Key \in SUBSET Key /\ {"detail", "actions"} \in SUBSET Key
          /\ {"detail", "audit"} \in SUBSET Key
    BY DEF Key
  <1>2. CASE EndPost
    BY <1>1, <1>2 DEF EndPost, OnSuccess, OnConflict
  <1>3. CASE EndSave \/ EndCreate \/ EndUpload
    BY <1>1, <1>3 DEF EndSave, EndCreate, EndUpload
  <1>4. CASE \/ OthersAct \/ EditElsewhere \/ Arm \/ Click \/ CancelAction \/ ServePost
             \/ LosePost \/ OpenDraft \/ TypeDraft \/ CancelDraft \/ SaveDraft \/ ServeSave
             \/ LoseSave \/ ClickCreate \/ ServeCreate \/ LoseCreate \/ ChooseFile
             \/ ClickUpload \/ ServeUpload \/ LoseUpload
    BY <1>4
       DEF OthersAct, EditElsewhere, Arm, Click, CancelAction, ServePost, LosePost, OpenDraft,
           TypeDraft, CancelDraft, SaveDraft, ServeSave, LoseSave, ClickCreate, ServeCreate,
           LoseCreate, ChooseFile, ClickUpload, ServeUpload, LoseUpload
  <1> QED
    BY <1>2, <1>3, <1>4 DEF Next

(* An answer put into an entry leaves the rest of it. *)
LEMMA AnsweredFields ==
  ASSUME NEW S, NEW e \in Entry(S), NEW w
  PROVE  [e EXCEPT !.fetch = "answered", !.answer = w] =
           [data |-> e.data, error |-> e.error, invalid |-> e.invalid,
            fetch |-> "answered", answer |-> w, overtaken |-> e.overtaken]
  <1> DEFINE f == [e EXCEPT !.fetch = "answered"]
  <1>1. f = [data |-> e.data, error |-> e.error, invalid |-> e.invalid,
             fetch |-> "answered", answer |-> e.answer, overtaken |-> e.overtaken]
    BY SMT DEF Entry
  <1> HIDE DEF f
  <1>2. [f EXCEPT !.answer = w] =
          [data |-> e.data, error |-> e.error, invalid |-> e.invalid,
           fetch |-> "answered", answer |-> w, overtaken |-> e.overtaken]
    BY <1>1, SMT
  <1> QED
    BY <1>2 DEF f

(* Whatever moves them, entries stay entries. *)
LEMMA CacheStaysTyped ==
  ASSUME TabTypes, CacheTypes, Next
  PROVE  CacheTypes'
  <1>1. CASE Navigate
    <2>1. cache' = [k \in Key |-> IF k = "detail" THEN Ask(NewEntry) ELSE NewEntry]
      BY <1>1 DEF Navigate
    <2>2. \A k \in Key : cache'[k] \in {Ask(NewEntry), NewEntry}
      BY <2>1
    <2>3. \A S : {Ask(NewEntry), NewEntry} \subseteq Entry(S)
      BY NewEntryIsTyped, AskIsTyped
    <2>4. cache' = [k \in Key |-> cache'[k]]
      BY <2>1
    <2> QED
      BY <2>2, <2>3, <2>4 DEF CacheTypes
  <1>2. CASE ~Navigate
    <2>1. /\ cache' = [k \in Key |-> cache'[k]]
          /\ \A k \in Key : EntryMoves(k, cache[k], cache'[k])
      BY <1>2, EntriesMove
    <2>2. ASSUME NEW k \in Key PROVE cache'[k] \in Entry(Shot(k))
      <3> DEFINE e == cache[k]
                 S == Shot(k)
                 w == Look(k)
      <3>1. e \in Entry(S)
        BY DEF CacheTypes
      <3>2. EntryMoves(k, e, cache'[k])
        BY <2>1
      <3>3. [e EXCEPT !.fetch = "answered", !.answer = w] \in Entry(S)
        <4>1. w \in Answer(S) /\ w # Nothing
          BY LookIsTyped
        <4> HIDE DEF e, S, w
        <4>2. [e EXCEPT !.fetch = "answered", !.answer = w] =
                [data |-> e.data, error |-> e.error, invalid |-> e.invalid,
                 fetch |-> "answered", answer |-> w, overtaken |-> e.overtaken]
          BY <3>1, AnsweredFields
        <4> QED
          BY <3>1, <4>1, <4>2, SMT DEF Entry
      <3> DEFINE f == cache'[k]
      <3>4. \/ f = e \/ f = Ask(e) \/ \E a \in BOOLEAN : f = Invalidate(e, a)
            \/ f = [e EXCEPT !.fetch = "answered", !.answer = w]
            \/ e.fetch = "answered" /\ f = Receive(e)
            \/ f = GiveUp(e, "unreachable")
        BY <3>2 DEF EntryMoves
      <3> HIDE DEF e, S, w, f
      <3>5. f \in Entry(S)
        BY <3>1, <3>3, <3>4, AskIsTyped, InvalidateIsTyped, ReceiveIsTyped, GiveUpIsTyped
      <3> QED
        BY <3>5 DEF f, S
    <2> QED
      BY <2>1, <2>2 DEF CacheTypes, Shot, Entry, Answer, Filed, Row
  <1> QED
    BY <1>1, <1>2

(* The row stays one an applicant filed, and unless the router goes on to another *)
(* it moves by one version at a time.                                             *)
LEMMA RowMoves ==
  ASSUME TabTypes, CallTypes, ScreenInv, Next
  PROVE  /\ row' \in Filed
         /\ ~Navigate => row' = row \/ row'.version = row.version + 1
  <1> USE DEF TabTypes
  <1>2. CASE OthersAct
    <2>1. PICK u \in User, rule \in TRANSITIONS :
            row' = ComputePatch(row, rule.action, rule.to, u)
      BY <1>2 DEF OthersAct
    <2> QED
      BY <2>1, PatchKeepsFiled
  <1>3. CASE ServePost
    <2>1. \/ UNCHANGED row
          \/ \E t \in TRANSITIONS : row' = ComputePatch(row, t.action, t.to, me)
      BY <1>3 DEF ServePost, RulesFor
    <2> QED
      BY <2>1, PatchKeepsFiled
  <1>4. CASE Navigate
    <2>1. row' = NewRow(me) /\ me \in Owners
      BY <1>4 DEF Navigate, ScreenInv, Role, Owners
    <2> QED
      BY <1>4, <2>1, NewRowsAreFiled
  <1> QED
    BY <1>2, <1>3, <1>4, Writers

(* The history stays what it is. *)
LEMMA PastStaysTyped ==
  ASSUME PTypes, Next
  PROVE  past' \in Past
  <1>1. past \in Past /\ row.version \in Nat
    BY DEF PTypes, TabTypes, Filed, Row
  <1>2. \A n \in Nat, f \in SUBSET {"edited", "lost", "again"} :
          /\ [past EXCEPT !.elsewhere = n] \in Past
          /\ [past EXCEPT !.elsewhere = n, !.flags = f] \in Past
          /\ [past EXCEPT !.faults = n, !.flags = f] \in Past
          /\ [past EXCEPT !.refetches = n] \in Past
          /\ [past EXCEPT !.flags = f] \in Past
          /\ [past EXCEPT !.heard = n] \in Past
    <2> TAKE n \in Nat, f \in SUBSET {"edited", "lost", "again"}
    <2>1. [past EXCEPT !.elsewhere = n] \in Past /\ [past EXCEPT !.refetches = n] \in Past
      BY <1>1, SMT DEF Past
    <2>2. [past EXCEPT !.flags = f] \in Past /\ [past EXCEPT !.heard = n] \in Past
      BY <1>1, SMT DEF Past
    <2> DEFINE p == [past EXCEPT !.elsewhere = n, !.flags = f]
               q == [past EXCEPT !.faults = n, !.flags = f]
    <2>3. p = [elsewhere |-> n, faults |-> past.faults, refetches |-> past.refetches,
               heard |-> past.heard, told |-> past.told, flags |-> f]
      BY <1>1, ElsewhereFields
    <2>4. q = [elsewhere |-> past.elsewhere, faults |-> n, refetches |-> past.refetches,
               heard |-> past.heard, told |-> past.told, flags |-> f]
      BY <1>1, FaultFields
    <2> HIDE DEF p, q
    <2>5. p \in Past /\ q \in Past
      BY <1>1, <2>3, <2>4, SMT DEF Past
    <2> QED
      BY <2>1, <2>2, <2>5 DEF p, q
  <1>3. \A n, m \in Nat : [past EXCEPT !.heard = n, !.told = m] \in Past
    <2> TAKE n, m \in Nat
    <2> DEFINE p == [past EXCEPT !.heard = n, !.told = m]
    <2>1. p = [elsewhere |-> past.elsewhere, faults |-> past.faults,
               refetches |-> past.refetches, heard |-> n, told |-> m, flags |-> past.flags]
      BY <1>1, HeardFields
    <2> HIDE DEF p
    <2>2. p \in Past
      BY <1>1, <2>1, SMT DEF Past
    <2> QED
      BY <2>2 DEF p
  <1>4. /\ past.elsewhere + 1 \in Nat /\ past.faults + 1 \in Nat /\ past.refetches + 1 \in Nat
        /\ past.flags \cup {"edited"} \in SUBSET {"edited", "lost", "again"}
        /\ past.flags \cup {"lost"} \in SUBSET {"edited", "lost", "again"}
        /\ past.flags \cup {"again"} \in SUBSET {"edited", "lost", "again"}
        /\ past.flags \cup {} \in SUBSET {"edited", "lost", "again"}
    <2>1. /\ past.elsewhere \in Nat /\ past.faults \in Nat /\ past.refetches \in Nat
          /\ past.flags \subseteq {"edited", "lost", "again"}
      BY <1>1 DEF Past
    <2>2. /\ past.elsewhere + 1 \in Nat /\ past.faults + 1 \in Nat
          /\ past.refetches + 1 \in Nat
      BY <2>1
    <2>3. \A f \in SUBSET {"edited", "lost", "again"} :
            past.flags \cup f \in SUBSET {"edited", "lost", "again"}
      BY <2>1
    <2>4. /\ past.flags \cup {"edited"} \in SUBSET {"edited", "lost", "again"}
          /\ past.flags \cup {"lost"} \in SUBSET {"edited", "lost", "again"}
          /\ past.flags \cup {"again"} \in SUBSET {"edited", "lost", "again"}
          /\ past.flags \cup {} \in SUBSET {"edited", "lost", "again"}
      BY <2>3, Zenon
    <2> QED
      BY <2>2, <2>4
  <1>5. ASSUME NEW f \in SUBSET {"edited", "lost", "again"}
        PROVE  /\ [past EXCEPT !.elsewhere = past.elsewhere + 1] \in Past
               /\ [past EXCEPT !.elsewhere = past.elsewhere + 1, !.flags = f] \in Past
               /\ [past EXCEPT !.faults = past.faults + 1, !.flags = f] \in Past
               /\ [past EXCEPT !.refetches = past.refetches + 1] \in Past
               /\ [past EXCEPT !.flags = f] \in Past
    <2> DEFINE n == past.elsewhere + 1
               m == past.faults + 1
               o == past.refetches + 1
    <2>1. n \in Nat /\ m \in Nat /\ o \in Nat
      BY <1>4
    <2> HIDE DEF n, m, o
    <2>2. /\ [past EXCEPT !.elsewhere = n] \in Past
          /\ [past EXCEPT !.elsewhere = n, !.flags = f] \in Past
          /\ [past EXCEPT !.faults = m, !.flags = f] \in Past
          /\ [past EXCEPT !.refetches = o] \in Past
          /\ [past EXCEPT !.flags = f] \in Past
      BY <1>2, <2>1, Zenon
    <2> QED
      BY <2>2 DEF n, m, o
  <1>6. CASE OthersAct \/ EditElsewhere
    <2> DEFINE f == past.flags \cup {"edited"}
    <2>1. \/ past' = [past EXCEPT !.elsewhere = past.elsewhere + 1]
          \/ past' = [past EXCEPT !.elsewhere = past.elsewhere + 1, !.flags = f]
      BY <1>6 DEF OthersAct, EditElsewhere
    <2>2. f \in SUBSET {"edited", "lost", "again"}
      BY <1>4
    <2> HIDE DEF f
    <2> QED
      BY <1>5, <2>1, <2>2, Zenon
  <1>7. ASSUME NEW f \in SUBSET {"edited", "lost", "again"}, Fault(f) PROVE past' \in Past
    <2> DEFINE g == past.flags \cup f
    <2>1. past' = [past EXCEPT !.faults = past.faults + 1, !.flags = g]
      BY <1>7 DEF Fault
    <2>2. g \in SUBSET {"edited", "lost", "again"}
      BY <1>1 DEF Past
    <2> HIDE DEF g
    <2> QED
      BY <1>5, <2>1, <2>2, Zenon
  <1>8. CASE LosePost \/ LoseSave \/ LoseCreate \/ LoseUpload \/ \E k \in Key : FetchFails(k)
    <2>1. Fault({}) \/ Fault({"lost"})
      BY <1>8 DEF LosePost, LoseSave, LoseCreate, LoseUpload, FetchFails
    <2>2. {} \in SUBSET {"edited", "lost", "again"} /\ {"lost"} \in SUBSET {"edited", "lost", "again"}
      OBVIOUS
    <2> QED
      BY <1>7, <2>1, <2>2, Zenon
  <1>11. CASE ClickCreate \/ \E k \in Key : Refetch(k)
    <2> DEFINE f == past.flags \cup {"again"}
    <2>1. \/ past' = past \/ past' = [past EXCEPT !.flags = f]
          \/ past' = [past EXCEPT !.refetches = past.refetches + 1]
      BY <1>11 DEF ClickCreate, Refetch
    <2>2. f \in SUBSET {"edited", "lost", "again"}
      BY <1>4
    <2> HIDE DEF f
    <2> QED
      BY <1>1, <1>5, <2>1, <2>2, Zenon
  <1>9. CASE EndPost
    <2>1. post \in Done
      BY <1>9, SMT DEF EndPost, PTypes, CallTypes, Asked, NoPost
    <2>2. post.on.version \in Nat /\ post.on.version + 1 \in Nat
      BY <2>1 DEF Done, Filed, Row
    <2> DEFINE v == post.on.version
    <2>3. \/ past' = past \/ past' = [past EXCEPT !.heard = v]
          \/ past' = [past EXCEPT !.heard = v + 1, !.told = v + 1]
      BY <1>9 DEF EndPost, OnSuccess, OnConflict
    <2> HIDE DEF v
    <2>4. [past EXCEPT !.heard = v] \in Past
      <3>1. {"edited"} \in SUBSET {"edited", "lost", "again"}
        OBVIOUS
      <3> QED
        BY <1>2, <2>2, <3>1 DEF v
    <2> QED
      BY <1>1, <1>3, <2>2, <2>3, <2>4 DEF v
  <1>10. CASE Navigate
    BY <1>3, <1>10 DEF Navigate
  <1> QED
    BY <1>1, <1>6, <1>8, <1>9, <1>10, <1>11, Writers

(* What is true of the tab's own variables stays true. *)
LEMMA TabStaysTyped ==
  ASSUME PTypes, Next
  PROVE  TabTypes'
  <1> USE DEF PTypes, TabTypes
  <1>1. me' = me /\ session' = session
    BY Writers
  <1>2. page' \in {"new", "application"}
    BY Writers DEF Navigate
  <1>3. row' \in Filed
    BY RowMoves
  <1>4. content' \in Content
    <2>1. CASE EditElsewhere \/ Navigate
      BY <2>1 DEF EditElsewhere, Navigate
    <2>2. CASE ServeSave
      <3>1. save \in Saving
        BY <2>2, SMT DEF CallTypes, ServeSave, NoSave
      <3>2. content' = IF row.state = "DRAFT" THEN save.value ELSE content
        BY <2>2 DEF ServeSave
      <3> QED
        BY <3>1, <3>2 DEF Saving
    <2> QED
      BY <2>1, <2>2, Writers
  <1>5. made' \in Nat /\ stored' \in Nat
    BY Writers DEF ServeCreate, ServeUpload
  <1>6. past' \in Past
    BY PastStaysTyped
  <1> QED
    BY <1>1, <1>2, <1>3, <1>4, <1>5, <1>6

(* What a user sees of the application changes when an answer arrives or a fetch *)
(* is given up, and when the router goes on.                                     *)
LEMMA OpenStays ==
  ASSUME CacheTypes, Next, ~Navigate, ~\E k \in Key : Arrive(k) \/ FetchFails(k)
  PROVE  /\ cache'.detail.data = cache.detail.data
         /\ Open(cache') <=> Open(cache)
  <1>1. cache.detail \in Entry(Shot("detail")) /\ "detail" \in Key
    BY DEF CacheTypes, Key
  <1>2. ASSUME NEW a \in BOOLEAN, cache'.detail = Invalidate(cache.detail, a)
        PROVE  /\ cache'.detail.data = cache.detail.data
               /\ Open(cache') <=> Open(cache)
    BY <1>1, <1>2, InvalidateIsTyped DEF Open
  <1>3. ASSUME NEW keys \in SUBSET Key, cache' = InvalidateAll(keys)
        PROVE  /\ cache'.detail.data = cache.detail.data
               /\ Open(cache') <=> Open(cache)
    <2>1. \/ \E a \in BOOLEAN : cache'.detail = Invalidate(cache.detail, a)
          \/ cache'.detail = cache.detail
      BY <1>1, <1>3, InvalidateMoves
    <2> QED
      BY <1>2, <2>1 DEF Open
  <1>4. ASSUME NEW k \in Key, Reply(k)
        PROVE  /\ cache'.detail.data = cache.detail.data
               /\ Open(cache') <=> Open(cache)
    <2> DEFINE w == Look(k)
               e == cache[k]
               f == [e EXCEPT !.fetch = "answered", !.answer = w]
    <2>1. cache' = [cache EXCEPT ![k] = f]
      BY <1>4 DEF Reply, CacheTypes
    <2>2. e \in Entry(Shot(k))
      BY DEF CacheTypes
    <2> HIDE DEF w
    <2>3. f = [data |-> e.data, error |-> e.error, invalid |-> e.invalid,
               fetch |-> "answered", answer |-> w, overtaken |-> e.overtaken]
      BY <2>2, AnsweredFields
    <2>4. f.data = e.data /\ f.error = e.error
      BY <2>3
    <2> HIDE DEF f
    <2>5. cache'.detail = IF k = "detail" THEN f ELSE cache.detail
      BY <1>1, <2>1 DEF CacheTypes
    <2> QED
      BY <2>4, <2>5 DEF Open
  <1>5. ASSUME NEW k \in Key, Refetch(k)
        PROVE  /\ cache'.detail.data = cache.detail.data
               /\ Open(cache') <=> Open(cache)
    <2>1. cache' = [cache EXCEPT ![k] = Ask(cache[k])]
      BY <1>5 DEF Refetch
    <2>2. cache'.detail = IF k = "detail" THEN Ask(cache.detail) ELSE cache.detail
      BY <1>1, <2>1 DEF CacheTypes
    <2> QED
      BY <1>1, <2>2, AskIsTyped DEF Open
  <1> QED
    BY <1>3, <1>4, <1>5, CacheWriters DEF Open

(* The panel. *)
LEMMA PanelStaysTyped ==
  ASSUME PTypes, Next
  PROVE  panel' \in Panel
  <1>1. panel \in Panel
    BY DEF PTypes, CallTypes
  <1>2. NoPanel \in Panel
    BY SMT DEF NoPanel, Panel
  <1>3. CASE Arm
    <2>1. PICK a \in Offered :
            panel' = [panel EXCEPT !.pending = a, !.refreshed = (cache.actions.fetch # "idle"),
                                   !.armedOn = Avail.version]
      BY <1>3 DEF Arm
    <2> DEFINE r == cache.actions.fetch # "idle"
               v == Avail.version
    <2>2. r \in BOOLEAN /\ v \in Nat /\ a \in WorkflowAction
      BY OfferedIsTyped DEF PTypes, Filed, Row
    <2>3. panel' = [panel EXCEPT !.pending = a, !.refreshed = r, !.armedOn = v]
      BY <2>1
    <2> HIDE DEF r, v
    <2>4. panel' = [pending |-> a, banner |-> panel.banner, armedOn |-> v, refreshed |-> r]
      BY <1>1, <2>3, ArmedFields
    <2> QED
      BY <1>1, <2>2, <2>4, SMT DEF Panel
  <1>4. CASE CancelAction
    BY <1>1, <1>4, SMT DEF CancelAction, Panel
  <1>5. CASE EndPost
    <2> DEFINE yes == TRUE
    <2>1. panel' \in {panel, NoPanel} \/ panel' = [panel EXCEPT !.banner = yes]
      BY <1>5 DEF EndPost, OnSuccess, OnConflict
    <2>2. yes \in BOOLEAN
      OBVIOUS
    <2> HIDE DEF yes
    <2>3. [panel EXCEPT !.banner = yes] \in Panel
      BY <1>1, <2>2, SMT DEF Panel
    <2> QED
      BY <1>1, <1>2, <2>1, <2>3
  <1>6. ASSUME NEW k \in Key, Arrive(k) \/ FetchFails(k) PROVE panel' \in Panel
    BY <1>1, <1>2, <1>6 DEF Arrive, FetchFails, Render
  <1>7. ASSUME NEW k \in Key, Refetch(k) PROVE panel' \in Panel
    <2> DEFINE r == panel.refreshed \/ (k = "actions" /\ panel.pending # NoAction)
    <2>1. panel' = [panel EXCEPT !.refreshed = r]
      BY <1>7 DEF Refetch
    <2>2. r \in BOOLEAN
      OBVIOUS
    <2> HIDE DEF r
    <2> QED
      BY <1>1, <2>1, <2>2, SMT DEF Panel
  <1>8. CASE Navigate
    BY <1>2, <1>8 DEF Navigate
  <1> QED
    BY <1>1, <1>3, <1>4, <1>5, <1>6, <1>7, <1>8, Writers

(* The three refusals a transition meets. *)
LEMMA Refusals ==
  /\ ToResponse(Http(409, "ILLEGAL_STATE_TRANSITION")) =
       [status |-> 409, code |-> "ILLEGAL_STATE_TRANSITION"]
  /\ ToResponse(Http(409, "CONCURRENT_MODIFICATION")) =
       [status |-> 409, code |-> "CONCURRENT_MODIFICATION"]
  /\ ToResponse(Http(403, "FORBIDDEN")) = [status |-> 403, code |-> "FORBIDDEN"]
  BY DEF ToResponse, Http, NoCode, Response, NormalizeNestException

(* A click sends what the panel was drawn with. *)
LEMMA ClickAsks ==
  ASSUME PTypes, Click
  PROVE  /\ post' \in Asked
         /\ post'.seen = Avail /\ post'.version = Avail.version
         /\ cache.actions.data # Nothing
         /\ post'.action \in NEEDS_NOTE => panel.pending = post'.action
         /\ post'.told <=> \/ post'.action \notin NEEDS_NOTE
                           \/ panel.armedOn = Avail.version
                           \/ panel.banner \/ panel.refreshed
  <1>1. PICK a \in Offered :
          /\ a \in NEEDS_NOTE => panel.pending = a
          /\ post' = [stage |-> "asked", action |-> a, version |-> Avail.version,
                      seen |-> Avail,
                      told |-> \/ a \notin NEEDS_NOTE \/ panel.armedOn = Avail.version
                               \/ panel.banner \/ panel.refreshed]
    BY DEF Click, ExpectedVersion
  <1> DEFINE t == \/ a \notin NEEDS_NOTE \/ panel.armedOn = Avail.version
                  \/ panel.banner \/ panel.refreshed
  <1>2. a \in WorkflowAction /\ Avail \in Filed /\ Avail.version \in Nat
        /\ cache.actions.data # Nothing /\ t \in BOOLEAN
    BY OfferedIsTyped DEF PTypes, Filed, Row
  <1>3. post' = [stage |-> "asked", action |-> a, version |-> Avail.version,
                 seen |-> Avail, told |-> t]
    BY <1>1
  <1> HIDE DEF t
  <1>4. post' \in Asked /\ post'.seen = Avail /\ post'.version = Avail.version
        /\ post'.action = a /\ post'.told = t
    BY <1>2, <1>3, SMT DEF Asked
  <1> QED
    BY <1>1, <1>2, <1>4 DEF t

(* What becomes of a transition on the server. *)
LEMMA ServeAnswers ==
  ASSUME PTypes, ServePost
  PROVE  /\ post \in Asked
         /\ post' \in Done
         /\ post'.seen = post.seen /\ post'.told = post.told /\ post'.on = row
         /\ \/ post'.answer.status # 200 /\ UNCHANGED row
            \/ /\ post'.answer.status = 200 /\ post.version = row.version
               /\ row' \in Filed /\ row'.version = row.version + 1
  <1>1. post \in Asked
    BY SMT DEF PTypes, CallTypes, ServePost, NoPost, Done
  <1>2. ASSUME NEW w \in {[status |-> 409, code |-> "ILLEGAL_STATE_TRANSITION"],
                          [status |-> 409, code |-> "CONCURRENT_MODIFICATION"],
                          [status |-> 403, code |-> "FORBIDDEN"],
                          [status |-> 200]},
               Answered(w)
        PROVE  /\ post' \in Done /\ post'.answer = w
               /\ post'.seen = post.seen /\ post'.told = post.told /\ post'.on = row
    <2>1. post' = [stage |-> "answered", seen |-> post.seen, told |-> post.told,
                   answer |-> w, on |-> row]
      BY <1>2 DEF Answered
    <2>2. w \in [status : {200}] \cup
                [status : {403, 409},
                 code : {"FORBIDDEN", "ILLEGAL_STATE_TRANSITION", "CONCURRENT_MODIFICATION"}]
      BY SMT
    <2>3. post.seen \in Filed /\ post.told \in BOOLEAN /\ row \in Filed
      BY <1>1 DEF Asked, PTypes, TabTypes
    <2> QED
      BY <2>1, <2>2, <2>3, SMT DEF Done
  <1>3. \/ /\ UNCHANGED row
           /\ \E w \in {[status |-> 409, code |-> "ILLEGAL_STATE_TRANSITION"],
                        [status |-> 409, code |-> "CONCURRENT_MODIFICATION"],
                        [status |-> 403, code |-> "FORBIDDEN"]} : Answered(w)
        \/ /\ post.version = row.version
           /\ \E t \in TRANSITIONS : row' = ComputePatch(row, t.action, t.to, me)
           /\ Answered([status |-> 200])
    BY Refusals DEF ServePost, RulesFor
  <1>4. CASE /\ UNCHANGED row
             /\ \E w \in {[status |-> 409, code |-> "ILLEGAL_STATE_TRANSITION"],
                          [status |-> 409, code |-> "CONCURRENT_MODIFICATION"],
                          [status |-> 403, code |-> "FORBIDDEN"]} : Answered(w)
    <2>1. PICK w \in {[status |-> 409, code |-> "ILLEGAL_STATE_TRANSITION"],
                      [status |-> 409, code |-> "CONCURRENT_MODIFICATION"],
                      [status |-> 403, code |-> "FORBIDDEN"]} : Answered(w)
      BY <1>4
    <2>2. w.status # 200
      BY SMT
    <2> QED
      BY <1>1, <1>2, <1>4, <2>1, <2>2
  <1>5. CASE /\ post.version = row.version
             /\ \E t \in TRANSITIONS : row' = ComputePatch(row, t.action, t.to, me)
             /\ Answered([status |-> 200])
    <2>1. row' \in Filed /\ row'.version = row.version + 1
      BY <1>5, PatchKeepsFiled DEF PTypes, TabTypes
    <2> QED
      BY <1>1, <1>2, <1>5, <2>1
  <1> QED
    BY <1>3, <1>4, <1>5

(* The call of a button. *)
LEMMA PostStaysTyped ==
  ASSUME PTypes, Next
  PROVE  post' \in {NoPost} \cup Asked \cup Done
  BY Writers, ClickAsks, ServeAnswers DEF PTypes, CallTypes, EndPost, LosePost

(* A draft form is there while the page says DRAFT, to its applicant. *)
LEMMA DraftInIsTyped ==
  ASSUME CallTypes, CacheTypes, NEW c, c["detail"] \in Entry(Shot("detail"))
  PROVE  /\ DraftIn(c) \in {NoDraft} \cup Drafting
         /\ DraftIn(c) # NoDraft => Open(c) /\ c.detail.data.row.applicantId = me
         /\ \/ DraftIn(c) = NoDraft \/ DraftIn(c) = draft
            \/ /\ DraftIn(c) \in Drafting /\ ~DraftIn(c).typed
               /\ DraftIn(c).value = c.detail.data.content
               /\ DraftIn(c).behind <=> c.detail.data.content # content \/ save # NoSave
  <1> DEFINE no == FALSE
             h == c.detail.data.content # content \/ save # NoSave
             v == c.detail.data.content
             d == [shown |-> TRUE, editing |-> no, value |-> v, typed |-> no, behind |-> h]
  <1>1. \/ DraftIn(c) = NoDraft
        \/ /\ DraftIn(c) \in {draft, d}
           /\ Open(c) /\ c.detail.data.row.applicantId = me
    BY DEF DraftIn
  <1>2. draft \in {NoDraft} \cup Drafting
    BY DEF CallTypes
  <1>3. Open(c) => v \in Content
    <2>1. Open(c) => c.detail.data \in [row : Filed, content : Content]
      BY DEF Open, Entry, Shot
    <2> QED
      BY <2>1
  <1>4. no \in BOOLEAN /\ ~no /\ h \in BOOLEAN
    OBVIOUS
  <1>5. h <=> v # content \/ save # NoSave
    OBVIOUS
  <1> HIDE DEF no, h, v
  <1>6. v \in Content => d \in Drafting /\ ~d.typed /\ d.value = v /\ d.behind = h
    <2> DEFINE yes == TRUE
    <2>1. d = [shown |-> yes, editing |-> no, value |-> v, typed |-> no, behind |-> h]
      OBVIOUS
    <2>2. yes \in BOOLEAN /\ yes
      OBVIOUS
    <2> HIDE DEF yes
    <2> QED
      BY <1>4, <2>1, <2>2, SMT DEF Drafting
  <1> HIDE DEF d
  <1> QED
    BY <1>1, <1>2, <1>3, <1>5, <1>6 DEF v

(* The draft form. *)
LEMMA DraftStaysTyped ==
  ASSUME PTypes, Next
  PROVE  draft' \in {NoDraft} \cup Drafting
  <1>1. draft \in {NoDraft} \cup Drafting
    BY DEF PTypes, CallTypes
  <1>2. draft.shown => draft \in Drafting
    BY <1>1, SMT DEF NoDraft
  <1>3. ASSUME NEW k \in Key, Arrive(k) \/ FetchFails(k)
        PROVE  draft' \in {NoDraft} \cup Drafting
    <2>1. draft' = DraftIn(cache')
      BY <1>3, RenderMoves DEF Arrive, FetchFails, PTypes
    <2>2. cache'["detail"] \in Entry(Shot("detail"))
      <3>1. CacheTypes'
        BY CacheStaysTyped DEF PTypes
      <3> QED
        BY <3>1 DEF CacheTypes, Key, Shot, Entry, Answer, Filed, Row
    <2> QED
      BY <2>1, <2>2, DraftInIsTyped DEF PTypes
  <1>4. CASE OpenDraft
    <2> DEFINE yes == TRUE
    <2>1. draft' = [draft EXCEPT !.editing = yes] /\ draft \in Drafting
      BY <1>2, <1>4 DEF OpenDraft
    <2>2. yes \in BOOLEAN
      OBVIOUS
    <2> HIDE DEF yes
    <2> QED
      BY <2>1, <2>2, SMT DEF Drafting
  <1>5. CASE TypeDraft
    <2> DEFINE yes == TRUE
    <2>1. PICK c \in Content : draft' = [draft EXCEPT !.value = c, !.typed = yes]
      BY <1>5 DEF TypeDraft
    <2>2. yes \in BOOLEAN /\ draft \in Drafting
      BY <1>2, <1>5 DEF TypeDraft
    <2> HIDE DEF yes
    <2>3. draft' = [shown |-> draft.shown, editing |-> draft.editing, value |-> c,
                    typed |-> yes, behind |-> draft.behind]
      BY <2>1, <2>2, TypedFields
    <2> QED
      BY <2>2, <2>3, SMT DEF Drafting
  <1>6. CASE CancelDraft
    <2>1. /\ draft \in Drafting
          /\ draft' = [draft EXCEPT !.editing = FALSE, !.typed = FALSE,
                         !.value = cache.detail.data.content,
                         !.behind = cache.detail.data.content # content \/ save # NoSave]
      BY <1>2, <1>6 DEF CancelDraft
    <2> DEFINE no == FALSE
               v == cache.detail.data.content
               h == cache.detail.data.content # content \/ save # NoSave
    <2>2. draft' = [draft EXCEPT !.editing = no, !.typed = no, !.value = v, !.behind = h]
      BY <2>1
    <2>3. v \in Content
      <3>1. Open(cache)
        BY <2>1, SMT DEF PTypes, ScreenInv, Drafting, NoDraft
      <3>2. cache["detail"] \in Entry(Shot("detail"))
        BY DEF PTypes, CacheTypes, Key
      <3>3. cache.detail.data \in [row : Filed, content : Content]
        BY <3>1, <3>2 DEF Open, Entry, Shot
      <3> QED
        BY <3>3
    <2>4. no \in BOOLEAN /\ h \in BOOLEAN
      OBVIOUS
    <2> HIDE DEF no, v, h
    <2>5. draft' = [shown |-> draft.shown, editing |-> no, value |-> v, typed |-> no,
                    behind |-> h]
      BY <2>1, <2>2, CancelledFields
    <2> QED
      BY <2>1, <2>3, <2>4, <2>5, SMT DEF Drafting
  <1>7. CASE EndSave
    <2> DEFINE no == FALSE
               t == (draft.value # save.value) /\ draft.typed
    <2>1. \/ draft' = draft
          \/ draft.shown /\ draft' = [draft EXCEPT !.editing = no, !.typed = t]
      BY <1>7 DEF EndSave
    <2>2. no \in BOOLEAN /\ t \in BOOLEAN
      OBVIOUS
    <2> HIDE DEF no, t
    <2>3. ASSUME draft.shown, draft' = [draft EXCEPT !.editing = no, !.typed = t]
          PROVE  draft' \in Drafting
      <3>1. draft' = [shown |-> draft.shown, editing |-> no, value |-> draft.value,
                      typed |-> t, behind |-> draft.behind]
        BY <1>2, <2>3, SavedFields
      <3>2. draft \in Drafting
        BY <1>2, <2>3
      <3> QED
        BY <2>2, <3>1, <3>2, SMT DEF Drafting
    <2> QED
      BY <1>1, <2>1, <2>3
  <1>8. CASE Navigate
    BY <1>8 DEF Navigate
  <1> QED
    BY <1>1, <1>3, <1>4, <1>5, <1>6, <1>7, <1>8, Writers

(* The call that saves it, and the two forms. *)
LEMMA FormsStayTyped ==
  ASSUME PTypes, Next
  PROVE  /\ save' \in {NoSave} \cup Saving
         /\ create' \in [stage : {"idle", "asked", "answered"}, leaving : BOOLEAN]
         /\ upload' \in [file : {"none", "chosen", "sent"},
                         stage : {"idle", "asked", "stored", "refused"}]
  <1> USE DEF PTypes, CallTypes
  <1>1. save' \in {NoSave} \cup Saving
    <2>1. CASE SaveDraft
      <3>1. draft \in Drafting
        BY <2>1, SMT DEF SaveDraft, NoDraft
      <3>2. save' = [stage |-> "asked", value |-> draft.value, typed |-> draft.typed,
                     behind |-> draft.behind]
        BY <2>1 DEF SaveDraft
      <3> QED
        BY <3>1, <3>2, SMT DEF Drafting, Saving
    <2>2. CASE ServeSave
      <3>1. save \in Saving
        BY <2>2, SMT DEF ServeSave, NoSave
      <3>2. save' = [save EXCEPT !.stage = IF row.state = "DRAFT" THEN "saved" ELSE "refused"]
        BY <2>2 DEF ServeSave
      <3> QED
        BY <3>1, <3>2, SMT DEF Saving
    <2>3. CASE EndSave \/ LoseSave
      BY <2>3 DEF EndSave, LoseSave
    <2> QED
      BY <2>1, <2>2, <2>3, Writers
  <1>2. create' \in [stage : {"idle", "asked", "answered"}, leaving : BOOLEAN]
    <2>1. CASE ClickCreate \/ ServeCreate \/ LoseCreate
      BY <2>1, SMT DEF ClickCreate, ServeCreate, LoseCreate
    <2>2. CASE EndCreate
      BY <2>2 DEF EndCreate
    <2>3. CASE Navigate
      <3> DEFINE no == FALSE
      <3>1. create' = [create EXCEPT !.leaving = no] /\ no \in BOOLEAN
        BY <2>3 DEF Navigate
      <3> HIDE DEF no
      <3> QED
        BY <3>1, SMT
    <2> QED
      BY <2>1, <2>2, <2>3, Writers
  <1>3. upload' \in [file : {"none", "chosen", "sent"},
                     stage : {"idle", "asked", "stored", "refused"}]
    BY Writers, SMT DEF ChooseFile, ClickUpload, ServeUpload, EndUpload, LoseUpload
  <1> QED
    BY <1>1, <1>2, <1>3

(* Nobody but an applicant edits drafts and files applications, and a component *)
(* that is gone has no state.                                                   *)
LEMMA ScreenStays ==
  ASSUME PTypes, Next
  PROVE  ScreenInv'
  <1> USE DEF PTypes, ScreenInv
  <1>1. Role' = Role /\ me \in User /\ NoUser \notin User
    BY Writers, NoUserAssumption DEF Role, TabTypes
  <1>2. CacheTypes'
    BY CacheStaysTyped
  <1>3. CASE Navigate
    <2>1. panel' = NoPanel /\ draft' = NoDraft /\ Role = "APPLICANT"
      BY <1>3 DEF Navigate
    <2> QED
      BY <1>1, <2>1
  <1>4. ASSUME NEW k \in Key, Arrive(k) \/ FetchFails(k) PROVE ScreenInv'
    <2>1. /\ draft' = DraftIn(cache')
          /\ panel' = IF Open(cache') THEN panel ELSE NoPanel
      BY <1>4, RenderMoves DEF Arrive, FetchFails
    <2>2. cache'["detail"] \in Entry(Shot("detail"))
      BY <1>2 DEF CacheTypes, Key, Shot, Entry, Answer, Filed, Row
    <2>3. draft' # NoDraft => Open(cache') /\ cache'.detail.data.row.applicantId = me
      BY <2>1, <2>2, DraftInIsTyped
    <2>4. Open(cache') => cache'.detail.data.row \in Filed
      <3>1. Open(cache') => cache'.detail.data \in [row : Filed, content : Content]
        BY <2>2 DEF Open, Entry, Shot
      <3> QED
        BY <3>1
    <2>5. draft' # NoDraft => Role = "APPLICANT"
      BY <1>1, <2>3, <2>4 DEF Filed, Owners, Role
    <2>6. page' = page /\ save' = save /\ create' = create
      BY <1>4 DEF Arrive, FetchFails, forms
    <2> QED
      BY <1>1, <2>1, <2>3, <2>5, <2>6
  <1>5. CASE ~Navigate /\ ~\E k \in Key : Arrive(k) \/ FetchFails(k)
    <2>1. Open(cache') <=> Open(cache)
      BY <1>5, OpenStays
    <2>2. panel' # NoPanel => Open(cache')
      <3>1. CASE Arm \/ CancelAction
        <4>1. Offered # {}
          BY <3>1 DEF Arm, CancelAction
        <4> QED
          BY <2>1, <4>1, OfferedIsTyped
      <3>2. CASE EndPost
        BY <2>1, <3>2 DEF EndPost, OnSuccess, OnConflict
      <3>3. ASSUME NEW k \in Key, Refetch(k) PROVE panel' = panel \/ Open(cache')
        <4>1. CASE k = "detail"
          <5> DEFINE r == panel.refreshed \/ (k = "actions" /\ panel.pending # NoAction)
          <5>1. panel' = [panel EXCEPT !.refreshed = r]
            BY <3>3 DEF Refetch
          <5>2. panel \in Panel /\ panel.refreshed \in BOOLEAN
            BY DEF CallTypes, Panel
          <5>3. r = panel.refreshed
            BY <4>1, <5>2
          <5> HIDE DEF r
          <5> QED
            BY <5>1, <5>2, <5>3 DEF Panel
        <4>2. CASE k # "detail"
          BY <2>1, <3>3, <4>2 DEF Refetch, Active
        <4> QED
          BY <4>1, <4>2
      <3> QED
        BY <1>5, <2>1, <3>1, <3>2, <3>3, Writers
    <2>3. draft' # NoDraft => Open(cache') /\ Role = "APPLICANT"
      <3>1. draft.shown => draft # NoDraft
        BY DEF NoDraft
      <3>2. CASE OpenDraft \/ TypeDraft \/ CancelDraft \/ EndSave
        BY <2>1, <3>1, <3>2 DEF OpenDraft, TypeDraft, CancelDraft, EndSave
      <3> QED
        BY <1>5, <2>1, <3>2, Writers
    <2>4. save' # NoSave => Role = "APPLICANT"
      <3>1. SaveDraft => draft # NoDraft
        BY DEF SaveDraft, NoDraft
      <3>2. CASE ServeSave
        BY <3>2 DEF ServeSave, NoSave
      <3> QED
        BY <3>1, <3>2, Writers DEF EndSave, LoseSave
    <2>5. page' = "new" => Role = "APPLICANT"
      BY <1>5, Writers
    <2>6. create'.stage # "idle" \/ create'.leaving => Role = "APPLICANT"
      <3>1. CASE ClickCreate \/ ServeCreate \/ EndCreate
        BY <3>1 DEF ClickCreate, MayCreate, ServeCreate, EndCreate
      <3>2. CASE LoseCreate
        BY <3>2 DEF LoseCreate
      <3> QED
        BY <1>5, <3>1, <3>2, Writers
    <2> QED
      BY <1>1, <2>2, <2>3, <2>4, <2>5, <2>6
  <1> QED
    BY <1>3, <1>4, <1>5

(* The types at first. *)
LEMMA TypesAtFirst ==
  ASSUME Init
  PROVE  PTypes
  <1>1. row \in Filed
    <2>1. NoRow \in Filed
      BY SMT DEF NoRow, Filed, Row
    <2> QED
      BY <2>1, SeedIsFiled DEF Init
  <1>2. TabTypes
    <2>1. past \in Past
      BY SMT DEF Init, Past
    <2> QED
      BY <1>1, <2>1, PortalAssumption DEF Init, TabTypes
  <1>3. CacheTypes
    <2>1. /\ cache = [k \in Key |-> cache[k]]
          /\ \A k \in Key : cache[k] \in {NewEntry, Ask(NewEntry)}
      BY DEF Init
    <2> QED
      BY <2>1, NewEntryIsTyped, AskIsTyped DEF CacheTypes
  <1>4. CallTypes
    <2>1. NoPanel \in Panel
      BY SMT DEF NoPanel, Panel
    <2>2. create \in [stage : {"idle", "asked", "answered"}, leaving : BOOLEAN]
      BY DEF Init
    <2>3. upload \in [file : {"none", "chosen", "sent"},
                      stage : {"idle", "asked", "stored", "refused"}]
      BY DEF Init
    <2> QED
      BY <2>1, <2>2, <2>3 DEF Init, CallTypes
  <1>5. ScreenInv
    BY DEF Init, ScreenInv
  <1> QED
    BY <1>2, <1>3, <1>4, <1>5 DEF PTypes

(* The types after every step. *)
LEMMA TypesStay ==
  ASSUME PTypes, [Next]_vars
  PROVE  PTypes'
  <1>1. CASE Next
    <2>1. TabTypes' /\ CacheTypes' /\ ScreenInv'
      BY <1>1, TabStaysTyped, CacheStaysTyped, ScreenStays DEF PTypes
    <2>2. CallTypes'
      BY <1>1, PanelStaysTyped, PostStaysTyped, DraftStaysTyped, FormsStayTyped
         DEF CallTypes, Asked, Done, Filed, Row
    <2> QED
      BY <2>1, <2>2 DEF PTypes
  <1>2. CASE UNCHANGED vars
    BY <1>2 DEF vars, server, buttons, editor, forms, PTypes, TabTypes, CacheTypes, CallTypes,
                ScreenInv, Role, Open, Shot, Entry, Answer, Filed, Row, Asked, Done
  <1> QED
    BY <1>1, <1>2

--------------------------------------------------------------------------------
(* What an entry says, it was told. *)
LEMMA DataMoves ==
  ASSUME NEW k, NEW S, NEW e \in Entry(S), NEW f, EntryMoves(k, e, f)
  PROVE  /\ \/ f.data = e.data
            \/ e.fetch = "answered" /\ e.answer.status = 200 /\ f.data = e.answer.data
         /\ f.fetch = "answered" =>
              f.answer = Look(k) \/ (e.fetch = "answered" /\ f.answer = e.answer)
  <1> DEFINE w == Look(k)
  <1>1. CASE f = e \/ f = Ask(e)
    BY <1>1, AskIsTyped
  <1>2. CASE \E a \in BOOLEAN : f = Invalidate(e, a)
    BY <1>2, InvalidateIsTyped
  <1>3. CASE f = [e EXCEPT !.fetch = "answered", !.answer = w]
    <2> HIDE DEF w
    <2>1. f = [data |-> e.data, error |-> e.error, invalid |-> e.invalid,
               fetch |-> "answered", answer |-> w, overtaken |-> e.overtaken]
      BY <1>3, AnsweredFields
    <2> QED
      BY <2>1 DEF w
  <1>4. CASE e.fetch = "answered" /\ f = Receive(e)
    BY <1>4, ReceiveIsTyped
  <1>5. CASE f = GiveUp(e, "unreachable")
    BY <1>5, GiveUpIsTyped
  <1> QED
    BY <1>1, <1>2, <1>3, <1>4, <1>5 DEF EntryMoves

(* What is a picture of the row remains one. *)
LEMMA PicturesStay ==
  ASSUME PTypes, Next, ~Navigate, NEW r \in Filed, Fits(r)
  PROVE  r.version <= row'.version /\ (r.version = row'.version => r = row')
  <1>1. row \in Filed /\ row' \in Filed /\ (row' = row \/ row'.version = row.version + 1)
    BY RowMoves DEF PTypes, TabTypes
  <1>2. r.version \in Nat /\ row.version \in Nat /\ row'.version \in Nat
    BY <1>1 DEF Filed, Row
  <1> QED
    BY <1>1, <1>2 DEF Fits

(* The data a page shows and the answers on their way remain pictures of the row. *)
LEMMA CachePicturesStay ==
  ASSUME PTypes, FitsInv, Next, ~Navigate, NEW k \in {"detail", "actions"}, NEW x,
         \/ cache'[k].data = x /\ x # Nothing
         \/ /\ cache'[k].fetch = "answered" /\ cache'[k].answer.status = 200
            /\ cache'[k].answer.data = x
  PROVE  x.row.version <= row'.version /\ (x.row.version = row'.version => x.row = row')
  <1> DEFINE e == cache[k]
             f == cache'[k]
  <1>1. k \in Key /\ e \in Entry(Shot(k))
    BY DEF PTypes, CacheTypes, Key
  <1>2. EntryMoves(k, e, f)
    BY <1>1, EntriesMove DEF PTypes
  <1>3. /\ \/ f.data = e.data
           \/ e.fetch = "answered" /\ e.answer.status = 200 /\ f.data = e.answer.data
        /\ f.fetch = "answered" =>
             f.answer = Look(k) \/ (e.fetch = "answered" /\ f.answer = e.answer)
    <2> HIDE DEF e, f
    <2> QED
      BY <1>1, <1>2, DataMoves
  <1>4. \/ e.data = x /\ x # Nothing
        \/ e.fetch = "answered" /\ e.answer.status = 200 /\ e.answer.data = x
        \/ Look(k).status = 200 /\ Look(k).data = x
    BY <1>3
  <1>5. x.row \in Filed /\ Fits(x.row)
    <2>1. CASE e.data = x /\ x # Nothing
      <3>1. x \in Shot(k)
        BY <1>1, <2>1 DEF Entry
      <3> QED
        BY <2>1, <3>1 DEF Shot, FitsInv
    <2>2. CASE e.fetch = "answered" /\ e.answer.status = 200 /\ e.answer.data = x
      <3>1. e.answer \in Answer(Shot(k))
        BY <1>1, <2>2 DEF Entry
      <3>2. x \in Shot(k)
        BY <2>2, <3>1, SMT DEF Answer
      <3> QED
        BY <2>2, <3>2 DEF Shot, FitsInv
    <2>3. CASE Look(k).status = 200 /\ Look(k).data = x
      <3>1. x.row = row
        BY <1>1, <2>3, LookIsTyped DEF PTypes
      <3> QED
        BY <3>1 DEF PTypes, TabTypes, Fits, Filed, Row
    <2> QED
      BY <1>4, <2>1, <2>2, <2>3
  <1> QED
    BY <1>5, PicturesStay

(* So does what a click has sent, until the server has it. *)
LEMMA FitsStay ==
  ASSUME PTypes, FitsInv, Next
  PROVE  FitsInv'
  <1>1. CASE Navigate
    <2>1. \A k \in Key : cache'[k] \in {NewEntry, Ask(NewEntry)}
      BY <1>1 DEF Navigate
    <2>2. \A k \in Key : cache'[k].data = Nothing /\ cache'[k].fetch # "answered"
      BY <2>1, NewEntryIsTyped, AskIsTyped
    <2>3. post' = NoPost
      BY <1>1 DEF Navigate
    <2> QED
      BY <2>2, <2>3 DEF FitsInv, AcceptedAsOffered, NoPost, Key
  <1>2. CASE ~Navigate
    <2>1. \A k \in {"detail", "actions"} :
            /\ cache'[k].data # Nothing => Fits(cache[k].data.row)'
            /\ cache'[k].fetch = "answered" /\ cache'[k].answer.status = 200 =>
                 Fits(cache[k].answer.data.row)'
      BY <1>2, CachePicturesStay DEF Fits
    <2>2. /\ post'.stage = "asked" => post'.version = post'.seen.version /\ Fits(post.seen)'
          /\ AcceptedAsOffered'
      <3>1. CASE Click
        <4>1. Fits(Avail) /\ Avail \in Filed /\ post' \in Asked /\ post'.seen = Avail
                /\ post'.version = Avail.version
          <5>1. cache.actions.data # Nothing
            BY <3>1, ClickAsks
          <5>2. post' \in Asked
            BY <3>1, ClickAsks
          <5> QED
            BY <3>1, <5>1, <5>2, ClickAsks DEF FitsInv, Avail, Asked
        <4>2. row' = row
          BY <3>1 DEF Click, server
        <4> QED
          BY <4>1, <4>2 DEF Fits, AcceptedAsOffered, Asked
      <3>2. CASE ServePost
        BY <3>2, ServeAnswers DEF FitsInv, AcceptedAsOffered, Done, Fits, ServePost
      <3>3. CASE EndPost \/ LosePost
        BY <3>3 DEF EndPost, LosePost, AcceptedAsOffered, NoPost
      <3>4. CASE UNCHANGED post
        <4>1. CASE post.stage = "asked"
          <5>1. post.seen \in Filed
            BY <4>1, SMT DEF PTypes, CallTypes, NoPost, Asked, Done
          <5>2. Fits(post.seen)
            BY <4>1 DEF FitsInv
          <5> QED
            BY <1>2, <3>4, <4>1, <5>1, <5>2, PicturesStay DEF FitsInv, AcceptedAsOffered, Fits
        <4>2. CASE post.stage # "asked"
          BY <3>4, <4>2 DEF FitsInv, AcceptedAsOffered
        <4> QED
          BY <4>1, <4>2
      <3> QED
        BY <3>1, <3>2, <3>3, <3>4, Writers
    <2> QED
      BY <2>1, <2>2 DEF FitsInv
  <1> QED
    BY <1>1, <1>2

--------------------------------------------------------------------------------
(* Staleness. *)

(* However an entry moves, what it still shows of the time before version v is *)
(* marked, if it was and if the answer of the server is not older.             *)
LEMMA UpToStays ==
  ASSUME NEW k, NEW S, S \subseteq [row : Filed] \cup [row : Filed, content : Content],
         NEW e \in Entry(S), NEW f, EntryMoves(k, e, f),
         NEW v \in Nat, UpTo(e, v), Look(k).status = 200 => Look(k).data.row.version >= v
  PROVE  UpTo(f, v)
  <1> DEFINE w == Look(k)
  <1>1. CASE f = e
    BY <1>1
  <1>2. CASE f = Ask(e)
    <2>1. f.fetch = "asked"
      BY <1>2, AskIsTyped
    <2> QED
      BY <2>1 DEF UpTo
  <1>3. CASE \E a \in BOOLEAN : f = Invalidate(e, a)
    <2>1. /\ f \in Entry(S) /\ f.data = e.data
          /\ f.fetch = "idle" /\ e.data # Nothing => f.invalid
          /\ f.fetch = "answered" => f.overtaken
      BY <1>3, InvalidateIsTyped
    <2>2. f.fetch \in {"idle", "asked", "answered"}
      BY <2>1 DEF Entry
    <2> QED
      BY <2>1, <2>2 DEF UpTo
  <1>4. CASE f = [e EXCEPT !.fetch = "answered", !.answer = w]
    <2>1. w.status = 200 => w.data.row.version >= v
      OBVIOUS
    <2> HIDE DEF w
    <2>2. f = [data |-> e.data, error |-> e.error, invalid |-> e.invalid,
               fetch |-> "answered", answer |-> w, overtaken |-> e.overtaken]
      BY <1>4, AnsweredFields
    <2>3. f.fetch = "answered" /\ f.answer = w
      BY <2>2
    <2> QED
      BY <2>1, <2>3 DEF UpTo
  <1>5. CASE e.fetch = "answered" /\ f = Receive(e)
    <2>1. /\ f.fetch = "idle"
          /\ \/ f.error = "refused"
             \/ /\ e.answer.status = 200 /\ f.data = e.answer.data
                /\ f.overtaken = e.overtaken
      BY <1>5, ReceiveIsTyped
    <2>2. CASE f.error = "refused"
      BY <2>1, <2>2 DEF UpTo
    <2>3. CASE /\ e.answer.status = 200 /\ f.data = e.answer.data
               /\ f.overtaken = e.overtaken
      <3>1. e.answer \in Answer(S)
        BY <1>5 DEF Entry
      <3>2. e.answer.data \in S
        BY <2>3, <3>1, SMT DEF Answer
      <3>3. e.answer.data.row.version \in Nat
        BY <3>2 DEF Filed, Row
      <3>4. e.overtaken \/ e.answer.data.row.version >= v
        BY <1>5, <2>3 DEF UpTo
      <3>5. f.overtaken \/ ~(f.data.row.version < v)
        BY <2>3, <3>3, <3>4
      <3> QED
        BY <2>1, <3>5 DEF UpTo
    <2> QED
      BY <2>1, <2>2, <2>3
  <1>6. CASE f = GiveUp(e, "unreachable")
    <2>1. f.fetch = "idle" /\ f.error = "unreachable"
      BY <1>6, GiveUpIsTyped
    <2> QED
      BY <2>1 DEF UpTo
  <1> QED
    BY <1>1, <1>2, <1>3, <1>4, <1>5, <1>6 DEF EntryMoves

(* After an invalidation that is so of every version. *)
LEMMA InvalidateIsUpTo ==
  ASSUME NEW S, NEW e \in Entry(S), NEW a \in BOOLEAN, NEW v
  PROVE  UpTo(Invalidate(e, a), v)
  <1> DEFINE f == Invalidate(e, a)
  <1>1. /\ f \in Entry(S) /\ f.data = e.data
        /\ f.fetch = "idle" /\ e.data # Nothing => f.invalid
        /\ f.fetch = "answered" => f.overtaken
    BY InvalidateIsTyped
  <1>2. f.fetch \in {"idle", "asked", "answered"}
    BY <1>1 DEF Entry
  <1> QED
    BY <1>1, <1>2 DEF UpTo

(* The parts of FreshInv, through one step. *)
LEMMA FreshStays ==
  ASSUME PTypes, FreshInv, Next
  PROVE  FreshInv'
  <1>1. /\ past \in Past /\ row \in Filed /\ row.version \in Nat
        /\ past.heard \in Nat /\ past.told \in Nat
    BY DEF PTypes, TabTypes, Past, Filed, Row
  <1>2. CASE Navigate
    <2>1. \A k \in Key : cache'[k] \in {NewEntry, Ask(NewEntry)}
      BY <1>2 DEF Navigate
    <2>2. \A k \in Key : cache'[k].data = Nothing /\ cache'[k].fetch # "answered"
      BY <2>1, NewEntryIsTyped, AskIsTyped
    <2>3. post' = NoPost /\ row' = NewRow(me) /\ past' = [past EXCEPT !.heard = 0, !.told = 0]
      BY <1>2 DEF Navigate
    <2>4. past' = [elsewhere |-> past.elsewhere, faults |-> past.faults,
                   refetches |-> past.refetches, heard |-> 0, told |-> 0,
                   flags |-> past.flags]
      BY <1>1, <2>3, HeardFields
    <2>5. past'.heard = 0 /\ past'.told = 0 /\ row'.version = 0
      BY <2>3, <2>4 DEF NewRow
    <2> QED
      BY <2>2, <2>3, <2>5 DEF FreshInv, NoPost, UpTo
  <1>3. CASE ~Navigate
    <2>1. /\ row' \in Filed /\ row'.version \in Nat /\ row'.version >= row.version
          /\ row' = row \/ row'.version = row.version + 1
      BY <1>1, <1>3, RowMoves DEF PTypes, Filed, Row
    <2>2. post'.stage = "answered" =>
            /\ post'.on.version <= row'.version
            /\ post'.answer.status = 200 => post'.on.version < row'.version
      <3>1. CASE Click
        BY <3>1, ClickAsks DEF Asked
      <3>2. CASE ServePost
        BY <1>1, <2>1, <3>2, ServeAnswers
      <3>3. CASE EndPost \/ LosePost
        BY <3>3 DEF EndPost, LosePost, NoPost
      <3>4. CASE UNCHANGED post
        <4>1. post.stage = "answered" => post.on.version \in Nat
          BY SMT DEF PTypes, CallTypes, Asked, Done, NoPost, Filed, Row
        <4> QED
          BY <1>1, <2>1, <3>4, <4>1 DEF FreshInv
      <3> QED
        BY <3>1, <3>2, <3>3, <3>4, Writers
    <2>3. \A k \in Key : /\ EntryMoves(k, cache[k], cache'[k])
                         /\ cache[k] \in Entry(Shot(k))
                         /\ Shot(k) \subseteq [row : Filed] \cup [row : Filed, content : Content]
                         /\ Look(k).status = 200 => Look(k).data.row.version = row.version
      BY <1>3, EntriesMove, LookIsTyped DEF PTypes, CacheTypes, Shot
    <2>4. \A k \in Key : HeardBy(k) \in Nat /\ HeardBy(k) <= row.version /\ UpTo(cache[k], HeardBy(k))
      BY <1>1 DEF FreshInv, HeardBy
    <2>5. \A k \in Key : UpTo(cache'[k], HeardBy(k))
      BY <1>1, <2>3, <2>4, UpToStays
    <2>6. CASE ~EndPost
      <3>1. past'.heard = past.heard /\ past'.told = past.told
        <4>1. past'.heard = past.heard
          BY <1>1, <1>3, <2>6, Writers
             DEF OthersAct, EditElsewhere, LosePost, LoseSave, ClickCreate, LoseCreate,
                 LoseUpload, FetchFails, Refetch, Fault, Past
        <4>2. past'.told = past.told
          BY <1>1, <1>3, <2>6, Writers
             DEF OthersAct, EditElsewhere, LosePost, LoseSave, ClickCreate, LoseCreate,
                 LoseUpload, FetchFails, Refetch, Fault, Past
        <4> QED
          BY <4>1, <4>2
      <3> QED
        BY <1>1, <2>1, <2>2, <2>5, <3>1 DEF FreshInv, HeardBy
    <2>7. CASE EndPost
      <3>1. post \in Done /\ post.on.version \in Nat /\ row' = row
        <4>1. post \in Done
          BY <2>7, SMT DEF EndPost, PTypes, CallTypes, Asked, NoPost
        <4> QED
          BY <2>7, <4>1 DEF EndPost, server, Done, Filed, Row
      <3> DEFINE v == post.on.version
      <3>2. v <= row.version /\ (post.answer.status = 200 => v + 1 <= row.version)
        BY <1>1, <2>7, <3>1 DEF FreshInv, EndPost
      <3>3. \A keys \in SUBSET Key : cache' = InvalidateAll(keys) =>
              \A k \in keys : \A n : UpTo(cache'[k], n)
        BY <2>3, InvalidateMoves, InvalidateIsUpTo DEF PTypes
      <3>4. CASE post.answer.status = 200
        <4>1. cache' = InvalidateAll(Key) /\ past' = [past EXCEPT !.heard = v + 1, !.told = v + 1]
          BY <2>7, <3>4 DEF EndPost, OnSuccess
        <4> HIDE DEF v
        <4>2. past' = [elsewhere |-> past.elsewhere, faults |-> past.faults,
                       refetches |-> past.refetches, heard |-> v + 1, told |-> v + 1,
                       flags |-> past.flags]
          BY <1>1, <4>1, HeardFields
        <4>3. past'.heard = v + 1 /\ past'.told = v + 1
          BY <4>2
        <4> QED
          BY <2>2, <3>1, <3>2, <3>3, <3>4, <4>1, <4>3 DEF FreshInv
      <3>5. CASE OnConflict
        <4>1. cache' = InvalidateAll({"detail", "actions"}) /\ past' = [past EXCEPT !.heard = v]
          BY <3>5 DEF OnConflict
        <4> HIDE DEF v
        <4>2. past'.heard = v /\ past'.told = past.told
          BY <1>1, <4>1 DEF Past
        <4>3. \A n : UpTo(cache'["detail"], n) /\ UpTo(cache'["actions"], n)
          BY <3>3, <4>1 DEF Key
        <4>4. UpTo(cache'["audit"], past.told)
          BY <2>5 DEF HeardBy, Key
        <4>5. \A k \in Key : UpTo(cache[k], HeardBy(k))'
          BY <4>2, <4>3, <4>4 DEF HeardBy, Key
        <4> QED
          BY <1>1, <2>2, <2>4, <3>1, <3>2, <4>2, <4>5 DEF FreshInv
      <3>6. CASE UNCHANGED <<cache, panel, past>>
        BY <1>1, <2>2, <2>5, <3>1, <3>6 DEF FreshInv, HeardBy
      <3> QED
        BY <2>7, <3>4, <3>5, <3>6 DEF EndPost
    <2> QED
      BY <2>6, <2>7
  <1> QED
    BY <1>2, <1>3

--------------------------------------------------------------------------------
(* Notes. *)

(* What the panel was armed for is what it would send, or it shows otherwise. *)
LEMMA NotesStay ==
  ASSUME PTypes, NotesInv, Next
  PROVE  NotesInv'
  <1>1. Role' = Role
    BY Writers DEF Role
  <1>2. panel \in Panel
    BY DEF PTypes, CallTypes
  <1>3. NotesAreForTheirVersion'
    <2>1. CASE Click
      <3>1. post'.action \in NEEDS_NOTE =>
              panel.armedOn = Avail.version \/ panel.banner \/ panel.refreshed
        <4>1. post'.action \in NEEDS_NOTE => panel.pending # NoAction
          BY <2>1, ClickAsks DEF NEEDS_NOTE, NoAction
        <4> QED
          BY <4>1 DEF NotesInv
      <3> QED
        BY <2>1, <3>1, ClickAsks DEF NotesAreForTheirVersion
    <2>2. CASE ServePost
      <3>1. post \in Asked /\ post # NoPost /\ post'.told = post.told
        BY <2>2, ServeAnswers DEF ServePost, NoPost
      <3> QED
        BY <3>1 DEF NotesInv, NotesAreForTheirVersion
    <2>3. CASE EndPost \/ LosePost
      BY <2>3 DEF EndPost, LosePost, NotesAreForTheirVersion, NoPost
    <2> QED
      BY <2>1, <2>2, <2>3, Writers DEF NotesInv, NotesAreForTheirVersion
  <1> DEFINE Warned(p, c) == \/ p.refreshed \/ p.banner
                             \/ /\ c.actions.data # Nothing /\ c.actions.fetch = "idle"
                                /\ p.armedOn = c.actions.data.row.version
  <1>4. panel.pending # NoAction => Role # "APPLICANT" /\ Warned(panel, cache)
    BY DEF NotesInv, Avail
  <1>5. ASSUME panel'.pending # NoAction PROVE Role # "APPLICANT" /\ Warned(panel', cache')
    <2>1. NoPanel.pending = NoAction
      BY DEF NoPanel
    <2>2. CASE Arm
      <3>1. PICK a \in Offered \cap NEEDS_NOTE :
              panel' = [panel EXCEPT !.pending = a, !.refreshed = (cache.actions.fetch # "idle"),
                                     !.armedOn = Avail.version]
        BY <2>2 DEF Arm
      <3> DEFINE r == cache.actions.fetch # "idle"
                 v == Avail.version
      <3>2. panel' = [panel EXCEPT !.pending = a, !.refreshed = r, !.armedOn = v]
        BY <3>1
      <3>3. r <=> cache.actions.fetch # "idle"
        OBVIOUS
      <3> HIDE DEF r, v
      <3>4. panel' = [pending |-> a, banner |-> panel.banner, armedOn |-> v, refreshed |-> r]
        BY <1>2, <3>2, ArmedFields
      <3>5. panel'.refreshed = r /\ panel'.armedOn = v
        BY <3>4
      <3>6. cache' = cache
        BY <2>2 DEF Arm
      <3>7. Role # "APPLICANT" /\ cache.actions.data # Nothing
        BY OfferedIsTyped DEF PTypes
      <3> QED
        BY <3>3, <3>5, <3>6, <3>7 DEF v, Avail
    <2>3. CASE CancelAction
      BY <1>2, <1>5, <2>3 DEF CancelAction, Panel
    <2>4. CASE EndPost
      <3>1. CASE post.answer.status = 200
        BY <1>5, <2>1, <2>4, <3>1 DEF EndPost, OnSuccess
      <3>2. CASE OnConflict
        <4> DEFINE yes == TRUE
        <4>1. panel # NoPanel
          <5>1. ~Open(cache) => panel' = panel /\ panel = NoPanel
            BY <3>2 DEF OnConflict, PTypes, ScreenInv
          <5>2. panel = NoPanel => panel'.pending = NoAction
            BY <2>1, <3>2, SMT DEF OnConflict, NoPanel
          <5> QED
            BY <1>5, <5>2
        <4>2. panel' = [panel EXCEPT !.banner = yes]
          BY <3>2, <4>1 DEF OnConflict, PTypes, ScreenInv
        <4>3. yes
          OBVIOUS
        <4> HIDE DEF yes
        <4>4. panel'.banner = yes /\ panel'.pending = panel.pending
          BY <1>2, <4>2, SMT DEF Panel
        <4> QED
          BY <1>4, <1>5, <4>3, <4>4
      <3>3. CASE UNCHANGED <<cache, panel, past>>
        BY <1>4, <1>5, <3>3
      <3> QED
        BY <2>4, <3>1, <3>2, <3>3 DEF EndPost
    <2>5. ASSUME NEW k \in Key, Arrive(k) \/ FetchFails(k)
          PROVE  Role # "APPLICANT" /\ Warned(panel', cache')
      <3>1. PICK f : /\ Render([cache EXCEPT ![k] = f])
                     /\ \/ f = Receive(cache[k]) /\ cache[k].fetch = "answered"
                        \/ f = GiveUp(cache[k], "unreachable") /\ cache[k].fetch # "idle"
        BY <2>5 DEF Arrive, FetchFails
      <3>2. panel' = IF Open(cache') THEN panel ELSE NoPanel
        BY <3>1, RenderMoves DEF PTypes
      <3>3. panel' = panel
        BY <1>5, <2>1, <3>2
      <3>4. Role # "APPLICANT" /\ Warned(panel, cache)
        BY <1>4, <1>5, <3>3
      <3>5. CASE panel.refreshed \/ panel.banner
        BY <3>3, <3>4, <3>5
      <3>6. CASE ~(panel.refreshed \/ panel.banner)
        <4>1. /\ cache.actions.data # Nothing /\ cache.actions.fetch = "idle"
              /\ panel.armedOn = cache.actions.data.row.version
          BY <3>4, <3>6
        <4>2. k # "actions"
          BY <3>1, <4>1
        <4>3. Open(cache)
          BY <1>5, <2>1, <3>3 DEF PTypes, ScreenInv
        <4>4. cache'.actions = cache.actions
          <5> DEFINE c == [cache EXCEPT ![k] = f]
          <5>1. cache' = c
            BY <3>1, <4>3 DEF Render
          <5> QED
            BY <4>2, <5>1 DEF PTypes, CacheTypes
        <4> QED
          BY <3>3, <3>4, <4>1, <4>4
      <3> QED
        BY <3>5, <3>6
    <2>6. ASSUME NEW k \in Key, Refetch(k)
          PROVE  Role # "APPLICANT" /\ Warned(panel', cache')
      <3> DEFINE r == panel.refreshed \/ (k = "actions" /\ panel.pending # NoAction)
      <3>1. panel' = [panel EXCEPT !.refreshed = r]
        BY <2>6 DEF Refetch
      <3>2. r <=> panel.refreshed \/ (k = "actions" /\ panel.pending # NoAction)
        OBVIOUS
      <3> HIDE DEF r
      <3>3. panel'.pending = panel.pending /\ panel'.banner = panel.banner
              /\ panel'.armedOn = panel.armedOn /\ panel'.refreshed = r
        BY <1>2, <3>1, SMT DEF Panel
      <3>4. k # "actions" => cache'.actions = cache.actions
        BY <2>6 DEF Refetch, PTypes, CacheTypes
      <3> QED
        BY <1>4, <1>5, <3>2, <3>3, <3>4
    <2>7. CASE Navigate
      BY <1>5, <2>1, <2>7 DEF Navigate
    <2>8. CASE /\ UNCHANGED panel /\ ~EndPost /\ ~Navigate
               /\ ~\E k \in Key : Arrive(k) \/ FetchFails(k) \/ Refetch(k)
      <3>1. Role # "APPLICANT" /\ Warned(panel, cache)
        BY <1>4, <1>5, <2>8
      <3>2. ~EndSave /\ ~EndCreate
        BY <3>1 DEF PTypes, ScreenInv, EndSave, EndCreate, NoSave
      <3>3. cache'.actions = cache.actions \/ cache.actions.fetch # "idle"
        <4>1. CASE EndUpload
          BY <4>1 DEF EndUpload, InvalidateAll, Key
        <4>2. ASSUME NEW k \in Key, Reply(k)
              PROVE  cache'.actions = cache.actions \/ cache.actions.fetch # "idle"
          <5>1. PICK f : cache' = [cache EXCEPT ![k] = f] /\ cache[k].fetch = "asked"
            BY <4>2 DEF Reply, PTypes, CacheTypes
          <5>2. k # "actions" => cache'.actions = cache.actions
            BY <5>1 DEF PTypes, CacheTypes, Key
          <5> QED
            BY <5>1, <5>2
        <4>3. CASE UNCHANGED cache
          BY <4>3
        <4> QED
          BY <2>8, <3>2, <4>1, <4>2, <4>3
             DEF Next, OthersAct, EditElsewhere, Arm, Click, CancelAction, ServePost, LosePost,
                 OpenDraft, TypeDraft, CancelDraft, SaveDraft, ServeSave, LoseSave, ClickCreate,
                 ServeCreate, LoseCreate, ChooseFile, ClickUpload, ServeUpload, LoseUpload
      <3> QED
        BY <2>8, <3>1, <3>3
    <2> QED
      BY <2>2, <2>3, <2>4, <2>5, <2>6, <2>7, <2>8, Writers
  <1> QED
    BY <1>1, <1>3, <1>5 DEF NotesInv, Avail
--------------------------------------------------------------------------------
(* What is made once. *)

(* The marks of the history only grow. *)
LEMMA FlagsGrow ==
  ASSUME PTypes, Next
  PROVE  /\ past.flags \subseteq past'.flags
         /\ LoseCreate \/ LoseUpload => "lost" \in past'.flags
         /\ ClickCreate /\ create.leaving => "again" \in past'.flags
         /\ EditElsewhere => "edited" \in past'.flags
  <1>1. past \in Past
    BY DEF PTypes, TabTypes
  <1>2. ASSUME NEW f, Fault(f) PROVE past'.flags = past.flags \cup f
    <2> DEFINE n == past.faults + 1
               g == past.flags \cup f
    <2>1. past' = [past EXCEPT !.faults = n, !.flags = g]
      BY <1>2 DEF Fault
    <2> HIDE DEF n, g
    <2>2. past' = [elsewhere |-> past.elsewhere, faults |-> n, refetches |-> past.refetches,
                   heard |-> past.heard, told |-> past.told, flags |-> g]
      BY <1>1, <2>1, FaultFields
    <2> QED
      BY <2>2 DEF g
  <1>3. EditElsewhere => past'.flags = past.flags \cup {"edited"}
    <2> DEFINE n == past.elsewhere + 1
               g == past.flags \cup {"edited"}
    <2>1. EditElsewhere => past' = [past EXCEPT !.elsewhere = n, !.flags = g]
      BY DEF EditElsewhere
    <2> HIDE DEF n, g
    <2>2. [past EXCEPT !.elsewhere = n, !.flags = g] =
            [elsewhere |-> n, faults |-> past.faults, refetches |-> past.refetches,
             heard |-> past.heard, told |-> past.told, flags |-> g]
      BY <1>1, ElsewhereFields
    <2>3. EditElsewhere => past'.flags = g
      BY <2>1, <2>2
    <2> QED
      BY <2>3 DEF g
  <1>4. /\ LosePost \/ LoseSave \/ (\E k \in Key : FetchFails(k)) => past'.flags = past.flags
        /\ LoseCreate \/ LoseUpload => past'.flags = past.flags \cup {"lost"}
    <2>1. LosePost \/ LoseSave \/ (\E k \in Key : FetchFails(k)) => Fault({})
      BY DEF LosePost, LoseSave, FetchFails
    <2>2. LoseCreate \/ LoseUpload => Fault({"lost"})
      BY DEF LoseCreate, LoseUpload
    <2> QED
      BY <1>2, <2>1, <2>2
  <1>5. ClickCreate => past'.flags = IF create.leaving THEN past.flags \cup {"again"}
                                     ELSE past.flags
    BY <1>1 DEF ClickCreate, Past
  <1>6. OthersAct \/ (\E k \in Key : Refetch(k)) => past'.flags = past.flags
    BY <1>1 DEF OthersAct, Refetch, Past
  <1>7. EndPost \/ Navigate => past'.flags = past.flags
    <2>1. ASSUME NEW n, NEW m, past' = [past EXCEPT !.heard = n, !.told = m]
          PROVE  past'.flags = past.flags
      <3>1. past' = [elsewhere |-> past.elsewhere, faults |-> past.faults,
                     refetches |-> past.refetches, heard |-> n, told |-> m,
                     flags |-> past.flags]
        BY <1>1, <2>1, HeardFields
      <3> QED
        BY <3>1
    <2>2. ASSUME NEW n, past' = [past EXCEPT !.heard = n]
          PROVE  past'.flags = past.flags
      BY <1>1, <2>2 DEF Past
    <2>3. EndPost => \/ \E n, m : past' = [past EXCEPT !.heard = n, !.told = m]
                     \/ \E n : past' = [past EXCEPT !.heard = n]
                     \/ past' = past
      BY Zenon DEF EndPost, OnSuccess, OnConflict
    <2>4. Navigate => \E n, m : past' = [past EXCEPT !.heard = n, !.told = m]
      BY Zenon DEF Navigate
    <2> QED
      BY <2>1, <2>2, <2>3, <2>4
  <1> QED
    BY <1>3, <1>4, <1>5, <1>6, <1>7, Writers

(* One call that makes something leads to one thing made, if its answer arrives. *)
LEMMA OnceStays ==
  ASSUME PTypes, OnceInv, Next
  PROVE  OnceInv'
  <1> SUFFICES ASSUME Clean'
               PROVE  /\ page' = "new" /\ create'.stage = "idle" /\ ~create'.leaving => made' = 0
                      /\ create'.stage = "asked" => made' = 0
                      /\ made' <= 1
                      /\ upload'.stage \in {"asked", "refused"} => stored' = 0
                      /\ upload'.file # "sent" /\ upload'.stage # "stored" => stored' = 0
                      /\ stored' <= 1
    BY DEF OnceInv
  <1>1. Clean /\ ~LoseCreate /\ ~LoseUpload /\ ~(ClickCreate /\ create.leaving)
    BY FlagsGrow DEF Clean
  <1>2. /\ page = "new" /\ create.stage = "idle" /\ ~create.leaving => made = 0
        /\ create.stage = "asked" => made = 0
        /\ made <= 1
        /\ upload.stage \in {"asked", "refused"} => stored = 0
        /\ upload.file # "sent" /\ upload.stage # "stored" => stored = 0
        /\ stored <= 1
    BY <1>1 DEF OnceInv
  <1>3. /\ create \in [stage : {"idle", "asked", "answered"}, leaving : BOOLEAN]
        /\ upload \in [file : {"none", "chosen", "sent"},
                       stage : {"idle", "asked", "stored", "refused"}]
    BY DEF PTypes, CallTypes
  <1>4. /\ page' = "new" /\ create'.stage = "idle" /\ ~create'.leaving => made' = 0
        /\ create'.stage = "asked" => made' = 0
        /\ made' <= 1
    <2>1. CASE ClickCreate
      <3>1. made' = made /\ made = 0 /\ create'.stage = "asked"
        BY <1>1, <1>2, <1>3, <2>1, Writers DEF ClickCreate, MayCreate, ServeCreate, server
      <3> QED
        BY <3>1
    <2>2. CASE ServeCreate
      BY <1>2, <1>3, <2>2 DEF ServeCreate
    <2>3. CASE EndCreate
      BY <1>2, <1>3, <2>3 DEF EndCreate, server
    <2>4. CASE Navigate
      <3> DEFINE no == FALSE
      <3>1. create' = [create EXCEPT !.leaving = no] /\ page' = "application" /\ made' = made
        BY <2>4 DEF Navigate
      <3> HIDE DEF no
      <3>2. create'.stage = create.stage
        BY <1>3, <3>1
      <3> QED
        BY <1>2, <3>1, <3>2
    <2> QED
      BY <1>1, <1>2, <2>1, <2>2, <2>3, <2>4, Writers
  <1>5. /\ upload'.stage \in {"asked", "refused"} => stored' = 0
        /\ upload'.file # "sent" /\ upload'.stage # "stored" => stored' = 0
        /\ stored' <= 1
    <2>1. CASE ChooseFile
      BY <1>2, <1>3, <2>1 DEF ChooseFile, server
    <2>2. CASE ClickUpload
      BY <1>2, <1>3, <2>2 DEF ClickUpload, server
    <2>3. CASE ServeUpload
      BY <1>2, <1>3, <2>3 DEF ServeUpload
    <2>4. CASE EndUpload
      BY <1>2, <1>3, <2>4 DEF EndUpload, server
    <2> QED
      BY <1>1, <1>2, <2>1, <2>2, <2>3, <2>4, Writers
  <1> QED
    BY <1>4, <1>5

--------------------------------------------------------------------------------
(* Drafts. *)

(* What a form shows that nobody typed into, and that was filled from a page that *)
(* was up to date, is what the application says.                                  *)
LEMMA UntypedStays ==
  ASSUME PTypes, UntypedInv, Next
  PROVE  UntypedInv'
  <1> SUFFICES ASSUME "edited" \notin past'.flags
               PROVE  /\ draft' # NoDraft /\ ~draft'.typed /\ ~draft'.behind =>
                           draft'.value = content'
                      /\ save'.stage = "asked" /\ ~save'.typed /\ ~save'.behind =>
                           save'.value = content'
                      /\ save'.stage = "saved" => save'.value = content'
                      /\ save' # NoSave /\ (save'.typed \/ save'.behind) /\ draft' # NoDraft =>
                           draft'.typed \/ draft'.behind
    BY DEF UntypedInv
  <1>1. "edited" \notin past.flags /\ ~EditElsewhere
    BY FlagsGrow
  <1>2. /\ draft # NoDraft /\ ~draft.typed /\ ~draft.behind => draft.value = content
        /\ save.stage = "asked" /\ ~save.typed /\ ~save.behind => save.value = content
        /\ save.stage = "saved" => save.value = content
        /\ save # NoSave /\ (save.typed \/ save.behind) /\ draft # NoDraft =>
             draft.typed \/ draft.behind
    BY <1>1 DEF UntypedInv
  <1>3. /\ draft \in {NoDraft} \cup Drafting /\ save \in {NoSave} \cup Saving
        /\ draft.shown => draft \in Drafting
        /\ draft \in Drafting => draft # NoDraft
        /\ save.stage # "idle" <=> save # NoSave
    <2>1. /\ draft \in {NoDraft} \cup Drafting /\ save \in {NoSave} \cup Saving
      BY DEF PTypes, CallTypes
    <2>2. /\ draft.shown => draft \in Drafting
          /\ draft \in Drafting => draft # NoDraft
      BY <2>1, SMT DEF NoDraft, Drafting
    <2>3. save.stage # "idle" <=> save # NoSave
      BY <2>1, SMT DEF NoSave, Saving
    <2> QED
      BY <2>1, <2>2, <2>3
  <1>4. CASE Navigate
    BY <1>4 DEF Navigate, NoSave
  <1>5. ASSUME NEW k \in Key, Arrive(k) \/ FetchFails(k)
        PROVE  /\ draft' # NoDraft /\ ~draft'.typed /\ ~draft'.behind => draft'.value = content'
               /\ save' # NoSave /\ (save'.typed \/ save'.behind) /\ draft' # NoDraft =>
                    draft'.typed \/ draft'.behind
               /\ save' = save /\ content' = content
    <2>1. draft' = DraftIn(cache') /\ save' = save /\ content' = content
      BY <1>5, RenderMoves DEF Arrive, FetchFails, PTypes, server
    <2>2. cache'["detail"] \in Entry(Shot("detail"))
      <3>1. CacheTypes'
        BY CacheStaysTyped DEF PTypes
      <3> QED
        BY <3>1 DEF CacheTypes, Key, Shot, Entry, Answer, Filed, Row
    <2>3. \/ draft' = NoDraft \/ draft' = draft
          \/ /\ ~draft'.typed /\ draft'.value = cache'.detail.data.content
             /\ draft'.behind <=> cache'.detail.data.content # content \/ save # NoSave
      BY <2>1, <2>2, DraftInIsTyped DEF PTypes
    <2> QED
      BY <1>2, <2>1, <2>3
  <1>6. CASE OpenDraft
    <2> DEFINE yes == TRUE
    <2>1. draft' = [draft EXCEPT !.editing = yes] /\ draft \in Drafting
      BY <1>3, <1>6 DEF OpenDraft
    <2> HIDE DEF yes
    <2>2. /\ draft'.typed = draft.typed /\ draft'.behind = draft.behind
          /\ draft'.value = draft.value
      BY <2>1, SMT DEF Drafting
    <2>3. save' = save /\ content' = content
      BY <1>6 DEF OpenDraft, server
    <2> QED
      BY <1>2, <1>3, <2>1, <2>2, <2>3
  <1>7. CASE TypeDraft
    <2> DEFINE yes == TRUE
    <2>1. PICK c \in Content : draft' = [draft EXCEPT !.value = c, !.typed = yes]
      BY <1>7 DEF TypeDraft
    <2>2. draft \in Drafting /\ yes /\ save' = save /\ content' = content
      BY <1>3, <1>7 DEF TypeDraft, server
    <2> HIDE DEF yes
    <2>3. draft' = [shown |-> draft.shown, editing |-> draft.editing, value |-> c,
                    typed |-> yes, behind |-> draft.behind]
      BY <2>1, <2>2, TypedFields
    <2>4. draft'.typed
      BY <2>2, <2>3
    <2> QED
      BY <1>2, <2>2, <2>4
  <1>8. CASE CancelDraft
    <2> DEFINE no == FALSE
               v == cache.detail.data.content
               h == cache.detail.data.content # content \/ save # NoSave
    <2>1. /\ draft \in Drafting /\ ~no /\ (h <=> v # content \/ save # NoSave)
          /\ draft' = [draft EXCEPT !.editing = no, !.typed = no, !.value = v, !.behind = h]
          /\ save' = save /\ content' = content
      BY <1>3, <1>8 DEF CancelDraft, server
    <2> HIDE DEF no, v, h
    <2>2. draft' = [shown |-> draft.shown, editing |-> no, value |-> v, typed |-> no,
                    behind |-> h]
      BY <2>1, CancelledFields
    <2>3. draft'.behind = h /\ draft'.value = v
      BY <2>2
    <2> QED
      BY <1>2, <2>1, <2>3
  <1>9. CASE SaveDraft
    <2>1. /\ draft \in Drafting /\ draft' = draft /\ content' = content
          /\ save' = [stage |-> "asked", value |-> draft.value, typed |-> draft.typed,
                      behind |-> draft.behind]
      BY <1>3, <1>9 DEF SaveDraft, server
    <2>2. /\ save'.stage = "asked" /\ save'.value = draft.value /\ save'.typed = draft.typed
          /\ save'.behind = draft.behind
      BY <2>1
    <2> QED
      BY <1>2, <1>3, <2>1, <2>2
  <1>10. CASE ServeSave
    <2> DEFINE s == IF row.state = "DRAFT" THEN "saved" ELSE "refused"
    <2>1. save \in Saving /\ save # NoSave /\ save.stage = "asked"
      BY <1>3, <1>10 DEF ServeSave
    <2>2. /\ save' = [save EXCEPT !.stage = s] /\ draft' = draft
          /\ \/ s = "saved" /\ content' = save.value
             \/ s = "refused" /\ content' = content
      BY <1>10 DEF ServeSave
    <2> HIDE DEF s
    <2>3. save' = [stage |-> s, value |-> save.value, typed |-> save.typed,
                   behind |-> save.behind]
      BY <2>1, <2>2, SMT DEF Saving
    <2>4. save'.stage = s /\ save'.value = save.value /\ save'.typed = save.typed
            /\ save'.behind = save.behind
      BY <2>3
    <2>5. ~save.typed /\ ~save.behind => content' = content
      BY <1>2, <2>1, <2>2
    <2> QED
      BY <1>2, <2>1, <2>2, <2>4, <2>5
  <1>11. CASE EndSave
    <2>1. save' = NoSave /\ content' = content /\ NoSave.stage = "idle"
      BY <1>11 DEF EndSave, server, NoSave
    <2> DEFINE no == FALSE
               t == (draft.value # save.value) /\ draft.typed
    <2>2. \/ draft' = draft
          \/ /\ draft \in Drafting /\ save.stage = "saved"
             /\ draft' = [draft EXCEPT !.editing = no, !.typed = t]
      BY <1>3, <1>11 DEF EndSave
    <2>3. t <=> (draft.value # save.value) /\ draft.typed
      OBVIOUS
    <2> HIDE DEF no, t
    <2>4. ASSUME draft \in Drafting, draft' = [draft EXCEPT !.editing = no, !.typed = t]
          PROVE  draft'.value = draft.value /\ draft'.typed = t /\ draft'.behind = draft.behind
      <3>1. draft' = [shown |-> draft.shown, editing |-> no, value |-> draft.value,
                      typed |-> t, behind |-> draft.behind]
        BY <2>4, SavedFields
      <3> QED
        BY <3>1
    <2>5. draft' # NoDraft /\ ~draft'.typed /\ ~draft'.behind => draft'.value = content'
      BY <1>2, <1>3, <2>1, <2>2, <2>3, <2>4
    <2> QED
      BY <2>1, <2>5
  <1>12. CASE LoseSave
    BY <1>2, <1>12 DEF LoseSave, NoSave, server
  <1> QED
    BY <1>1, <1>2, <1>4, <1>5, <1>6, <1>7, <1>8, <1>9, <1>10, <1>11, <1>12, Writers

--------------------------------------------------------------------------------
(* The invariant holds at first ... *)
LEMMA PInvAtFirst ==
  ASSUME Init
  PROVE  PInv
  <1>1. PTypes
    BY TypesAtFirst
  <1>2. \A k \in Key : cache[k].data = Nothing /\ cache[k].fetch # "answered"
    <2>1. \A k \in Key : cache[k] \in {NewEntry, Ask(NewEntry)}
      BY DEF Init
    <2> QED
      BY <2>1, NewEntryIsTyped, AskIsTyped
  <1>3. post = NoPost /\ save = NoSave /\ draft = NoDraft /\ panel = NoPanel
    BY DEF Init
  <1>4. FitsInv
    BY <1>2, <1>3 DEF FitsInv, AcceptedAsOffered, NoPost, Key
  <1>5. FreshInv
    <2>1. past.heard = 0 /\ past.told = 0
      BY DEF Init
    <2>2. row.version \in Nat
      BY <1>1 DEF PTypes, TabTypes, Filed, Row
    <2> QED
      BY <1>2, <1>3, <2>1, <2>2 DEF FreshInv, NoPost, UpTo
  <1>6. NotesInv
    BY <1>3 DEF NotesInv, NotesAreForTheirVersion, NoPanel
  <1>7. OnceInv
    BY DEF Init, OnceInv
  <1>8. UntypedInv
    BY <1>3 DEF UntypedInv, NoSave
  <1> QED
    BY <1>1, <1>4, <1>5, <1>6, <1>7, <1>8 DEF PInv, PTypes

(* ... and after every step. *)
LEMMA PInvStays ==
  ASSUME PInv, [Next]_vars
  PROVE  PInv'
  <1>1. PTypes'
    BY TypesStay DEF PInv, PTypes
  <1>2. CASE Next
    <2>1. FitsInv' /\ FreshInv'
      BY <1>2, FitsStay, FreshStays DEF PInv, PTypes
    <2>2. NotesInv' /\ OnceInv' /\ UntypedInv'
      BY <1>2, NotesStay, OnceStays, UntypedStays DEF PInv, PTypes
    <2> QED
      BY <1>1, <2>1, <2>2 DEF PInv, PTypes
  <1>3. CASE UNCHANGED vars
    <2> USE <1>3 DEF vars, server, buttons, editor, forms
    <2>1. FitsInv'
      BY DEF PInv, FitsInv, Fits, AcceptedAsOffered
    <2>2. FreshInv'
      BY DEF PInv, FreshInv, UpTo, HeardBy
    <2>3. NotesInv'
      BY DEF PInv, NotesInv, NotesAreForTheirVersion, Role, Avail
    <2>4. OnceInv' /\ UntypedInv'
      BY DEF PInv, OnceInv, Clean, UntypedInv
    <2> QED
      BY <1>1, <2>1, <2>2, <2>3, <2>4 DEF PInv, PTypes
  <1> QED
    BY <1>2, <1>3

(* The tab is in a state its components are written for, whatever is on its way:   *)
(* entries hold answers of their own query, a component that is gone has no state, *)
(* and the invariants the theorems below read off hold with it.                    *)
THEOREM TabsAreWellFormed == Spec => []PInv
  <1> QED
    BY PInvAtFirst, PInvStays, PTL DEF Spec

(* "Invalidate after mutations so the cache stays accurate": what is older than    *)
(* what the tab was last told is being fetched, marked or shown as an error, but   *)
(* for a first load that an invalidation overtook.                                 *)
THEOREM StaleDataIsMarked == Spec => []NothingStaleLooksFresh
  <1>1. PInv => NothingStaleLooksFresh
    BY DEF PInv, FreshInv, UpTo, NothingStaleLooksFresh, VersionOf
  <1> QED
    BY <1>1, TabsAreWellFormed, PTL

(* A transition that is accepted is done to the row its button was drawn for,      *)
(* whatever was changed elsewhere and in whatever order answers came.              *)
THEOREM AcceptedIsWhatWasOffered == Spec => []AcceptedAsOffered
  <1>1. PInv => AcceptedAsOffered
    BY DEF PInv, FitsInv
  <1> QED
    BY <1>1, TabsAreWellFormed, PTL

(* A decision's note is sent with the version it was opened on, or the user was    *)
(* shown that the application had moved.                                           *)
THEOREM NotesFollowTheirVersion == Spec => []NotesAreForTheirVersion
  <1>1. PInv => NotesAreForTheirVersion
    BY DEF PInv, NotesInv
  <1> QED
    BY <1>1, TabsAreWellFormed, PTL

(* One application from a form and one document from a file, although the server   *)
(* reads no Idempotency-Key, unless an answer was lost or the button clicked again *)
(* before the router went on.                                                      *)
THEOREM FormsMakeOneThing == Spec => []NothingIsMadeTwice
  <1>1. PInv => NothingIsMadeTwice
    BY DEF PInv, OnceInv, Clean, NothingIsMadeTwice
  <1> QED
    BY <1>1, TabsAreWellFormed, PTL

(* A draft form nobody typed into saves what the application says already, unless  *)
(* another tab edited it or the form was filled behind its own save.               *)
THEOREM UntypedSavesAreHarmless == Spec => UntypedSavesChangeNothing
  <1>1. PInv /\ [Next]_vars =>
          [ServeSave /\ ~save.typed /\ "edited" \notin past.flags /\ ~save.behind
             => content' = content]_vars
    BY DEF PInv, UntypedInv, ServeSave
  <1> QED
    BY <1>1, TabsAreWellFormed, PTL DEF Spec, UntypedSavesChangeNothing
===============================================================================
