-------------------------------- MODULE Documents --------------------------------
(***************************************************************************)
(* DocumentsService.upload() as the server runs it: bytes on a disk first, *)
(* then a row with the next version of its type and an audit entry in one  *)
(* database transaction, and a cleanup of the disk nobody waits for when   *)
(* that fails.  Uploads run beside one another, beside the workflow that   *)
(* moves their application, and the process may die between any two steps. *)
(*                                                                         *)
(* A file lies at <application>/<hash of its bytes>, so equal bytes of an  *)
(* application are one file.  The storage itself is not part of the        *)
(* repository; put and remove are taken as atomic.                         *)
(***************************************************************************)
EXTENDS Transitions, Sequences, FiniteSets

CONSTANTS App,
          DocType,
          Bytes,       \* what a file may contain
          Request,
          NoPath,
          FreshBytes,  \* assumption on clients: no two uploads of the same bytes
          MaxDocs,     \* bound: documents
          MaxFaults    \* bound: crashes and failed cleanups

ASSUME DocumentsAssumption ==
  /\ NoPath \notin App \X Bytes
  /\ FreshBytes \in BOOLEAN
  /\ MaxDocs \in Nat /\ MaxFaults \in Nat

VARIABLES
  state,    \* state[a]: the committed state of application a
  docs,     \* the committed rows of the Document table
  log,      \* log[a]: the committed audit entries of a's documents
  files,    \* the paths that hold their bytes
  up,       \* up[r]: the upload in slot r
  cleanup,  \* cleanup[r]: the path an upload of slot r is about to remove
  faults    \* crashes and failed cleanups so far

vars == <<state, docs, log, files, up, cleanup, faults>>

--------------------------------------------------------------------------------
\* Documents attach in these states.
Mutable == {"DRAFT", "INFO_REQUESTED", "RESUBMITTED"}

Job == [id : App, mine : BOOLEAN, type : DocType, bytes : Bytes]

Document == [id : App, type : DocType, version : Nat \ {0}, bytes : Bytes]

Path(j) == <<j.id, j.bytes>>

UploadAnswer == {"OK", "NOT_FOUND", "FORBIDDEN", "IMMUTABLE_STATE",
                 "CONCURRENT_MODIFICATION", "FAILED"}

InTransaction == {"stored", "numbered", "inserted"}

NoUpload == [stage |-> "idle"]

Versions(a, t) == {d.version : d \in {d \in docs : d.id = a /\ d.type = t}}

\* Faulty form: the first version is the maximum of nothing.
NextVersion_NoDefault(a, t) ==
  IF Versions(a, t) = {} THEN 0
  ELSE 1 + CHOOSE v \in Versions(a, t) : \A w \in Versions(a, t) : w <= v

NextVersion(a, t) ==
  IF Versions(a, t) = {} THEN 1
  ELSE 1 + CHOOSE v \in Versions(a, t) : \A w \in Versions(a, t) : w <= v

\* Faulty form: off by one.
UploadAction_OffByOne(v) == IF v = 0 THEN "DOCUMENT_UPLOADED" ELSE "DOCUMENT_VERSIONED"

UploadAction(v) == IF v = 1 THEN "DOCUMENT_UPLOADED" ELSE "DOCUMENT_VERSIONED"

\* Faulty form: the rows come in ascending order of their versions.
Listing_Ascending(a) ==
  {LET rows == {d \in docs : d.id = a /\ d.type = t}
   IN [latest |-> CHOOSE d \in rows : \A e \in rows : d.version <= e.version,
       totalVersions |-> Cardinality(rows)] : t \in {d.type : d \in {d \in docs : d.id = a}}}

\* listLatestForApplication: one statement reads the rows.
Listing(a) ==
  {LET rows == {d \in docs : d.id = a /\ d.type = t}
   IN [latest |-> CHOOSE d \in rows : \A e \in rows : e.version <= d.version,
       totalVersions |-> Cardinality(rows)] : t \in {d.type : d \in {d \in docs : d.id = a}}}

\* openForDownload by somebody who can see the application; the stream of a file
\* that is not there breaks when it is read.
Download(d) ==
  CASE d \notin docs       -> "NOT_FOUND"
    [] Path(d) \notin files -> "BROKEN"
    [] OTHER                -> "STREAM"

--------------------------------------------------------------------------------
Init ==
  /\ state \in [App -> {"ABSENT", "DRAFT"}]
  /\ docs = {}
  /\ log = [a \in App |-> << >>]
  /\ files = {}
  /\ up = [r \in Request |-> NoUpload]
  /\ cleanup = [r \in Request |-> NoPath]
  /\ faults = 0

\* What the workflow may do to the application meanwhile (TrailProofs!Refinement).
MoveApplication ==
  /\ \E rule \in TRANSITIONS, a \in App :
       state[a] = rule.from /\ state' = [state EXCEPT ![a] = rule.to]
  /\ UNCHANGED <<docs, log, files, up, cleanup, faults>>

\* Slot r goes on to another stage with its job and version.
Goto(r, stage) == up' = [up EXCEPT ![r].stage = stage]

\* Bytes nobody has sent for this application.
Unseen(a, b) ==
  /\ <<a, b>> \notin files
  /\ \A r \in Request : cleanup[r] # <<a, b>>
                        /\ (up[r] # NoUpload => Path(up[r].job) # <<a, b>>)

\* A file that passed the size and type checks arrives, from the owner of the
\* application or from somebody else.
Begin(r) ==
  /\ up[r] = NoUpload
  /\ \E j \in Job :
       /\ j.mine => Cardinality(docs) < MaxDocs /\ (FreshBytes => Unseen(j.id, j.bytes))
       /\ up' = [up EXCEPT ![r] = [stage |-> "received", job |-> j, version |-> 0]]
  /\ UNCHANGED <<state, docs, log, files, cleanup, faults>>

\* Steps 1 and 2: the row is read once, outside the transaction.
Gate(r) ==
  /\ up[r].stage = "received"
  /\ LET j == up[r].job IN
       Goto(r, IF state[j.id] = "ABSENT" THEN "NOT_FOUND"
               ELSE IF ~j.mine THEN "FORBIDDEN"
               ELSE IF state[j.id] \notin Mutable THEN "IMMUTABLE_STATE"
               ELSE "gated")
  /\ UNCHANGED <<state, docs, log, files, cleanup, faults>>

\* Step 4: a put that fails over a file that exists counts as done.
Store(r) ==
  /\ up[r].stage = "gated"
  /\ files' = files \cup {Path(up[r].job)}
  /\ Goto(r, "stored")
  /\ UNCHANGED <<state, docs, log, cleanup, faults>>

StoreFails(r) ==
  /\ up[r].stage = "gated"
  /\ Path(up[r].job) \notin files
  /\ Goto(r, "FAILED")
  /\ UNCHANGED <<state, docs, log, files, cleanup, faults>>

\* Step 5, the aggregate: committed rows only.
ReadMax(r) ==
  /\ up[r].stage = "stored"
  /\ up' = [up EXCEPT ![r].stage = "numbered",
                      ![r].version = NextVersion(up[r].job.id, up[r].job.type)]
  /\ UNCHANGED <<state, docs, log, files, cleanup, faults>>

\* Faulty form: the bytes of a failed upload stay.
Undo_NoCleanup(r, answer) == Goto(r, answer) /\ UNCHANGED cleanup

\* The transaction is rolled back; the removal of the file is started and not
\* waited for.
Undo(r, answer) ==
  /\ Goto(r, answer)
  /\ cleanup' = [cleanup EXCEPT ![r] = Path(up[r].job)]

Key(r) == <<up[r].job.id, up[r].job.type, up[r].version>>

Taken(k) == \E d \in docs : <<d.id, d.type, d.version>> = k

Pending(k) == \E q \in Request : up[q].stage = "inserted" /\ Key(q) = k

\* Faulty forms: no unique index; one that does not wait; one nobody gets past.
Insert_NotUnique(r) ==
  /\ up[r].stage = "numbered"
  /\ Goto(r, "inserted") /\ UNCHANGED cleanup
  /\ UNCHANGED <<state, docs, log, files, faults>>

Insert_NoWait(r) ==
  /\ up[r].stage = "numbered"
  /\ IF Taken(Key(r)) \/ Pending(Key(r)) THEN Undo(r, "CONCURRENT_MODIFICATION")
     ELSE Goto(r, "inserted") /\ UNCHANGED cleanup
  /\ UNCHANGED <<state, docs, log, files, faults>>

Insert_Stuck(r) ==
  /\ up[r].stage = "numbered"
  /\ ~Pending(Key(r)) /\ ~Taken(Key(r))
  /\ Goto(r, "inserted") /\ UNCHANGED cleanup
  /\ UNCHANGED <<state, docs, log, files, faults>>

\* The INSERT waits for an uncommitted row with its key, and fails (P2002) on a
\* committed one.
Insert(r) ==
  /\ up[r].stage = "numbered"
  /\ ~Pending(Key(r))
  /\ IF Taken(Key(r)) THEN Undo(r, "CONCURRENT_MODIFICATION")
     ELSE Goto(r, "inserted") /\ UNCHANGED cleanup
  /\ UNCHANGED <<state, docs, log, files, faults>>

\* Faulty form: the cleanup stands in a finally.
Commit_Finally(r) ==
  /\ up[r].stage = "inserted"
  /\ LET j == up[r].job IN
       /\ docs' = docs \cup {[id |-> j.id, type |-> j.type,
                              version |-> up[r].version, bytes |-> j.bytes]}
       /\ log' = [log EXCEPT ![j.id] = Append(@, [action  |-> UploadAction(up[r].version),
                                                  type    |-> j.type,
                                                  version |-> up[r].version])]
  /\ Undo(r, "OK")
  /\ UNCHANGED <<state, files, faults>>

\* The audit entry and the commit.
Commit(r) ==
  /\ up[r].stage = "inserted"
  /\ LET j == up[r].job IN
       /\ docs' = docs \cup {[id |-> j.id, type |-> j.type,
                              version |-> up[r].version, bytes |-> j.bytes]}
       /\ log' = [log EXCEPT ![j.id] = Append(@, [action  |-> UploadAction(up[r].version),
                                                  type    |-> j.type,
                                                  version |-> up[r].version])]
  /\ Goto(r, "OK")
  /\ UNCHANGED <<state, files, cleanup, faults>>

\* A statement of the transaction fails for another reason.
FailTransaction(r) ==
  /\ up[r].stage \in InTransaction
  /\ Undo(r, "FAILED")
  /\ UNCHANGED <<state, docs, log, files, faults>>

\* removeOrphanFile, in its own time.
RemoveOrphan(r) ==
  /\ cleanup[r] # NoPath
  /\ files' = files \ {cleanup[r]}
  /\ cleanup' = [cleanup EXCEPT ![r] = NoPath]
  /\ UNCHANGED <<state, docs, log, up, faults>>

\* It fails and is only logged.
RemoveFails(r) ==
  /\ cleanup[r] # NoPath
  /\ faults < MaxFaults /\ faults' = faults + 1
  /\ cleanup' = [cleanup EXCEPT ![r] = NoPath]
  /\ UNCHANGED <<state, docs, log, files, up>>

\* The answer is out; the slot is free once its cleanup is done (a bound: one
\* cleanup per slot).
Recycle(r) ==
  /\ up[r].stage \in UploadAnswer
  /\ cleanup[r] = NoPath
  /\ up' = [up EXCEPT ![r] = NoUpload]
  /\ UNCHANGED <<state, docs, log, files, cleanup, faults>>

\* The process dies: transactions roll back, cleanups are forgotten, files stay.
Crash ==
  /\ faults < MaxFaults /\ faults' = faults + 1
  /\ up' = [r \in Request |-> NoUpload]
  /\ cleanup' = [r \in Request |-> NoPath]
  /\ UNCHANGED <<state, docs, log, files>>

Serve(r) == Gate(r) \/ Store(r) \/ StoreFails(r) \/ ReadMax(r) \/ Insert(r) \/ Commit(r)

Next ==
  \/ MoveApplication
  \/ Crash
  \/ \E r \in Request : \/ Begin(r) \/ Serve(r) \/ FailTransaction(r)
                        \/ RemoveOrphan(r) \/ RemoveFails(r) \/ Recycle(r)

Spec == Init /\ [][Next]_vars

\* The server goes on with every upload; one that waits for another's key is
\* next in line when that one ends.
FairSpec == Spec /\ \A r \in Request : WF_vars(Serve(r)) /\ SF_vars(Insert(r))
================================================================================
