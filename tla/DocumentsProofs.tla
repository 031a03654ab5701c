---------------------------- MODULE DocumentsProofs ----------------------------
(***************************************************************************)
(* Proofs about the uploads, for any number of requests, applications,     *)
(* types, documents, crashes and failed removals.                          *)
(***************************************************************************)
EXTENDS DocumentsProperties, FiniteSetTheorems, TLAPS

--------------------------------------------------------------------------------
(***************************************************************************)
(* The inductive invariant, in parts.                                      *)
(***************************************************************************)
Stage == UploadAnswer \cup InTransaction \cup {"received", "gated"}

Upload == [stage : Stage, job : Job, version : Nat]

LogEntry == [action : {"DOCUMENT_UPLOADED", "DOCUMENT_VERSIONED"},
             type : DocType, version : Nat \ {0}]

Types ==
  /\ state \in [App -> ApplicationState \cup {"ABSENT"}]
  /\ docs \subseteq Document /\ IsFiniteSet(docs)
  /\ log \in [App -> Seq(LogEntry)]
  /\ files \subseteq App \X Bytes
  /\ up \in [Request -> Upload \cup {NoUpload}]
  /\ cleanup \in [Request -> (App \X Bytes) \cup {NoPath}]
  /\ faults \in 0 .. MaxFaults
  /\ \A r \in Request : up[r].stage \in {"numbered", "inserted"} => up[r].version > 0

Of(a, t) == {d \in docs : d.id = a /\ d.type = t}

Dense(a, t) == Versions(a, t) = 1 .. Cardinality(Of(a, t))

\* The number an upload has read may be taken since, but it leaves no gap; the
\* row it has inserted nobody else has, committed or not.
Numbered(r) ==
  /\ up[r].stage \in {"numbered", "inserted"} =>
       up[r].version <= Cardinality(Of(up[r].job.id, up[r].job.type)) + 1
  /\ up[r].stage = "inserted" =>
       /\ ~Taken(Key(r))
       /\ \A q \in Request \ {r} : up[q].stage = "inserted" => Key(q) # Key(r)
  /\ up[r].stage = "CONCURRENT_MODIFICATION" => Taken(Key(r))

NumbersInv ==
  /\ \A a \in App, t \in DocType : Dense(a, t)
  /\ \A r \in Request : Numbered(r)

\* Only the owner's uploads get past the gate, and a removal is ahead only for
\* an upload that has failed and still occupies its slot.
Gated == {"gated", "OK", "CONCURRENT_MODIFICATION", "FAILED"} \cup InTransaction

SlotsInv ==
  \A r \in Request :
    /\ up[r].stage \in Gated => up[r].job.mine
    /\ cleanup[r] # NoPath =>
         /\ up[r].stage \in {"CONCURRENT_MODIFICATION", "FAILED"}
         /\ cleanup[r] = Path(up[r].job)

\* When no two uploads send the same bytes: no two uploads of the owner share
\* a file, the file of a document is on the disk and nobody else's, and so is
\* the file of an upload in its transaction.
Mine(r) == up[r] # NoUpload /\ up[r].job.mine

FilesInv ==
  /\ \A d \in docs : Path(d) \in files
  /\ \A r \in Request : up[r].stage \in InTransaction => Path(up[r].job) \in files
  /\ \A r, q \in Request : r # q /\ Mine(r) /\ Mine(q) => Path(up[r].job) # Path(up[q].job)
  /\ \A r \in Request, d \in docs : Mine(r) /\ up[r].stage # "OK" => Path(up[r].job) # Path(d)

DInv == Types /\ NumbersInv /\ SlotsInv

--------------------------------------------------------------------------------
(* The stages, and the slots they belong to. *)
LEMMA Stages ==
  /\ "idle" \notin Stage
  /\ InTransaction \subseteq Stage /\ UploadAnswer \subseteq Stage
  /\ {"received", "gated"} \subseteq Stage
  /\ {"stored", "numbered", "inserted"} = InTransaction
  /\ {"OK", "NOT_FOUND", "FORBIDDEN", "IMMUTABLE_STATE", "CONCURRENT_MODIFICATION",
      "FAILED"} = UploadAnswer
  BY DEF Stage, InTransaction, UploadAnswer

(* An upload that has been sent has a job, with its application, type and  *)
(* file.                                                                   *)
LEMMA Occupied ==
  ASSUME Types, NEW r \in Request, up[r].stage \in Stage
  PROVE  /\ up[r] \in Upload /\ up[r] # NoUpload
         /\ up[r].job \in Job /\ up[r].version \in Nat
         /\ up[r].job.id \in App /\ up[r].job.type \in DocType
         /\ Path(up[r].job) \in App \X Bytes
<1>1. up[r] \in Upload \cup {NoUpload} /\ up[r] # NoUpload
  BY Stages DEF Types, NoUpload
<1>2. QED
  BY <1>1 DEF Upload, Job, Path

(* A free slot holds no upload.                                            *)
LEMMA Free == NoUpload \notin Upload
  BY Stages DEF NoUpload, Upload

(* A slot goes on with its job and its version. *)
LEMMA GotoFacts ==
  ASSUME Types, NEW r \in Request, up[r].stage \in Stage,
         NEW stage \in Stage, Goto(r, stage)
  PROVE  /\ up' \in [Request -> Upload \cup {NoUpload}]
         /\ up'[r].stage = stage /\ up'[r].job = up[r].job
         /\ up'[r].version = up[r].version
         /\ \A q \in Request \ {r} : up'[q] = up[q]
<1>1. up[r] \in Upload
  BY Occupied
<1>2. up' = [up EXCEPT ![r].stage = stage]
  BY DEF Goto
<1>3. up'[r] = [up[r] EXCEPT !.stage = stage]
  BY <1>2 DEF Types
<1>4. up'[r] \in Upload /\ up'[r].stage = stage /\ up'[r].job = up[r].job
      /\ up'[r].version = up[r].version
  BY <1>1, <1>3 DEF Upload
<1>5. \A q \in Request \ {r} : up'[q] = up[q]
  BY <1>2 DEF Types
<1>6. QED
  BY <1>2, <1>4, <1>5 DEF Types

(* Dense versions number the next document. *)
LEMMA NextIsOneMore ==
  ASSUME NEW a, NEW t, IsFiniteSet(docs), Dense(a, t)
  PROVE  /\ Cardinality(Of(a, t)) \in Nat
         /\ NextVersion(a, t) = Cardinality(Of(a, t)) + 1
<1> DEFINE n == Cardinality(Of(a, t))
<1>1. n \in Nat
  BY FS_Subset, FS_CardinalityType DEF Of
<1>2. Versions(a, t) = 1 .. n
  BY DEF Dense
<1> HIDE DEF n
<1>3. n = 0 => NextVersion(a, t) = n + 1
  BY <1>2 DEF NextVersion
<1>4. ASSUME n # 0 PROVE NextVersion(a, t) = n + 1
  <2> DEFINE m == CHOOSE v \in 1 .. n : \A w \in 1 .. n : w <= v
  <2>1. \E v \in 1 .. n : \A w \in 1 .. n : w <= v
    <3>1. n \in 1 .. n /\ \A w \in 1 .. n : w <= n
      BY <1>1, <1>4
    <3>2. QED
      BY <3>1
  <2>2. m \in 1 .. n /\ \A w \in 1 .. n : w <= m
    BY <2>1
  <2>3. m = n
    <3>1. n \in 1 .. n
      BY <1>1, <1>4
    <3> HIDE DEF m
    <3>2. QED
      BY <1>1, <2>2, <3>1
  <2>4. NextVersion(a, t) = 1 + m
    BY <1>1, <1>2, <1>4 DEF NextVersion
  <2> HIDE DEF m
  <2>5. QED
    BY <1>1, <2>3, <2>4
<1>5. n \in Nat /\ NextVersion(a, t) = n + 1
  BY <1>1, <1>3, <1>4
<1>6. QED
  BY <1>5 DEF n

(* What the commit of an upload makes of the rows and the log. *)
New(r) == [id |-> up[r].job.id, type |-> up[r].job.type,
           version |-> up[r].version, bytes |-> up[r].job.bytes]

NewEntry(r) == [action |-> UploadAction(up[r].version), type |-> up[r].job.type,
                version |-> up[r].version]

(* A commit adds one document, numbered one above those of its type, and   *)
(* its entry in the trail.                                                 *)
LEMMA CommitFacts ==
  ASSUME Types, NumbersInv, NEW r \in Request, Commit(r)
  PROVE  LET a == up[r].job.id  t == up[r].job.type  n == Cardinality(Of(a, t)) IN
         /\ a \in App /\ t \in DocType /\ n \in Nat
         /\ up[r].version = n + 1
         /\ New(r) \in Document \ docs /\ NewEntry(r) \in LogEntry
         /\ docs' = docs \cup {New(r)}
         /\ log' = [log EXCEPT ![a] = Append(@, NewEntry(r))]
<1> DEFINE a == up[r].job.id
           t == up[r].job.type
           n == Cardinality(Of(a, t))
<1>1. up[r].stage = "inserted" /\ up[r].stage \in Stage
  BY Stages DEF Commit
<1>2. /\ up[r] \in Upload /\ up[r].job \in Job /\ a \in App /\ t \in DocType
      /\ up[r].version \in Nat /\ up[r].version > 0
  BY <1>1, Occupied DEF Types
<1>3. n \in Nat /\ Versions(a, t) = 1 .. n
  BY <1>2, NextIsOneMore DEF Types, NumbersInv, Dense
<1>4. up[r].version <= n + 1 /\ ~Taken(Key(r))
  BY <1>1 DEF NumbersInv, Numbered
<1>5. up[r].version \notin 1 .. n
  BY <1>3, <1>4 DEF Taken, Key, Versions
<1>6. up[r].version = n + 1
  BY <1>2, <1>3, <1>4, <1>5
<1>7. New(r) \in Document
  BY <1>2 DEF New, Document, Job
<1>8. New(r) \notin docs
  BY <1>4 DEF Taken, Key, New
<1>9. NewEntry(r) \in LogEntry
  BY <1>2 DEF NewEntry, LogEntry, UploadAction
<1>10. docs' = docs \cup {New(r)} /\ log' = [log EXCEPT ![a] = Append(@, NewEntry(r))]
  BY DEF Commit, New, NewEntry
<1>11. QED
  BY <1>2, <1>3, <1>6, <1>7, <1>8, <1>9, <1>10

--------------------------------------------------------------------------------
(* Every step keeps the types. *)
LEMMA GateAnswers ==
  ASSUME Types, NEW r \in Request, Gate(r)
  PROVE  \E stage \in {"NOT_FOUND", "FORBIDDEN", "IMMUTABLE_STATE", "gated"} :
           /\ Goto(r, stage)
           /\ stage = "gated" => up[r].job.mine
  BY DEF Gate

(* Every step keeps the types.                                             *)
LEMMA TypesStep ==
  ASSUME Types, NumbersInv, [Next]_vars
  PROVE  Types'
<1>1. CASE UNCHANGED vars
  BY <1>1 DEF vars, Types
<1>2. CASE MoveApplication
  BY <1>2 DEF MoveApplication, Types, TRANSITIONS, ApplicationState
<1>3. CASE Crash
  BY <1>3, DocumentsAssumption DEF Crash, Types, NoUpload
<1>4. ASSUME NEW r \in Request, Begin(r) PROVE Types'
  <2>1. PICK j \in Job :
          up' = [up EXCEPT ![r] = [stage |-> "received", job |-> j, version |-> 0]]
    BY <1>4 DEF Begin
  <2>2. [stage |-> "received", job |-> j, version |-> 0] \in Upload
    BY Stages DEF Upload
  <2>3. QED
    BY <1>4, <2>1, <2>2 DEF Begin, Types
<1>5. ASSUME NEW r \in Request, NEW stage \in Stage,
             up[r].stage \in Stage, Goto(r, stage),
             stage \in {"numbered", "inserted"} => up[r].version > 0
      PROVE  /\ up' \in [Request -> Upload \cup {NoUpload}]
             /\ \A q \in Request : up'[q].stage \in {"numbered", "inserted"} =>
                  up'[q].version > 0
  BY <1>5, GotoFacts DEF Types
<1>6. ASSUME NEW r \in Request, Gate(r) PROVE Types'
  <2>1. PICK stage \in {"NOT_FOUND", "FORBIDDEN", "IMMUTABLE_STATE", "gated"} :
          Goto(r, stage)
    BY <1>6, GateAnswers
  <2>2. stage \in Stage /\ up[r].stage \in Stage
    BY <1>6, Stages DEF Gate
  <2>3. QED
    BY <1>5, <1>6, <2>1, <2>2 DEF Gate, Types
<1>7. ASSUME NEW r \in Request, Store(r) \/ StoreFails(r) PROVE Types'
  <2>1. up[r].stage \in Stage /\ "stored" \in Stage /\ "FAILED" \in Stage
    BY <1>7, Stages DEF Store, StoreFails
  <2>2. Path(up[r].job) \in App \X Bytes
    BY <2>1, Occupied
  <2>3. QED
    BY <1>5, <1>7, <2>1, <2>2 DEF Store, StoreFails, Types
<1>8. ASSUME NEW r \in Request, ReadMax(r) PROVE Types'
  <2> DEFINE v == NextVersion(up[r].job.id, up[r].job.type)
  <2>1. up[r].stage \in Stage /\ "numbered" \in Stage
    BY <1>8, Stages DEF ReadMax
  <2>2. up[r] \in Upload /\ up[r].job.id \in App /\ up[r].job.type \in DocType
    BY <2>1, Occupied
  <2>3. v \in Nat /\ v > 0
    BY <2>2, NextIsOneMore DEF Types, NumbersInv
  <2> HIDE DEF v
  <2>4. up' = [up EXCEPT ![r].stage = "numbered", ![r].version = v]
    BY <1>8 DEF ReadMax, v
  <2>5. up'[r] = [up[r] EXCEPT !.stage = "numbered", !.version = v]
        /\ \A q \in Request \ {r} : up'[q] = up[q]
    BY <2>4 DEF Types
  <2>6. up'[r] \in Upload /\ up'[r].version = v
    BY <2>1, <2>2, <2>3, <2>5 DEF Upload
  <2>7. up' \in [Request -> Upload \cup {NoUpload}]
    BY <2>4, <2>5, <2>6 DEF Types
  <2>8. QED
    BY <1>8, <2>3, <2>5, <2>6, <2>7 DEF ReadMax, Types
<1>9. ASSUME NEW r \in Request, Insert(r) \/ FailTransaction(r) PROVE Types'
  <2>1. up[r].stage \in Stage
    BY <1>9, Stages DEF Insert, FailTransaction
  <2>2. Path(up[r].job) \in App \X Bytes
    BY <2>1, Occupied
  <2>3. PICK stage \in {"inserted", "CONCURRENT_MODIFICATION", "FAILED"} :
          /\ Goto(r, stage)
          /\ stage = "inserted" => up[r].stage = "numbered"
          /\ cleanup' = cleanup \/ cleanup' = [cleanup EXCEPT ![r] = Path(up[r].job)]
    BY <1>9 DEF Insert, FailTransaction, Undo
  <2>4. stage \in Stage
    BY Stages
  <2>8. stage \in {"numbered", "inserted"} => up[r].version > 0
    <3>1. up[r].stage = "numbered" => up[r].version > 0
      BY DEF Types
    <3>2. QED
      BY <2>3, <3>1
  <2>5. /\ up' \in [Request -> Upload \cup {NoUpload}]
        /\ \A q \in Request : up'[q].stage \in {"numbered", "inserted"} =>
             up'[q].version > 0
    BY <1>5, <2>1, <2>3, <2>4, <2>8
  <2>6. cleanup' \in [Request -> (App \X Bytes) \cup {NoPath}]
    BY <2>2, <2>3 DEF Types
  <2>7. QED
    BY <1>9, <2>5, <2>6 DEF Insert, FailTransaction, Types
<1>10. ASSUME NEW r \in Request, Commit(r) PROVE Types'
  <2>1. up[r].stage \in Stage /\ "OK" \in Stage /\ Goto(r, "OK")
    BY <1>10, Stages DEF Commit
  <2>2. /\ up' \in [Request -> Upload \cup {NoUpload}]
        /\ \A q \in Request : up'[q].stage \in {"numbered", "inserted"} =>
             up'[q].version > 0
    BY <1>5, <2>1
  <2>3. docs' \subseteq Document /\ IsFiniteSet(docs')
    BY <1>10, CommitFacts, FS_AddElement DEF Types
  <2>4. log' \in [App -> Seq(LogEntry)]
    <3>1. PICK a \in App, e \in LogEntry : log' = [log EXCEPT ![a] = Append(@, e)]
      BY <1>10, CommitFacts
    <3>2. Append(log[a], e) \in Seq(LogEntry)
      BY DEF Types
    <3>3. QED
      BY <3>1, <3>2 DEF Types
  <2>5. QED
    BY <1>10, <2>2, <2>3, <2>4 DEF Commit, Types
<1>11. ASSUME NEW r \in Request, RemoveOrphan(r) \/ RemoveFails(r) \/ Recycle(r)
       PROVE  Types'
  <2>1. CASE RemoveOrphan(r)
    BY <2>1 DEF RemoveOrphan, Types
  <2>2. CASE RemoveFails(r)
    BY <2>2, DocumentsAssumption DEF RemoveFails, Types
  <2>3. CASE Recycle(r)
    BY <2>3 DEF Recycle, Types, NoUpload
  <2>4. QED
    BY <1>11, <2>1, <2>2, <2>3
<1>12. QED
  BY <1>1, <1>2, <1>3, <1>4, <1>6, <1>7, <1>8, <1>9, <1>10, <1>11 DEF Next, Serve

--------------------------------------------------------------------------------
(* Every step keeps the numbers. *)

(* A step of one slot that leaves the rows alone: only what that slot now  *)
(* claims is to be shown.                                                  *)
LEMMA SlotNumbers ==
  ASSUME NumbersInv, docs' = docs, NEW r \in Request,
         \A q \in Request \ {r} : up'[q] = up[q],
         up'[r].stage \in {"numbered", "inserted"} =>
           up'[r].version <= Cardinality(Of(up'[r].job.id, up'[r].job.type)) + 1,
         up'[r].stage = "inserted" =>
           ~Taken(Key(r)') /\ \A q \in Request \ {r} : up[q].stage = "inserted" => Key(q) # Key(r)',
         up'[r].stage = "CONCURRENT_MODIFICATION" => Taken(Key(r)')
  PROVE  NumbersInv'
<1>1. \A a, t : Of(a, t)' = Of(a, t)
  BY DEF Of
<1>2. \A a \in App, t \in DocType : Dense(a, t)'
  BY <1>1 DEF NumbersInv, Dense, Versions
<1>3. Numbered(r)'
  BY DEF Numbered, Taken, Of, Key
<1>4. ASSUME NEW q \in Request \ {r} PROVE Numbered(q)'
  <2>1. /\ Numbered(q) /\ up'[q] = up[q] /\ Key(q)' = Key(q)
        /\ \A k : Taken(k)' <=> Taken(k)
    BY DEF NumbersInv, Key, Taken
  <2>2. ASSUME up[q].stage = "inserted", NEW x \in Request \ {q}, up'[x].stage = "inserted"
        PROVE  Key(x)' # Key(q)
    <3>1. CASE x = r
      BY <2>2, <3>1
    <3>2. CASE x # r
      <4>1. up'[x] = up[x] /\ Key(x)' = Key(x)
        BY <3>2 DEF Key
      <4>2. QED
        BY <2>1, <2>2, <4>1 DEF Numbered
    <3>3. QED
      BY <3>1, <3>2
  <2>3. QED
    BY <1>1, <2>1, <2>2 DEF Numbered
<1>5. QED
  BY <1>2, <1>3, <1>4 DEF NumbersInv

(* The rows and the documents of a type after a commit.                    *)
LEMMA CommitNumbers ==
  ASSUME Types, NumbersInv, NEW r \in Request, Commit(r)
  PROVE  /\ \A a \in App, t \in DocType :
              /\ Cardinality(Of(a, t)) <= Cardinality(Of(a, t)')
              /\ Cardinality(Of(a, t)) \in Nat /\ Cardinality(Of(a, t)') \in Nat
              /\ Dense(a, t)'
         /\ \A k : Taken(k)' <=> Taken(k) \/ k = Key(r)
<1> DEFINE d == New(r)
<1>1. d \in Document \ docs /\ docs' = docs \cup {d} /\ IsFiniteSet(docs)
      /\ d.version = Cardinality(Of(d.id, d.type)) + 1
      /\ Key(r) = <<d.id, d.type, d.version>>
  BY CommitFacts DEF Types, New, Key
<1> HIDE DEF d
<1>2. ASSUME NEW a \in App, NEW t \in DocType
      PROVE  /\ Cardinality(Of(a, t)) <= Cardinality(Of(a, t)')
             /\ Cardinality(Of(a, t)) \in Nat /\ Cardinality(Of(a, t)') \in Nat
             /\ Dense(a, t)'
  <2> DEFINE n == Cardinality(Of(a, t))
  <2>1. IsFiniteSet(Of(a, t)) /\ n \in Nat
    BY <1>1, FS_Subset, FS_CardinalityType DEF Of
  <2>2. Versions(a, t) = 1 .. n
    BY DEF NumbersInv, Dense
  <2>3. CASE d.id = a /\ d.type = t
    <3>1. Of(a, t)' = Of(a, t) \cup {d} /\ d \notin Of(a, t)
      BY <1>1, <2>3 DEF Of
    <3>2. Cardinality(Of(a, t)') = n + 1
      BY <2>1, <3>1, FS_AddElement
    <3>3. Versions(a, t)' = Versions(a, t) \cup {n + 1}
      BY <1>1, <2>3 DEF Versions
    <3> HIDE DEF n
    <3>4. 1 .. n + 1 = (1 .. n) \cup {n + 1}
      BY <2>1
    <3>5. Dense(a, t)'
      BY <2>2, <3>2, <3>3, <3>4 DEF Dense
    <3>6. n <= n + 1 /\ n + 1 \in Nat
      BY <2>1
    <3>7. QED
      BY <2>1, <3>2, <3>5, <3>6 DEF n
  <2>4. CASE ~(d.id = a /\ d.type = t)
    <3>1. Of(a, t)' = Of(a, t)
      BY <1>1, <2>4 DEF Of
    <3>2. Versions(a, t)' = Versions(a, t)
      BY <1>1, <2>4 DEF Versions
    <3>3. Dense(a, t)'
      BY <2>2, <3>1, <3>2 DEF Dense
    <3>4. n <= n
      BY <2>1
    <3>5. QED
      BY <2>1, <3>1, <3>3, <3>4
  <2>5. QED
    BY <2>3, <2>4
<1>3. \A k : Taken(k)' <=> Taken(k) \/ k = Key(r)
  BY <1>1 DEF Taken
<1>4. QED
  BY <1>2, <1>3

(* A slot that goes to a stage without a number claims nothing.            *)
LEMMA PlainNumbers ==
  ASSUME NumbersInv, docs' = docs, NEW r \in Request,
         \A q \in Request \ {r} : up'[q] = up[q],
         up'[r].stage \notin {"numbered", "inserted", "CONCURRENT_MODIFICATION"}
  PROVE  NumbersInv'
  BY SlotNumbers

(* Every step keeps the versions dense and what the uploads have read of   *)
(* them true.                                                              *)
LEMMA NumbersStep ==
  ASSUME Types, NumbersInv, [Next]_vars
  PROVE  NumbersInv'
<1>1. CASE UNCHANGED <<docs, up>>
  BY <1>1 DEF NumbersInv, Dense, Numbered, Versions, Of, Taken, Key
<1>2. CASE Crash
  <2>1. docs' = docs /\ \A r \in Request : up'[r].stage = "idle"
    BY <1>2 DEF Crash, NoUpload
  <2>2. QED
    BY <2>1 DEF NumbersInv, Dense, Numbered, Versions, Of
<1>3. ASSUME NEW r \in Request, Begin(r) \/ Recycle(r) PROVE NumbersInv'
  <2>1. /\ docs' = docs /\ up'[r].stage \in {"received", "idle"}
        /\ \A q \in Request \ {r} : up'[q] = up[q]
    BY <1>3 DEF Begin, Recycle, NoUpload, Types
  <2>2. QED
    BY <2>1, PlainNumbers
<1>4. ASSUME NEW r \in Request, Gate(r) \/ Store(r) \/ StoreFails(r) \/ FailTransaction(r)
      PROVE  NumbersInv'
  <2>1. PICK stage \in {"NOT_FOUND", "FORBIDDEN", "IMMUTABLE_STATE", "gated", "stored",
                        "FAILED"} : Goto(r, stage)
    BY <1>4, GateAnswers DEF Store, StoreFails, FailTransaction, Undo
  <2>2. stage \in Stage /\ up[r].stage \in Stage /\ docs' = docs
    BY <1>4, Stages DEF Gate, Store, StoreFails, FailTransaction
  <2>3. up'[r].stage = stage /\ \A q \in Request \ {r} : up'[q] = up[q]
    BY <2>1, <2>2, GotoFacts
  <2>4. QED
    BY <2>2, <2>3, PlainNumbers
<1>5. ASSUME NEW r \in Request, ReadMax(r) PROVE NumbersInv'
  <2> DEFINE a == up[r].job.id
             t == up[r].job.type
  <2>1. up[r].stage \in Stage
    BY <1>5, Stages DEF ReadMax
  <2>2. up[r] \in Upload /\ a \in App /\ t \in DocType
    BY <2>1, Occupied
  <2>3. Cardinality(Of(a, t)) \in Nat /\ NextVersion(a, t) = Cardinality(Of(a, t)) + 1
    BY <2>2, NextIsOneMore DEF Types, NumbersInv
  <2>4. /\ docs' = docs
        /\ up'[r] = [up[r] EXCEPT !.stage = "numbered", !.version = NextVersion(a, t)]
        /\ \A q \in Request \ {r} : up'[q] = up[q]
    BY <1>5 DEF ReadMax, Types
  <2>5. /\ up'[r].stage = "numbered" /\ up'[r].job = up[r].job
        /\ up'[r].version = NextVersion(a, t)
    BY <2>2, <2>4 DEF Upload
  <2>6. up'[r].version <= Cardinality(Of(up'[r].job.id, up'[r].job.type)) + 1
    BY <2>3, <2>5
  <2>7. QED
    BY <2>4, <2>5, <2>6, SlotNumbers
<1>6. ASSUME NEW r \in Request, Insert(r) PROVE NumbersInv'
  <2>1. up[r].stage = "numbered" /\ up[r].stage \in Stage /\ docs' = docs
        /\ up[r].version <= Cardinality(Of(up[r].job.id, up[r].job.type)) + 1
    BY <1>6, Stages DEF Insert, NumbersInv, Numbered
  <2>2. CASE Taken(Key(r)) /\ Goto(r, "CONCURRENT_MODIFICATION")
    <3>1. /\ up'[r].stage = "CONCURRENT_MODIFICATION" /\ up'[r].job = up[r].job
          /\ up'[r].version = up[r].version
          /\ \A q \in Request \ {r} : up'[q] = up[q]
      BY <2>1, <2>2, GotoFacts, Stages
    <3>2. Key(r)' = Key(r)
      BY <3>1 DEF Key
    <3>3. QED
      BY <2>1, <2>2, <3>1, <3>2, SlotNumbers
  <2>3. CASE ~Taken(Key(r)) /\ Goto(r, "inserted")
    <3>1. /\ up'[r].stage = "inserted" /\ up'[r].job = up[r].job
          /\ up'[r].version = up[r].version
          /\ \A q \in Request \ {r} : up'[q] = up[q]
      BY <2>1, <2>3, GotoFacts, Stages
    <3>2. Key(r)' = Key(r)
      BY <3>1 DEF Key
    <3>3. \A q \in Request : up[q].stage = "inserted" => Key(q) # Key(r)
      BY <1>6 DEF Insert, Pending
    <3>4. QED
      BY <2>1, <2>3, <3>1, <3>2, <3>3, SlotNumbers
  <2>4. QED
    BY <1>6, <2>2, <2>3 DEF Insert, Undo
<1>7. ASSUME NEW r \in Request, Commit(r) PROVE NumbersInv'
  <2>1. /\ up'[r].stage = "OK" /\ up[r].stage = "inserted"
        /\ \A q \in Request \ {r} : up'[q] = up[q]
    BY <1>7, GotoFacts, Stages DEF Commit
  <2>2. Numbered(r)'
    BY <2>1 DEF Numbered
  <2>3. ASSUME NEW q \in Request \ {r} PROVE Numbered(q)'
    <3>1. Numbered(q) /\ up'[q] = up[q] /\ Key(q)' = Key(q)
      BY <2>1 DEF NumbersInv, Key
    <3>2. ASSUME up[q].stage \in {"numbered", "inserted"}
          PROVE  up[q].version <= Cardinality(Of(up[q].job.id, up[q].job.type)') + 1
      <4>1. /\ up[q].job.id \in App /\ up[q].job.type \in DocType /\ up[q].version \in Nat
        BY <3>2, Stages, Occupied
      <4>2. up[q].version <= Cardinality(Of(up[q].job.id, up[q].job.type)) + 1
        BY <3>1, <3>2 DEF Numbered
      <4>3. PICK a \in App, t \in DocType : a = up[q].job.id /\ t = up[q].job.type
        BY <4>1
      <4>4. Of(up[q].job.id, up[q].job.type)' = Of(a, t)'
        BY <3>1, <4>3 DEF Of
      <4>5. /\ Cardinality(Of(a, t)) <= Cardinality(Of(a, t)')
            /\ Cardinality(Of(a, t)) \in Nat /\ Cardinality(Of(a, t)') \in Nat
        BY <1>7, CommitNumbers
      <4>6. up[q].version <= Cardinality(Of(a, t)) + 1
        BY <4>2, <4>3
      <4>7. QED
        BY <4>1, <4>4, <4>5, <4>6
    <3>3. ASSUME up[q].stage = "inserted"
          PROVE  ~Taken(Key(q))' /\ \A x \in Request \ {q} : up'[x].stage = "inserted" => Key(x)' # Key(q)
      <4>1. Key(q) # Key(r) /\ ~Taken(Key(q))
        BY <2>1, <3>1, <3>3 DEF Numbered
      <4>2. \A k : k = Key(q) => ~Taken(k)'
        BY <1>7, <4>1, CommitNumbers
      <4>3. \A x \in Request \ {r} : Key(x)' = Key(x)
        BY <2>1 DEF Key
      <4>4. ~Taken(Key(q))'
        BY <3>1, <4>2 DEF Taken
      <4>5. QED
        BY <2>1, <3>1, <3>3, <4>3, <4>4 DEF Numbered
    <3>4. ASSUME up[q].stage = "CONCURRENT_MODIFICATION" PROVE Taken(Key(q))'
      <4>1. \A k : k = Key(q) => Taken(k)'
        BY <1>7, <3>1, <3>4, CommitNumbers DEF Numbered
      <4>2. QED
        BY <3>1, <4>1 DEF Taken
    <3>5. QED
      BY <3>1, <3>2, <3>3, <3>4 DEF Numbered
  <2>4. QED
    BY <1>7, <2>2, <2>3, CommitNumbers DEF NumbersInv
<1>8. QED
  BY <1>1, <1>2, <1>3, <1>4, <1>5, <1>6, <1>7
     DEF Next, Serve, vars, MoveApplication, RemoveOrphan, RemoveFails

--------------------------------------------------------------------------------
(* Every step keeps the slots. *)
SlotOK(r) ==
  /\ up[r].stage \in Gated => up[r].job.mine
  /\ cleanup[r] # NoPath =>
       /\ up[r].stage \in {"CONCURRENT_MODIFICATION", "FAILED"}
       /\ cleanup[r] = Path(up[r].job)

(* How one slot moves when the others stand.                               *)
LEMMA SlotMoves ==
  ASSUME Types, SlotsInv, NEW r \in Request,
         \/ Begin(r) \/ Serve(r) \/ FailTransaction(r) \/ RemoveOrphan(r)
         \/ RemoveFails(r) \/ Recycle(r)
  PROVE  /\ \A q \in Request \ {r} : up'[q] = up[q] /\ cleanup'[q] = cleanup[q]
         /\ SlotOK(r)'
<1>1. SlotOK(r)
  BY DEF SlotsInv, SlotOK
<1>2. CASE Begin(r)
  BY <1>1, <1>2 DEF Begin, Types, SlotOK, Gated, InTransaction, NoUpload
<1>3. CASE RemoveOrphan(r) \/ RemoveFails(r)
  BY <1>1, <1>3 DEF RemoveOrphan, RemoveFails, Types, SlotOK
<1>4. CASE Recycle(r)
  BY <1>1, <1>4 DEF Recycle, Types, SlotOK, Gated, InTransaction, NoUpload
<1>5. CASE ReadMax(r)
  <2>1. /\ up[r].stage = "stored" /\ cleanup' = cleanup /\ up[r].stage \in Stage
        /\ up'[r] = [up[r] EXCEPT !.stage = "numbered",
                                 !.version = NextVersion(up[r].job.id, up[r].job.type)]
        /\ \A q \in Request \ {r} : up'[q] = up[q]
    BY <1>5, Stages DEF ReadMax, Types
  <2>2. up'[r].stage = "numbered" /\ up'[r].job = up[r].job
    BY <2>1, Occupied DEF Upload
  <2>3. QED
    BY <1>1, <2>1, <2>2 DEF SlotOK, Gated, InTransaction
<1>6. ASSUME NEW stage \in Stage, up[r].stage \in Stage, Goto(r, stage),
             stage \in Gated => up[r].job.mine,
             \/ cleanup' = cleanup /\ up[r].stage \notin {"CONCURRENT_MODIFICATION", "FAILED"}
             \/ /\ cleanup' = [cleanup EXCEPT ![r] = Path(up[r].job)]
                /\ stage \in {"CONCURRENT_MODIFICATION", "FAILED"}
      PROVE  /\ \A q \in Request \ {r} : up'[q] = up[q] /\ cleanup'[q] = cleanup[q]
             /\ SlotOK(r)'
  <2>1. /\ up'[r].stage = stage /\ up'[r].job = up[r].job
        /\ \A q \in Request \ {r} : up'[q] = up[q]
    BY <1>6, GotoFacts
  <2>2. Path(up[r].job)' = Path(up[r].job)
    BY <2>1 DEF Path
  <2>3. CASE cleanup' = cleanup /\ up[r].stage \notin {"CONCURRENT_MODIFICATION", "FAILED"}
    BY <1>1, <1>6, <2>1, <2>3 DEF SlotOK
  <2>4. CASE /\ cleanup' = [cleanup EXCEPT ![r] = Path(up[r].job)]
             /\ stage \in {"CONCURRENT_MODIFICATION", "FAILED"}
    BY <1>6, <2>1, <2>2, <2>4 DEF SlotOK, Types
  <2>5. QED
    BY <1>6, <2>3, <2>4
<1>7. CASE Gate(r)
  <2>1. PICK stage \in {"NOT_FOUND", "FORBIDDEN", "IMMUTABLE_STATE", "gated"} :
          /\ Goto(r, stage)
          /\ stage = "gated" => up[r].job.mine
    BY <1>7, GateAnswers
  <2>2. /\ stage \in Stage /\ up[r].stage \in Stage /\ cleanup' = cleanup
        /\ up[r].stage = "received"
    BY <1>7, Stages DEF Gate
  <2>3. stage \in Gated => stage = "gated"
    BY DEF Gated, InTransaction
  <2>4. QED
    BY <1>6, <2>1, <2>2, <2>3
<1>8. CASE Store(r) \/ StoreFails(r) \/ Insert(r) \/ Commit(r) \/ FailTransaction(r)
  <2>1. up[r].stage \in {"gated"} \cup InTransaction
    BY <1>8, Stages DEF Store, StoreFails, Insert, Commit, FailTransaction
  <2>2. PICK stage \in {"stored", "FAILED", "inserted", "CONCURRENT_MODIFICATION", "OK"} :
          /\ Goto(r, stage)
          /\ \/ cleanup' = cleanup
             \/ /\ cleanup' = [cleanup EXCEPT ![r] = Path(up[r].job)]
                /\ stage \in {"CONCURRENT_MODIFICATION", "FAILED"}
    BY <1>8 DEF Store, StoreFails, Insert, Commit, FailTransaction, Undo
  <2>3. up[r].job.mine /\ up[r].stage \in Stage /\ stage \in Stage
        /\ up[r].stage \notin {"CONCURRENT_MODIFICATION", "FAILED"}
    BY <1>1, <2>1, Stages DEF SlotOK, Gated, InTransaction
  <2>4. QED
    BY <1>6, <2>2, <2>3
<1>9. QED
  BY <1>2, <1>3, <1>4, <1>5, <1>7, <1>8 DEF Serve

(* Every step keeps who may be past the gate and have a removal ahead.     *)
LEMMA SlotsStep ==
  ASSUME Types, SlotsInv, [Next]_vars
  PROVE  SlotsInv'
<1>1. CASE UNCHANGED <<up, cleanup>>
  BY <1>1 DEF SlotsInv, Path
<1>2. CASE Crash
  BY <1>2 DEF Crash, SlotsInv, NoUpload, Gated, InTransaction
<1>3. ASSUME NEW r \in Request,
             \/ Begin(r) \/ Serve(r) \/ FailTransaction(r) \/ RemoveOrphan(r)
             \/ RemoveFails(r) \/ Recycle(r)
      PROVE  SlotsInv'
  <2>1. /\ \A q \in Request \ {r} : up'[q] = up[q] /\ cleanup'[q] = cleanup[q]
        /\ SlotOK(r)'
    BY <1>3, SlotMoves
  <2>2. \A q \in Request \ {r} : SlotOK(q)'
    BY <2>1 DEF SlotsInv, SlotOK, Path
  <2>3. QED
    BY <2>1, <2>2 DEF SlotsInv, SlotOK
<1>4. QED
  BY <1>1, <1>2, <1>3 DEF Next, vars, MoveApplication

(* The inductive invariant holds in every reachable state.                 *)
THEOREM DocumentsInductive == Spec => []DInv
<1>1. Init => DInv
  <2> SUFFICES ASSUME Init PROVE DInv
    OBVIOUS
  <2>1. Types
    BY FS_EmptySet, DocumentsAssumption DEF Init, Types, NoUpload, ApplicationState
  <2>2. \A a, t : Of(a, t) = {} /\ Versions(a, t) = {}
    BY DEF Init, Of, Versions
  <2>3. NumbersInv
    <3>1. Cardinality({}) = 0 /\ 1 .. 0 = {}
      BY FS_EmptySet
    <3>2. \A a, t : Dense(a, t)
      BY <2>2, <3>1 DEF Dense
    <3>3. \A r \in Request : Numbered(r)
      BY DEF Init, Numbered, NoUpload
    <3>4. QED
      BY <3>2, <3>3 DEF NumbersInv
  <2>4. SlotsInv
    BY DEF Init, SlotsInv, NoUpload, Gated, InTransaction
  <2>5. QED
    BY <2>1, <2>3, <2>4 DEF DInv
<1>2. DInv /\ [Next]_vars => DInv'
  BY TypesStep, NumbersStep, SlotsStep DEF DInv
<1>3. QED
  BY <1>1, <1>2, PTL DEF Spec

--------------------------------------------------------------------------------
(* Types of the variables.                                                 *)
THEOREM DocumentTypes == Spec => []DTypeOK
<1>1. DInv => DTypeOK
  <2> SUFFICES ASSUME DInv, NEW r \in Request, up[r] # NoUpload
               PROVE  /\ up[r].stage \in UploadAnswer \cup InTransaction \cup {"received", "gated"}
                      /\ up[r].job \in Job
                      /\ up[r].stage \in {"numbered", "inserted"} => up[r].version > 0
    BY DEF DInv, Types, DTypeOK
  <2>1. up[r] \in Upload
    BY DEF DInv, Types
  <2>2. QED
    BY <2>1 DEF DInv, Types, Upload, Stage
<1>2. QED
  BY <1>1, DocumentsInductive, PTL

(* However uploads race, fail or crash, the versions of a type are 1 to n  *)
(* without gaps or doubles (@@unique([applicationId, type, version])).     *)
THEOREM VersionsStayDense == Spec => []VersionsAreDense
<1>1. DInv => VersionsAreDense
  BY DEF DInv, NumbersInv, Dense, Of, VersionsAreDense
<1>2. QED
  BY <1>1, DocumentsInductive, PTL

(* Whoever is told that another version was uploaded concurrently can find *)
(* it: the number his upload had read is taken by a committed document.    *)
THEOREM UploadConflictsAreReal == Spec => []UploadConflictIsReal
<1>1. DInv => UploadConflictIsReal
  BY DEF DInv, NumbersInv, Numbered, UploadConflictIsReal
<1>2. QED
  BY <1>1, DocumentsInductive, PTL

\* One row of the list.
Line(a, t) ==
  LET rows == {d \in docs : d.id = a /\ d.type = t}
  IN [latest |-> CHOOSE d \in rows : \A e \in rows : e.version <= d.version,
      totalVersions |-> Cardinality(rows)]

(* The listing has one line for each type there is.                        *)
LEMMA ListingByLine ==
  ASSUME NEW a
  PROVE  Listing(a) = {Line(a, t) : t \in {d.type : d \in {d \in docs : d.id = a}}}
  BY Zenon DEF Listing, Line

(* The list of latest documents has one row per type, and the count beside *)
(* it is the version of the document it names.                             *)
THEOREM ListsTellTheHistory == Spec => []ListTellsTheHistory
<1> DEFINE Rows(a, t) == {d \in docs : d.id = a /\ d.type = t}
           Latest(a, t) == CHOOSE d \in Rows(a, t) : \A e \in Rows(a, t) : e.version <= d.version
<1>1. ASSUME DInv, NEW a \in App, NEW e \in Listing(a)
      PROVE  \E t \in DocType :
               /\ e = [latest |-> Latest(a, t), totalVersions |-> Cardinality(Rows(a, t))]
               /\ Latest(a, t) \in Rows(a, t)
               /\ Latest(a, t).version = Cardinality(Rows(a, t))
  <2>1. PICK x \in docs : x.id = a /\ e = Line(a, x.type)
    <3>1. e \in {Line(a, t) : t \in {d.type : d \in {d \in docs : d.id = a}}}
      BY ListingByLine
    <3>2. QED
      BY <3>1
  <2> DEFINE t == x.type
             n == Cardinality(Rows(a, t))
  <2>11. Line(a, t) = [latest |-> Latest(a, t), totalVersions |-> Cardinality(Rows(a, t))]
    BY Zenon DEF Line
  <2>2. t \in DocType /\ x \in Rows(a, t)
    BY <1>1, <2>1 DEF DInv, Types, Document
  <2>3. Versions(a, t) = 1 .. n /\ n \in Nat
    <3>1. Rows(a, t) = Of(a, t)
      BY DEF Of
    <3>2. Versions(a, t) = 1 .. Cardinality(Of(a, t))
      BY <1>1, <2>2 DEF DInv, NumbersInv, Dense
    <3>3. Cardinality(Of(a, t)) \in Nat
      BY <1>1, <2>2, NextIsOneMore DEF DInv, Types, NumbersInv
    <3>4. QED
      BY <3>1, <3>2, <3>3
  <2>4. \A d \in Rows(a, t) : d.version \in 1 .. n
    BY <2>3 DEF Versions
  <2> HIDE DEF n
  <2>5. n \in 1 .. n
    BY <2>2, <2>3, <2>4
  <2>6. PICK d \in Rows(a, t) : d.version = n
    BY <2>3, <2>5 DEF Versions
  <2>7. \A y \in Rows(a, t) : y.version <= d.version
    BY <2>4, <2>6
  <2>8. /\ Latest(a, t) \in Rows(a, t)
        /\ \A y \in Rows(a, t) : y.version <= Latest(a, t).version
    <3> HIDE DEF Rows
    <3>1. QED
      BY <2>7
  <2> HIDE DEF Latest
  <2>9. Latest(a, t).version = n
    BY <2>3, <2>4, <2>6, <2>8
  <2>10. QED
    BY <2>1, <2>2, <2>8, <2>9, <2>11 DEF n
<1>2. DInv => ListTellsTheHistory
  <2> SUFFICES ASSUME DInv, NEW a \in App, NEW b \in App,
                      NEW e1 \in Listing(a), NEW e2 \in Listing(b)
               PROVE  /\ e1.totalVersions = e1.latest.version
                      /\ e1 # e2 => <<e1.latest.id, e1.latest.type>> #
                                     <<e2.latest.id, e2.latest.type>>
    BY DEF ListTellsTheHistory
  <2>1. PICK t1 \in DocType :
          /\ e1 = [latest |-> Latest(a, t1), totalVersions |-> Cardinality(Rows(a, t1))]
          /\ Latest(a, t1) \in Rows(a, t1)
          /\ Latest(a, t1).version = Cardinality(Rows(a, t1))
    BY <1>1
  <2>2. PICK t2 \in DocType :
          /\ e2 = [latest |-> Latest(b, t2), totalVersions |-> Cardinality(Rows(b, t2))]
          /\ Latest(b, t2) \in Rows(b, t2)
          /\ Latest(b, t2).version = Cardinality(Rows(b, t2))
    BY <1>1
  <2> HIDE DEF Latest
  <2>3. /\ e1.latest.id = a /\ e1.latest.type = t1
        /\ e2.latest.id = b /\ e2.latest.type = t2
    BY <2>1, <2>2
  <2>4. QED
    BY <2>1, <2>2, <2>3
<1>3. QED
  BY <1>2, DocumentsInductive, PTL

--------------------------------------------------------------------------------
(* The trail of the documents. *)
DocsOf(a) == {d \in docs : d.id = a}

VersionsIn(rows, a, t) == {d.version : d \in {d \in rows : d.id = a /\ d.type = t}}

InOrder(l, i) ==
  /\ l[i].action = "DOCUMENT_UPLOADED" <=> l[i].version = 1
  /\ \A k \in 1 .. i - 1 : l[k].type = l[i].type => l[k].version < l[i].version

LogOK(a) ==
  /\ Len(log[a]) = Cardinality(DocsOf(a))
  /\ \A i \in DOMAIN log[a] :
       log[a][i].version \in VersionsIn(docs, a, log[a][i].type) /\ InOrder(log[a], i)

(* The property about the trail, for each application.                     *)
LEMMA TrailByApplication == TrailMatchesDocuments <=> \A a \in App : LogOK(a)
  BY DEF TrailMatchesDocuments, LogOK, DocsOf, InOrder, Versions, VersionsIn

(* What Append does to the log of an application.                          *)
LEMMA LogAppend ==
  ASSUME NEW s \in Seq(LogEntry), NEW e \in LogEntry
  PROVE  /\ Append(s, e) \in Seq(LogEntry)
         /\ Len(s) \in Nat /\ Len(Append(s, e)) = Len(s) + 1
         /\ DOMAIN s = 1 .. Len(s) /\ DOMAIN Append(s, e) = 1 .. Len(s) + 1
         /\ \A i \in 1 .. Len(s) : Append(s, e)[i] = s[i] /\ s[i] \in LogEntry
         /\ Append(s, e)[Len(s) + 1] = e
  OBVIOUS

(* A commit adds to the trail what it adds to the table.                   *)
LEMMA CommitKeepsTrail ==
  ASSUME DInv, NEW r \in Request, Commit(r), NEW a \in App, LogOK(a)
  PROVE  LogOK(a)'
<1>1. PICK d \in Document \ docs, e \in LogEntry :
        /\ docs' = docs \cup {d}
        /\ log' = [log EXCEPT ![d.id] = Append(@, e)]
        /\ d.version = Cardinality(Of(d.id, d.type)) + 1
        /\ Cardinality(Of(d.id, d.type)) \in Nat
        /\ e.type = d.type /\ e.version = d.version /\ e.action = UploadAction(d.version)
  BY CommitFacts DEF DInv, New, NewEntry
<1>2. d.id \in App /\ d.type \in DocType /\ IsFiniteSet(docs) /\ log[a] \in Seq(LogEntry)
      /\ DOMAIN log = App
  BY DEF Document, DInv, Types
<1>3. CASE d.id # a
  <2>1. log'[a] = log[a] /\ DocsOf(a)' = DocsOf(a)
        /\ \A t : VersionsIn(docs', a, t) = VersionsIn(docs, a, t)
    BY <1>1, <1>2, <1>3 DEF DocsOf, VersionsIn
  <2>2. QED
    BY <2>1 DEF LogOK
<1>4. CASE d.id = a
  <2> DEFINE n == Len(log[a])
  <2>1. log'[a] = Append(log[a], e)
    BY <1>1, <1>2, <1>4
  <2>2. /\ n \in Nat /\ Len(log'[a]) = n + 1
        /\ DOMAIN log[a] = 1 .. n /\ DOMAIN log'[a] = 1 .. n + 1
        /\ \A i \in 1 .. n : log'[a][i] = log[a][i] /\ log[a][i] \in LogEntry
        /\ log'[a][n + 1] = e
    BY <1>1, <1>2, <2>1, LogAppend
  <2>3. Cardinality(DocsOf(a)') = Cardinality(DocsOf(a)) + 1
    <3>1. DocsOf(a)' = DocsOf(a) \cup {d} /\ d \notin DocsOf(a)
      BY <1>1, <1>4 DEF DocsOf
    <3>2. IsFiniteSet(DocsOf(a))
      BY <1>2, FS_Subset DEF DocsOf
    <3>3. QED
      BY <3>1, <3>2, FS_AddElement
  <2>4. /\ n = Cardinality(DocsOf(a))
        /\ \A i \in 1 .. n :
             log[a][i].version \in VersionsIn(docs, a, log[a][i].type) /\ InOrder(log[a], i)
    BY <2>2 DEF LogOK
  <2> HIDE DEF n
  <2>5. /\ \A t : VersionsIn(docs, a, t) \subseteq VersionsIn(docs', a, t)
        /\ d.version \in VersionsIn(docs', a, d.type)
    BY <1>1, <1>4 DEF VersionsIn
  <2>6. /\ \A v \in VersionsIn(docs, a, d.type) : v \in Nat /\ v < d.version
        /\ d.version \in Nat
    <3>1. VersionsIn(docs, a, d.type) = 1 .. Cardinality(Of(a, d.type))
      BY <1>2, <1>4 DEF DInv, NumbersInv, Dense, VersionsIn, Versions
    <3>2. QED
      BY <1>1, <1>4, <3>1
  <2>7. ASSUME NEW i \in 1 .. n + 1
        PROVE  /\ log'[a][i].version \in VersionsIn(docs', a, log'[a][i].type)
               /\ InOrder(log'[a], i)
    <3>1. CASE i \in 1 .. n
      <4>1. log'[a][i] = log[a][i]
        BY <2>2, <3>1
      <4>2. \A k \in 1 .. i - 1 : log'[a][k] = log[a][k]
        BY <2>2, <3>1
      <4>3. InOrder(log'[a], i)
        BY <2>4, <3>1, <4>1, <4>2 DEF InOrder
      <4>4. QED
        BY <2>4, <2>5, <3>1, <4>1, <4>3
    <3>2. CASE i = n + 1
      <4>1. log'[a][i] = e
        BY <2>2, <3>2
      <4>2. e.action = "DOCUMENT_UPLOADED" <=> e.version = 1
        BY <1>1 DEF UploadAction
      <4>3. ASSUME NEW k \in 1 .. i - 1, log'[a][k].type = e.type
            PROVE  log'[a][k].version < e.version
        <5>1. k \in 1 .. n /\ log'[a][k] = log[a][k]
          BY <2>2, <3>2
        <5>2. log[a][k].version \in VersionsIn(docs, a, d.type)
          BY <1>1, <2>4, <4>3, <5>1
        <5>3. QED
          BY <1>1, <2>6, <5>1, <5>2
      <4>4. InOrder(log'[a], i)
        BY <4>1, <4>2, <4>3 DEF InOrder
      <4>5. QED
        BY <1>1, <2>5, <4>1, <4>4
    <3>3. QED
      BY <2>2, <3>1, <3>2
  <2>8. QED
    BY <2>2, <2>3, <2>4, <2>7 DEF LogOK
<1>5. QED
  BY <1>3, <1>4

(* Every step keeps trail and table together.                              *)
LEMMA TrailStep ==
  ASSUME DInv, TrailMatchesDocuments, [Next]_vars
  PROVE  TrailMatchesDocuments'
<1>1. CASE UNCHANGED <<docs, log>>
  BY <1>1 DEF TrailMatchesDocuments, Versions
<1>2. ASSUME NEW r \in Request, Commit(r) PROVE TrailMatchesDocuments'
  <2>1. \A a \in App : LogOK(a)'
    BY <1>2, CommitKeepsTrail, TrailByApplication
  <2>2. QED
    BY <2>1 DEF TrailMatchesDocuments, LogOK, DocsOf, InOrder, Versions, VersionsIn
<1>3. QED
  BY <1>1, <1>2 DEF Next, Serve, vars, MoveApplication, Crash, Begin, Gate, Store,
     StoreFails, ReadMax, Insert, FailTransaction, RemoveOrphan, RemoveFails, Recycle

(* Every committed document has its entry, no failed or lost upload has    *)
(* one, and the entries of a type are in the order of its versions.        *)
THEOREM TrailsMatchTheDocuments == Spec => []TrailMatchesDocuments
<1>1. Init => TrailMatchesDocuments
  <2> SUFFICES ASSUME Init, NEW a \in App PROVE LogOK(a)
    BY TrailByApplication
  <2>1. log[a] = << >> /\ DocsOf(a) = {}
    BY DEF Init, DocsOf
  <2>2. QED
    BY <2>1, FS_EmptySet DEF LogOK
<1>2. DInv /\ TrailMatchesDocuments /\ [Next]_vars => TrailMatchesDocuments'
  BY TrailStep
<1>3. QED
  BY <1>1, <1>2, DocumentsInductive, PTL DEF Spec

--------------------------------------------------------------------------------
(* The bytes on the disk. *)

(* What the steps do to the files: an upload stores its own, a removal     *)
(* takes away the one it is for.                                           *)
LEMMA FilesMove ==
  ASSUME [Next]_vars
  PROVE  \/ files' = files
         \/ \E r \in Request : Store(r) /\ files' = files \cup {Path(up[r].job)}
         \/ \E r \in Request : RemoveOrphan(r) /\ files' = files \ {cleanup[r]}
  BY DEF Next, Serve, vars, MoveApplication, Crash, Begin, Gate, Store, StoreFails,
     ReadMax, Insert, Commit, FailTransaction, RemoveOrphan, RemoveFails, Recycle

\* What keeps a file: a document, an upload in its transaction, a removal ahead.
Kept(p) ==
  \/ \E d \in docs : Path(d) = p
  \/ \E r \in Request : up[r].stage \in InTransaction /\ Path(up[r].job) = p
  \/ \E r \in Request : cleanup[r] = p

(* A file that is kept stays kept until its removal, unless the process    *)
(* dies or a removal fails.                                                *)
LEMMA KeptStays ==
  ASSUME DInv, [Next]_vars, faults' = 0, NEW p \in files, Kept(p),
         p \in files'
  PROVE  Kept(p)'
<1>1. faults = 0 /\ ~Crash /\ \A r \in Request : ~RemoveFails(r)
  <2>1. faults \in Nat
    BY DocumentsAssumption DEF DInv, Types
  <2>2. \/ faults' = faults /\ ~Crash /\ \A r \in Request : ~RemoveFails(r)
        \/ faults' = faults + 1
    BY <2>1 DEF Next, Serve, vars, MoveApplication, Crash, Begin, Gate, Store,
       StoreFails, ReadMax, Insert, Commit, FailTransaction, RemoveOrphan, RemoveFails, Recycle
  <2>3. QED
    BY <2>1, <2>2
<1>2. CASE UNCHANGED <<docs, up, cleanup>>
  BY <1>2 DEF Kept
<1>3. ASSUME NEW r \in Request,
             \/ Begin(r) \/ Serve(r) \/ FailTransaction(r) \/ RemoveOrphan(r) \/ Recycle(r)
      PROVE  Kept(p)'
  <2>1. /\ \A q \in Request \ {r} : up'[q] = up[q] /\ cleanup'[q] = cleanup[q]
        /\ docs \subseteq docs'
    <3>1. docs \subseteq docs'
      BY <1>3 DEF Begin, Serve, Gate, Store, StoreFails, ReadMax, Insert, Commit,
         FailTransaction, RemoveOrphan, Recycle
    <3>2. QED
      BY <1>3, <3>1, SlotMoves DEF DInv
  <2>2. CASE \E d \in docs : Path(d) = p
    BY <2>1, <2>2 DEF Kept, Path
  <2>3. ASSUME NEW q \in Request, q # r,
               \/ up[q].stage \in InTransaction /\ Path(up[q].job) = p
               \/ cleanup[q] = p
        PROVE  Kept(p)'
    BY <2>1, <2>3 DEF Kept, Path
  <2>4. CASE cleanup[r] = p
    <3>1. up[r].stage \in {"CONCURRENT_MODIFICATION", "FAILED"} /\ cleanup[r] # NoPath
      BY <2>4, DocumentsAssumption DEF DInv, Types, SlotsInv
    <3>2. ~RemoveOrphan(r)
      BY <2>4 DEF RemoveOrphan
    <3>3. ~Begin(r)
      BY <3>1 DEF Begin, NoUpload
    <3>4. cleanup' = cleanup
      BY <1>3, <3>1, <3>2, <3>3 DEF Serve, Gate, Store, StoreFails, ReadMax, Insert, Commit,
         FailTransaction, Recycle, InTransaction
    <3>5. QED
      BY <2>4, <3>4 DEF Kept
  <2>5. CASE up[r].stage \in InTransaction /\ Path(up[r].job) = p
    <3>1. up[r].stage \in Stage /\ cleanup[r] = NoPath /\ r \in DOMAIN cleanup
          /\ up[r].stage \notin {"received", "gated"} \cup UploadAnswer /\ up[r] # NoUpload
      BY <2>5, Stages, Occupied DEF DInv, Types, SlotsInv, InTransaction, UploadAnswer
    <3>2. CASE \E answer : Undo(r, answer)
      BY <2>5, <3>1, <3>2 DEF Undo, Kept
    <3>3. CASE ReadMax(r)
      <4>1. /\ up[r] \in Upload
            /\ up'[r] = [up[r] EXCEPT !.stage = "numbered",
                         !.version = NextVersion(up[r].job.id, up[r].job.type)]
        BY <3>1, <3>3, Occupied DEF ReadMax, DInv, Types
      <4>2. up'[r].stage \in InTransaction /\ up'[r].job = up[r].job
        BY <4>1 DEF Upload, InTransaction
      <4>3. QED
        BY <2>5, <4>2 DEF Kept, Path
    <3>4. CASE Goto(r, "inserted")
      <4>1. up'[r].stage \in InTransaction /\ up'[r].job = up[r].job
        BY <3>1, <3>4, Stages, GotoFacts DEF DInv
      <4>2. QED
        BY <2>5, <4>1 DEF Kept, Path
    <3>5. CASE Commit(r)
      <4>1. New(r) \in docs' /\ Path(New(r)) = p
        BY <2>5, <3>5 DEF Commit, New, Path
      <4>2. PICK d \in docs' : Path(d) = p
        BY <4>1
      <4>3. QED
        BY <4>2 DEF Kept, Path
    <3>6. QED
      BY <1>3, <3>1, <3>2, <3>3, <3>4, <3>5
         DEF Begin, Serve, Gate, Store, StoreFails, Insert, FailTransaction,
             RemoveOrphan, Recycle, UploadAnswer
  <2>6. QED
    BY <2>2, <2>3, <2>4, <2>5 DEF Kept
<1>4. QED
  BY <1>1, <1>2, <1>3 DEF Next, vars, MoveApplication

(* No step leaves a file without a document, an upload or a removal,       *)
(* unless something failed.                                                *)
LEMMA LeakStep ==
  ASSUME DInv, NothingLeaks, [Next]_vars
  PROVE  NothingLeaks'
<1> SUFFICES ASSUME faults' = 0, NEW p \in files' PROVE Kept(p)'
  BY DEF NothingLeaks, Kept
<1>1. faults = 0
  <2>1. faults' = faults \/ faults' = faults + 1
    BY DEF Next, Serve, vars, MoveApplication, Crash, Begin, Gate, Store,
       StoreFails, ReadMax, Insert, Commit, FailTransaction, RemoveOrphan, RemoveFails, Recycle
  <2>2. QED
    BY <2>1, DocumentsAssumption DEF DInv, Types
<1>2. CASE p \in files
  <2>1. Kept(p)
    BY <1>1, <1>2 DEF NothingLeaks, Kept
  <2>2. QED
    BY <1>2, <2>1, KeptStays
<1>3. CASE p \notin files
  <2>1. PICK r \in Request : Store(r) /\ p = Path(up[r].job)
    BY <1>3, FilesMove
  <2>2. up'[r].stage = "stored" /\ up'[r].job = up[r].job
    BY <2>1, Stages, GotoFacts DEF Store, DInv
  <2>3. QED
    BY <2>1, <2>2, Stages DEF Kept, Path
<1>4. QED
  BY <1>2, <1>3

(* Without crashes and failed removals, every file has a document, an      *)
(* upload under way or its removal ahead, however uploads fail and race.   *)
THEOREM NoBytesLeak == Spec => []NothingLeaks
<1>1. Init => NothingLeaks
  BY DEF Init, NothingLeaks
<1>2. DInv /\ NothingLeaks /\ [Next]_vars => NothingLeaks'
  BY LeakStep
<1>3. QED
  BY <1>1, <1>2, DocumentsInductive, PTL DEF Spec

(* An upload that goes on keeps its job, and with it its file.             *)
LEMMA JobStays ==
  ASSUME DInv, NEW r \in Request, Serve(r) \/ FailTransaction(r)
  PROVE  /\ up[r].stage \in {"received", "gated"} \cup InTransaction
         /\ up[r].stage \in Stage /\ up'[r].stage \in Stage /\ up'[r].job = up[r].job
         /\ \A q \in Request \ {r} : up'[q] = up[q]
         /\ docs' = docs \/ Commit(r)
         /\ files' = IF Store(r) THEN files \cup {Path(up[r].job)} ELSE files
         /\ up'[r].stage \in InTransaction => up[r].stage \in InTransaction \/ Store(r)
<1>1. up[r].stage \in {"received", "gated"} \cup InTransaction /\ up[r].stage \in Stage
  BY Stages DEF Serve, Gate, Store, StoreFails, ReadMax, Insert, Commit, FailTransaction
<1>2. /\ docs' = docs \/ Commit(r)
      /\ files' = IF Store(r) THEN files \cup {Path(up[r].job)} ELSE files
  BY DEF Serve, Gate, Store, StoreFails, ReadMax, Insert, Commit, FailTransaction
<1>3. \A q \in Request \ {r} : up'[q] = up[q]
  BY SlotMoves DEF DInv
<1>4. up[r] \in Upload
  BY <1>1, Occupied DEF DInv
<1>5. CASE ReadMax(r)
  <2>1. up'[r] = [up[r] EXCEPT !.stage = "numbered",
                    !.version = NextVersion(up[r].job.id, up[r].job.type)]
    BY <1>5 DEF ReadMax, DInv, Types
  <2>2. up'[r].stage = "numbered" /\ up'[r].job = up[r].job
    BY <1>4, <2>1 DEF Upload
  <2>3. up[r].stage = "stored"
    BY <1>5 DEF ReadMax
  <2>4. QED
    BY <1>1, <1>2, <1>3, <2>2, <2>3, Stages DEF InTransaction
<1>6. CASE ~ReadMax(r)
  <2>1. PICK stage \in {"NOT_FOUND", "FORBIDDEN", "IMMUTABLE_STATE", "gated", "stored",
                        "FAILED", "inserted", "CONCURRENT_MODIFICATION", "OK"} :
          /\ Goto(r, stage)
          /\ stage = "stored" => Store(r)
          /\ stage = "inserted" => Insert(r)
    BY <1>6, GateAnswers DEF DInv, Serve, Store, StoreFails, Insert, Commit, FailTransaction, Undo
  <2>2. stage \in Stage
    BY Stages
  <2>3. up'[r].stage = stage /\ up'[r].job = up[r].job
    BY <1>1, <2>1, <2>2, GotoFacts DEF DInv
  <2>4. stage \in InTransaction => stage = "stored" \/ stage = "inserted"
    BY DEF InTransaction
  <2>5. Insert(r) => up[r].stage \in InTransaction
    BY DEF Insert, InTransaction
  <2>6. QED
    BY <1>1, <1>2, <1>3, <2>1, <2>2, <2>3, <2>4, <2>5
<1>7. QED
  BY <1>5, <1>6

(* Every step keeps the files of the documents, where no two uploads send  *)
(* the same bytes.                                                         *)
LEMMA FilesStep ==
  ASSUME FreshBytes, DInv, FilesInv, [Next]_vars
  PROVE  FilesInv'
<1>1. CASE UNCHANGED <<docs, up, files>>
  BY <1>1 DEF FilesInv, Mine, Path
<1>2. CASE Crash
  <2>1. /\ docs' = docs /\ files' = files
        /\ \A r \in Request : up'[r] = NoUpload /\ up'[r].stage \notin InTransaction
    BY <1>2 DEF Crash, NoUpload, InTransaction
  <2>2. QED
    BY <2>1 DEF FilesInv, Mine, Path
<1>3. ASSUME NEW r \in Request, Begin(r) PROVE FilesInv'
  <2>1. PICK j \in Job :
          /\ j.mine => Unseen(j.id, j.bytes)
          /\ up' = [up EXCEPT ![r] = [stage |-> "received", job |-> j, version |-> 0]]
    BY <1>3 DEF Begin
  <2>2. /\ docs' = docs /\ files' = files /\ up'[r].stage = "received" /\ up'[r].job = j
        /\ \A q \in Request \ {r} : up'[q] = up[q]
    BY <1>3, <2>1 DEF Begin, DInv, Types
  <2>3. j.mine => /\ Path(j) \notin files
                  /\ \A q \in Request : up[q] # NoUpload => Path(up[q].job) # Path(j)
    BY <2>1 DEF Unseen, Path
  <2>4. \A d \in docs : Path(d) \in files'
    BY <2>2 DEF FilesInv
  <2>5. \A q \in Request : up'[q].stage \in InTransaction => Path(up'[q].job) \in files'
    BY <2>2 DEF FilesInv, InTransaction
  <2>6. \A p, q \in Request : p # q /\ Mine(p)' /\ Mine(q)' => Path(up'[p].job) # Path(up'[q].job)
    BY <2>2, <2>3 DEF FilesInv, Mine
  <2>7. \A q \in Request, d \in docs :
          Mine(q)' /\ up'[q].stage # "OK" => Path(up'[q].job) # Path(d)
    BY <2>2, <2>3 DEF FilesInv, Mine
  <2>8. QED
    BY <2>2, <2>4, <2>5, <2>6, <2>7 DEF FilesInv, Path
<1>4. ASSUME NEW r \in Request, Recycle(r) PROVE FilesInv'
  <2>1. /\ docs' = docs /\ files' = files
        /\ up'[r] = NoUpload /\ up'[r].stage \notin InTransaction
        /\ \A q \in Request \ {r} : up'[q] = up[q]
    BY <1>4 DEF Recycle, DInv, Types, NoUpload, InTransaction
  <2>2. QED
    BY <2>1 DEF FilesInv, Mine, Path
<1>5. ASSUME NEW r \in Request, RemoveOrphan(r) PROVE FilesInv'
  <2>1. /\ docs' = docs /\ up' = up /\ files' = files \ {Path(up[r].job)}
        /\ up[r].stage \in {"CONCURRENT_MODIFICATION", "FAILED"}
    BY <1>5 DEF RemoveOrphan, DInv, SlotsInv
  <2>2. Mine(r) /\ up[r].stage # "OK" /\ up[r].stage \notin InTransaction
    BY <2>1 DEF Mine, DInv, SlotsInv, Gated, NoUpload, InTransaction
  <2>3. \A d \in docs : Path(d) \in files'
    BY <2>1, <2>2 DEF FilesInv
  <2>4. ASSUME NEW q \in Request, up[q].stage \in InTransaction
        PROVE  Path(up[q].job) \in files'
    <3>1. Mine(q) /\ q # r
      BY <2>2, <2>4, Stages, Occupied DEF Mine, DInv, SlotsInv, Gated
    <3>2. QED
      BY <2>1, <2>2, <2>4, <3>1 DEF FilesInv
  <2>5. QED
    BY <2>1, <2>3, <2>4 DEF FilesInv, Mine, Path
<1>6. ASSUME NEW r \in Request, Serve(r) \/ FailTransaction(r) PROVE FilesInv'
  <2>1. /\ up[r].stage \in {"received", "gated"} \cup InTransaction
        /\ up'[r].job = up[r].job
        /\ \A q \in Request \ {r} : up'[q] = up[q]
        /\ docs' = docs \/ Commit(r)
        /\ files' = IF Store(r) THEN files \cup {Path(up[r].job)} ELSE files
        /\ up'[r].stage \in InTransaction => up[r].stage \in InTransaction \/ Store(r)
    BY <1>6, JobStays
  <2>2. up[r] # NoUpload /\ up'[r] # NoUpload /\ up[r].stage # "OK"
    <3>1. up[r].stage \in Stage /\ up'[r].stage \in Stage
      BY <1>6, JobStays
    <3>2. QED
      BY <2>1, <3>1, Stages DEF NoUpload, InTransaction
  <2>3. \A q \in Request : Mine(q)' = Mine(q) /\ up'[q].job = up[q].job
    BY <2>1, <2>2 DEF Mine
  <2>4. \A p, q \in Request : p # q /\ Mine(p)' /\ Mine(q)' => Path(up'[p].job) # Path(up'[q].job)
    BY <2>3 DEF FilesInv
  <2>5. \A q \in Request : up'[q].stage \in InTransaction => Path(up'[q].job) \in files'
    BY <2>1 DEF FilesInv
  <2>6. CASE docs' = docs
    <3>1. \A d \in docs : Path(d) \in files'
      BY <2>1 DEF FilesInv
    <3>2. \A q \in Request, d \in docs :
            Mine(q)' /\ up'[q].stage # "OK" => Path(up'[q].job) # Path(d)
      BY <2>1, <2>2, <2>3 DEF FilesInv
    <3>3. QED
      BY <2>4, <2>5, <2>6, <3>1, <3>2 DEF FilesInv, Path
  <2>7. CASE Commit(r)
    <3>1. /\ docs' = docs \cup {New(r)} /\ Path(New(r)) = Path(up[r].job)
          /\ up[r].stage = "inserted"
      BY <2>7 DEF Commit, New, Path
    <3>2. up'[r].stage = "OK" /\ files' = files
      <4>1. up[r].stage \in Stage /\ "OK" \in Stage
        BY <3>1, Stages
      <4>2. QED
        BY <2>7, <4>1, GotoFacts DEF Commit, DInv
    <3>3. Path(up[r].job) \in files /\ Mine(r)
      BY <2>2, <3>1 DEF FilesInv, Mine, InTransaction, DInv, SlotsInv, Gated
    <3>4. \A d \in docs' : Path(d) \in files'
      BY <3>1, <3>2, <3>3 DEF FilesInv
    <3>5. \A q \in Request, d \in docs' :
            Mine(q)' /\ up'[q].stage # "OK" => Path(up'[q].job) # Path(d)
      BY <2>1, <2>3, <3>1, <3>2, <3>3 DEF FilesInv
    <3>6. QED
      BY <2>4, <2>5, <3>4, <3>5 DEF FilesInv, Path
  <2>8. QED
    BY <2>1, <2>6, <2>7
<1>7. QED
  BY <1>1, <1>2, <1>3, <1>4, <1>5, <1>6 DEF Next, vars, MoveApplication, RemoveFails

(* When no two uploads send the same bytes for an application, a document  *)
(* that is listed can always be opened: no removal, however late, takes    *)
(* the file of another upload away.                                        *)
THEOREM DocumentsHaveTheirBytes ==
  ASSUME FreshBytes
  PROVE  Spec => []EveryDocumentHasItsBytes
<1>1. Init => FilesInv
  BY DEF Init, FilesInv, Mine, NoUpload, InTransaction
<1>2. DInv /\ FilesInv /\ [Next]_vars => FilesInv'
  BY FilesStep
<1>3. FilesInv => EveryDocumentHasItsBytes
  BY DEF FilesInv, EveryDocumentHasItsBytes, Download
<1>4. QED
  BY <1>1, <1>2, <1>3, DocumentsInductive, PTL DEF Spec

\* A new document is the upload of somebody who may upload.
OwnersUpload ==
  \A d \in docs' \ docs :
    \E r \in Request : up[r].stage = "inserted" /\ up[r].job.mine /\ d = New(r)

(* A committed document never goes away or changes, and every new one is   *)
(* an upload of the application's owner that got past the gate.            *)
THEOREM DocumentsArePermanent ==
  Spec => [][docs \subseteq docs' /\ OwnersUpload]_vars
<1>1. DInv /\ [Next]_vars => [docs \subseteq docs' /\ OwnersUpload]_vars
  <2> SUFFICES ASSUME DInv, Next PROVE docs \subseteq docs' /\ OwnersUpload
    BY DEF OwnersUpload
  <2>1. docs' = docs \/ \E r \in Request : Commit(r)
    BY DEF Next, Serve, MoveApplication, Crash, Begin, Gate, Store, StoreFails,
       ReadMax, Insert, FailTransaction, RemoveOrphan, RemoveFails, Recycle
  <2>2. ASSUME NEW r \in Request, Commit(r)
        PROVE  docs \subseteq docs' /\ OwnersUpload
    <3>1. docs' = docs \cup {New(r)} /\ up[r].stage = "inserted" /\ up[r].job.mine
      BY <2>2 DEF Commit, New, DInv, SlotsInv, Gated, InTransaction
    <3>2. QED
      BY <3>1 DEF OwnersUpload
  <2>3. QED
    BY <2>1, <2>2 DEF OwnersUpload
<1>2. QED
  BY <1>1, DocumentsInductive, PTL DEF Spec
================================================================================
