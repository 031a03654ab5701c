--------------------------- MODULE DocumentsProperties ---------------------------
(***************************************************************************)
(* What the documents module guarantees, and what its comments say of it.  *)
(***************************************************************************)
EXTENDS Documents

(* Types of the variables.                                                 *)
DTypeOK ==
  /\ state \in [App -> ApplicationState \cup {"ABSENT"}]
  /\ docs \subseteq Document
  /\ files \subseteq App \X Bytes
  /\ cleanup \in [Request -> (App \X Bytes) \cup {NoPath}]
  /\ faults \in 0 .. MaxFaults
  /\ \A r \in Request : up[r] # NoUpload =>
       /\ up[r].stage \in UploadAnswer \cup InTransaction \cup {"received", "gated"}
       /\ up[r].job \in Job
       /\ up[r].stage \in {"numbered", "inserted"} => up[r].version > 0

(* The versions of a type are 1, 2, 3, ... without gaps or doubles, however *)
(* uploads race: the unique index is the arbiter.                          *)
VersionsAreDense ==
  \A a \in App, t \in DocType :
    LET n == Cardinality({d \in docs : d.id = a /\ d.type = t}) IN
      Versions(a, t) = 1 .. n

(* One audit entry per document, no other, in the order of the versions,   *)
(* and DOCUMENT_UPLOADED is said of first versions only.                   *)
TrailMatchesDocuments ==
  \A a \in App :
    /\ Len(log[a]) = Cardinality({d \in docs : d.id = a})
    /\ \A i \in DOMAIN log[a] :
         /\ log[a][i].version \in Versions(a, log[a][i].type)
         /\ log[a][i].action = "DOCUMENT_UPLOADED" <=> log[a][i].version = 1
         /\ \A k \in 1 .. i - 1 :
              log[a][k].type = log[a][i].type => log[a][k].version < log[a][i].version

(* "Another document version was uploaded concurrently" is said only when  *)
(* it was: the version this upload had in mind exists.                     *)
UploadConflictIsReal ==
  \A r \in Request : up[r].stage = "CONCURRENT_MODIFICATION" => Taken(Key(r))

(* "So we don't leak bytes on disk": without crashes and failed removals a *)
(* file on the disk has a document, an upload under way or its removal     *)
(* ahead.                                                                  *)
NothingLeaks ==
  faults = 0 =>
    \A p \in files :
      \/ \E d \in docs : Path(d) = p
      \/ \E r \in Request : up[r].stage \in InTransaction /\ Path(up[r].job) = p
      \/ \E r \in Request : cleanup[r] = p

(* A document that is listed can be opened: its bytes are on the disk      *)
(* ("the DB has no row pointing to it", of the file a cleanup removes).    *)
EveryDocumentHasItsBytes == \A d \in docs : Download(d) = "STREAM"

(* "One row per type, plus a count of historical versions so the UI can    *)
(* offer a version history": the number beside the latest document is its  *)
(* own, whatever uploads failed or were given up before it.                *)
ListTellsTheHistory ==
  \A e1, e2 \in UNION {Listing(b) : b \in App} :
    /\ e1.totalVersions = e1.latest.version
    /\ e1 # e2 => <<e1.latest.id, e1.latest.type>> # <<e2.latest.id, e2.latest.type>>

(* "Documents only attach in mutable states."                              *)
DocumentsOnlyWhileOpen ==
  [][\A d \in docs' \ docs : state[d.id] \in Mutable]_vars

(* Every upload is answered; the wait for a key ends.                      *)
EveryUploadIsAnswered ==
  \A r \in Request : up[r].stage = "received" ~> up[r].stage \in UploadAnswer \cup {"idle"}
================================================================================
