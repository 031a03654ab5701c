----------------------------- MODULE PortalProperties -----------------------------
(***************************************************************************)
(* What a tab of the portal may rely on, whatever happens outside it and   *)
(* in whatever order answers arrive.                                       *)
(***************************************************************************)
EXTENDS Portal

VersionOf(k) == cache[k].data.row.version

\* The version the tab has been told the row has reached.
HeardBy(k) == IF k = "audit" THEN past.told ELSE past.heard

(* "We invalidate after mutations so the cache stays accurate": what is    *)
(* older than the last answer the tab got about the application is being   *)
(* fetched, marked, or shown as an error; except where the invalidation    *)
(* met a first load that was under way, which nothing fetches again.       *)
NothingStaleLooksFresh ==
  \A k \in Key :
    cache[k].data # Nothing /\ VersionOf(k) < HeardBy(k) =>
      \/ cache[k].fetch # "idle" \/ cache[k].invalid \/ cache[k].error # "none"
      \/ cache[k].overtaken

(* A transition of this tab that the server accepts is done to the very    *)
(* row its button was drawn for, whichever answers overtook each other.    *)
AcceptedAsOffered ==
  post.stage = "answered" =>
    (post.answer.status = 200 => post.seen = post.on)

(* The note of a decision is written for the version that is decided,      *)
(* unless the banner said that it changed or the page was refetched in the *)
(* background meanwhile.                                                   *)
NotesAreForTheirVersion == post # NoPost => post.told

(* Saving a form nobody typed into changes nothing, unless the application *)
(* was edited in another tab, or the form was filled from a page that was  *)
(* behind its own save.                                                    *)
UntypedSavesChangeNothing ==
  [][ServeSave /\ ~save.typed /\ "edited" \notin past.flags /\ ~save.behind
       => content' = content]_vars

(* "One key per page-mount: retries of the same submit reuse the key (safe *)
(* replay)": nobody reads the key, so this holds without lost answers:     *)
(* a form makes at most one application and a file at most one document    *)
(* unless an answer to the making of one was lost, or the button of the    *)
(* form was clicked again while the router was still on its way.           *)
NothingIsMadeTwice ==
  past.flags \cap {"lost", "again"} = {} => made <= 1 /\ stored <= 1
===================================================================================
