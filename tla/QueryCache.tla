-------------------------------- MODULE QueryCache --------------------------------
(***************************************************************************)
(* One entry of the query cache of a browser tab: @tanstack/react-query,   *)
(* which is not part of the repository, as lib/query-client.ts sets it up  *)
(* and the components use it.                                              *)
(*                                                                         *)
(* The two silent retries of a query that fails for want of an answer      *)
(* (retry: failureCount < 2) are part of the wait for one; what is seen is *)
(* an answer, a refusal, or that the query has given up.                   *)
(*                                                                         *)
(* "error" is "none", "refused" (the answer was a 4xx) or "unreachable".   *)
(***************************************************************************)
EXTENDS Naturals

Nothing == [none |-> TRUE]

\* "overtaken" is a history variable: something was invalidated while a fetch of
\* this entry was under way and was left to go on.
NewEntry == [data |-> Nothing, error |-> "none", invalid |-> FALSE,
             fetch |-> "idle", answer |-> Nothing, overtaken |-> FALSE]

\* A fetch starts; the one before it, if any, is no longer waited for.
\* The error of the last one stays beside the data there is.
Ask(e) == [e EXCEPT !.fetch = "asked", !.answer = Nothing, !.overtaken = FALSE,
                    !.error = IF e.data = Nothing THEN "none" ELSE @]

\* invalidateQueries.  What a component shows is fetched anew, except that a
\* first load goes on; what nobody shows is only marked.
Invalidate(e, active) ==
  IF active /\ (e.fetch = "idle" \/ e.data # Nothing) THEN Ask(e)
  ELSE IF active THEN [e EXCEPT !.overtaken = TRUE]
  ELSE IF e.data = Nothing /\ e.fetch = "idle" THEN e
  ELSE [e EXCEPT !.invalid = TRUE, !.overtaken = (e.fetch # "idle")]

\* A component that uses the entry appears: what is missing, marked, in error or
\* older than staleTime is fetched.
Mounted(e) ==
  IF e.fetch # "idle" THEN {e}
  ELSE IF e.data = Nothing \/ e.invalid \/ e.error # "none" THEN {Ask(e)}
  ELSE {e, Ask(e)}

GiveUp(e, why) == [e EXCEPT !.fetch = "idle", !.answer = Nothing, !.error = why]

\* The answer is in: data, or a refusal, which is not retried and leaves the
\* data that was there.
Receive(e) ==
  IF e.answer.status # 200 THEN GiveUp(e, "refused")
  ELSE [e EXCEPT !.data = e.answer.data, !.error = "none", !.invalid = FALSE,
                 !.fetch = "idle", !.answer = Nothing]
===================================================================================
