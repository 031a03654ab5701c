---------------------------------- MODULE SignIn ----------------------------------
(***************************************************************************)
(* One tab of a browser and the people who sign in there one after         *)
(* another: the login page, the layout around every other page with its    *)
(* gate and its logout button, and the list of applications inside it.     *)
(* The cookie of the browser names the session; the cache of the tab       *)
(* outlives it.                                                            *)
(***************************************************************************)
EXTENDS QueryCache

CONSTANTS Person,
          Nobody,      \* signed in: none
          MaxLogins,   \* bound: calls of the login page
          MaxFaults,   \* bound: lost answers
          MaxRefetches \* bound: fetches nothing was invalidated for

ASSUME SignInAssumption ==
  /\ Nobody \notin Person
  /\ {MaxLogins, MaxFaults, MaxRefetches} \subseteq Nat

VARIABLES
  session,  \* whose session the cookie names, if the server still knows it
  place,    \* the page of the tab: "login" or "portal"
  going,    \* where the router is on its way to
  me,       \* the cache entry of the signed-in user
  list,     \* the cache entry of his applications
  login,    \* the mutation of LoginPage
  logout,   \* the mutation of PortalLayout
  count,    \* history: logins, faults and refetches, for the bounds
  flags     \* history since the cache was cleared: what the properties except

vars == <<session, place, going, me, list, login, logout, count, flags>>

--------------------------------------------------------------------------------
NoCall == [stage |-> "idle"]

\* A call is sent with the cookie of the moment.
Send(e) == IF e.fetch = "asked" THEN [e EXCEPT !.answer = [by |-> session]] ELSE e

\* What the server answers, to /auth/me and to /applications alike.  A session
\* another login has put aside may be alive still.
Look(e) ==
  (IF e.answer.by \in Person /\ session # Nobody
   THEN {[status |-> 200, data |-> [of |-> e.answer.by]]} ELSE {})
  \cup (IF e.answer.by \in Person /\ e.answer.by = session THEN {} ELSE {[status |-> 401]})

\* The layout draws its page when it knows the user; it goes on doing so while
\* a refetch is refused.
Inside(e) == e.data # Nothing

ListShown == place = "portal" /\ Inside(me) /\ list.data # Nothing /\ list.error = "none"

\* Faulty form: without a user the layout goes to the login page.
Refused_NoUser(e) == e.data = Nothing

\* The effect of the layout: on 401, to the login page.
Refused(e) == e.error = "refused"

Init ==
  /\ session \in Person \cup {Nobody}
  /\ place = "portal" /\ going = "nowhere"
  /\ me = Send(Ask(NewEntry)) /\ list = NewEntry
  /\ login = NoCall /\ logout = NoCall
  /\ count = [logins |-> 0, faults |-> 0, refetches |-> 0]
  /\ flags = {}

--------------------------------------------------------------------------------
(* The session. *)

\* It expires, is revoked, or its account is deactivated.
EndSession ==
  /\ session # Nobody
  /\ session' = Nobody
  /\ flags' = flags \cup {"ended"}
  /\ UNCHANGED <<place, going, me, list, login, logout, count>>

Fault ==
  /\ count.faults < MaxFaults
  /\ count' = [count EXCEPT !.faults = @ + 1]
  /\ flags' = flags \cup {"lost"}

--------------------------------------------------------------------------------
(* The queries. *)

\* A component that shows the entry appears.
Shown(e) == IF e.fetch = "idle" THEN {Send(f) : f \in Mounted(e)} ELSE {e}

\* The layout with the entry m of the user: its effect runs, and the list it
\* shows brings its query along.
Layout(m, l) ==
  /\ me' = m
  /\ going' = IF Refused(m) THEN "login" ELSE going
  /\ IF Inside(m) /\ ~(place = "portal" /\ Inside(me))
     THEN list' \in Shown(l) ELSE list' = l

ReplyMe ==
  /\ me.fetch = "asked"
  /\ \E answer \in Look(me) : me' = [me EXCEPT !.fetch = "answered", !.answer = answer]
  /\ UNCHANGED <<session, place, going, list, login, logout, count, flags>>

\* useMe: nothing is tried again.
ArriveMe ==
  /\ me.fetch = "answered"
  /\ IF place = "portal" THEN Layout(Receive(me), list)
     ELSE me' = Receive(me) /\ UNCHANGED <<list, going>>
  /\ flags' = IF me.overtaken /\ Refused(Receive(me)) THEN flags \cup {"overtaken"} ELSE flags
  /\ UNCHANGED <<session, place, login, logout, count>>

LoseMe ==
  /\ me.fetch # "idle"
  /\ Fault
  /\ me' = GiveUp(me, "unreachable")
  /\ UNCHANGED <<session, place, going, list, login, logout>>

ReplyList ==
  /\ list.fetch = "asked"
  /\ \E answer \in Look(list) : list' = [list EXCEPT !.fetch = "answered", !.answer = answer]
  /\ UNCHANGED <<session, place, going, me, login, logout, count, flags>>

ArriveList ==
  /\ list.fetch = "answered"
  /\ list' = Receive(list)
  /\ UNCHANGED <<session, place, going, me, login, logout, count, flags>>

\* Another page is opened, or the same one later: what is older than its
\* staleTime is fetched.
Revisit ==
  /\ place = "portal" /\ Inside(me) /\ count.refetches < MaxRefetches
  /\ me' \in Shown(me) /\ list' \in Shown(list)
  /\ <<me', list'>> # <<me, list>>
  /\ count' = [count EXCEPT !.refetches = @ + 1]
  /\ UNCHANGED <<session, place, going, login, logout, flags>>

\* gcTime has passed since an entry was shown.
Collect ==
  /\ place = "login"
  /\ \/ me # NewEntry /\ me.fetch = "idle" /\ me' = NewEntry /\ UNCHANGED list
     \/ list # NewEntry /\ list.fetch = "idle" /\ list' = NewEntry /\ UNCHANGED me
  /\ UNCHANGED <<session, place, going, login, logout, count, flags>>

\* The router has arrived; it is slower than the answer to a second click on the
\* login button (a bound).
Arrive ==
  /\ going # "nowhere" /\ login = NoCall
  /\ place' = going
  /\ IF going = "portal" /\ place = "login"
     THEN \E m \in Shown(me) :
            /\ me' = m
            /\ going' = IF Refused(m) THEN "login" ELSE "nowhere"
            /\ IF Inside(m) THEN list' \in Shown(list) ELSE UNCHANGED list
     ELSE going' = "nowhere" /\ UNCHANGED <<me, list>>
  /\ UNCHANGED <<session, login, logout, count, flags>>

--------------------------------------------------------------------------------
(* LoginPage: a password that is refused changes nothing and is left out.  *)
(* The button is there until the router has gone on, with the fields as    *)
(* they were.                                                              *)

ClickLogin ==
  /\ place = "login" /\ login = NoCall /\ count.logins < MaxLogins
  /\ \E p \in IF going = "portal" THEN {session} \ {Nobody} ELSE Person :
       login' = [stage |-> "asked", person |-> p]
  /\ count' = [count EXCEPT !.logins = @ + 1]
  /\ flags' = IF logout # NoCall THEN flags \cup {"early"} ELSE flags
  /\ UNCHANGED <<session, place, going, me, list, logout>>

\* AuthService.login
ServeLogin ==
  /\ login.stage = "asked"
  /\ login' = [login EXCEPT !.stage = "answered"]
  /\ UNCHANGED <<session, place, going, me, list, logout, count, flags>>

\* The answer replaces the cookie.  onSuccess: nobody shows the entry, so that it is
\* only marked.
EndLogin ==
  /\ login.stage = "answered"
  /\ session' = login.person
  /\ me' = Invalidate(me, FALSE)
  /\ going' = "portal"
  /\ login' = NoCall
  /\ UNCHANGED <<place, list, logout, count, flags>>

LoseLogin ==
  /\ login # NoCall
  /\ Fault
  /\ login' = NoCall
  /\ UNCHANGED <<session, place, going, me, list, logout>>

--------------------------------------------------------------------------------
(* The logout button of PortalLayout. *)

ClickLogout ==
  /\ place = "portal" /\ Inside(me) /\ logout = NoCall
  /\ logout' = [stage |-> "asked", person |-> session]
  /\ UNCHANGED <<session, place, going, me, list, login, count, flags>>

\* AuthService.logout, or 401 if the session has ended already.
ServeLogout ==
  /\ logout.stage = "asked"
  /\ session' = IF session = logout.person THEN Nobody ELSE session
  /\ \E status \in IF session # Nobody /\ session = logout.person THEN {204} ELSE {204, 401} :
       logout' = [stage |-> "answered", status |-> status]
  /\ UNCHANGED <<place, going, me, list, login, count, flags>>

\* Faulty form: the entries are marked instead of cleared.
Settle_Marks ==
  /\ me' = Invalidate(me, FALSE) /\ list' = Invalidate(list, FALSE)
  /\ going' = "login"

\* onSettled: the cache is cleared, and whatever was under way with it.  The layout
\* may ask for the user once more before the router has gone on.
Settle ==
  /\ me' \in {NewEntry} \cup (IF place = "portal" THEN {[Ask(NewEntry) EXCEPT !.answer = [by |-> session']]} ELSE {})
  /\ list' = NewEntry
  /\ going' = "login"

\* The answer removes the cookie, whosever it is by now.
EndLogout ==
  /\ logout.stage = "answered"
  /\ session' = IF logout.status = 204 THEN Nobody ELSE session
  /\ Settle
  /\ logout' = NoCall
  /\ flags' = IF place = "portal" /\ session' = Nobody THEN {} ELSE flags
  /\ UNCHANGED <<place, login, count>>

LoseLogout ==
  /\ logout # NoCall
  /\ Fault
  /\ session' = session
  /\ Settle
  /\ logout' = NoCall
  /\ UNCHANGED <<place, login>>

--------------------------------------------------------------------------------
Next ==
  \/ EndSession
  \/ ReplyMe \/ ArriveMe \/ LoseMe \/ ReplyList \/ ArriveList \/ Revisit \/ Collect \/ Arrive
  \/ ClickLogin \/ ServeLogin \/ EndLogin \/ LoseLogin
  \/ ClickLogout \/ ServeLogout \/ EndLogout \/ LoseLogout

Spec == Init /\ [][Next]_vars

\* The tab and the server go on with what is under way.
FairSpec == /\ Spec
            /\ WF_vars(ReplyMe) /\ WF_vars(ArriveMe) /\ WF_vars(Arrive)
            /\ WF_vars(ServeLogin) /\ WF_vars(EndLogin)

--------------------------------------------------------------------------------
(* "We clear() the cache to avoid a stale-data flash if a different user   *)
(* logs in next on the same browser": while somebody is signed in, the     *)
(* portal shows his name and his applications; unless the session before   *)
(* ended otherwise than by the button, an answer was lost, or he logged in *)
(* before the button's call was answered.                                  *)
NothingOfAnother ==
  place = "portal" /\ session # Nobody /\ flags \cap {"ended", "lost", "early"} = {} =>
    /\ Inside(me) => me.data.of = session
    /\ ListShown => list.data.of = session

\* The portal is there for p, and no redirect is on its way.
In(p) == place = "portal" /\ going = "nowhere" /\ Inside(me) /\ me.data.of = p /\ ~Refused(me)

(* "On 401 from /auth/me, redirect to /login": only then.  Who has logged  *)
(* in gets to see the portal as himself, unless his session ends, somebody *)
(* logs in over it, the session before ended otherwise than by the button, *)
(* an answer was lost, one to a call from before the login came later, or  *)
(* he logged in before the button's call was answered.                     *)
LoginLeadsIn ==
  \A p \in Person :
    place = "login" /\ going = "portal" /\ session = p ~> In(p) \/ session # p \/ flags # {}
===================================================================================
