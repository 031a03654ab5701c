------------------------------ MODULE SignInProofs ------------------------------
(***************************************************************************)
(* NothingOfAnother for every number of people, logins, lost answers and   *)
(* fetches.                                                                *)
(*                                                                         *)
(* The argument follows who an entry of the cache is of: whose data it     *)
(* has, for whom its fetch was sent, whose data is in the answer.  While   *)
(* the history has nothing to except, an entry is of the one who is signed *)
(* in, or empty; nobody gets to log in over an entry that is not, since    *)
(* the only way to the login page leads through the end of a logout, which *)
(* clears the cache, or through a refusal of a fetch sent without a        *)
(* session, before which nothing was there.                                *)
(***************************************************************************)
EXTENDS SignIn, TLAPS

Who == Person \cup {Nobody}

Asking == [by : Who]
Told   == [status : {200}, data : [of : Person]] \cup [status : {401}]

Entry ==
  {e \in [data : [of : Person] \cup {Nothing}, error : {"none", "refused", "unreachable"},
          invalid : BOOLEAN, fetch : {"idle", "asked", "answered"},
          answer : {Nothing} \cup Asking \cup Told, overtaken : BOOLEAN] :
     /\ e.fetch = "asked" => e.answer \in Asking
     /\ e.fetch = "answered" => e.answer \in Told}

TypesInv ==
  /\ session \in Who
  /\ place \in {"login", "portal"} /\ going \in {"nowhere", "login", "portal"}
  /\ me \in Entry /\ list \in Entry
  /\ login \in {NoCall} \cup [stage : {"asked", "answered"}, person : Person]
  /\ logout \in {NoCall} \cup [stage : {"asked"}, person : Who]
                         \cup [stage : {"answered"}, status : {204, 401}]

PlaceInv ==
  /\ going = "portal" => place = "login"
  /\ login # NoCall => place = "login"

\* What is in entry e or on its way there is p's; a fetch may have been sent
\* without a session.
Of(e, p) ==
  /\ e.data # Nothing => e.data.of = p
  /\ e.fetch = "asked" => e.answer.by \in {p, Nobody}
  /\ e.fetch = "answered" /\ e.answer.status = 200 => e.answer.data.of = p

\* Nobody's.
Empty(e) ==
  /\ e.data = Nothing
  /\ e.fetch = "asked" => e.answer.by = Nobody
  /\ e.fetch = "answered" => e.answer.status # 200

\* A fetch of e will be or was refused.
Refusal(e) ==
  \/ e.fetch = "answered" /\ e.answer.status # 200
  \/ e.fetch = "asked" /\ e.answer.by = Nobody
  \/ Refused(e)

\* Where somebody else may log in, or the router goes there.
Leaving == going = "login" \/ (place = "login" /\ going = "nowhere")

Clean == flags \cap {"ended", "lost", "early"} = {}

OwnInv ==
  /\ session # Nobody => Of(me, session) /\ Of(list, session)
  /\ session = Nobody /\ logout = NoCall => Empty(me) /\ Empty(list)
  /\ session # Nobody =>
       (Leaving \/ Refusal(me) \/ (login # NoCall /\ login.person # session)
          => Empty(me) /\ Empty(list))

CallsInv ==
  /\ logout = NoCall \/ login = NoCall
  /\ logout.stage = "asked" => session = logout.person /\ session # Nobody
  /\ logout.stage = "answered" => session = Nobody

SInv == TypesInv /\ PlaceInv /\ (Clean => OwnInv /\ CallsInv)

--------------------------------------------------------------------------------
(* What becomes of an entry. *)

(* A fetch that starts is sent with the session of the moment. *)
LEMMA SendAsked ==
  ASSUME NEW e \in Entry, session \in Who
  PROVE  /\ Send(Ask(e)) \in Entry
         /\ Send(Ask(e)).data = e.data /\ Send(Ask(e)).fetch = "asked"
         /\ Send(Ask(e)).answer.by = session
         /\ Send(Ask(e)).error = IF e.data = Nothing THEN "none" ELSE e.error
  <1> DEFINE no == FALSE
             r == IF e.data = Nothing THEN "none" ELSE e.error
             by == [by |-> session]
             f1 == [e EXCEPT !.fetch = "asked"]
             f2 == [f1 EXCEPT !.answer = Nothing]
             f3 == [f2 EXCEPT !.overtaken = no]
             f4 == [f3 EXCEPT !.error = r]
             f5 == [f4 EXCEPT !.answer = by]
  <1>1. Ask(e) = f4
    BY DEF Ask
  <1>2. no \in BOOLEAN /\ r \in {"none", "refused", "unreachable"}
    BY DEF Entry
  <1>3. by \in Asking /\ by.by = session
    BY DEF Asking
  <1>4. r = IF e.data = Nothing THEN "none" ELSE e.error
    OBVIOUS
  <1> HIDE DEF no, r, by
  <1>5. f1 = [data |-> e.data, error |-> e.error, invalid |-> e.invalid, fetch |-> "asked",
              answer |-> e.answer, overtaken |-> e.overtaken]
    BY SMT DEF Entry
  <1> HIDE DEF f1
  <1>6. f2 = [data |-> e.data, error |-> e.error, invalid |-> e.invalid, fetch |-> "asked",
              answer |-> Nothing, overtaken |-> e.overtaken]
    BY <1>5, SMT
  <1> HIDE DEF f2
  <1>7. f3 = [data |-> e.data, error |-> e.error, invalid |-> e.invalid, fetch |-> "asked",
              answer |-> Nothing, overtaken |-> no]
    BY <1>6, SMT
  <1> HIDE DEF f3
  <1>8. f4 = [data |-> e.data, error |-> r, invalid |-> e.invalid, fetch |-> "asked",
              answer |-> Nothing, overtaken |-> no]
    BY <1>7, SMT
  <1>9. Send(f4) = f5
    <2>1. f4.fetch = "asked"
      BY <1>8
    <2> HIDE DEF f4
    <2> QED
      BY <2>1 DEF Send, by
  <1> HIDE DEF f4
  <1>10. f5 = [data |-> e.data, error |-> r, invalid |-> e.invalid, fetch |-> "asked",
               answer |-> by, overtaken |-> no]
    BY <1>8, SMT
  <1> HIDE DEF f5
  <1>11. f5 \in Entry /\ f5.data = e.data /\ f5.fetch = "asked" /\ f5.answer = by
           /\ f5.error = r
    BY <1>2, <1>3, <1>10, SMT DEF Entry
  <1> QED
    BY <1>1, <1>3, <1>4, <1>9, <1>11

(* Nothing has been asked for. *)
LEMMA NewIsEmpty ==
  /\ NewEntry \in Entry /\ Empty(NewEntry) /\ ~Refusal(NewEntry)
  /\ NewEntry.fetch = "idle"
  <1> DEFINE no == FALSE
  <1>1. NewEntry = [data |-> Nothing, error |-> "none", invalid |-> no, fetch |-> "idle",
                    answer |-> Nothing, overtaken |-> no]
    BY DEF NewEntry
  <1>2. no \in BOOLEAN
    OBVIOUS
  <1> HIDE DEF no
  <1>3. NewEntry \in Entry
    BY <1>1, <1>2, SMT DEF Entry
  <1>4. NewEntry.data = Nothing /\ NewEntry.fetch = "idle" /\ NewEntry.error = "none"
    BY <1>1
  <1> QED
    BY <1>3, <1>4 DEF Empty, Refusal, Refused

(* An entry that nobody shows is at most marked. *)
LEMMA MarkedIs ==
  ASSUME NEW e \in Entry
  PROVE  /\ Invalidate(e, FALSE) \in Entry
         /\ Invalidate(e, FALSE).data = e.data /\ Invalidate(e, FALSE).error = e.error
         /\ Invalidate(e, FALSE).fetch = e.fetch /\ Invalidate(e, FALSE).answer = e.answer
  <1> DEFINE yes == TRUE
             o == e.fetch # "idle"
             f1 == [e EXCEPT !.invalid = yes]
             f2 == [f1 EXCEPT !.overtaken = o]
  <1>1. Invalidate(e, FALSE) = e \/ Invalidate(e, FALSE) = f2
    BY DEF Invalidate
  <1>2. yes \in BOOLEAN /\ o \in BOOLEAN
    OBVIOUS
  <1> HIDE DEF yes, o
  <1>3. f1 = [data |-> e.data, error |-> e.error, invalid |-> yes, fetch |-> e.fetch,
              answer |-> e.answer, overtaken |-> e.overtaken]
    BY SMT DEF Entry
  <1> HIDE DEF f1
  <1>4. f2 = [data |-> e.data, error |-> e.error, invalid |-> yes, fetch |-> e.fetch,
              answer |-> e.answer, overtaken |-> o]
    BY <1>3, SMT
  <1> HIDE DEF f2
  <1>5. f2 \in Entry /\ f2.data = e.data /\ f2.error = e.error /\ f2.fetch = e.fetch
          /\ f2.answer = e.answer
    BY <1>2, <1>4, SMT DEF Entry
  <1> QED
    BY <1>1, <1>5

(* A fetch that is given up leaves what was there, and an error. *)
LEMMA GivenUpIs ==
  ASSUME NEW e \in Entry, NEW why \in {"refused", "unreachable"}
  PROVE  /\ GiveUp(e, why) \in Entry
         /\ GiveUp(e, why).data = e.data /\ GiveUp(e, why).error = why
         /\ GiveUp(e, why).fetch = "idle"
  <1> DEFINE f1 == [e EXCEPT !.fetch = "idle"]
             f2 == [f1 EXCEPT !.answer = Nothing]
             f3 == [f2 EXCEPT !.error = why]
  <1>1. f1 = [data |-> e.data, error |-> e.error, invalid |-> e.invalid, fetch |-> "idle",
              answer |-> e.answer, overtaken |-> e.overtaken]
    BY SMT DEF Entry
  <1> HIDE DEF f1
  <1>2. f2 = [data |-> e.data, error |-> e.error, invalid |-> e.invalid, fetch |-> "idle",
              answer |-> Nothing, overtaken |-> e.overtaken]
    BY <1>1, SMT
  <1> HIDE DEF f2
  <1>3. f3 = [data |-> e.data, error |-> why, invalid |-> e.invalid, fetch |-> "idle",
              answer |-> Nothing, overtaken |-> e.overtaken]
    BY <1>2, SMT
  <1>4. GiveUp(e, why) = f3
    BY DEF GiveUp, f1, f2
  <1> HIDE DEF f3
  <1> QED
    BY <1>3, <1>4, SMT DEF Entry

(* An answer that arrives is data, or a refusal beside the data there was. *)
LEMMA ReceivedIs ==
  ASSUME NEW e \in Entry, e.fetch = "answered"
  PROVE  /\ Receive(e) \in Entry /\ Receive(e).fetch = "idle"
         /\ \/ /\ e.answer.status # 200
               /\ Receive(e).data = e.data /\ Receive(e).error = "refused"
            \/ /\ e.answer.status = 200
               /\ Receive(e).data = e.answer.data /\ Receive(e).data # Nothing
               /\ Receive(e).error = "none"
  <1>1. CASE e.answer.status # 200
    BY <1>1, GivenUpIs DEF Receive
  <1>2. CASE e.answer.status = 200
    <2> DEFINE d == e.answer.data
               no == FALSE
               f1 == [e EXCEPT !.data = d]
               f2 == [f1 EXCEPT !.error = "none"]
               f3 == [f2 EXCEPT !.invalid = no]
               f4 == [f3 EXCEPT !.fetch = "idle"]
               f5 == [f4 EXCEPT !.answer = Nothing]
    <2>1. d \in [of : Person] /\ no \in BOOLEAN
      BY <1>2, SMT DEF Entry, Told
    <2>2. d # Nothing
      BY <2>1, SMT DEF Nothing
    <2>3. Receive(e) = f5
      BY <1>2 DEF Receive
    <2> HIDE DEF d, no
    <2>4. f1 = [data |-> d, error |-> e.error, invalid |-> e.invalid, fetch |-> e.fetch,
                answer |-> e.answer, overtaken |-> e.overtaken]
      BY SMT DEF Entry
    <2> HIDE DEF f1
    <2>5. f2 = [data |-> d, error |-> "none", invalid |-> e.invalid, fetch |-> e.fetch,
                answer |-> e.answer, overtaken |-> e.overtaken]
      BY <2>4, SMT
    <2> HIDE DEF f2
    <2>6. f3 = [data |-> d, error |-> "none", invalid |-> no, fetch |-> e.fetch,
                answer |-> e.answer, overtaken |-> e.overtaken]
      BY <2>5, SMT
    <2> HIDE DEF f3
    <2>7. f4 = [data |-> d, error |-> "none", invalid |-> no, fetch |-> "idle",
                answer |-> e.answer, overtaken |-> e.overtaken]
      BY <2>6, SMT
    <2> HIDE DEF f4
    <2>8. f5 = [data |-> d, error |-> "none", invalid |-> no, fetch |-> "idle",
                answer |-> Nothing, overtaken |-> e.overtaken]
      BY <2>7, SMT
    <2> HIDE DEF f5
    <2>9. f5 \in Entry /\ f5.fetch = "idle" /\ f5.data = d /\ f5.error = "none"
      BY <2>1, <2>8, SMT DEF Entry
    <2> QED
      BY <1>2, <2>2, <2>3, <2>9 DEF d
  <1> QED
    BY <1>1, <1>2

\* The server's answer to a fetch.
Answered(e, answer) == [e EXCEPT !.fetch = "answered", !.answer = answer]

(* The server answers with the data of whoever the fetch was sent for, while *)
(* somebody's session is there; it refuses nobody's own fetch.               *)
LEMMA AnsweredIs ==
  ASSUME NEW e \in Entry, e.fetch = "asked", NEW answer \in Look(e), session \in Who
  PROVE  /\ Answered(e, answer) \in Entry
         /\ Answered(e, answer).data = e.data /\ Answered(e, answer).error = e.error
         /\ Answered(e, answer).fetch = "answered" /\ Answered(e, answer).answer = answer
         /\ \/ /\ answer.status = 200 /\ answer.data.of = e.answer.by
               /\ e.answer.by \in Person /\ session # Nobody
            \/ /\ answer.status # 200
               /\ ~(e.answer.by \in Person /\ e.answer.by = session)
  <1> DEFINE f1 == [e EXCEPT !.fetch = "answered"]
             f2 == [f1 EXCEPT !.answer = answer]
             b == e.answer.by
  <1>1. \/ answer = [status |-> 200, data |-> [of |-> b]] /\ b \in Person /\ session # Nobody
        \/ answer = [status |-> 401] /\ ~(b \in Person /\ b = session)
    BY DEF Look
  <1> HIDE DEF b
  <1>2. /\ answer \in Told
        /\ \/ answer.status = 200 /\ answer.data.of = b /\ b \in Person /\ session # Nobody
           \/ answer.status # 200 /\ ~(b \in Person /\ b = session)
    <2>1. CASE answer = [status |-> 200, data |-> [of |-> b]] /\ b \in Person /\ session # Nobody
      BY <2>1, SMT DEF Told
    <2>2. CASE answer = [status |-> 401] /\ ~(b \in Person /\ b = session)
      BY <2>2, SMT DEF Told
    <2> QED
      BY <1>1, <2>1, <2>2
  <1>3. f1 = [data |-> e.data, error |-> e.error, invalid |-> e.invalid, fetch |-> "answered",
              answer |-> e.answer, overtaken |-> e.overtaken]
    BY SMT DEF Entry
  <1> HIDE DEF f1
  <1>4. f2 = [data |-> e.data, error |-> e.error, invalid |-> e.invalid, fetch |-> "answered",
              answer |-> answer, overtaken |-> e.overtaken]
    BY <1>3, SMT
  <1>5. Answered(e, answer) = f2
    BY DEF Answered, f1
  <1> HIDE DEF f2
  <1>6. f2 \in Entry /\ f2.data = e.data /\ f2.error = e.error /\ f2.fetch = "answered"
          /\ f2.answer = answer
    BY <1>2, <1>4, SMT DEF Entry
  <1> QED
    BY <1>2, <1>5, <1>6 DEF b

(* A component that appears leaves its entry or sends for it. *)
LEMMA ShownIs ==
  ASSUME NEW e, NEW f \in Shown(e)
  PROVE  f = e \/ (e.fetch = "idle" /\ f = Send(Ask(e)))
  BY DEF Shown, Mounted, Send

--------------------------------------------------------------------------------
(* The invariant, action by action.  Each lemma has the whole of an action that *)
(* moves an entry.                                                              *)

(* The server answers a fetch of the user, or of the list. *)
LEMMA ReplyStep ==
  ASSUME SInv, ReplyMe \/ ReplyList
  PROVE  SInv'
  <1>1. ASSUME NEW e \in Entry, NEW f \in Entry, e.fetch = "asked",
               f.data = e.data, f.error = e.error, f.fetch = "answered",
               \/ /\ f.answer.status = 200 /\ f.answer.data.of = e.answer.by
                  /\ e.answer.by \in Person /\ session # Nobody
               \/ /\ f.answer.status # 200
                  /\ ~(e.answer.by \in Person /\ e.answer.by = session)
        PROVE  /\ Empty(e) => Empty(f)
               /\ \A p \in Person : Of(e, p) => Of(f, p)
               /\ session # Nobody /\ Of(e, session) /\ Refusal(f) => Refusal(e)
    <2>1. Empty(e) => Empty(f)
      BY <1>1, SignInAssumption DEF Empty
    <2>2. \A p \in Person : Of(e, p) => Of(f, p)
      BY <1>1, SignInAssumption DEF Of
    <2>3. session # Nobody /\ Of(e, session) /\ Refusal(f) => Refusal(e)
      BY <1>1 DEF Of, Refusal, Refused, SInv, TypesInv, Who
    <2> QED
      BY <2>1, <2>2, <2>3
  <1>2. session \in Who /\ me \in Entry /\ list \in Entry
    BY DEF SInv, TypesInv
  <1>3. CASE ReplyMe
    <2>1. PICK answer \in Look(me) : me' = Answered(me, answer)
      BY <1>3 DEF ReplyMe, Answered
    <2>2. me.fetch = "asked" /\ UNCHANGED <<session, place, going, list, login, logout, flags>>
      BY <1>3 DEF ReplyMe
    <2>3. /\ me' \in Entry /\ me'.data = me.data /\ me'.error = me.error
          /\ me'.fetch = "answered"
          /\ \/ /\ me'.answer.status = 200 /\ me'.answer.data.of = me.answer.by
                /\ me.answer.by \in Person /\ session # Nobody
             \/ /\ me'.answer.status # 200
                /\ ~(me.answer.by \in Person /\ me.answer.by = session)
      BY <1>2, <2>1, <2>2, AnsweredIs
    <2>4. /\ Empty(me) => Empty(me')
          /\ \A p \in Person : Of(me, p) => Of(me', p)
          /\ session # Nobody /\ Of(me, session) /\ Refusal(me') => Refusal(me)
      BY <1>1, <1>2, <2>2, <2>3
    <2>5. TypesInv' /\ PlaceInv'
      BY <2>2, <2>3 DEF SInv, TypesInv, PlaceInv, Who
    <2>6. Clean' => OwnInv' /\ CallsInv'
      BY <1>2, <2>2, <2>4 DEF SInv, Clean, OwnInv, CallsInv, Leaving, Who
    <2> QED
      BY <2>5, <2>6 DEF SInv
  <1>4. CASE ReplyList
    <2>1. PICK answer \in Look(list) : list' = Answered(list, answer)
      BY <1>4 DEF ReplyList, Answered
    <2>2. list.fetch = "asked" /\ UNCHANGED <<session, place, going, me, login, logout, flags>>
      BY <1>4 DEF ReplyList
    <2>3. /\ list' \in Entry /\ list'.data = list.data /\ list'.error = list.error
          /\ list'.fetch = "answered"
          /\ \/ /\ list'.answer.status = 200 /\ list'.answer.data.of = list.answer.by
                /\ list.answer.by \in Person /\ session # Nobody
             \/ /\ list'.answer.status # 200
                /\ ~(list.answer.by \in Person /\ list.answer.by = session)
      BY <1>2, <2>1, <2>2, AnsweredIs
    <2>4. /\ Empty(list) => Empty(list')
          /\ \A p \in Person : Of(list, p) => Of(list', p)
      BY <1>1, <1>2, <2>2, <2>3
    <2>5. TypesInv' /\ PlaceInv'
      BY <2>2, <2>3 DEF SInv, TypesInv, PlaceInv, Who
    <2>6. Clean' => OwnInv' /\ CallsInv'
      BY <1>2, <2>2, <2>4 DEF SInv, Clean, OwnInv, CallsInv, Leaving, Who
    <2> QED
      BY <2>5, <2>6 DEF SInv
  <1> QED
    BY <1>3, <1>4

(* What an entry of p receives is p's, and what an empty one receives nobody's. *)
LEMMA ReceivedOf ==
  ASSUME NEW e \in Entry, e.fetch = "answered"
  PROVE  /\ Empty(e) => Empty(Receive(e))
         /\ \A p : Of(e, p) => Of(Receive(e), p)
         /\ Refusal(Receive(e)) <=> e.answer.status # 200
         /\ Refusal(Receive(e)) <=> Refused(Receive(e))
         /\ Receive(e).fetch = "idle"
         /\ Receive(e).data # Nothing => e.data # Nothing \/ e.answer.status = 200
         /\ Refusal(Receive(e)) => Receive(e).data = e.data
  BY ReceivedIs DEF Empty, Of, Refusal, Refused

(* What a component sends for is its user's. *)
LEMMA ShownOf ==
  ASSUME NEW e \in Entry, session \in Who, NEW f \in Shown(e)
  PROVE  /\ f \in Entry
         /\ f.data = e.data
         /\ session = Nobody /\ Empty(e) => Empty(f)
         /\ \A p : Of(e, p) /\ session = p => Of(f, p)
         /\ session # Nobody /\ Refusal(f) => Refusal(e)
         /\ Refused(f) /\ f.data = Nothing => f = e
  <1>1. CASE f = e
    BY <1>1
  <1>2. CASE e.fetch = "idle" /\ f = Send(Ask(e))
    BY <1>2, SendAsked DEF Empty, Of, Refusal, Refused
  <1> QED
    BY <1>1, <1>2, ShownIs

(* The layout hears who is signed in. *)
LEMMA ArriveMeStep ==
  ASSUME SInv, ArriveMe
  PROVE  SInv'
  <1> DEFINE m == Receive(me)
  <1>1. /\ session \in Who /\ me \in Entry /\ list \in Entry /\ me.fetch = "answered"
        /\ UNCHANGED <<session, place, login, logout>> /\ me' = m
        /\ Clean' => Clean
        /\ going' = IF place = "portal" /\ Refused(m) THEN "login" ELSE going
        /\ \/ list' = list
           \/ place = "portal" /\ Inside(m) /\ list' \in Shown(list)
    BY DEF SInv, TypesInv, ArriveMe, Layout, Clean
  <1>2. /\ m \in Entry /\ m.fetch = "idle"
        /\ Empty(me) => Empty(m)
        /\ \A p : Of(me, p) => Of(m, p)
        /\ Refusal(m) <=> me.answer.status # 200
        /\ Refusal(m) <=> Refused(m)
        /\ Refusal(m) => Refusal(me)
    BY <1>1, ReceivedIs, ReceivedOf DEF Refusal
  <1> HIDE DEF m
  <1>3. /\ list' \in Entry
        /\ session = Nobody /\ Empty(list) => Empty(list')
        /\ session # Nobody /\ Of(list, session) => Of(list', session)
    BY <1>1, ShownOf
  <1>4. TypesInv' /\ PlaceInv'
    BY <1>1, <1>2, <1>3 DEF SInv, TypesInv, PlaceInv, Who
  <1>5. ASSUME Clean' PROVE OwnInv'
    <2>1. Clean /\ OwnInv
      BY <1>1, <1>5 DEF SInv
    <2>2. session # Nobody => Of(me', session) /\ Of(list', session)
      BY <1>1, <1>2, <1>3, <2>1 DEF OwnInv
    <2>3. session = Nobody /\ logout = NoCall => Empty(me') /\ Empty(list')
      BY <1>1, <1>2, <1>3, <2>1 DEF OwnInv
    <2>4. ASSUME session # Nobody, Leaving' \/ Refusal(me') \/ (login # NoCall /\ login.person # session)
          PROVE  Empty(me') /\ Empty(list')
      <3>1. Leaving \/ Refusal(me) \/ (login # NoCall /\ login.person # session)
        BY <1>1, <1>2, <2>4 DEF Leaving
      <3>2. Empty(me) /\ Empty(list)
        BY <2>1, <2>4, <3>1 DEF OwnInv
      <3>3. ~Inside(m)
        BY <1>2, <3>2 DEF Inside, Empty
      <3> QED
        BY <1>1, <1>2, <3>2, <3>3
    <2> QED
      BY <1>1, <2>2, <2>3, <2>4 DEF OwnInv
  <1>6. Clean' => CallsInv'
    BY <1>1 DEF SInv, CallsInv
  <1> QED
    BY <1>4, <1>5, <1>6 DEF SInv

(* The list arrives. *)
LEMMA ArriveListStep ==
  ASSUME SInv, ArriveList
  PROVE  SInv'
  <1>1. /\ session \in Who /\ me \in Entry /\ list \in Entry /\ list.fetch = "answered"
        /\ UNCHANGED <<session, place, going, me, login, logout, flags>>
    BY DEF SInv, TypesInv, ArriveList
  <1>2. /\ list' \in Entry /\ (Empty(list) => Empty(list'))
        /\ \A p : Of(list, p) => Of(list', p)
    <2>1. list' = Receive(list)
      BY DEF ArriveList
    <2> QED
      BY <1>1, <2>1, ReceivedIs, ReceivedOf
  <1>3. TypesInv' /\ PlaceInv'
    BY <1>1, <1>2 DEF SInv, TypesInv, PlaceInv, Who
  <1>4. Clean' => OwnInv' /\ CallsInv'
    BY <1>1, <1>2 DEF SInv, Clean, OwnInv, CallsInv, Leaving
  <1> QED
    BY <1>3, <1>4 DEF SInv

(* No answer arrives, or the session ends: the history says so. *)
LEMMA FaultStep ==
  ASSUME SInv, EndSession \/ LoseMe \/ LoseLogin
  PROVE  SInv'
  <1>1. ~Clean'
    BY DEF Clean, EndSession, LoseMe, LoseLogin, Fault
  <1>2. CASE EndSession
    BY <1>1, <1>2 DEF EndSession, SInv, TypesInv, PlaceInv, Who
  <1>3. CASE LoseMe
    <2>1. me' \in Entry
      BY <1>3, GivenUpIs DEF LoseMe, SInv, TypesInv
    <2> QED
      BY <1>1, <1>3, <2>1 DEF LoseMe, SInv, TypesInv, PlaceInv, Who
  <1>4. CASE LoseLogin
    BY <1>1, <1>4 DEF LoseLogin, SInv, TypesInv, PlaceInv, Who
  <1> QED
    BY <1>2, <1>3, <1>4

(* A page is opened: the user and the list are sent for. *)
LEMMA RevisitStep ==
  ASSUME SInv, Revisit
  PROVE  SInv'
  <1>1. /\ session \in Who /\ me \in Entry /\ list \in Entry
        /\ me' \in Shown(me) /\ list' \in Shown(list) /\ me.data # Nothing
        /\ UNCHANGED <<session, place, going, login, logout, flags>>
    BY DEF SInv, TypesInv, Revisit, Inside
  <1>2. /\ me' \in Entry /\ list' \in Entry
        /\ session # Nobody /\ Of(me, session) => Of(me', session)
        /\ session # Nobody /\ Of(list, session) => Of(list', session)
        /\ session # Nobody /\ Refusal(me') => Refusal(me)
    BY <1>1, ShownOf
  <1>3. ~Empty(me)
    BY <1>1 DEF Empty
  <1>4. TypesInv' /\ PlaceInv'
    BY <1>1, <1>2 DEF SInv, TypesInv, PlaceInv, Who
  <1>5. Clean' => OwnInv' /\ CallsInv'
    BY <1>1, <1>2, <1>3 DEF SInv, Clean, OwnInv, CallsInv, Leaving
  <1> QED
    BY <1>4, <1>5 DEF SInv

(* An entry is thrown away. *)
LEMMA CollectStep ==
  ASSUME SInv, Collect
  PROVE  SInv'
  <1>1. /\ me' \in {me, NewEntry} /\ list' \in {list, NewEntry}
        /\ UNCHANGED <<session, place, going, login, logout, flags>>
    BY DEF Collect
  <1>2. \A p : Of(NewEntry, p)
    BY NewIsEmpty DEF Empty, Of
  <1>3. TypesInv' /\ PlaceInv'
    BY <1>1, NewIsEmpty DEF SInv, TypesInv, PlaceInv, Who
  <1>4. Clean' => OwnInv' /\ CallsInv'
    BY <1>1, <1>2, NewIsEmpty DEF SInv, Clean, OwnInv, CallsInv, Leaving
  <1> QED
    BY <1>3, <1>4 DEF SInv

(* The router arrives. *)
LEMMA ArriveStep ==
  ASSUME SInv, Arrive
  PROVE  SInv'
  <1>1. /\ session \in Who /\ me \in Entry /\ list \in Entry
        /\ going \in {"login", "portal"} /\ login = NoCall
        /\ place' = going /\ UNCHANGED <<session, login, logout, flags>>
        /\ going = "portal" => place = "login"
    BY DEF SInv, TypesInv, PlaceInv, Arrive
  <1>2. CASE going = "login"
    <2>1. /\ UNCHANGED <<me, list>> /\ going' = "nowhere" /\ place' = "login"
      BY <1>1, <1>2 DEF Arrive
    <2>2. TypesInv' /\ PlaceInv'
      BY <1>1, <2>1 DEF SInv, TypesInv, PlaceInv, Who
    <2>3. Clean' => OwnInv' /\ CallsInv'
      BY <1>1, <1>2, <2>1 DEF SInv, Clean, OwnInv, CallsInv, Leaving
    <2> QED
      BY <2>2, <2>3 DEF SInv
  <1>3. CASE going = "portal"
    <2>1. /\ me' \in Shown(me) /\ list' \in Shown(list) \cup {list}
          /\ ~Inside(me') => list' = list
          /\ going' = IF Refused(me') THEN "login" ELSE "nowhere"
          /\ place' = "portal"
      BY <1>1, <1>3 DEF Arrive
    <2>2. /\ me' \in Entry /\ me'.data = me.data
          /\ session = Nobody /\ Empty(me) => Empty(me')
          /\ session # Nobody /\ Of(me, session) => Of(me', session)
          /\ session # Nobody /\ Refusal(me') => Refusal(me)
          /\ Refused(me') /\ me'.data = Nothing => me' = me
      BY <1>1, <2>1, ShownOf
    <2>3. /\ list' \in Entry
          /\ session = Nobody /\ Empty(list) => Empty(list')
          /\ session # Nobody /\ Of(list, session) => Of(list', session)
      BY <1>1, <2>1, ShownOf
    <2>4. TypesInv' /\ PlaceInv'
      BY <1>1, <2>1, <2>2, <2>3 DEF SInv, TypesInv, PlaceInv, Who
    <2>5. ASSUME Clean' PROVE OwnInv'
      <3>1. Clean /\ OwnInv
        BY <1>1, <2>5 DEF SInv, Clean
      <3>2. ASSUME session # Nobody, Leaving' \/ Refusal(me') PROVE Empty(me') /\ Empty(list')
        <4>1. Refusal(me')
          BY <2>1, <3>2 DEF Leaving, Refusal
        <4>2. Empty(me) /\ Empty(list)
          BY <2>2, <3>1, <3>2, <4>1 DEF OwnInv
        <4>3. list' = list
          BY <2>1, <2>2, <4>2 DEF Inside, Empty
        <4>4. me' = me
          <5>1. me' = me \/ (me.fetch = "idle" /\ me' = Send(Ask(me)))
            BY <2>1, ShownIs
          <5>2. me' = Send(Ask(me)) => ~Refusal(me')
            BY <1>1, <3>2, <4>2, SendAsked DEF Refusal, Refused, Empty
          <5> QED
            BY <4>1, <5>1, <5>2
        <4> QED
          BY <4>2, <4>3, <4>4
      <3> QED
        BY <1>1, <2>2, <2>3, <3>1, <3>2 DEF OwnInv
    <2>6. Clean' => CallsInv'
      BY <1>1 DEF SInv, Clean, CallsInv
    <2> QED
      BY <2>4, <2>5, <2>6 DEF SInv
  <1> QED
    BY <1>1, <1>2, <1>3

(* Somebody logs in: on a page behind which nothing is anybody else's. *)
LEMMA LoginStep ==
  ASSUME SInv, ClickLogin \/ ServeLogin \/ EndLogin
  PROVE  SInv'
  <1>1. /\ session \in Who /\ me \in Entry /\ list \in Entry
        /\ login \in {NoCall} \cup [stage : {"asked", "answered"}, person : Person]
        /\ login # NoCall => place = "login"
        /\ going = "portal" => place = "login"
        /\ going \in {"nowhere", "login", "portal"}
    BY DEF SInv, TypesInv, PlaceInv
  <1>2. CASE ClickLogin
    <2>1. /\ place = "login" /\ UNCHANGED <<session, place, going, me, list, logout>>
          /\ Clean' => Clean /\ logout = NoCall
      BY <1>2 DEF ClickLogin, Clean
    <2>2. PICK p \in IF going = "portal" THEN {session} \ {Nobody} ELSE Person :
            login' = [stage |-> "asked", person |-> p]
      BY <1>2 DEF ClickLogin
    <2>3. p \in Person /\ (p = session \/ going # "portal")
      BY <1>1, <2>2 DEF Who
    <2>4. login' \in [stage : {"asked", "answered"}, person : Person] /\ login'.person = p
      BY <2>2, <2>3
    <2>5. TypesInv' /\ PlaceInv'
      BY <1>1, <2>1, <2>4 DEF SInv, TypesInv, PlaceInv, Who
    <2>6. ASSUME Clean' PROVE OwnInv' /\ CallsInv'
      BY <1>1, <2>1, <2>3, <2>4, <2>6 DEF SInv, OwnInv, CallsInv, Leaving, NoCall
    <2> QED
      BY <2>5, <2>6 DEF SInv
  <1>3. CASE ServeLogin
    <2>1. /\ UNCHANGED <<session, place, going, me, list, logout, flags>>
          /\ login \in [stage : {"asked", "answered"}, person : Person] /\ login # NoCall
          /\ login' = [login EXCEPT !.stage = "answered"]
      BY <1>1, <1>3 DEF ServeLogin, NoCall
    <2>2. /\ login' \in [stage : {"asked", "answered"}, person : Person]
          /\ login'.person = login.person
      BY <2>1
    <2>3. TypesInv' /\ PlaceInv'
      BY <1>1, <2>1, <2>2 DEF SInv, TypesInv, PlaceInv, Who
    <2>4. Clean' => OwnInv' /\ CallsInv'
      BY <2>1, <2>2 DEF SInv, Clean, OwnInv, CallsInv, Leaving
    <2> QED
      BY <2>3, <2>4 DEF SInv
  <1>4. CASE EndLogin
    <2>1. /\ login \in [stage : {"asked", "answered"}, person : Person] /\ login # NoCall
          /\ session' = login.person /\ session' \in Person /\ session' # Nobody
          /\ me' = Invalidate(me, FALSE) /\ going' = "portal" /\ login' = NoCall
          /\ UNCHANGED <<place, list, logout, flags>> /\ place = "login"
      BY <1>1, <1>4, SignInAssumption DEF EndLogin, NoCall
    <2>2. /\ me' \in Entry /\ me'.data = me.data /\ me'.error = me.error
          /\ me'.fetch = me.fetch /\ me'.answer = me.answer
      BY <1>1, <2>1, MarkedIs
    <2>3. /\ Empty(me') <=> Empty(me)
          /\ \A p : Of(me', p) <=> Of(me, p)
          /\ Refusal(me') <=> Refusal(me)
      BY <2>2 DEF Empty, Of, Refusal, Refused
    <2>4. TypesInv' /\ PlaceInv'
      BY <1>1, <2>1, <2>2 DEF SInv, TypesInv, PlaceInv, Who
    <2>5. ASSUME Clean' PROVE OwnInv' /\ CallsInv'
      <3>1. Clean /\ OwnInv /\ CallsInv /\ logout = NoCall
        BY <2>1, <2>5 DEF SInv, Clean, CallsInv
      <3>2. \A e, p : Empty(e) => Of(e, p)
        BY DEF Empty, Of
      <3>3. \/ Empty(me) /\ Empty(list)
            \/ /\ session' = session /\ Of(me, session) /\ Of(list, session)
               /\ Refusal(me) => Empty(me) /\ Empty(list)
        BY <2>1, <3>1 DEF OwnInv
      <3>4. OwnInv'
        BY <2>1, <2>3, <3>2, <3>3 DEF OwnInv, Leaving
      <3>5. CallsInv'
        BY <2>1, <3>1 DEF CallsInv, NoCall
      <3> QED
        BY <3>4, <3>5
    <2> QED
      BY <2>4, <2>5 DEF SInv
  <1> QED
    BY <1>2, <1>3, <1>4

(* A query that the layout sends for when the cache has just been cleared. *)
LEMMA AskedAnew ==
  ASSUME NEW s \in Who
  PROVE  /\ [Ask(NewEntry) EXCEPT !.answer = [by |-> s]] \in Entry
         /\ s = Nobody => Empty([Ask(NewEntry) EXCEPT !.answer = [by |-> s]])
  <1> DEFINE no == FALSE
             by == [by |-> s]
             f1 == [NewEntry EXCEPT !.fetch = "asked"]
             f2 == [f1 EXCEPT !.answer = Nothing]
             f3 == [f2 EXCEPT !.overtaken = no]
             f4 == [f3 EXCEPT !.error = "none"]
             f5 == [f4 EXCEPT !.answer = by]
  <1>1. NewEntry = [data |-> Nothing, error |-> "none", invalid |-> no, fetch |-> "idle",
                    answer |-> Nothing, overtaken |-> no]
    BY DEF NewEntry
  <1>2. [Ask(NewEntry) EXCEPT !.answer = [by |-> s]] = f5
    BY <1>1 DEF Ask
  <1>3. no \in BOOLEAN /\ by \in Asking /\ by.by = s
    BY DEF Asking
  <1> HIDE DEF no, by
  <1>4. f1 = [data |-> Nothing, error |-> "none", invalid |-> no, fetch |-> "asked",
              answer |-> Nothing, overtaken |-> no]
    BY <1>1, SMT
  <1> HIDE DEF f1
  <1>5. f4 = f1
    <2>1. f2 = f1
      BY <1>4, SMT
    <2> HIDE DEF f2
    <2>2. f3 = f1
      BY <1>4, <2>1, SMT
    <2> HIDE DEF f3
    <2> QED
      BY <1>4, <2>2, SMT
  <1> HIDE DEF f2, f3, f4
  <1>6. f5 = [data |-> Nothing, error |-> "none", invalid |-> no, fetch |-> "asked",
              answer |-> by, overtaken |-> no]
    BY <1>4, <1>5, SMT
  <1> HIDE DEF f5
  <1>7. f5 \in Entry /\ f5.data = Nothing /\ f5.fetch = "asked" /\ f5.answer = by
    BY <1>3, <1>6, SMT DEF Entry
  <1> QED
    BY <1>2, <1>3, <1>7 DEF Empty

(* The logout button. *)
LEMMA LogoutStep ==
  ASSUME SInv, ClickLogout \/ ServeLogout \/ EndLogout \/ LoseLogout
  PROVE  SInv'
  <1>1. /\ session \in Who /\ me \in Entry /\ list \in Entry
        /\ logout \in {NoCall} \cup [stage : {"asked"}, person : Who]
                               \cup [stage : {"answered"}, status : {204, 401}]
        /\ login # NoCall => place = "login"
        /\ going = "portal" => place = "login"
    BY DEF SInv, TypesInv, PlaceInv
  <1>2. CASE ClickLogout
    <2>1. /\ place = "portal" /\ me.data # Nothing /\ logout = NoCall
          /\ logout' = [stage |-> "asked", person |-> session]
          /\ UNCHANGED <<session, place, going, me, list, login, flags>>
      BY <1>2 DEF ClickLogout, Inside
    <2>2. /\ logout' \in [stage : {"asked"}, person : Who] /\ logout'.stage = "asked"
          /\ logout'.person = session /\ logout' # NoCall
      BY <1>1, <2>1, SMT DEF NoCall
    <2>3. login = NoCall
      BY <1>1, <2>1
    <2>4. TypesInv' /\ PlaceInv'
      BY <1>1, <2>1, <2>2 DEF SInv, TypesInv, PlaceInv, Who
    <2>5. ~Empty(me)
      BY <2>1 DEF Empty
    <2>6. Clean' => OwnInv' /\ CallsInv'
      BY <2>1, <2>2, <2>3, <2>5 DEF SInv, Clean, OwnInv, CallsInv, Leaving
    <2> QED
      BY <2>4, <2>6 DEF SInv
  <1>3. CASE ServeLogout
    <2>1. /\ logout.stage = "asked" /\ logout # NoCall
          /\ session' = IF session = logout.person THEN Nobody ELSE session
          /\ UNCHANGED <<place, going, me, list, login, flags>>
      BY <1>3 DEF ServeLogout, NoCall
    <2>2. PICK status \in {204, 401} : logout' = [stage |-> "answered", status |-> status]
      BY <1>3 DEF ServeLogout
    <2>3. /\ logout' \in [stage : {"answered"}, status : {204, 401}]
          /\ logout'.stage = "answered" /\ logout' # NoCall
      BY <2>2, SMT DEF NoCall
    <2>4. TypesInv' /\ PlaceInv'
      BY <1>1, <2>1, <2>3 DEF SInv, TypesInv, PlaceInv, Who
    <2>5. Clean' => OwnInv' /\ CallsInv'
      BY <2>1, <2>3 DEF SInv, Clean, OwnInv, CallsInv
    <2> QED
      BY <2>4, <2>5 DEF SInv
  <1>4. CASE EndLogout \/ LoseLogout
    <2>1. /\ going' = "login" /\ logout' = NoCall /\ list' = NewEntry
          /\ me' \in {NewEntry, [Ask(NewEntry) EXCEPT !.answer = [by |-> session']]}
          /\ UNCHANGED <<place, login>> /\ session' \in {session, Nobody}
      BY <1>4 DEF EndLogout, LoseLogout, Settle
    <2>2. me' \in Entry /\ list' \in Entry /\ session' \in Who
      BY <1>1, <2>1, NewIsEmpty, AskedAnew DEF Who
    <2>3. session' = Nobody => Empty(me') /\ Empty(list')
      BY <2>1, <2>2, NewIsEmpty, AskedAnew
    <2>4. TypesInv' /\ PlaceInv'
      BY <1>1, <2>1, <2>2 DEF SInv, TypesInv, PlaceInv, Who
    <2>5. ASSUME Clean' PROVE session' = Nobody /\ (logout = NoCall \/ login = NoCall \/ logout.stage = "answered")
      <3>1. CASE LoseLogout
        BY <2>5, <3>1 DEF LoseLogout, Fault, Clean
      <3>2. CASE EndLogout
        <4>1. CASE place = "portal" /\ session' = Nobody
          BY <3>2, <4>1 DEF EndLogout
        <4>2. CASE ~(place = "portal" /\ session' = Nobody)
          <5>1. Clean /\ logout.stage = "answered"
            BY <2>5, <3>2, <4>2 DEF EndLogout, Clean
          <5>2. session = Nobody
            BY <5>1 DEF SInv, CallsInv
          <5> QED
            BY <2>1, <5>1, <5>2
        <4> QED
          BY <4>1, <4>2
      <3> QED
        BY <1>4, <3>1, <3>2
    <2>6. Clean' => OwnInv' /\ CallsInv'
      BY <2>1, <2>3, <2>5 DEF OwnInv, CallsInv, NoCall
    <2> QED
      BY <2>4, <2>6 DEF SInv
  <1> QED
    BY <1>2, <1>3, <1>4

--------------------------------------------------------------------------------
(* While somebody is signed in the portal shows his name and his applications,     *)
(* unless the session before ended otherwise than by the button, an answer was     *)
(* lost, or he logged in before the button's call was answered.                    *)
THEOREM NothingIsOfAnother == Spec => []NothingOfAnother
  <1>1. Init => SInv
    <2> SUFFICES ASSUME Init PROVE SInv
      OBVIOUS
    <2>1. /\ session \in Who /\ place = "portal" /\ going = "nowhere"
          /\ me = Send(Ask(NewEntry)) /\ list = NewEntry /\ login = NoCall /\ logout = NoCall
      BY DEF Init, Who
    <2>2. /\ me \in Entry /\ me.data = Nothing /\ me.fetch = "asked"
          /\ me.answer.by = session /\ me.error = "none"
      BY <2>1, NewIsEmpty, SendAsked DEF Empty
    <2>3. TypesInv /\ PlaceInv
      BY <2>1, <2>2, NewIsEmpty DEF TypesInv, PlaceInv
    <2>4. OwnInv
      BY <2>1, <2>2, NewIsEmpty DEF OwnInv, Of, Empty, Refusal, Refused, Leaving
    <2>5. CallsInv
      BY <2>1 DEF CallsInv, NoCall
    <2> QED
      BY <2>3, <2>4, <2>5 DEF SInv
  <1>2. SInv /\ [Next]_vars => SInv'
    <2>1. CASE UNCHANGED vars
      BY <2>1 DEF vars, SInv, TypesInv, PlaceInv, Clean, OwnInv, CallsInv, Leaving, Refusal,
                  Refused, Of, Empty, Who
    <2> QED
      BY <2>1, ReplyStep, ArriveMeStep, ArriveListStep, FaultStep, RevisitStep, CollectStep,
         ArriveStep, LoginStep, LogoutStep DEF Next
  <1>3. SInv => NothingOfAnother
    BY DEF SInv, Clean, OwnInv, Of, NothingOfAnother, ListShown, Inside
  <1> QED
    BY <1>1, <1>2, <1>3, PTL DEF Spec
===============================================================================
