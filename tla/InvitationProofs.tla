-------------------------- MODULE InvitationProofs --------------------------
(***************************************************************************)
(* What holds of InvitationTxn for any numbers of places, invitations and  *)
(* workers.                                                                *)
(***************************************************************************)
EXTENDS InvitationTxn, TLAPS

(* The steps of each kind of request. *)
StepsOf(op) ==
  CASE op = "invite"  -> {"check", "write", "commit"}
    [] op = "accept"  -> {"join", "insert", "check", "write", "commit"}
    [] op = "decline" -> {"check", "write", "commit", "notify"}

StepsFit == \A w \in Worker : Busy(w) => req[w].step \in StepsOf(req[w].op)

(* An invitation that is being created is in no row yet, and in no other    *)
(* request.                                                                 *)
NewOnesAreNew ==
  \A w \in Worker : Inviting(w) =>
    /\ ~Sent(req[w].invitation)
    /\ \A v \in Worker \ {w} : ~Concerns(v, req[w].invitation)

(* An answer is about an invitation that exists, to the place it read. *)
AnswersAreSent ==
  \A w \in Worker : Busy(w) /\ ~Inviting(w) =>
    /\ Sent(req[w].invitation)
    /\ invitations[req[w].invitation].place = req[w].place

Sound == TypeOK /\ StepsFit /\ NewOnesAreNew /\ AnswersAreSent
-----------------------------------------------------------------------------
LEMMA NoRequestIsNone == NoRequest \notin Request
  BY InvitationAssumption

LEMMA NoRowIsNone == NoRow \notin InvitationRow
  BY InvitationAssumption

LEMMA RequestFields ==
  ASSUME TypeOK, NEW w \in Worker, Busy(w)
  PROVE  /\ req[w] \in Request
         /\ req[w].op \in {"invite", "accept", "decline"}
         /\ req[w].invitation \in Invitation
         /\ req[w].place \in Place
         /\ req[w].was \in Status
  BY DEF TypeOK, Busy, Request

LEMMA RowFields ==
  ASSUME TypeOK, NEW i \in Invitation, Sent(i)
  PROVE  /\ invitations[i] \in InvitationRow
         /\ invitations[i].place \in Place
         /\ invitations[i].status \in Status
         /\ invitations[i].told \in Status
  BY DEF TypeOK, Sent, InvitationRow

(* A request goes on to another of its steps, and no row changes. *)
LEMMA AdvanceKeepsSound ==
  ASSUME Sound, NEW w \in Worker, Busy(w), NEW st \in StepsOf(req[w].op),
         Advance(w, st), UNCHANGED <<invitations, members, history>>
  PROVE  Sound'
<1>1. /\ req[w] \in Request
      /\ st \in {"join", "insert", "check", "write", "commit", "notify"}
  BY RequestFields DEF Sound, StepsOf, Request
<1>2. [req[w] EXCEPT !.step = st] \in Request
  BY <1>1 DEF Request
<1>3. req' = [req EXCEPT ![w] = [req[w] EXCEPT !.step = st]]
  BY DEF Advance
<1>4. /\ req'[w].op = req[w].op /\ req'[w].step = st
      /\ req'[w].invitation = req[w].invitation /\ req'[w].place = req[w].place
      /\ req'[w] # NoRequest
      /\ \A v \in Worker \ {w} : req'[v] = req[v]
  BY <1>1, <1>2, <1>3, NoRequestIsNone DEF Sound, TypeOK, Request
<1>5. TypeOK'
  BY <1>2, <1>3 DEF Sound, TypeOK, history
<1>6. \A v \in Worker : /\ Busy(v)' <=> Busy(v)
                        /\ Inviting(v)' <=> Inviting(v)
                        /\ Busy(v) => /\ req'[v].invitation = req[v].invitation
                                      /\ req'[v].place = req[v].place
                                      /\ req'[v].op = req[v].op
  BY <1>4 DEF Busy, Inviting
<1>7. StepsFit'
  BY <1>4, <1>6 DEF Sound, StepsFit, StepsOf
<1>8. \A i \in Invitation : Sent(i)' <=> Sent(i)
  BY DEF Sent
<1>9. NewOnesAreNew' /\ AnswersAreSent'
  BY <1>6, <1>8, RequestFields DEF Sound, NewOnesAreNew, AnswersAreSent, Concerns, Inviting, Sent
<1> QED
  BY <1>5, <1>7, <1>9 DEF Sound

(* A request ends, and no row changes. *)
LEMMA FinishKeepsSound ==
  ASSUME Sound, NEW w \in Worker, Busy(w), Finish(w), UNCHANGED <<invitations, members>>,
         raced' = raced, contested' \subseteq Invitation
  PROVE  Sound'
<1>1. /\ req'[w] = NoRequest
      /\ \A v \in Worker \ {w} : req'[v] = req[v]
      /\ req' \in [Worker -> Request \cup {NoRequest}]
  BY DEF Finish, Sound, TypeOK
<1>2. TypeOK'
  BY <1>1 DEF Sound, TypeOK
<1>3. StepsFit'
  BY <1>1 DEF Sound, StepsFit, Busy
<1>4. NewOnesAreNew' /\ AnswersAreSent'
  BY <1>1 DEF Sound, NewOnesAreNew, AnswersAreSent, Concerns, Inviting, Sent, Busy
<1> QED
  BY <1>2, <1>3, <1>4 DEF Sound
-----------------------------------------------------------------------------
LEMMA InitSound == Init => Sound
  BY DEF Init, Sound, TypeOK, StepsFit, NewOnesAreNew, AnswersAreSent, Busy, Inviting

(* A request starts on an idle worker. *)
LEMMA StartInviteKeepsSound ==
  ASSUME Sound, NEW w \in Worker, NEW i \in Invitation, NEW p \in Place,
         StartInvite(w, i, p)
  PROVE  Sound'
<1> DEFINE r == [op |-> "invite", step |-> "check", invitation |-> i, place |-> p,
                 was |-> "pending"]
<1>1. r \in Request /\ r # NoRequest
  BY NoRequestIsNone DEF Request, Status
<1>2. /\ req'[w] = r /\ \A v \in Worker \ {w} : req'[v] = req[v]
      /\ req' \in [Worker -> Request \cup {NoRequest}]
  BY <1>1 DEF StartInvite, Sound, TypeOK
<1>3. r.op = "invite" /\ r.step = "check" /\ r.invitation = i
  OBVIOUS
<1> HIDE DEF r
<1>4. /\ ~Sent(i) /\ \A v \in Worker : ~Concerns(v, i)
      /\ UNCHANGED <<invitations, members, contested>>
  BY DEF StartInvite
<1>5. raced' \subseteq SUBSET Invitation
  BY RequestFields DEF StartInvite, Sound, TypeOK, Inviting
<1>6. TypeOK'
  BY <1>2, <1>4, <1>5 DEF Sound, TypeOK
<1>7. StepsFit'
  BY <1>1, <1>2, <1>3 DEF Sound, StepsFit, Busy, StepsOf
<1>8. NewOnesAreNew'
  BY <1>1, <1>2, <1>3, <1>4 DEF Sound, NewOnesAreNew, Concerns, Inviting, Sent, Busy
<1>9. AnswersAreSent'
  BY <1>1, <1>2, <1>3, <1>4 DEF Sound, AnswersAreSent, Inviting, Sent, Busy
<1> QED
  BY <1>6, <1>7, <1>8, <1>9 DEF Sound

LEMMA StartAnswerKeepsSound ==
  ASSUME Sound, NEW w \in Worker, NEW i \in Invitation, NEW op \in {"accept", "decline"},
         StartAnswer(w, i, op)
  PROVE  Sound'
<1> DEFINE r == [op |-> op, step |-> IF op = "accept" THEN "join" ELSE "check",
                 invitation |-> i, place |-> invitations[i].place,
                 was |-> invitations[i].status]
<1>1. Sent(i) /\ invitations[i].place \in Place /\ invitations[i].status \in Status
  BY RowFields DEF StartAnswer, Sound
<1>2. r \in Request /\ r # NoRequest
  BY <1>1, NoRequestIsNone DEF Request
<1>3. /\ req'[w] = r /\ \A v \in Worker \ {w} : req'[v] = req[v]
      /\ req' \in [Worker -> Request \cup {NoRequest}]
  BY <1>2 DEF StartAnswer, Sound, TypeOK
<1>4. /\ r.op = op /\ r.invitation = i /\ r.place = invitations[i].place
      /\ r.step = IF op = "accept" THEN "join" ELSE "check"
  OBVIOUS
<1> HIDE DEF r
<1>5. UNCHANGED <<invitations, members, raced>> /\ contested' \subseteq Invitation
  BY DEF StartAnswer, Sound, TypeOK
<1>6. TypeOK'
  BY <1>3, <1>5 DEF Sound, TypeOK
<1>7. StepsFit'
  BY ZenonT(30), <1>2, <1>3, <1>4 DEF Sound, StepsFit, Busy, StepsOf
<1>8. NewOnesAreNew'
  BY <1>1, <1>2, <1>3, <1>4, <1>5 DEF Sound, NewOnesAreNew, Concerns, Inviting, Sent, Busy
<1>9. AnswersAreSent'
  BY <1>1, <1>2, <1>3, <1>4, <1>5 DEF Sound, AnswersAreSent, Inviting, Sent, Busy
<1> QED
  BY <1>6, <1>7, <1>8, <1>9 DEF Sound

(* What each commit does to the row of its invitation. *)
LEMMA CommitInviteRow ==
  ASSUME Sound, NEW w \in Worker, CommitInvite(w)
  PROVE  LET i == req[w].invitation IN
         /\ i \in Invitation /\ ~Sent(i)
         /\ invitations'[i].place = req[w].place
         /\ invitations'[i].status = "pending" /\ invitations'[i].told = "pending"
         /\ invitations'[i] \in InvitationRow
         /\ \A j \in Invitation \ {i} : invitations'[j] = invitations[j]
         /\ invitations' \in [Invitation -> InvitationRow \cup {NoRow}]
<1>1. Busy(w) /\ Inviting(w)
  BY DEF CommitInvite, At, Inviting
<1>2. req[w].place \in Place /\ req[w].invitation \in Invitation
  BY <1>1, RequestFields DEF Sound
<1>3. [place |-> req[w].place, status |-> "pending", told |-> "pending"] \in InvitationRow
  BY <1>2 DEF InvitationRow, Status
<1> QED
  BY <1>1, <1>2, <1>3 DEF CommitInvite, Sound, TypeOK, NewOnesAreNew

(* The row of i keeps its place, gets status s and says that t was told. *)
RowBecomes(i, s, t) ==
  /\ invitations' \in [Invitation -> InvitationRow \cup {NoRow}]
  /\ Sent(i)' /\ invitations'[i].place = invitations[i].place
  /\ invitations'[i].status = s /\ invitations'[i].told = t
  /\ \A j \in Invitation \ {i} : invitations'[j] = invitations[j]

(* The status that an answer leaves. *)
StatusLeft(r) == IF Writes(r) THEN Answer(r) ELSE invitations[r.invitation].status

LEMMA RowWritten ==
  ASSUME TypeOK, NEW i \in Invitation, Sent(i), NEW s \in Status, NEW t \in Status,
         invitations' = [invitations EXCEPT ![i] =
           [place |-> invitations[i].place, status |-> s, told |-> t]]
  PROVE  RowBecomes(i, s, t)
<1>1. [place |-> invitations[i].place, status |-> s, told |-> t] \in InvitationRow
  BY RowFields DEF InvitationRow
<1> QED
  BY <1>1, NoRowIsNone DEF RowBecomes, TypeOK, Sent

(* A request that has joined or written is an answer to a sent invitation. *)
LEMMA AnswerFacts ==
  ASSUME Sound, NEW w \in Worker, Busy(w), req[w].op # "invite"
  PROVE  /\ req[w].invitation \in Invitation /\ Sent(req[w].invitation)
         /\ invitations[req[w].invitation].place = req[w].place
         /\ req[w].op \in {"accept", "decline"}
         /\ Answer(req[w]) \in Status /\ StatusLeft(req[w]) \in Status
<1>1. req[w].invitation \in Invitation /\ Sent(req[w].invitation)
  BY RequestFields DEF Sound, AnswersAreSent, Inviting
<1>2. Answer(req[w]) \in Status
  BY DEF Answer, Status
<1>3. StatusLeft(req[w]) \in Status
  BY <1>1, <1>2, RowFields DEF Sound, StatusLeft
<1> QED
  BY <1>1, <1>2, <1>3, RequestFields DEF Sound, AnswersAreSent, Inviting

LEMMA AcceptRow ==
  ASSUME Sound, NEW w \in Worker, CommitAccept(w)
  PROVE  RowBecomes(req[w].invitation, StatusLeft(req[w]), "accepted")
<1> DEFINE i == req[w].invitation
<1>1. Busy(w) /\ req[w].op # "invite"
  BY DEF CommitAccept, At
<1>2. i \in Invitation /\ Sent(i) /\ StatusLeft(req[w]) \in Status
  BY <1>1, AnswerFacts
<1>3. [Answered(req[w], invitations[i]) EXCEPT !.told = "accepted"]
        = [place |-> invitations[i].place, status |-> StatusLeft(req[w]),
           told |-> "accepted"]
  <2>1. Answered(req[w], invitations[i])
          = [place |-> invitations[i].place, status |-> StatusLeft(req[w]),
             told |-> invitations[i].told]
    BY <1>2, RowFields DEF Sound, Answered, StatusLeft, InvitationRow
  <2> QED
    BY <2>1
<1>4. invitations' = [invitations EXCEPT
        ![i] = [Answered(req[w], invitations[i]) EXCEPT !.told = "accepted"]]
  BY DEF CommitAccept
<1>5. "accepted" \in Status
  BY DEF Status
<1> QED
  BY <1>2, <1>3, <1>4, <1>5, RowWritten DEF Sound

LEMMA DeclineRow ==
  ASSUME Sound, NEW w \in Worker, CommitDecline(w)
  PROVE  RowBecomes(req[w].invitation, StatusLeft(req[w]),
                    invitations[req[w].invitation].told)
<1> DEFINE i == req[w].invitation
<1>1. Busy(w) /\ req[w].op # "invite"
  BY DEF CommitDecline, At
<1>2. i \in Invitation /\ Sent(i) /\ StatusLeft(req[w]) \in Status
  BY <1>1, AnswerFacts
<1>3. Answered(req[w], invitations[i])
        = [place |-> invitations[i].place, status |-> StatusLeft(req[w]),
           told |-> invitations[i].told]
  BY <1>2, RowFields DEF Sound, Answered, StatusLeft, InvitationRow
<1>4. invitations[i].told \in Status
  BY <1>2, RowFields DEF Sound
<1> QED
  BY <1>2, <1>3, <1>4, RowWritten DEF CommitDecline, Sound

LEMMA NotifyRow ==
  ASSUME Sound, NEW w \in Worker, NotifySender(w)
  PROVE  /\ req[w].op = "decline"
         /\ RowBecomes(req[w].invitation, invitations[req[w].invitation].status, "declined")
<1> DEFINE i == req[w].invitation
<1>1. Busy(w) /\ req[w].op = "decline"
  BY RequestFields DEF NotifySender, At, Sound, StepsFit, StepsOf
<1>2. i \in Invitation /\ Sent(i)
  BY <1>1, AnswerFacts
<1>3. [invitations[i] EXCEPT !.told = "declined"]
        = [place |-> invitations[i].place, status |-> invitations[i].status,
           told |-> "declined"]
  BY <1>2, RowFields DEF Sound, InvitationRow
<1>4. invitations[i].status \in Status /\ "declined" \in Status
  BY <1>2, RowFields DEF Sound, Status
<1>5. invitations' = [invitations EXCEPT ![i] = [invitations[i] EXCEPT !.told = "declined"]]
  BY DEF NotifySender
<1> QED
  BY <1>1, <1>2, <1>3, <1>4, <1>5, RowWritten DEF Sound
-----------------------------------------------------------------------------
(* A row that changes, or comes into being, leaves the requests fitting. *)
LEMMA RowBecomesKeeps ==
  ASSUME Sound, NEW i \in Invitation, Sent(i), NEW s, NEW t, RowBecomes(i, s, t)
  PROVE  \A j \in Invitation :
           /\ Sent(j)' <=> Sent(j)
           /\ Sent(j) => invitations'[j].place = invitations[j].place
  BY DEF RowBecomes, Sent

LEMMA CommitInviteKeepsSound ==
  ASSUME Sound, NEW w \in Worker, CommitInvite(w)
  PROVE  Sound'
<1> DEFINE i == req[w].invitation
<1>1. /\ Busy(w) /\ Inviting(w)
      /\ req'[w] = NoRequest
      /\ \A v \in Worker \ {w} : req'[v] = req[v]
      /\ req' \in [Worker -> Request \cup {NoRequest}]
      /\ UNCHANGED <<members, history>>
  BY DEF CommitInvite, At, Inviting, Finish, Sound, TypeOK
<1>2. /\ i \in Invitation /\ ~Sent(i)
      /\ \A j \in Invitation \ {i} : invitations'[j] = invitations[j]
      /\ invitations' \in [Invitation -> InvitationRow \cup {NoRow}]
  BY CommitInviteRow
<1>3. \A v \in Worker \ {w} : Busy(v) => /\ req[v].invitation \in Invitation
                                         /\ req[v].invitation # i
  BY <1>1, RequestFields DEF Sound, NewOnesAreNew, Concerns
<1>4. TypeOK'
  BY <1>1, <1>2 DEF Sound, TypeOK, history
<1>5. StepsFit'
  BY <1>1 DEF Sound, StepsFit, Busy
<1>6. NewOnesAreNew' /\ AnswersAreSent'
  BY <1>1, <1>2, <1>3 DEF Sound, NewOnesAreNew, AnswersAreSent, Concerns, Inviting, Sent, Busy
<1> QED
  BY <1>4, <1>5, <1>6 DEF Sound

(* An answer that ends, or a refusal that goes on to its notification. *)
LEMMA AnswerKeepsSound ==
  ASSUME Sound, NEW w \in Worker, Busy(w), req[w].op # "invite",
         NEW s, NEW t, RowBecomes(req[w].invitation, s, t),
         members' \subseteq Place, UNCHANGED history,
         Finish(w) \/ (Advance(w, "notify") /\ req[w].op = "decline")
  PROVE  Sound'
<1> DEFINE i == req[w].invitation
<1>1. i \in Invitation /\ Sent(i)
  BY AnswerFacts
<1>2. \A j \in Invitation :
        /\ Sent(j)' <=> Sent(j)
        /\ Sent(j) => invitations'[j].place = invitations[j].place
  BY <1>1, RowBecomesKeeps
<1>3. /\ \A v \in Worker \ {w} : req'[v] = req[v]
      /\ req' \in [Worker -> Request \cup {NoRequest}]
      /\ \/ req'[w] = NoRequest
         \/ /\ Busy(w)' /\ req'[w].op = "decline" /\ req[w].op = "decline"
            /\ req'[w].step = "notify"
            /\ req'[w].invitation = i /\ req'[w].place = req[w].place
  <2>1. CASE Finish(w)
    BY <2>1 DEF Finish, Sound, TypeOK
  <2>2. CASE Advance(w, "notify") /\ req[w].op = "decline"
    <3>1. req[w] \in Request
      BY RequestFields DEF Sound
    <3>2. [req[w] EXCEPT !.step = "notify"] \in Request
      BY <3>1 DEF Request
    <3>3. req' = [req EXCEPT ![w] = [req[w] EXCEPT !.step = "notify"]]
      BY <2>2 DEF Advance
    <3> QED
      BY <2>2, <3>1, <3>2, <3>3, NoRequestIsNone DEF Sound, TypeOK, Request, Busy
  <2> QED
    BY <2>1, <2>2
<1>4. TypeOK'
  BY <1>3 DEF Sound, TypeOK, history, RowBecomes
<1>5. StepsFit'
  BY <1>3 DEF Sound, StepsFit, Busy, StepsOf
<1>6. \A v \in Worker : Busy(v) => req[v].invitation \in Invitation
  BY RequestFields DEF Sound
<1>7. NewOnesAreNew'
  BY <1>2, <1>3, <1>6 DEF Sound, NewOnesAreNew, Concerns, Inviting, Busy
<1>8. AnswersAreSent'
  BY <1>2, <1>3, <1>6 DEF Sound, AnswersAreSent, Inviting, Busy
<1> QED
  BY <1>4, <1>5, <1>7, <1>8 DEF Sound

LEMMA StepKeepsSound ==
  ASSUME Sound, NEW w \in Worker, Step(w)
  PROVE  Sound'
<1>1. CASE ValidatePlace(w)
  <2>1. Busy(w) /\ "insert" \in StepsOf(req[w].op)
    BY <1>1, RequestFields DEF ValidatePlace, At, Sound, StepsFit, StepsOf
  <2> QED
    BY <1>1, <2>1, AdvanceKeepsSound, FinishKeepsSound
       DEF ValidatePlace, history, Sound, TypeOK
<1>2. CASE InsertMember(w)
  <2>1. Busy(w) /\ "check" \in StepsOf(req[w].op)
    BY <1>2, RequestFields DEF InsertMember, At, Sound, StepsFit, StepsOf
  <2> QED
    BY <1>2, <2>1, AdvanceKeepsSound, FinishKeepsSound
       DEF InsertMember, history, Sound, TypeOK
<1>3. CASE CheckOthers(w)
  <2>1. Busy(w) /\ "write" \in StepsOf(req[w].op)
    BY <1>3, RequestFields DEF CheckOthers, At, Sound, StepsFit, StepsOf
  <2> QED
    BY <1>3, <2>1, AdvanceKeepsSound, FinishKeepsSound
       DEF CheckOthers, history, Sound, TypeOK
<1>4. CASE WriteInvitation(w)
  <2>1. Busy(w) /\ "commit" \in StepsOf(req[w].op)
    BY <1>4, RequestFields DEF WriteInvitation, At, Sound, StepsFit, StepsOf
  <2> QED
    BY <1>4, <2>1, AdvanceKeepsSound DEF WriteInvitation, history
<1>5. CASE CommitInvite(w)
  BY <1>5, CommitInviteKeepsSound
<1>6. CASE CommitAccept(w)
  <2>1. Busy(w) /\ req[w].op # "invite" /\ req[w].place \in Place
    BY <1>6, RequestFields DEF CommitAccept, At, Sound
  <2> QED
    BY <1>6, <2>1, AcceptRow, AnswerKeepsSound DEF CommitAccept, Sound, TypeOK
<1>7. CASE CommitDecline(w)
  <2>1. Busy(w) /\ req[w].op = "decline"
    BY <1>7 DEF CommitDecline, At
  <2> QED
    BY <1>7, <2>1, DeclineRow, AnswerKeepsSound DEF CommitDecline, Sound, TypeOK
<1>8. CASE NotifySender(w)
  <2>1. Busy(w) /\ req[w].op = "decline"
    BY <1>8, NotifyRow DEF NotifySender, At
  <2> QED
    BY <1>8, <2>1, NotifyRow, AnswerKeepsSound DEF NotifySender, Sound, TypeOK
<1> QED
  BY <1>1, <1>2, <1>3, <1>4, <1>5, <1>6, <1>7, <1>8 DEF Step

LEMMA NextKeepsSound == Sound /\ [Next]_vars => Sound'
<1> SUFFICES ASSUME Sound, [Next]_vars PROVE Sound'
  OBVIOUS
<1>1. ASSUME NEW w \in Worker, Start(w) PROVE Sound'
  BY <1>1, StartInviteKeepsSound, StartAnswerKeepsSound DEF Start
<1>2. ASSUME NEW w \in Worker, Step(w) PROVE Sound'
  BY <1>2, StepKeepsSound
<1>3. ASSUME NEW w \in Worker, Crash(w) PROVE Sound'
  <2>1. contested' \subseteq Invitation
    BY <1>3, RequestFields DEF Crash, Sound, TypeOK
  <2> QED
    BY <1>3, <2>1, FinishKeepsSound DEF Crash
<1>4. ASSUME NEW p \in Place, AddMember(p) \/ RemoveMember(p) PROVE Sound'
  BY <1>4 DEF AddMember, RemoveMember, history, Sound, TypeOK, StepsFit, NewOnesAreNew,
              AnswersAreSent, Inviting, Busy, Concerns, Sent
<1>5. CASE UNCHANGED vars
  BY <1>5 DEF vars, history, Sound, TypeOK, StepsFit, NewOnesAreNew,
              AnswersAreSent, Inviting, Busy, Concerns, Sent
<1> QED
  BY <1>1, <1>2, <1>3, <1>4, <1>5 DEF Next

LEMMA AlwaysSound == Spec => []Sound
  BY InitSound, NextKeepsSound, PTL DEF Spec

(* Every request, invitation and member stays in its type, and with it each *)
(* request at a step that its kind has.                                     *)
THEOREM TypeCorrect == Spec => []TypeOK
<1>1. Sound => TypeOK
  BY DEF Sound
<1> QED
  BY <1>1, AlwaysSound, PTL
-----------------------------------------------------------------------------
(* What the requests have in common: w ends, or goes on to step st, and the *)
(* other workers stay where they are.                                       *)
Ends(w) == Busy(w) /\ ~Busy(w)' /\ \A v \in Worker \ {w} : req'[v] = req[v]

Goes(w, st) ==
  /\ Busy(w) /\ Busy(w)' /\ req'[w].step = st
  /\ req'[w].op = req[w].op /\ req'[w].invitation = req[w].invitation
  /\ req'[w].place = req[w].place /\ req'[w].was = req[w].was
  /\ \A v \in Worker \ {w} : req'[v] = req[v]

LEMMA FinishEnds ==
  ASSUME TypeOK, NEW w \in Worker, Busy(w), Finish(w)
  PROVE  Ends(w)
  BY DEF Finish, Ends, TypeOK, Busy

LEMMA AdvanceGoes ==
  ASSUME TypeOK, NEW w \in Worker, Busy(w),
         NEW st \in {"join", "insert", "check", "write", "commit", "notify"},
         Advance(w, st)
  PROVE  Goes(w, st)
<1>1. req[w] \in Request
  BY RequestFields
<1>2. [req[w] EXCEPT !.step = st] \in Request
  BY <1>1 DEF Request
<1>3. req' = [req EXCEPT ![w] = [req[w] EXCEPT !.step = st]]
  BY DEF Advance
<1> QED
  BY <1>1, <1>2, <1>3, NoRequestIsNone DEF Goes, TypeOK, Request, Busy

(* Which step leads where. *)
LEMMA StepMoves ==
  ASSUME TypeOK, NEW w \in Worker, Step(w)
  PROVE  \/ Ends(w)
         \/ At(w, "join") /\ Goes(w, "insert")
         \/ InsertMember(w) /\ Goes(w, "check")
         \/ CheckOthers(w) /\ Goes(w, "write")
         \/ At(w, "write") /\ Goes(w, "commit")
         \/ CommitDecline(w) /\ Goes(w, "notify")
  BY FinishEnds, AdvanceGoes
     DEF Step, ValidatePlace, InsertMember, CheckOthers, WriteInvitation, CommitInvite,
         CommitAccept, CommitDecline, NotifySender, At

(* A new request of w is at its first step. *)
LEMMA StartsFirst ==
  ASSUME Sound, NEW w \in Worker, Start(w)
  PROVE  /\ ~Busy(w) /\ Busy(w)'
         /\ \A v \in Worker \ {w} : req'[v] = req[v]
         /\ req'[w].step \in {"join", "check"}
         /\ req'[w].op = "accept" => req'[w].step = "join"
         /\ UNCHANGED <<invitations, members>>
<1>1. Sound'
  BY StartInviteKeepsSound, StartAnswerKeepsSound DEF Start
<1>2. ~Busy(w) /\ req'[w] # NoRequest
  <2>1. ASSUME NEW i \in Invitation, NEW p \in Place, StartInvite(w, i, p)
        PROVE  ~Busy(w) /\ req'[w] # NoRequest
    BY <2>1, NoRequestIsNone DEF StartInvite, Sound, TypeOK, Request, Status
  <2>2. ASSUME NEW i \in Invitation, NEW op \in {"accept", "decline"}, StartAnswer(w, i, op)
        PROVE  ~Busy(w) /\ req'[w] # NoRequest
    BY <2>2, NoRequestIsNone, RowFields DEF StartAnswer, Sound, TypeOK, Request
  <2> QED
    BY <2>1, <2>2 DEF Start
<1> QED
  BY <1>2 DEF Start, StartInvite, StartAnswer, Sound, TypeOK, Busy
-----------------------------------------------------------------------------
(* Places *)

(* At most one acceptance has inserted a member that is not committed, and  *)
(* only where there is none.                                                *)
PlacesAreHeldOnce ==
  \A w \in Worker, p \in Place : HoldsPlace(w, p) =>
    /\ p \notin members
    /\ \A v \in Worker : HoldsPlace(v, p) => v = w

LEMMA NextKeepsPlaces ==
  ASSUME Sound, PlacesAreHeldOnce, [Next]_vars
  PROVE  PlacesAreHeldOnce'
<1>1. ASSUME NEW w \in Worker, Start(w) PROVE PlacesAreHeldOnce'
  BY <1>1, StartsFirst DEF PlacesAreHeldOnce, HoldsPlace, Busy
<1>2. ASSUME NEW w \in Worker, Step(w) PROVE PlacesAreHeldOnce'
  <2>1. TypeOK
    BY DEF Sound
  <2>2. CASE CommitAccept(w)
    <3>1. Ends(w) /\ HoldsPlace(w, req[w].place) /\ req[w].place \in Place
      BY <2>1, <2>2, FinishEnds, RequestFields DEF CommitAccept, At, HoldsPlace
    <3> QED
      BY <2>2, <3>1 DEF CommitAccept, PlacesAreHeldOnce, HoldsPlace, Ends, Busy
  <2>3. CASE ~CommitAccept(w)
    <3>1. members' = members
      BY <1>2, <2>3 DEF Step, ValidatePlace, InsertMember, CheckOthers, WriteInvitation,
                        CommitInvite, CommitDecline, NotifySender
    <3>2. CASE InsertMember(w) /\ Goes(w, "check")
      <4>1. req[w].place \notin members
        BY <2>1, <3>2 DEF InsertMember, At, Goes, Taken, Finish, Ends, Busy, TypeOK
      <4> QED
        BY <3>1, <3>2, <4>1 DEF InsertMember, PlacesAreHeldOnce, HoldsPlace, Goes, Busy
    <3>3. CASE ~(InsertMember(w) /\ Goes(w, "check"))
      <4>1. \A v \in Worker, p \in Place : HoldsPlace(v, p)' => HoldsPlace(v, p)
        BY <1>2, <2>1, <3>3, StepMoves
           DEF HoldsPlace, Goes, Ends, Busy, At, CheckOthers
      <4> QED
        BY <3>1, <4>1 DEF PlacesAreHeldOnce
    <3> QED
      BY <3>2, <3>3
  <2> QED
    BY <2>2, <2>3
<1>3. ASSUME NEW w \in Worker, Crash(w) PROVE PlacesAreHeldOnce'
  BY <1>3, FinishEnds DEF Crash, Sound, PlacesAreHeldOnce, HoldsPlace, Ends, Busy
<1>4. ASSUME NEW p \in Place, AddMember(p) \/ RemoveMember(p) PROVE PlacesAreHeldOnce'
  BY <1>4 DEF AddMember, RemoveMember, PlacesAreHeldOnce, HoldsPlace, Busy
<1>5. CASE UNCHANGED vars
  BY <1>5 DEF vars, PlacesAreHeldOnce, HoldsPlace, Busy
<1> QED
  BY <1>1, <1>2, <1>3, <1>4, <1>5 DEF Next

LEMMA AlwaysHeldOnce == Spec => []PlacesAreHeldOnce
<1>1. Init => PlacesAreHeldOnce
  BY DEF Init, PlacesAreHeldOnce, HoldsPlace, Busy
<1>2. Sound /\ PlacesAreHeldOnce /\ [Next]_vars => PlacesAreHeldOnce'
  BY NextKeepsPlaces
<1> QED
  BY <1>1, <1>2, AlwaysSound, PTL DEF Spec

(* An invitation becomes accepted in the step that makes its recipient a    *)
(* member, who was none: its acceptance still held the entry of the unique  *)
(* index.                                                                   *)
THEOREM AcceptanceJoins == Spec => AcceptingJoins
<1> DEFINE Joins == \A i \in Invitation :
       Sent(i) /\ invitations[i].status # "accepted"
               /\ invitations'[i].status = "accepted" =>
         invitations[i].place \in members' \ members
<1>1. Sound /\ PlacesAreHeldOnce /\ [Next]_vars => Joins
  <2> SUFFICES ASSUME Sound, PlacesAreHeldOnce, [Next]_vars,
                      NEW i \in Invitation, Sent(i), invitations[i].status # "accepted",
                      invitations'[i].status = "accepted"
               PROVE  invitations[i].place \in members' \ members
    OBVIOUS
  <2>1. PICK w \in Worker : CommitInvite(w) \/ CommitAccept(w) \/ CommitDecline(w)
                                            \/ NotifySender(w)
    BY DEF Next, Start, StartInvite, StartAnswer, Step, ValidatePlace, InsertMember,
           CheckOthers, WriteInvitation, Crash, AddMember, RemoveMember, vars
  <2>2. CASE CommitInvite(w)
    BY <2>2, CommitInviteRow
  <2>3. CASE CommitDecline(w)
    <3>1. StatusLeft(req[w]) # "accepted" \/ i # req[w].invitation
      BY <2>3 DEF StatusLeft, CommitDecline, Answer
    <3> QED
      BY <2>3, <3>1, DeclineRow DEF RowBecomes
  <2>4. CASE NotifySender(w)
    BY <2>4, NotifyRow DEF RowBecomes
  <2>5. CASE CommitAccept(w)
    <3>1. /\ Busy(w) /\ req[w].op = "accept"
          /\ members' = members \cup {req[w].place} /\ HoldsPlace(w, req[w].place)
      BY <2>5 DEF CommitAccept, At, HoldsPlace
    <3>2. i = req[w].invitation
      BY <2>5, AcceptRow DEF RowBecomes
    <3>3. invitations[i].place = req[w].place /\ req[w].place \in Place
      BY <3>1, <3>2, AnswerFacts, RequestFields DEF Sound
    <3> QED
      BY <3>1, <3>3 DEF PlacesAreHeldOnce
  <2> QED
    BY <2>1, <2>2, <2>3, <2>4, <2>5
<1> QED
  BY <1>1, AlwaysSound, AlwaysHeldOnce, PTL DEF Spec, AcceptingJoins
-----------------------------------------------------------------------------
(* Twins *)

(* Of two requests that invite, each is known to race the other.            *)
InvitersRace ==
  \A w, v \in Worker : w # v /\ Inviting(w) /\ Inviting(v) =>
    {req[w].invitation, req[v].invitation} \in raced

(* A request that invites and is past its validation is known to race every *)
(* invitation that is pending in spite of it.                               *)
LatecomersRace ==
  \A w \in Worker : Inviting(w) /\ req[w].step \in {"write", "commit"} =>
    \A j \in Invitation : Pending(j, req[w].place) =>
      {j, req[w].invitation} \in raced

RacesAreKnown == InvitersRace /\ LatecomersRace /\ TwinsNeedARace

(* Steps that make no invitation pending, and none pass its validation. *)
LEMMA RacesStayKnown ==
  ASSUME RacesAreKnown, raced' = raced,
         \A j \in Invitation, p \in Place : Pending(j, p)' => Pending(j, p),
         \A v \in Worker : Inviting(v)' =>
           /\ Inviting(v) /\ req[v].place \in Place
           /\ req'[v].invitation = req[v].invitation /\ req'[v].place = req[v].place
           /\ req'[v].step \in {"write", "commit"} => req[v].step \in {"write", "commit"}
  PROVE  RacesAreKnown'
<1>1. InvitersRace'
  BY DEF RacesAreKnown, InvitersRace
<1>2. LatecomersRace'
  BY DEF RacesAreKnown, LatecomersRace
<1>3. TwinsNeedARace'
  BY DEF RacesAreKnown, TwinsNeedARace, Twins
<1> QED
  BY <1>1, <1>2, <1>3 DEF RacesAreKnown

LEMMA StartInviteKeepsRaces ==
  ASSUME Sound, RacesAreKnown, NEW w \in Worker, NEW i \in Invitation, NEW p \in Place,
         StartInvite(w, i, p)
  PROVE  RacesAreKnown'
<1>1. /\ Inviting(w)' /\ req'[w].invitation = i /\ req'[w].step = "check"
      /\ ~Busy(w) /\ \A v \in Worker \ {w} : req'[v] = req[v]
      /\ invitations' = invitations
  BY StartsFirst DEF StartInvite, Start, Inviting, Sound, TypeOK, Busy
<1>2. \A v \in Worker \ {w} : Inviting(v) =>
        {i, req[v].invitation} \in raced' /\ req[v].invitation # i
  BY DEF StartInvite, Concerns, Inviting
<1>3. \A q \in raced : i \notin q => q \in raced'
  BY DEF StartInvite
<1>4. InvitersRace'
  <2> SUFFICES ASSUME NEW x \in Worker, NEW y \in Worker, x # y, Inviting(x)', Inviting(y)'
               PROVE  {req'[x].invitation, req'[y].invitation} \in raced'
    BY DEF InvitersRace
  <2>1. CASE x = w
    BY <1>1, <1>2, <2>1 DEF Inviting, Busy
  <2>2. CASE y = w
    <3>1. {i, req[x].invitation} = {req[x].invitation, i}
      OBVIOUS
    <3> QED
      BY <1>1, <1>2, <2>2, <3>1 DEF Inviting, Busy
  <2>3. CASE x # w /\ y # w
    <3>1. /\ req'[x] = req[x] /\ req'[y] = req[y] /\ Inviting(x) /\ Inviting(y)
      BY <1>1, <2>3 DEF Inviting, Busy
    <3> QED
      BY <1>2, <1>3, <2>3, <3>1 DEF RacesAreKnown, InvitersRace
  <2> QED
    BY <2>1, <2>2, <2>3
<1>5. \A j \in Invitation, q \in Place : Pending(j, q)' => Pending(j, q) /\ j # i
  BY <1>1 DEF StartInvite, Pending, Sent
<1>6. LatecomersRace'
  <2> SUFFICES ASSUME NEW x \in Worker, Inviting(x)', req'[x].step \in {"write", "commit"},
                      NEW j \in Invitation, Pending(j, req[x].place)'
               PROVE  {j, req'[x].invitation} \in raced'
    BY <1>1 DEF LatecomersRace
  <2>1. x # w /\ Inviting(x) /\ req'[x] = req[x]
    BY <1>1 DEF Inviting, Busy
  <2>2. req[x].invitation # i /\ j # i /\ {j, req[x].invitation} \in raced
    BY <1>1, <1>2, <1>5, <2>1, RequestFields
       DEF RacesAreKnown, LatecomersRace, Sound, Inviting
  <2> QED
    BY <1>3, <2>1, <2>2
<1>7. TwinsNeedARace'
  BY <1>3, <1>5 DEF RacesAreKnown, TwinsNeedARace, Twins
<1> QED
  BY <1>4, <1>6, <1>7 DEF RacesAreKnown

LEMMA CommitInviteKeepsRaces ==
  ASSUME Sound, RacesAreKnown, NEW w \in Worker, CommitInvite(w)
  PROVE  RacesAreKnown'
<1> DEFINE i == req[w].invitation
           p == req[w].place
<1>1. /\ Busy(w) /\ Inviting(w) /\ req[w].step = "commit" /\ Ends(w)
      /\ raced' = raced /\ i \in Invitation /\ p \in Place
  BY FinishEnds, RequestFields DEF CommitInvite, At, Inviting, history, Sound
<1>2. \A j \in Invitation, q \in Place :
        Pending(j, q)' => Pending(j, q) \/ (j = i /\ q = p)
  BY CommitInviteRow DEF Pending, Sent
<1>3. \A x \in Worker : Inviting(x)' => x # w /\ req'[x] = req[x] /\ Inviting(x)
  BY <1>1 DEF Ends, Inviting, Busy
<1>4. InvitersRace'
  BY <1>1, <1>3 DEF RacesAreKnown, InvitersRace
<1>5. \A j \in Invitation : Pending(j, p) => {j, i} \in raced
  BY <1>1 DEF RacesAreKnown, LatecomersRace
<1>6. LatecomersRace'
  <2> SUFFICES ASSUME NEW x \in Worker, Inviting(x)', req'[x].step \in {"write", "commit"},
                      NEW j \in Invitation, Pending(j, req[x].place)'
               PROVE  {j, req[x].invitation} \in raced
    BY <1>1, <1>3 DEF LatecomersRace
  <2>1. CASE j = i
    BY <1>1, <1>3, <2>1 DEF RacesAreKnown, InvitersRace
  <2>2. CASE j # i
    <3>1. req[x].place \in Place /\ req[x].step \in {"write", "commit"}
      BY <1>3, RequestFields DEF Sound, Inviting
    <3> QED
      BY <1>2, <1>3, <2>2, <3>1 DEF RacesAreKnown, LatecomersRace
  <2> QED
    BY <2>1, <2>2
<1>7. TwinsNeedARace'
  <2> SUFFICES ASSUME NEW j \in Invitation, NEW k \in Invitation, j # k,
                      NEW q \in Place, Pending(j, q)', Pending(k, q)'
               PROVE  {j, k} \in raced
    BY <1>1 DEF TwinsNeedARace, Twins
  <2>1. {k, j} = {j, k}
    OBVIOUS
  <2>2. CASE j = i
    <3>1. q = p
      BY <2>2, CommitInviteRow DEF Pending
    <3>2. Pending(k, p)
      BY <1>2, <2>2, <3>1
    <3> QED
      BY <1>5, <2>1, <2>2, <3>2
  <2>3. CASE k = i
    <3>1. q = p
      BY <2>3, CommitInviteRow DEF Pending
    <3>2. Pending(j, p)
      BY <1>2, <2>3, <3>1
    <3> QED
      BY <1>5, <2>3, <3>2
  <2>4. CASE j # i /\ k # i
    BY <1>2, <2>4 DEF RacesAreKnown, TwinsNeedARace, Twins
  <2> QED
    BY <2>2, <2>3, <2>4
<1> QED
  BY <1>4, <1>6, <1>7 DEF RacesAreKnown

(* No answer makes an invitation pending. *)
LEMMA AnswersLeaveFewerPending ==
  ASSUME Sound, NEW w \in Worker,
         CommitAccept(w) \/ CommitDecline(w) \/ NotifySender(w),
         NEW j \in Invitation, NEW p \in Place, Pending(j, p)'
  PROVE  Pending(j, p)
<1> DEFINE i == req[w].invitation
<1>1. Busy(w) /\ req[w].op # "invite"
  BY NotifyRow DEF CommitAccept, CommitDecline, NotifySender, At
<1>2. i \in Invitation /\ Sent(i)
  BY <1>1, AnswerFacts
<1>3. PICK s \in {StatusLeft(req[w]), invitations[i].status}, t \in Status : RowBecomes(i, s, t)
  BY <1>2, AcceptRow, DeclineRow, NotifyRow, RowFields DEF Sound, Status
<1>4. s = "pending" => invitations[i].status = "pending"
  BY <1>3 DEF StatusLeft, Answer
<1> QED
  BY <1>2, <1>3, <1>4 DEF Pending, RowBecomes, Sent

LEMMA StepKeepsRaces ==
  ASSUME Sound, RacesAreKnown, NEW w \in Worker, Step(w)
  PROVE  RacesAreKnown'
<1>1. CASE CommitInvite(w)
  BY <1>1, CommitInviteKeepsRaces
<1>2. CASE ~CommitInvite(w)
  <2>1. raced' = raced
    BY <1>2 DEF Step, ValidatePlace, InsertMember, CheckOthers, WriteInvitation,
                CommitAccept, CommitDecline, NotifySender, history
  <2>2. \A j \in Invitation, p \in Place : Pending(j, p)' => Pending(j, p)
    <3>1. CASE CommitAccept(w) \/ CommitDecline(w) \/ NotifySender(w)
      BY <3>1, AnswersLeaveFewerPending
    <3>2. CASE ~(CommitAccept(w) \/ CommitDecline(w) \/ NotifySender(w))
      <4>1. invitations' = invitations
        BY <1>2, <3>2 DEF Step, ValidatePlace, InsertMember, CheckOthers, WriteInvitation
      <4> QED
        BY <4>1 DEF Pending, Sent
    <3> QED
      BY <3>1, <3>2
  <2>3. TypeOK
    BY DEF Sound
  <2>4. CASE Inviting(w) /\ CheckOthers(w) /\ Goes(w, "write")
    <3>1. /\ ~OthersPending(req[w]) /\ Inviting(w) /\ invitations' = invitations
          /\ ~Sent(req[w].invitation)
          /\ \A v \in Worker \ {w} : req'[v] = req[v]
          /\ Inviting(w)' /\ req'[w].place = req[w].place
          /\ req'[w].invitation = req[w].invitation
      BY <2>3, <2>4, FinishEnds
         DEF CheckOthers, Goes, Ends, At, Inviting, Sound, NewOnesAreNew
    <3>2. \A j \in Invitation : ~Pending(j, req[w].place)
      BY <3>1 DEF OthersPending, Pending
    <3>3. \A v \in Worker : Inviting(v)' <=> Inviting(v)
      BY <3>1 DEF Inviting, Busy
    <3>4. InvitersRace'
      BY <2>1, <3>1, <3>3 DEF RacesAreKnown, InvitersRace
    <3>5. LatecomersRace'
      <4> SUFFICES ASSUME NEW x \in Worker, Inviting(x), req'[x].step \in {"write", "commit"},
                          NEW j \in Invitation, Pending(j, req'[x].place)
                   PROVE  {j, req'[x].invitation} \in raced
        BY <2>1, <3>1, <3>3 DEF LatecomersRace, Pending, Sent
      <4>1. x # w
        BY <3>1, <3>2
      <4> QED
        BY <3>1, <4>1 DEF RacesAreKnown, LatecomersRace
    <3>6. TwinsNeedARace'
      BY <2>1, <2>2 DEF RacesAreKnown, TwinsNeedARace, Twins
    <3> QED
      BY <3>4, <3>5, <3>6 DEF RacesAreKnown
  <2>5. CASE ~(Inviting(w) /\ CheckOthers(w) /\ Goes(w, "write"))
    <3>1. \A v \in Worker : Inviting(v)' =>
           /\ Inviting(v) /\ req[v].place \in Place
           /\ req'[v].invitation = req[v].invitation /\ req'[v].place = req[v].place
           /\ req'[v].step \in {"write", "commit"} => req[v].step \in {"write", "commit"}
      BY <2>3, <2>5, StepMoves, RequestFields
         DEF Goes, Ends, Busy, Inviting, At, CheckOthers
    <3> QED
      BY <2>1, <2>2, <3>1, RacesStayKnown
  <2> QED
    BY <2>4, <2>5
<1> QED
  BY <1>1, <1>2

LEMMA NextKeepsRaces ==
  ASSUME Sound, RacesAreKnown, [Next]_vars
  PROVE  RacesAreKnown'
<1>1. ASSUME NEW w \in Worker, NEW i \in Invitation, NEW op \in {"accept", "decline"},
             StartAnswer(w, i, op)
      PROVE  RacesAreKnown'
  <2>1. /\ ~Inviting(w)' /\ \A v \in Worker \ {w} : req'[v] = req[v]
        /\ invitations' = invitations /\ raced' = raced
    BY <1>1 DEF StartAnswer, Inviting, Sound, TypeOK
  <2> QED
    BY <2>1, RacesStayKnown, RequestFields DEF Pending, Sent, Inviting, Busy, Sound
<1>2. ASSUME NEW w \in Worker, Step(w) PROVE RacesAreKnown'
  BY <1>2, StepKeepsRaces
<1>3. ASSUME NEW w \in Worker, Crash(w) PROVE RacesAreKnown'
  <2>1. Ends(w) /\ invitations' = invitations /\ raced' = raced
    BY <1>3, FinishEnds DEF Crash, Sound
  <2> QED
    BY <2>1, RacesStayKnown, RequestFields DEF Pending, Sent, Inviting, Busy, Ends, Sound
<1>4. ASSUME UNCHANGED <<invitations, req, raced>> PROVE RacesAreKnown'
  BY <1>4, RacesStayKnown, RequestFields DEF Pending, Sent, Inviting, Busy, Sound
<1>5. CASE \E p \in Place : AddMember(p) \/ RemoveMember(p)
  BY <1>4, <1>5 DEF AddMember, RemoveMember, history
<1>6. CASE UNCHANGED vars
  BY <1>4, <1>6 DEF vars, history
<1> QED
  BY <1>1, <1>2, <1>3, <1>5, <1>6, StartInviteKeepsRaces DEF Next, Start

(* Two invitations to a place are pending together only when the requests   *)
(* that created them overlapped.                                            *)
THEOREM TwinsAreRaced == Spec => []TwinsNeedARace
<1>1. Init => RacesAreKnown
  BY DEF Init, RacesAreKnown, InvitersRace, LatecomersRace, TwinsNeedARace, Twins,
         Inviting, Busy, Pending, Sent
<1>2. Sound /\ RacesAreKnown /\ [Next]_vars => RacesAreKnown'
  BY NextKeepsRaces
<1>3. RacesAreKnown => TwinsNeedARace
  BY DEF RacesAreKnown
<1> QED
  BY <1>1, <1>2, <1>3, AlwaysSound, PTL DEF Spec
-----------------------------------------------------------------------------
(* Answers *)

(* Only one request is about an invitation that is not contested. *)
AnswersDoNotOverlap ==
  \A i \in Invitation \ contested : \A w, v \in Worker :
    Concerns(w, i) /\ Concerns(v, i) => w = v

(* Such a request knows the status of its invitation: the one it read, or   *)
(* the refusal that it has committed.                                       *)
AnswersAreFresh ==
  \A w \in Worker :
    Busy(w) /\ ~Inviting(w) /\ req[w].invitation \notin contested =>
      invitations[req[w].invitation].status =
        IF req[w].step = "notify" THEN "declined" ELSE req[w].was

(* The sender knows the status, or is about to be told. *)
SendersAreTold ==
  \A i \in Invitation \ contested : Sent(i) =>
    \/ invitations[i].told = invitations[i].status
    \/ \E w \in Worker : Concerns(w, i) /\ req[w].step = "notify"

AnswersAreKnown == AnswersDoNotOverlap /\ AnswersAreFresh /\ SendersAreTold

(* A request of w that ends or goes on, and what it must see to. *)
LEMMA AnswersStayKnown ==
  ASSUME Sound, AnswersAreKnown, contested \subseteq contested',
         NEW w \in Worker, Ends(w) \/ (\E st : Goes(w, st)),
         NEW i \in Invitation, i = req[w].invitation,
         \A j \in Invitation \ {i} : invitations'[j] = invitations[j],
         i \notin contested' =>
           /\ Busy(w)' /\ ~Inviting(w) =>
                invitations'[i].status =
                  IF req'[w].step = "notify" THEN "declined" ELSE req[w].was
           /\ Sent(i)' => \/ invitations'[i].told = invitations'[i].status
                          \/ Busy(w)' /\ req'[w].step = "notify"
  PROVE  AnswersAreKnown'
<1>1. \A v \in Worker : Busy(v)' =>
        Busy(v) /\ req'[v].invitation = req[v].invitation /\ (Inviting(v)' <=> Inviting(v))
  BY DEF Ends, Goes, Busy, Inviting
<1>2. AnswersDoNotOverlap'
  BY <1>1 DEF AnswersAreKnown, AnswersDoNotOverlap, Concerns
<1>3. Busy(w) /\ \A v \in Worker \ {w} : req'[v] = req[v]
  BY DEF Ends, Goes
<1>4. AnswersAreFresh'
  <2> SUFFICES ASSUME NEW v \in Worker, Busy(v)', ~Inviting(v)',
                      req'[v].invitation \notin contested'
               PROVE  invitations'[req'[v].invitation].status =
                        IF req'[v].step = "notify" THEN "declined" ELSE req'[v].was
    BY DEF AnswersAreFresh
  <2>1. CASE v = w
    <3>1. req'[w].was = req[w].was
      BY <2>1 DEF Ends, Goes
    <3> QED
      BY <1>1, <2>1, <3>1
  <2>2. CASE v # w
    <3>1. /\ req'[v] = req[v] /\ Busy(v) /\ ~Inviting(v)
          /\ req[v].invitation \in Invitation \ contested
      BY <1>1, <1>3, <2>2, RequestFields DEF Sound
    <3>2. req[v].invitation # i
      BY <1>3, <2>2, <3>1 DEF AnswersAreKnown, AnswersDoNotOverlap, Concerns
    <3> QED
      BY <3>1, <3>2 DEF AnswersAreKnown, AnswersAreFresh
  <2> QED
    BY <2>1, <2>2
<1>5. SendersAreTold'
  <2> SUFFICES ASSUME NEW j \in Invitation \ contested', Sent(j)',
                      invitations'[j].told # invitations'[j].status
               PROVE  \E v \in Worker : Concerns(v, j)' /\ req'[v].step = "notify"
    BY DEF SendersAreTold
  <2>1. CASE j = i
    BY <1>1, <2>1 DEF Concerns
  <2>2. CASE j # i
    <3>1. PICK v \in Worker : Concerns(v, j) /\ req[v].step = "notify"
      BY <2>2 DEF AnswersAreKnown, SendersAreTold, Sent
    <3>2. v # w
      BY <2>2, <3>1 DEF Concerns
    <3> QED
      BY <1>3, <3>1, <3>2 DEF Concerns, Busy
  <2> QED
    BY <2>1, <2>2
<1> QED
  BY <1>2, <1>4, <1>5 DEF AnswersAreKnown

LEMMA StartKeepsAnswers ==
  ASSUME Sound, AnswersAreKnown, NEW w \in Worker, Start(w)
  PROVE  AnswersAreKnown'
<1>1. /\ ~Busy(w) /\ Busy(w)' /\ req'[w].step # "notify"
      /\ \A v \in Worker \ {w} : req'[v] = req[v]
      /\ invitations' = invitations
  BY StartsFirst
<1>2. PICK i \in Invitation :
        /\ req'[w].invitation = i
        /\ contested \subseteq contested'
        /\ i \notin contested' => \A v \in Worker : ~Concerns(v, i)
        /\ ~Inviting(w)' => req'[w].was = invitations[i].status
  <2>1. ASSUME NEW j \in Invitation, NEW p \in Place, StartInvite(w, j, p)
        PROVE  /\ req'[w].invitation = j /\ Inviting(w)' /\ contested' = contested
               /\ \A v \in Worker : ~Concerns(v, j)
    BY <1>1, <2>1 DEF StartInvite, Inviting, Busy, Sound, TypeOK
  <2>2. ASSUME NEW j \in Invitation, NEW op \in {"accept", "decline"}, StartAnswer(w, j, op)
        PROVE  /\ req'[w].invitation = j /\ contested \subseteq contested'
               /\ j \notin contested' => \A v \in Worker : ~Concerns(v, j)
               /\ req'[w].was = invitations[j].status
    BY <2>2 DEF StartAnswer, Sound, TypeOK
  <2> QED
    BY <2>1, <2>2 DEF Start
<1>3. AnswersDoNotOverlap'
  BY <1>1, <1>2 DEF AnswersAreKnown, AnswersDoNotOverlap, Concerns, Busy
<1>4. AnswersAreFresh'
  BY <1>1, <1>2 DEF AnswersAreKnown, AnswersAreFresh, Inviting, Busy
<1>5. SendersAreTold'
  BY <1>1, <1>2 DEF AnswersAreKnown, SendersAreTold, Concerns, Busy, Sent
<1> QED
  BY <1>3, <1>4, <1>5 DEF AnswersAreKnown

LEMMA CommitAcceptKeepsAnswers ==
  ASSUME Sound, AnswersAreKnown, NEW w \in Worker, CommitAccept(w)
  PROVE  /\ AnswersAreKnown'
         /\ req[w].invitation \notin contested =>
              invitations'[req[w].invitation].status = "accepted"
<1> DEFINE i == req[w].invitation
<1>1. /\ Busy(w) /\ req[w].op = "accept" /\ req[w].step = "commit" /\ Ends(w)
      /\ contested' = contested
  BY FinishEnds DEF CommitAccept, At, history, Sound
<1>2. i \in Invitation
  BY <1>1, RequestFields DEF Sound
<1>3. RowBecomes(i, StatusLeft(req[w]), "accepted")
  BY AcceptRow
<1>4. i \notin contested => StatusLeft(req[w]) = "accepted"
  BY <1>1 DEF AnswersAreKnown, AnswersAreFresh, StatusLeft, Writes, Answer, Inviting
<1>5. AnswersAreKnown'
  BY <1>1, <1>2, <1>3, <1>4, AnswersStayKnown DEF RowBecomes, Ends
<1> QED
  BY <1>3, <1>4, <1>5 DEF RowBecomes

LEMMA CommitDeclineKeepsAnswers ==
  ASSUME Sound, AnswersAreKnown, NEW w \in Worker, CommitDecline(w)
  PROVE  AnswersAreKnown'
<1> DEFINE i == req[w].invitation
<1>1. /\ Busy(w) /\ req[w].op = "decline" /\ req[w].step = "commit"
      /\ Goes(w, "notify") /\ contested' = contested
  BY AdvanceGoes DEF CommitDecline, At, history, Sound
<1>2. i \in Invitation
  BY <1>1, RequestFields DEF Sound
<1>3. RowBecomes(i, StatusLeft(req[w]), invitations[i].told)
  BY DeclineRow
<1>4. i \notin contested => StatusLeft(req[w]) = "declined"
  BY <1>1 DEF AnswersAreKnown, AnswersAreFresh, StatusLeft, Writes, Answer, Inviting
<1> QED
  BY <1>1, <1>2, <1>3, <1>4, AnswersStayKnown DEF RowBecomes, Goes

LEMMA StepKeepsAnswers ==
  ASSUME Sound, AnswersAreKnown, NEW w \in Worker, Step(w)
  PROVE  AnswersAreKnown'
<1> DEFINE i == req[w].invitation
<1>1. TypeOK /\ Busy(w) /\ i \in Invitation
  BY RequestFields DEF Sound, Step, ValidatePlace, InsertMember, CheckOthers,
       WriteInvitation, CommitInvite, CommitAccept, CommitDecline, NotifySender, At
<1>2. CASE CommitAccept(w)
  BY <1>2, CommitAcceptKeepsAnswers
<1>3. CASE CommitDecline(w)
  BY <1>3, CommitDeclineKeepsAnswers
<1>4. CASE CommitInvite(w)
  <2>1. Ends(w) /\ contested' = contested
    BY <1>1, <1>4, FinishEnds DEF CommitInvite, history
  <2>2. /\ invitations'[i].told = invitations'[i].status
        /\ \A j \in Invitation \ {i} : invitations'[j] = invitations[j]
    BY <1>4, CommitInviteRow
  <2> QED
    BY <1>1, <2>1, <2>2, AnswersStayKnown DEF Ends
<1>5. CASE NotifySender(w)
  <2>1. /\ Ends(w) /\ contested' = contested
        /\ req[w].step = "notify" /\ req[w].op = "decline"
    BY <1>1, <1>5, FinishEnds, NotifyRow DEF NotifySender, At, history
  <2>2. RowBecomes(i, invitations[i].status, "declined")
    BY <1>5, NotifyRow
  <2>3. i \notin contested => invitations[i].status = "declined"
    BY <1>1, <2>1 DEF AnswersAreKnown, AnswersAreFresh, Inviting
  <2> QED
    BY <1>1, <2>1, <2>2, <2>3, AnswersStayKnown DEF Ends, RowBecomes
<1>6. CASE ValidatePlace(w) \/ InsertMember(w) \/ CheckOthers(w) \/ WriteInvitation(w)
  <2>1. /\ UNCHANGED <<invitations, contested>> /\ req[w].step # "notify"
        /\ Ends(w) \/ \E st \in {"insert", "check", "write", "commit"} : Goes(w, st)
    BY <1>1, <1>6, FinishEnds, AdvanceGoes
       DEF ValidatePlace, InsertMember, CheckOthers, WriteInvitation, At, history
  <2>2. ~Inviting(w) /\ i \notin contested => invitations[i].status = req[w].was
    BY <1>1, <2>1 DEF AnswersAreKnown, AnswersAreFresh
  <2>3. i \notin contested /\ Sent(i) => invitations[i].told = invitations[i].status
    BY <1>1, <2>1 DEF AnswersAreKnown, SendersAreTold, AnswersDoNotOverlap, Concerns
  <2>4. Busy(w)' => req'[w].step # "notify"
    BY <2>1 DEF Ends, Goes
  <2> QED
    BY <1>1, <2>1, <2>2, <2>3, <2>4, AnswersStayKnown DEF Sent
<1> QED
  BY <1>2, <1>3, <1>4, <1>5, <1>6 DEF Step

LEMMA NextKeepsAnswers ==
  ASSUME Sound, AnswersAreKnown, [Next]_vars
  PROVE  AnswersAreKnown'
<1>1. ASSUME NEW w \in Worker, Crash(w) PROVE AnswersAreKnown'
  <2> DEFINE i == req[w].invitation
  <2>1. /\ Ends(w) /\ i \in Invitation /\ invitations' = invitations
        /\ contested \subseteq contested'
        /\ i \notin contested' => i \notin contested /\ req[w].step # "notify"
    BY <1>1, FinishEnds, RequestFields DEF Crash, Sound, At
  <2>2. i \notin contested' /\ Sent(i) => invitations[i].told = invitations[i].status
    BY <2>1 DEF AnswersAreKnown, SendersAreTold, AnswersDoNotOverlap, Concerns, Ends
  <2> QED
    BY <2>1, <2>2, AnswersStayKnown DEF Ends, Sent
<1>2. ASSUME UNCHANGED <<invitations, req, contested>> PROVE AnswersAreKnown'
  BY <1>2 DEF AnswersAreKnown, AnswersDoNotOverlap, AnswersAreFresh, SendersAreTold,
              Concerns, Inviting, Busy, Sent
<1>3. CASE \E p \in Place : AddMember(p) \/ RemoveMember(p)
  BY <1>2, <1>3 DEF AddMember, RemoveMember, history
<1>4. CASE UNCHANGED vars
  BY <1>2, <1>4 DEF vars, history
<1> QED
  BY <1>1, <1>3, <1>4, StartKeepsAnswers, StepKeepsAnswers DEF Next

LEMMA AlwaysKnown == Spec => []AnswersAreKnown
<1>1. Init => AnswersAreKnown
  BY DEF Init, AnswersAreKnown, AnswersDoNotOverlap, AnswersAreFresh, SendersAreTold,
         Concerns, Busy, Sent
<1>2. Sound /\ AnswersAreKnown /\ [Next]_vars => AnswersAreKnown'
  BY NextKeepsAnswers
<1> QED
  BY <1>1, <1>2, AlwaysSound, PTL DEF Spec

(* The sender of an invitation that nobody is answering was told the answer *)
(* that stands, unless answers overlapped or a notification was lost.       *)
THEOREM SendersAreInformed == Spec => []SendersKnowTheAnswer
<1>1. AnswersAreKnown => SendersKnowTheAnswer
  BY DEF AnswersAreKnown, SendersAreTold, SendersKnowTheAnswer
<1> QED
  BY <1>1, AlwaysKnown, PTL

(* A recipient who becomes a member by a request of theirs leaves an        *)
(* accepted invitation, unless answers to it overlapped.                    *)
THEOREM JoiningAccepts == Spec => JoinsAreAccepted
<1> DEFINE Accepts == req' # req =>
       \A p \in members' \ members : \E i \in Invitation :
         /\ Sent(i) /\ invitations[i].place = p
         /\ invitations'[i].status = "accepted" \/ i \in contested
<1>1. Sound /\ AnswersAreKnown /\ [Next]_vars => Accepts
  <2> SUFFICES ASSUME Sound, AnswersAreKnown, [Next]_vars, req' # req,
                      NEW p \in members' \ members
               PROVE  \E i \in Invitation :
                        /\ Sent(i) /\ invitations[i].place = p
                        /\ invitations'[i].status = "accepted" \/ i \in contested
    OBVIOUS
  <2>1. PICK w \in Worker : CommitAccept(w)
    BY DEF Next, Start, StartInvite, StartAnswer, Step, ValidatePlace, InsertMember,
           CheckOthers, WriteInvitation, CommitInvite, CommitDecline, NotifySender,
           Crash, AddMember, RemoveMember, vars
  <2>2. Busy(w) /\ req[w].op # "invite" /\ p = req[w].place
    BY <2>1 DEF CommitAccept, At
  <2>3. /\ req[w].invitation \in Invitation /\ Sent(req[w].invitation)
        /\ invitations[req[w].invitation].place = p
    BY <2>2, AnswerFacts
  <2> QED
    BY <2>1, <2>3, CommitAcceptKeepsAnswers
<1> QED
  BY <1>1, AlwaysSound, AlwaysKnown, PTL DEF Spec, JoinsAreAccepted
=============================================================================
