------------------------- MODULE NotificationProofs -------------------------
(***************************************************************************)
(* What holds of NotificationChannels for any scripts on the page and any  *)
(* number of commands, answers and toasts.                                 *)
(***************************************************************************)
EXTENDS NotificationChannels, TLAPS

(* Nothing is under way, and nothing streamed, without a connection. *)
ClosedIsEmpty ==
  ~Open => /\ \A c \in Command : commands[c] = 0
           /\ \A a \in Answer : inbox[a] = 0
           /\ streams = {}

(* A script has one object of a sort at most, and the manager has none that *)
(* it does not hold a handle to.                                            *)
ObjectsAreSingle ==
  \A s \in Script, k \in Kind :
    /\ subs[<<s, k>>] <= 1
    /\ s # "manager" /\ s \notin ran => subs[<<s, k>>] = 0
    /\ s = "manager" /\ k \notin handles => subs[<<s, k>>] = 0

(* Alerts are streamed and sent to the connections of administrators. *)
AlertsInHand ==
  "admin" \in streams \/ inbox[<<"message", "admin">>] > 0 => conn = "admin"

(* As long as the page has not given up k, no command to unsubscribe it is  *)
(* under way, so that what was once confirmed stays streamed.               *)
ConfirmationsStand ==
  Open => \A k \in Kind \ left :
            /\ commands[<<"unsubscribe", k>>] = 0
            /\ inbox[<<"confirm", k>>] > 0 => k \in streams
            /\ \A s \in Script :
                 Live(s, k) /\ <<s, k>> \notin pending => k \in streams

Sound == /\ TypeOK /\ ClosedIsEmpty /\ ObjectsAreSingle
         /\ AlertsInHand /\ ConfirmationsStand
-----------------------------------------------------------------------------
LEMMA InitSound == Init => Sound
  BY ChannelsAssumption
  DEF Init, Sound, TypeOK, ClosedIsEmpty, ObjectsAreSingle, AlertsInHand,
      ConfirmationsStand, Nothing, Live, Open, Role, Sub, Command, Answer, Kind

LEMMA Counted ==
  ASSUME TypeOK, NEW s \in Script, NEW k \in Kind
  PROVE  subs[<<s, k>>] \in Nat
  BY DEF TypeOK, Sub

(* Creating an object of a sort that the script has none of. *)
LEMMA CreateKeepsSound ==
  ASSUME Sound, NEW s \in Script, NEW K \in SUBSET Kind, Create(s, K),
         \A k \in K : subs[<<s, k>>] = 0,
         ran' \subseteq Script, ran \subseteq ran', handles' \subseteq Kind,
         handles \subseteq handles',
         s # "manager" => s \in ran', s = "manager" => K \subseteq handles',
         UNCHANGED <<inbox, streams, toasts, left>>
  PROVE  Sound'
<1>1. /\ TypeOK /\ ClosedIsEmpty /\ ObjectsAreSingle
      /\ AlertsInHand /\ ConfirmationsStand
  BY DEF Sound
<1>2. TypeOK'
  BY <1>1 DEF TypeOK, Create, Send, Sub, Open
<1>3. /\ Open' <=> Open
      /\ Open => conn' = conn
  BY <1>1 DEF Create, Open, Role
<1>4. \A r \in Script, k \in Kind :
        subs'[<<r, k>>] = IF r = s /\ k \in K THEN subs[<<r, k>>] + 1 ELSE subs[<<r, k>>]
  BY <1>1 DEF Create, Sub
<1>5. \A k \in Kind : commands'[<<"unsubscribe", k>>] = commands[<<"unsubscribe", k>>]
  BY <1>1 DEF Create, Send, Command, Once, TypeOK
<1>6. ~Open => commands' = commands
  BY <1>1 DEF Create, Send, TypeOK
<1>7. ClosedIsEmpty'
  BY <1>1, <1>3, <1>6 DEF ClosedIsEmpty
<1>8. ObjectsAreSingle'
  <2> SUFFICES ASSUME NEW r \in Script, NEW k \in Kind
               PROVE  /\ subs'[<<r, k>>] <= 1
                      /\ r # "manager" /\ r \notin ran' => subs'[<<r, k>>] = 0
                      /\ r = "manager" /\ k \notin handles' => subs'[<<r, k>>] = 0
    BY DEF ObjectsAreSingle
  <2>1. CASE r = s /\ k \in K
    BY <1>4, <2>1
  <2>2. CASE ~(r = s /\ k \in K)
    BY <1>1, <1>4, <2>2 DEF ObjectsAreSingle
  <2> QED
    BY <2>1, <2>2
<1>9. AlertsInHand'
  BY <1>1, <1>3 DEF AlertsInHand, ClosedIsEmpty, Answer, Kind, Open
<1>10. ConfirmationsStand'
  <2> SUFFICES ASSUME Open, NEW k \in Kind \ left
               PROVE  /\ commands'[<<"unsubscribe", k>>] = 0
                      /\ inbox[<<"confirm", k>>] > 0 => k \in streams
                      /\ \A r \in Script :
                           subs'[<<r, k>>] > 0 /\ <<r, k>> \notin pending' => k \in streams
    BY <1>3 DEF ConfirmationsStand, Live
  <2> QED
    BY <1>1, <1>4, <1>5 DEF ConfirmationsStand, Create, Live
<1> QED
  BY <1>2, <1>7, <1>8, <1>9, <1>10 DEF Sound

LEMMA UnsubscribeAllKeepsSound ==
  ASSUME Sound, UnsubscribeAll
  PROVE  Sound'
<1>1. /\ TypeOK /\ ClosedIsEmpty /\ ObjectsAreSingle
      /\ AlertsInHand /\ ConfirmationsStand
  BY DEF Sound
<1>2. \A s \in Script, k \in Kind :
        subs'[<<s, k>>] = IF s = "manager" /\ k \in handles THEN 0 ELSE subs[<<s, k>>]
  <2> SUFFICES ASSUME NEW s \in Script, NEW k \in Kind
               PROVE  subs'[<<s, k>>] = IF s = "manager" /\ k \in handles
                                        THEN 0 ELSE subs[<<s, k>>]
    OBVIOUS
  <2>1. subs'[<<s, k>>] = IF s = "manager" /\ k \in handles /\ subs[<<"manager", k>>] > 0
                          THEN subs[<<s, k>>] - 1 ELSE subs[<<s, k>>]
    BY DEF UnsubscribeAll, StillListed, Live, Sub
  <2>2. subs[<<s, k>>] \in Nat /\ subs[<<s, k>>] <= 1
    BY <1>1, Counted DEF ObjectsAreSingle
  <2> QED
    BY <2>1, <2>2
<1>3. TypeOK'
  <2>1. subs' \in [Sub -> Nat]
    <3>1. \A x \in Sub : subs'[x] \in Nat
      BY <1>1, <1>2 DEF Sub, TypeOK
    <3> QED
      BY <3>1 DEF UnsubscribeAll
  <2> QED
    BY <1>1, <2>1 DEF TypeOK, UnsubscribeAll, Send
<1>4. Open' = Open
  BY DEF UnsubscribeAll, Open
<1>5. ClosedIsEmpty'
  BY <1>1, <1>4 DEF ClosedIsEmpty, UnsubscribeAll, Send, TypeOK
<1>6. ObjectsAreSingle'
  <2> SUFFICES ASSUME NEW s \in Script, NEW k \in Kind
               PROVE  /\ subs'[<<s, k>>] <= 1
                      /\ s # "manager" /\ s \notin ran => subs'[<<s, k>>] = 0
                      /\ s = "manager" => subs'[<<s, k>>] = 0
    BY DEF ObjectsAreSingle, UnsubscribeAll
  <2> QED
    BY <1>1, <1>2 DEF ObjectsAreSingle
<1>7. AlertsInHand'
  BY <1>1 DEF AlertsInHand, UnsubscribeAll
<1>8. ConfirmationsStand'
  <2> SUFFICES ASSUME Open, NEW k \in Kind \ left'
               PROVE  /\ commands'[<<"unsubscribe", k>>] = 0
                      /\ inbox[<<"confirm", k>>] > 0 => k \in streams
                      /\ \A r \in Script :
                           subs'[<<r, k>>] > 0 /\ <<r, k>> \notin pending' => k \in streams
    BY <1>4 DEF ConfirmationsStand, Live, UnsubscribeAll
  <2>1. k \in Kind \ left /\ (k \in handles => Watched(k)')
    BY DEF UnsubscribeAll
  <2>2. commands'[<<"unsubscribe", k>>] = commands[<<"unsubscribe", k>>]
    BY <1>1, <2>1 DEF UnsubscribeAll, Send, Once, LastOne, TypeOK, Command
  <2>3. ASSUME NEW r \in Script, subs'[<<r, k>>] > 0, <<r, k>> \notin pending'
        PROVE  Live(r, k) /\ <<r, k>> \notin pending
    BY <1>2, <2>3 DEF Live, UnsubscribeAll
  <2> QED
    BY <1>1, <2>1, <2>2, <2>3 DEF ConfirmationsStand
<1> QED
  BY <1>3, <1>5, <1>6, <1>7, <1>8 DEF Sound
-----------------------------------------------------------------------------
LEMMA ConnectKeepsSound ==
  ASSUME Sound, NEW r \in Role, Connect(r)
  PROVE  Sound'
<1>1. /\ TypeOK /\ ClosedIsEmpty /\ ObjectsAreSingle /\ ~Open /\ Open'
  BY DEF Sound, Connect, Open, Role
<1>2. TypeOK'
  BY <1>1 DEF TypeOK, Connect, Sub
<1>3. \A k \in Kind : /\ commands'[<<"unsubscribe", k>>] = 0
                      /\ inbox'[<<"confirm", k>>] = 0
                      /\ inbox'[<<"message", k>>] = 0
  BY <1>1 DEF Connect, ClosedIsEmpty, Command, Answer
<1>4. ObjectsAreSingle' /\ ClosedIsEmpty'
  BY <1>1 DEF Connect, ObjectsAreSingle, ClosedIsEmpty
<1>5. AlertsInHand'
  BY <1>1, <1>3 DEF AlertsInHand, Connect, ClosedIsEmpty, Kind
<1>6. \A s \in Script, k \in Kind : subs'[<<s, k>>] > 0 => <<s, k>> \in pending'
  BY DEF Connect, Sub
<1> QED
  <2>1. \A k \in Kind \ left' :
          /\ commands'[<<"unsubscribe", k>>] = 0
          /\ inbox'[<<"confirm", k>>] > 0 => k \in streams'
          /\ \A s \in Script :
               subs'[<<s, k>>] > 0 /\ <<s, k>> \notin pending' => k \in streams'
    <3> SUFFICES ASSUME NEW k \in Kind
                 PROVE  /\ commands'[<<"unsubscribe", k>>] = 0
                        /\ ~(inbox'[<<"confirm", k>>] > 0)
                        /\ \A s \in Script :
                             subs'[<<s, k>>] > 0 => <<s, k>> \in pending'
      OBVIOUS
    <3>1. commands'[<<"unsubscribe", k>>] = 0 /\ inbox'[<<"confirm", k>>] = 0
      BY <1>3
    <3>2. \A s \in Script : subs'[<<s, k>>] > 0 => <<s, k>> \in pending'
      BY <1>6
    <3> QED
      BY <3>1, <3>2, SMT
  <2>2. ConfirmationsStand'
    BY <2>1 DEF ConfirmationsStand, Live
  <2> QED
    BY <1>2, <1>4, <1>5, <2>2 DEF Sound

LEMMA CloseKeepsSound ==
  ASSUME Sound, Close \/ Refuse
  PROVE  Sound'
<1>1. ~Open'
  BY DEF Close, Refuse, Open, Role
<1>2. TypeOK' /\ ClosedIsEmpty'
  <2>1. CASE Close
    BY <2>1, ChannelsAssumption
    DEF Sound, TypeOK, ClosedIsEmpty, Close, Nothing, client
  <2>2. CASE Refuse
    BY <2>2 DEF Sound, TypeOK, ClosedIsEmpty, Refuse, client, Open, Role
  <2> QED
    BY <2>1, <2>2
<1>3. ObjectsAreSingle'
  BY DEF Sound, ObjectsAreSingle, Close, Refuse, client
<1>4. AlertsInHand'
  BY <1>1, <1>2 DEF AlertsInHand, ClosedIsEmpty, Answer, Kind
<1> QED
  BY <1>1, <1>2, <1>3, <1>4 DEF Sound, ConfirmationsStand

LEMMA RetryKeepsSound ==
  ASSUME Sound, Retry
  PROVE  Sound'
<1>1. \A k \in Kind : commands'[<<"unsubscribe", k>>] = commands[<<"unsubscribe", k>>]
  BY DEF Sound, TypeOK, Retry, Send, Command
<1> QED
  BY <1>1 DEF Sound, TypeOK, Retry, Send, client, ClosedIsEmpty, ObjectsAreSingle,
              AlertsInHand, ConfirmationsStand, Open, Live
-----------------------------------------------------------------------------
LEMMA TakeKeeps ==
  ASSUME Sound, NEW k \in Kind, NEW a \in {"confirm", "reject", "message"}, Take(a, k)
  PROVE  /\ Open /\ Open'
         /\ inbox' \in [Answer -> 0..MaxAnswers]
         /\ \A b \in Answer : inbox'[b] <= inbox[b]
  BY ChannelsAssumption
  DEF Sound, TypeOK, Take, ClosedIsEmpty, Open, Answer

(* The page receives an answer. *)
LEMMA ReceivingKeepsSound ==
  ASSUME Sound, NEW k \in Kind, Confirmed(k) \/ Rejected(k) \/ Received(k)
  PROVE  Sound'
<1>1. /\ TypeOK /\ ClosedIsEmpty /\ ObjectsAreSingle
      /\ AlertsInHand /\ ConfirmationsStand
  BY DEF Sound
<1>2. /\ Open /\ Open' /\ inbox' \in [Answer -> 0..MaxAnswers]
      /\ \A b \in Answer : inbox'[b] <= inbox[b]
      /\ UNCHANGED <<ran, handles, conn, commands, streams, left>>
  BY TakeKeeps DEF Confirmed, Rejected, Received, Take
<1>3. inbox \in [Answer -> 0..MaxAnswers] /\ MaxAnswers \in Nat
  BY <1>1, ChannelsAssumption DEF TypeOK
<1>4. /\ subs' \in [Sub -> Nat] /\ \A x \in Sub : subs'[x] <= subs[x]
      /\ pending' \subseteq pending
      /\ toasts' \in [Sub -> 0..MaxToasts]
  <2>1. CASE Confirmed(k)
    BY <1>1, <2>1 DEF Confirmed, TypeOK
  <2>2. CASE Rejected(k)
    BY <1>1, <2>2 DEF Rejected, TypeOK
  <2>3. CASE Received(k)
    <3>1. \A x \in Sub : toasts'[x] \in 0..MaxToasts
      BY <1>1, <2>3, ChannelsAssumption DEF Received, TypeOK
    <3> QED
      BY <1>1, <2>3, <3>1 DEF Received, TypeOK
  <2> QED
    BY <2>1, <2>2, <2>3
<1>5. TypeOK'
  BY <1>1, <1>2, <1>4 DEF TypeOK
<1>6. ClosedIsEmpty'
  BY <1>2 DEF ClosedIsEmpty
<1>7. ObjectsAreSingle'
  <2>1. \A s \in Script, j \in Kind :
          /\ subs[<<s, j>>] \in Nat /\ subs'[<<s, j>>] \in Nat
          /\ subs'[<<s, j>>] <= subs[<<s, j>>]
    BY <1>1, <1>4 DEF TypeOK, Sub
  <2>2. /\ ran' = ran /\ handles' = handles
    BY <1>2
  <2> SUFFICES ASSUME NEW s \in Script, NEW j \in Kind
               PROVE  /\ subs'[<<s, j>>] <= 1
                      /\ s # "manager" /\ s \notin ran => subs'[<<s, j>>] = 0
                      /\ s = "manager" /\ j \notin handles => subs'[<<s, j>>] = 0
    BY <2>2 DEF ObjectsAreSingle
  <2> QED
    BY <1>1, <2>1 DEF ObjectsAreSingle
<1>8. AlertsInHand'
  BY <1>1, <1>2, <1>3 DEF AlertsInHand, Answer, Kind
<1>9. ASSUME NEW j \in Kind \ left
      PROVE  /\ commands'[<<"unsubscribe", j>>] = 0
             /\ inbox'[<<"confirm", j>>] > 0 => j \in streams
             /\ \A s \in Script :
                  subs'[<<s, j>>] > 0 /\ <<s, j>> \notin pending' => j \in streams
  <2>1. /\ commands'[<<"unsubscribe", j>>] = 0
        /\ inbox'[<<"confirm", j>>] > 0 => j \in streams
    BY <1>1, <1>2, <1>3 DEF ConfirmationsStand, Answer
  <2>2. ASSUME NEW s \in Script, subs'[<<s, j>>] > 0, <<s, j>> \notin pending'
        PROVE  j \in streams
    <3>1. Live(s, j)
      BY <1>1, <1>4, <2>2 DEF Live, Sub, TypeOK
    <3>2. CASE Confirmed(k) /\ j = k
      BY <1>1, <1>2, <3>2 DEF Confirmed, Take, ConfirmationsStand
    <3>3. CASE Rejected(k) /\ j = k
      BY <1>1, <2>2, <3>3 DEF Rejected, Sub
    <3>4. CASE <<s, j>> \notin pending
      BY <1>1, <1>2, <3>1, <3>4 DEF ConfirmationsStand
    <3> QED
      BY <2>2, <3>2, <3>3, <3>4 DEF Confirmed, Rejected, Received
  <2> QED
    BY <2>1, <2>2
<1>10. ConfirmationsStand'
  BY <1>2, <1>9 DEF ConfirmationsStand, Live
<1> QED
  BY <1>5, <1>6, <1>7, <1>8, <1>10 DEF Sound
-----------------------------------------------------------------------------
LEMMA RemoveToastKeepsSound ==
  ASSUME Sound, NEW s \in Script, NEW k \in Kind, RemoveToast(s, k)
  PROVE  Sound'
<1>1. toasts' \in [Sub -> 0..MaxToasts]
  BY ChannelsAssumption DEF Sound, TypeOK, RemoveToast, Sub
<1> QED
  BY <1>1 DEF Sound, TypeOK, RemoveToast, client, ClosedIsEmpty, ObjectsAreSingle,
              AlertsInHand, ConfirmationsStand, Open, Live

(* No command to unsubscribe a kind that was not given up comes about by    *)
(* executing others.                                                        *)
LEMMA NoneLeft ==
  ASSUME ConfirmationsStand, Open, NEW j \in Kind \ left,
         commands' \in [Command -> 0..MaxCommands],
         \A c \in Command : commands'[c] <= commands[c]
  PROVE  commands'[<<"unsubscribe", j>>] = 0
<1>1. <<"unsubscribe", j>> \in Command
  BY DEF Command
<1>2. commands[<<"unsubscribe", j>>] = 0
  BY DEF ConfirmationsStand
<1>3. commands'[<<"unsubscribe", j>>] \in 0..MaxCommands
  BY <1>1
<1> QED
  BY <1>1, <1>2, <1>3, ChannelsAssumption

(* What the server does for a command leaves the page as it is. *)
LEMMA ExecuteKeeps ==
  ASSUME Sound, NEW k \in Kind, NEW verb \in {"subscribe", "unsubscribe"},
         Execute(verb, k)
  PROVE  /\ Open /\ Open' /\ commands[<<verb, k>>] > 0
         /\ commands' \in [Command -> 0..MaxCommands]
         /\ \A c \in Command : commands'[c] <= commands[c]
         /\ UNCHANGED <<ran, subs, handles, pending, conn, toasts, left>>
  BY ChannelsAssumption
  DEF Sound, TypeOK, Execute, ClosedIsEmpty, Open, Command, client

LEMMA ReplyKeeps ==
  ASSUME Sound, NEW k \in Kind, NEW a \in {"confirm", "reject", "message"}, Reply(a, k)
  PROVE  /\ inbox' \in [Answer -> 0..MaxAnswers]
         /\ \A b \in Answer : b # <<a, k>> => inbox'[b] = inbox[b]
  BY ChannelsAssumption DEF Sound, TypeOK, Reply, Answer

LEMMA SubscribedKeepsSound ==
  ASSUME Sound, NEW k \in Kind, Subscribed(k)
  PROVE  Sound'
<1>1. /\ TypeOK /\ ClosedIsEmpty /\ ObjectsAreSingle
      /\ AlertsInHand /\ ConfirmationsStand
  BY DEF Sound
<1>2. /\ Open /\ Open'
      /\ commands' \in [Command -> 0..MaxCommands]
      /\ \A c \in Command : commands'[c] <= commands[c]
      /\ UNCHANGED <<ran, subs, handles, pending, conn, toasts, left>>
  BY ExecuteKeeps DEF Subscribed
<1>3. /\ inbox' \in [Answer -> 0..MaxAnswers]
      /\ streams \subseteq streams' /\ streams' \subseteq streams \cup {k}
      /\ \A j \in Kind : inbox'[<<"message", j>>] = inbox[<<"message", j>>]
      /\ k \in streams' \ streams => Admits(k)
      /\ \A j \in Kind : \/ inbox'[<<"confirm", j>>] = inbox[<<"confirm", j>>]
                         \/ j \in streams'
  <2>1. CASE UNCHANGED <<inbox, streams>>
    BY <1>1, <2>1 DEF TypeOK
  <2>2. CASE Reply("confirm", k) /\ streams' = streams \cup {k} /\ Admits(k)
    BY <1>1, <2>2, ReplyKeeps DEF Answer
  <2>3. CASE Reply("reject", k) /\ streams' = streams
    BY <1>1, <2>3, ReplyKeeps DEF Answer
  <2> QED
    BY <2>1, <2>2, <2>3 DEF Subscribed
<1>4. TypeOK'
  BY <1>1, <1>2, <1>3 DEF TypeOK
<1>5. ClosedIsEmpty' /\ ObjectsAreSingle'
  BY <1>1, <1>2 DEF ClosedIsEmpty, ObjectsAreSingle
<1>6. AlertsInHand'
  BY <1>1, <1>2, <1>3 DEF AlertsInHand, Admits, Kind
<1>7. ConfirmationsStand'
  <2> SUFFICES ASSUME NEW j \in Kind \ left
               PROVE  /\ commands'[<<"unsubscribe", j>>] = 0
                      /\ inbox'[<<"confirm", j>>] > 0 => j \in streams'
                      /\ \A s \in Script :
                           subs[<<s, j>>] > 0 /\ <<s, j>> \notin pending => j \in streams'
    BY <1>2 DEF ConfirmationsStand, Live
  <2>1. commands'[<<"unsubscribe", j>>] = 0
    BY <1>1, <1>2, NoneLeft
  <2> QED
    BY <1>1, <1>2, <1>3, <2>1 DEF ConfirmationsStand, Live
<1> QED
  BY <1>4, <1>5, <1>6, <1>7 DEF Sound

LEMMA UnsubscribedKeepsSound ==
  ASSUME Sound, NEW k \in Kind, Unsubscribed(k)
  PROVE  Sound'
<1>1. /\ TypeOK /\ ClosedIsEmpty /\ ObjectsAreSingle
      /\ AlertsInHand /\ ConfirmationsStand
  BY DEF Sound
<1>2. /\ Open /\ Open' /\ commands[<<"unsubscribe", k>>] > 0
      /\ commands' \in [Command -> 0..MaxCommands]
      /\ \A c \in Command : commands'[c] <= commands[c]
      /\ UNCHANGED <<ran, subs, handles, pending, conn, toasts, left>>
  BY ExecuteKeeps DEF Unsubscribed
<1>3. inbox' = inbox /\ streams' = streams \ {k}
  BY DEF Unsubscribed
<1>4. k \in left
  <2>1. k \notin left => commands[<<"unsubscribe", k>>] = 0
    BY <1>1, <1>2 DEF ConfirmationsStand
  <2> QED
    BY <1>2, <2>1
<1>5. TypeOK' /\ ClosedIsEmpty' /\ ObjectsAreSingle'
  BY <1>1, <1>2, <1>3 DEF TypeOK, ClosedIsEmpty, ObjectsAreSingle
<1>6. AlertsInHand'
  BY <1>1, <1>2, <1>3 DEF AlertsInHand
<1>7. ConfirmationsStand'
  <2> SUFFICES ASSUME NEW j \in Kind \ left
               PROVE  /\ commands'[<<"unsubscribe", j>>] = 0
                      /\ inbox[<<"confirm", j>>] > 0 => j \in streams'
                      /\ \A s \in Script :
                           subs[<<s, j>>] > 0 /\ <<s, j>> \notin pending => j \in streams'
    BY <1>2, <1>3 DEF ConfirmationsStand, Live
  <2>1. commands'[<<"unsubscribe", j>>] = 0
    BY <1>1, <1>2, NoneLeft
  <2> QED
    BY <1>1, <1>2, <1>3, <1>4, <2>1 DEF ConfirmationsStand, Live
<1> QED
  BY <1>5, <1>6, <1>7 DEF Sound

LEMMA BroadcastKeepsSound ==
  ASSUME Sound, NEW k \in Kind, Broadcast(k)
  PROVE  Sound'
<1>1. /\ TypeOK /\ ClosedIsEmpty /\ ObjectsAreSingle
      /\ AlertsInHand /\ ConfirmationsStand
  BY DEF Sound
<1>2. /\ inbox' \in [Answer -> 0..MaxAnswers]
      /\ \A b \in Answer : b # <<"message", k>> => inbox'[b] = inbox[b]
      /\ k \in streams /\ Open
      /\ UNCHANGED <<ran, subs, handles, pending, conn, commands, streams, toasts, left>>
  BY <1>1, ReplyKeeps DEF Broadcast, client, ClosedIsEmpty
<1>3. TypeOK'
  BY <1>1, <1>2 DEF TypeOK
<1>4. ClosedIsEmpty' /\ ObjectsAreSingle'
  BY <1>1, <1>2 DEF ClosedIsEmpty, ObjectsAreSingle, Open
<1>5. AlertsInHand'
  BY <1>1, <1>2 DEF AlertsInHand, Answer, Kind
<1>6. ConfirmationsStand'
  BY <1>1, <1>2 DEF ConfirmationsStand, Live, Open, Answer
<1> QED
  BY <1>3, <1>4, <1>5, <1>6 DEF Sound
-----------------------------------------------------------------------------
LEMMA RunScriptKeepsSound ==
  ASSUME Sound, NEW s \in Script, RunScript(s)
  PROVE  Sound'
<1>1. PICK K \in Wanted(s) : Create(s, K)
  BY DEF RunScript
<1>2. K \in SUBSET Kind
  BY DEF Wanted, Kind
<1>3. \A k \in K : subs[<<s, k>>] = 0
  BY <1>2 DEF Sound, ObjectsAreSingle, RunScript
<1>4. /\ ran' = ran \cup {s} /\ s # "manager" /\ ran \subseteq Script
      /\ UNCHANGED <<handles, inbox, streams, toasts, left>> /\ handles \subseteq Kind
  BY DEF RunScript, Sound, TypeOK
<1> QED
  BY <1>1, <1>2, <1>3, <1>4, CreateKeepsSound

LEMMA SubscribeKeepsSound ==
  ASSUME Sound, NEW k \in Kind, Subscribe(k)
  PROVE  Sound'
<1>1. /\ "manager" \in Script /\ {k} \in SUBSET Kind /\ Create("manager", {k})
      /\ handles' = handles \cup {k} /\ UNCHANGED <<ran, inbox, streams, toasts, left>>
  BY DEF Subscribe
<1>2. \A j \in {k} : subs[<<"manager", j>>] = 0
  BY DEF Sound, ObjectsAreSingle, Subscribe, AlreadySubscribed
<1>3. ran \subseteq Script /\ handles \subseteq Kind
  BY DEF Sound, TypeOK
<1> QED
  BY <1>1, <1>2, <1>3, CreateKeepsSound

LEMMA NextKeepsSound == Sound /\ [Next]_vars => Sound'
<1> SUFFICES ASSUME Sound, [Next]_vars PROVE Sound'
  OBVIOUS
<1>1. CASE \E s \in Script : RunScript(s)
  BY <1>1, RunScriptKeepsSound
<1>2. CASE SubscribeToUserNotifications \/ SubscribeToAdminNotifications
  BY <1>2, SubscribeKeepsSound
  DEF SubscribeToUserNotifications, SubscribeToAdminNotifications, Kind
<1>3. CASE UnsubscribeAll
  BY <1>3, UnsubscribeAllKeepsSound
<1>4. CASE \E k \in Kind : Confirmed(k) \/ Rejected(k) \/ Received(k)
  BY <1>4, ReceivingKeepsSound
<1>5. CASE \E s \in Script, k \in Kind : RemoveToast(s, k)
  BY <1>5, RemoveToastKeepsSound
<1>6. CASE Cable
  BY <1>6, RetryKeepsSound, CloseKeepsSound, ConnectKeepsSound DEF Cable
<1>7. CASE Server
  BY <1>7, SubscribedKeepsSound, UnsubscribedKeepsSound, BroadcastKeepsSound DEF Server
<1>8. CASE UNCHANGED vars
  BY <1>8 DEF vars, client, Sound, TypeOK, ClosedIsEmpty, ObjectsAreSingle,
              AlertsInHand, ConfirmationsStand, Open, Live
<1> QED
  BY <1>1, <1>2, <1>3, <1>4, <1>5, <1>6, <1>7, <1>8 DEF Next, Page

LEMMA AlwaysSound == Spec => []Sound
  BY InitSound, NextKeepsSound, PTL DEF Spec
-----------------------------------------------------------------------------
(* The page, the connection and the server stay well typed, whatever is     *)
(* called, lost or reordered.                                               *)
THEOREM TypeCorrect == Spec => []TypeOK
<1>1. Sound => TypeOK
  BY DEF Sound
<1> QED
  BY <1>1, AlwaysSound, PTL

(* Whatever scripts share the connection, a subscription that the page has  *)
(* seen confirmed is streamed to until the page gives the channel up or     *)
(* loses the connection.                                                    *)
THEOREM ConfirmationsHold == Spec => []ConfirmedIsServed
<1>1. Sound => ConfirmedIsServed
  BY DEF Sound, ConfirmationsStand, ConfirmedIsServed
<1> QED
  BY <1>1, AlwaysSound, PTL

(* Toasts appear in one kind of step, by what the objects then are. *)
LEMMA ToastsAreReceived ==
  ASSUME Sound, [Next]_vars, NEW x \in Sub, toasts'[x] > toasts[x]
  PROVE  \E k \in Kind : Received(k) /\ x[2] = k /\ toasts'[x] = toasts[x] + subs[x]
<1>1. toasts \in [Sub -> 0..MaxToasts] /\ MaxToasts \in Nat
  BY ChannelsAssumption DEF Sound, TypeOK
<1>2. toasts' # toasts
  BY <1>1, ChannelsAssumption
<1>3. CASE \E s \in Script, k \in Kind : RemoveToast(s, k)
  BY <1>1, <1>3 DEF RemoveToast, Sub
<1>4. CASE \E k \in Kind : Received(k)
  BY <1>1, <1>4 DEF Received
<1> QED
  BY <1>2, <1>3, <1>4
  DEF Next, Page, Cable, Server, RunScript, SubscribeToUserNotifications,
      SubscribeToAdminNotifications, Subscribe, UnsubscribeAll, Confirmed, Rejected,
      Retry, Refuse, Close, Connect, Subscribed, Unsubscribed, Broadcast, Execute,
      client, vars

(* A message makes at most one toast of each script. *)
THEOREM ToastsAreSingle == Spec => OneToastPerScript
<1>1. Sound /\ [Next]_vars => \A x \in Sub : toasts'[x] <= toasts[x] + 1
  <2> SUFFICES ASSUME Sound, [Next]_vars, NEW x \in Sub
               PROVE  toasts'[x] <= toasts[x] + 1
    OBVIOUS
  <2>1. /\ toasts[x] \in Nat /\ toasts'[x] \in Nat
        /\ subs[x] \in Nat /\ subs[x] <= 1
    <3>1. Sound'
      BY NextKeepsSound
    <3>2. PICK s \in Script, k \in Kind : x = <<s, k>>
      BY DEF Sub
    <3>3. subs[<<s, k>>] <= 1
      BY DEF Sound, ObjectsAreSingle
    <3>4. /\ toasts \in [Sub -> 0..MaxToasts] /\ toasts' \in [Sub -> 0..MaxToasts]
          /\ subs \in [Sub -> Nat]
      BY <3>1 DEF Sound, TypeOK
    <3> QED
      BY <3>2, <3>3, <3>4, ChannelsAssumption
  <2>2. CASE toasts'[x] > toasts[x]
    BY <2>1, <2>2, ToastsAreReceived
  <2> QED
    BY <2>1, <2>2
<1> QED
  BY <1>1, AlwaysSound, PTL DEF Spec, OneToastPerScript

(* Nothing is shown for a manager that has unsubscribed. *)
THEOREM ManagerFallsSilent == Spec => SilentWhenUnsubscribed
<1> DEFINE Silent == \A k \in Kind, s \in {"manager"} \cap Script :
                       toasts'[<<s, k>>] > toasts[<<s, k>>] => k \in handles
<1>1. Sound /\ [Next]_vars => Silent
  <2> SUFFICES ASSUME Sound, [Next]_vars, NEW k \in Kind, NEW s \in {"manager"} \cap Script,
                      toasts'[<<s, k>>] > toasts[<<s, k>>]
               PROVE  k \in handles
    OBVIOUS
  <2>1. <<s, k>> \in Sub /\ toasts[<<s, k>>] \in Nat
    BY ChannelsAssumption DEF Sub, Sound, TypeOK
  <2>2. toasts'[<<s, k>>] = toasts[<<s, k>>] + subs[<<s, k>>]
    BY <2>1, ToastsAreReceived
  <2>3. k \notin handles => subs[<<s, k>>] = 0
    BY DEF Sound, ObjectsAreSingle
  <2> QED
    BY <2>1, <2>2, <2>3
<1> QED
  BY <1>1, AlwaysSound, PTL DEF Spec, SilentWhenUnsubscribed

(* Alerts are shown over connections of administrators only. *)
THEOREM AlertsStayWithAdmins == Spec => AlertsForAdmins
<1> DEFINE ToAdmins == \A s \in Script :
                         toasts'[<<s, "admin">>] > toasts[<<s, "admin">>] => conn = "admin"
<1>1. Sound /\ [Next]_vars => ToAdmins
  <2> SUFFICES ASSUME Sound, [Next]_vars, NEW s \in Script,
                      toasts'[<<s, "admin">>] > toasts[<<s, "admin">>]
               PROVE  conn = "admin"
    OBVIOUS
  <2>1. <<s, "admin">> \in Sub
    BY DEF Sub, Kind
  <2>2. Received("admin")
    BY <2>1, ToastsAreReceived
  <2> QED
    BY <2>2 DEF Received, Take, Sound, AlertsInHand
<1> QED
  BY <1>1, AlwaysSound, PTL DEF Spec, AlertsForAdmins
=============================================================================
