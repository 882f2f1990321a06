------------------------ MODULE NotificationChannels ------------------------
(***************************************************************************)
(* The notices a browser page is sent over Action Cable, from the load of  *)
(* the page until it is left: the scripts that subscribe and show what they*)
(* receive (app/javascript, and the script of the layout), the connection  *)
(* they share, and the channels at its other end (app/channels).           *)
(*                                                                         *)
(* Action Cable itself is external.  Both ends run what they receive on    *)
(* pools of threads, so nothing that is in flight on a connection keeps its*)
(* order: commands and inbox count what is under way and not yet handled.  *)
(***************************************************************************)
EXTENDS Naturals, FiniteSets

CONSTANTS
  Script,       \* the scripts that run on the page, among those below
  MaxCommands,  \* bound on the commands of a sort that are under way at once
  MaxAnswers,   \* bound on the answers of a sort that are under way at once
  MaxToasts     \* bound on the toasts that a script shows at once

ASSUME ChannelsAssumption ==
  /\ Script \subseteq {"channels", "layout", "manager"}
  /\ MaxCommands \in Nat /\ MaxAnswers \in Nat /\ MaxToasts \in Nat

(* Notices to one user, and alerts to the administrators. *)
Kind == {"user", "admin"}

(* What the scripts ask for, and the classes there are in app/channels. *)
ChannelOf(k) ==
  IF k = "user" THEN "NotificationChannel" ELSE "AdminNotificationChannel"

ServerChannel == {"NotificationsChannel", "AdminNotificationChannel"}

(* A subscription object, by the script that made it and what it asks for.  *)
Sub == Script \X Kind

Command == {"subscribe", "unsubscribe"} \X Kind

Answer == {"confirm", "reject", "message"} \X Kind

(* Whom current_user of an open connection is: the object is loaded when    *)
(* the connection opens, and not again while it lasts.                      *)
Role == {"admin", "resident"}

VARIABLES
  ran,          \* the scripts that have run
  subs,         \* consumer.subscriptions: how many objects of each sort
  handles,      \* what the manager holds a subscription to
  pending,      \* subscriptions that the consumer still asks for
  conn,         \* "idle", "connecting", or the role of an open connection
  commands,     \* commands sent and not yet executed by the server
  inbox,        \* answers and messages sent and not yet received by the page
  streams,      \* subscriptions of the connection on the server
  toasts,       \* toasts on the page, by the subscription that shows them
  left          \* history: kinds that the page gave up on this connection

client == <<ran, subs, handles, pending>>

vars == <<client, conn, commands, inbox, streams, toasts, left>>

TypeOK ==
  /\ ran \subseteq Script
  /\ subs \in [Sub -> Nat]
  /\ handles \subseteq Kind
  /\ pending \subseteq Sub
  /\ conn \in {"idle", "connecting"} \cup Role
  /\ commands \in [Command -> 0..MaxCommands]
  /\ inbox \in [Answer -> 0..MaxAnswers]
  /\ streams \subseteq Kind
  /\ toasts \in [Sub -> 0..MaxToasts]
  /\ left \subseteq Kind

Open == conn \in Role

Live(s, k) == subs[<<s, k>>] > 0

Watched(k) == \E s \in Script : Live(s, k)
-----------------------------------------------------------------------------
(* Faulty variants (see BookingStore) *)
NeverHeld(k) == FALSE
NeverListed(k) == FALSE
AlwaysListed(k) == TRUE
AlwaysLast(k) == TRUE
AdmitsAll(k) == TRUE
ListsNone(k) == 0
-----------------------------------------------------------------------------
(* The consumer sends verb for each kind as often as n says.  What is sent  *)
(* while no connection is open is dropped.                                  *)
Send(verb, n) ==
  /\ commands' = [c \in Command |->
                    IF Open /\ c[1] = verb THEN commands[c] + n[c[2]] ELSE commands[c]]
  /\ commands' \in [Command -> 0..MaxCommands]

Once(K) == [k \in Kind |-> IF k \in K THEN 1 ELSE 0]

(* consumer.subscriptions.create, for each kind in K: the object is listed, *)
(* the connection is opened if need be, and the subscription asked for,     *)
(* again and again until it is answered if the command went out.            *)
Create(s, K) ==
  /\ subs' = [x \in Sub |-> IF x[1] = s /\ x[2] \in K THEN subs[x] + 1 ELSE subs[x]]
  /\ conn' = IF conn = "idle" THEN "connecting" ELSE conn
  /\ pending' = IF Open THEN pending \cup ({s} \X K) ELSE pending
  /\ Send("subscribe", Once(K))

(* What a script subscribes to as it runs.  The layout has the alerts only  *)
(* in the pages it renders for administrators.  The test page has a script  *)
(* like it (notifications/test.html.erb), which is left out.                *)
Wanted(s) == IF s = "layout" THEN {Kind, {"user"}} ELSE {Kind}

RunScript(s) ==
  /\ s # "manager" /\ s \notin ran
  /\ ran' = ran \cup {s}
  /\ \E K \in Wanted(s) : Create(s, K)
  /\ UNCHANGED <<handles, inbox, streams, toasts, left>>
-----------------------------------------------------------------------------
(* NotificationManager, called by any code of the page at any time. *)

AlreadySubscribed(k) == k \in handles

Subscribe(k) ==
  /\ "manager" \in Script
  /\ ~AlreadySubscribed(k)
  /\ Create("manager", {k})
  /\ handles' = handles \cup {k}
  /\ UNCHANGED <<ran, inbox, streams, toasts, left>>

SubscribeToUserNotifications == Subscribe("user")

SubscribeToAdminNotifications == Subscribe("admin")

(* Is the manager's object still among consumer.subscriptions?  A rejected  *)
(* one is not, though the manager holds on to it.                           *)
StillListed(k) == Live("manager", k)

(* The server is told when no other object asks for the same channel. *)
LastOne(k) == ~Watched(k)'

UnsubscribeAll ==
  /\ handles # {}
  /\ subs' = [x \in Sub |->
                IF x[1] = "manager" /\ x[2] \in handles /\ StillListed(x[2])
                THEN subs[x] - 1 ELSE subs[x]]
  /\ pending' = pending \ ({"manager"} \X handles)
  /\ Send("unsubscribe", Once({k \in handles : LastOne(k)}))
  /\ handles' = {}
  /\ left' = left \cup {k \in handles : ~Watched(k)'}
  /\ UNCHANGED <<ran, conn, inbox, streams, toasts>>
-----------------------------------------------------------------------------
(* The connection of the page: opened for whoever the browser is signed in  *)
(* as by then, refused when that is nobody, and closed whenever the network *)
(* or the server fails; then the page connects again.                       *)
Nothing(Message) == [x \in Message |-> 0]

(* The new connection is asked for every subscription that is listed. *)
Objects(k) == Cardinality({s \in Script : Live(s, k)})

Connect(r) ==
  /\ conn = "connecting"
  /\ conn' = r
  /\ commands' = [c \in Command |-> IF c[1] = "subscribe" THEN Objects(c[2]) ELSE 0]
  /\ commands' \in [Command -> 0..MaxCommands]
  /\ pending' = {x \in Sub : subs[x] > 0}
  /\ left' = {}
  /\ UNCHANGED <<ran, subs, handles, inbox, streams, toasts>>

Refuse ==
  /\ conn = "connecting"
  /\ conn' = "idle"
  /\ UNCHANGED <<client, commands, inbox, streams, toasts, left>>

Close ==
  /\ Open
  /\ conn' = "connecting"
  /\ commands' = Nothing(Command)
  /\ inbox' = Nothing(Answer)
  /\ streams' = {}
  /\ UNCHANGED <<client, toasts, left>>
-----------------------------------------------------------------------------
(* The consumer asks twice a second for what was not answered yet. *)
Unanswered(k) == Cardinality({s \in Script : <<s, k>> \in pending})

Retry ==
  /\ Open /\ pending # {}
  /\ Send("subscribe", [k \in Kind |-> Unanswered(k)])
  /\ UNCHANGED <<client, conn, inbox, streams, toasts, left>>

(* The page receives an answer.  It names the channel and not the object,   *)
(* so it is taken by every object that asks for the channel.                *)
Take(answer, k) ==
  /\ inbox[<<answer, k>>] > 0
  /\ inbox' = [inbox EXCEPT ![<<answer, k>>] = @ - 1]
  /\ UNCHANGED <<ran, handles, conn, commands, streams, left>>

Confirmed(k) ==
  /\ Take("confirm", k)
  /\ pending' = {x \in pending : x[2] # k}
  /\ UNCHANGED <<subs, toasts>>

Rejected(k) ==
  /\ Take("reject", k)
  /\ subs' = [x \in Sub |-> IF x[2] = k THEN 0 ELSE subs[x]]
  /\ pending' = {x \in pending : x[2] # k}
  /\ UNCHANGED toasts

(* received: every object shows the message in a toast of its own.  The     *)
(* count of the bell is not on any page, so there is nothing to add up.     *)
Received(k) ==
  /\ Take("message", k)
  /\ toasts' = [x \in Sub |-> IF x[2] = k THEN toasts[x] + subs[x] ELSE toasts[x]]
  /\ \A x \in Sub : toasts'[x] <= MaxToasts
  /\ UNCHANGED <<subs, pending>>

(* A toast goes when its button is clicked or its time is up. *)
RemoveToast(s, k) ==
  /\ toasts[<<s, k>>] > 0
  /\ toasts' = [toasts EXCEPT ![<<s, k>>] = @ - 1]
  /\ UNCHANGED <<client, conn, commands, inbox, streams, left>>
-----------------------------------------------------------------------------
(* The server executes the commands of the connection. *)

Admits(k) == k = "admin" => conn = "admin"

Reply(answer, k) ==
  /\ inbox[<<answer, k>>] < MaxAnswers
  /\ inbox' = [inbox EXCEPT ![<<answer, k>>] = @ + 1]

Execute(verb, k) ==
  /\ commands[<<verb, k>>] > 0
  /\ commands' = [commands EXCEPT ![<<verb, k>>] = @ - 1]
  /\ UNCHANGED <<client, conn, toasts, left>>

(* A channel that does not exist and one that is subscribed to already are  *)
(* passed over in silence.                                                  *)
Subscribed(k) ==
  /\ Execute("subscribe", k)
  /\ \/ /\ ChannelOf(k) \notin ServerChannel \/ k \in streams
        /\ UNCHANGED <<inbox, streams>>
     \/ /\ ChannelOf(k) \in ServerChannel /\ k \notin streams /\ Admits(k)
        /\ streams' = streams \cup {k}
        /\ Reply("confirm", k)
     \/ /\ ChannelOf(k) \in ServerChannel /\ k \notin streams /\ ~Admits(k)
        /\ Reply("reject", k)
        /\ UNCHANGED streams

Unsubscribed(k) ==
  /\ Execute("unsubscribe", k)
  /\ streams' = streams \ {k}
  /\ UNCHANGED inbox

(* A notice is broadcast; connections that do not stream it miss it. *)
Broadcast(k) ==
  /\ k \in streams
  /\ Reply("message", k)
  /\ UNCHANGED <<client, conn, commands, streams, toasts, left>>
-----------------------------------------------------------------------------
Init ==
  /\ ran = {} /\ handles = {} /\ pending = {}
  /\ subs = [x \in Sub |-> 0]
  /\ conn = "idle"
  /\ commands = Nothing(Command)
  /\ inbox = Nothing(Answer)
  /\ streams = {}
  /\ toasts = [x \in Sub |-> 0]
  /\ left = {}

Page ==
  \/ \E s \in Script : RunScript(s)
  \/ SubscribeToUserNotifications \/ SubscribeToAdminNotifications \/ UnsubscribeAll
  \/ \E k \in Kind : Confirmed(k) \/ Rejected(k) \/ Received(k)
  \/ \E s \in Script, k \in Kind : RemoveToast(s, k)

Cable == Retry \/ Refuse \/ Close \/ \E r \in Role : Connect(r)

Server == \E k \in Kind : Subscribed(k) \/ Unsubscribed(k) \/ Broadcast(k)

Next == Page \/ Cable \/ Server

Spec == Init /\ [][Next]_vars

(* The server executes what was sent on a connection that stays open, the   *)
(* page receives its answers, and the consumer retries by the clock.  Nobody*)
(* has to call the manager, to broadcast or to keep a connection open.      *)
FairSpec ==
  /\ Spec
  /\ WF_vars(Retry)
  /\ \A k \in Kind : SF_vars(Subscribed(k)) /\ WF_vars(Confirmed(k)) /\ WF_vars(Rejected(k))
-----------------------------------------------------------------------------
(* Once the page takes a subscription for confirmed, the server streams to  *)
(* it for as long as the connection lasts, unless the page gives the channel*)
(* up for good at some time: the manager that unsubscribes, and commands    *)
(* that overtake each other, never cut off another script.                  *)
ConfirmedIsServed ==
  Open => \A s \in Script, k \in Kind \ left :
            Live(s, k) /\ <<s, k>> \notin pending => k \in streams
-----------------------------------------------------------------------------
(* Action properties *)

(* A message makes one toast of a script at most, however often the manager *)
(* is told to subscribe and whatever connections the page went through.     *)
OneToastPerScript ==
  [][\A x \in Sub : toasts'[x] <= toasts[x] + 1]_vars

(* Nothing is shown for the manager after unsubscribeAll, though messages   *)
(* are under way.                                                           *)
SilentWhenUnsubscribed ==
  [][\A k \in Kind, s \in {"manager"} \cap Script :
       toasts'[<<s, k>>] > toasts[<<s, k>>] => k \in handles]_vars

(* An alert is shown only over a connection that an administrator opened,   *)
(* though any page may ask for alerts, again on every connection, whoever   *)
(* is signed in by then.                                                    *)
AlertsForAdmins ==
  [][\A s \in Script :
       toasts'[<<s, "admin">>] > toasts[<<s, "admin">>] => conn = "admin"]_vars

(* A page that subscribes over a connection that may have the channel is    *)
(* streamed to in the end, unless the connection is lost first or the page  *)
(* gives up.                                                                *)
ServedInTheEnd(k) ==
  \A s \in Script :
    Live(s, k) /\ Open /\ Admits(k) ~>
      k \in streams \/ ~Open \/ k \in left \/ ~Live(s, k)

AdminsAreServed == ServedInTheEnd("admin")

(* README.md:9 "Deliver real-time notifications to users and admins via     *)
(* ActionCable."                                                            *)
UsersAreServed == ServedInTheEnd("user")
=============================================================================
