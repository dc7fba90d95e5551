-------------------------------- MODULE Chat --------------------------------
(***************************************************************************)
(* The chat between the two parties of one request:                        *)
(* services/chat/src/{service,handlers}.rs, with the screen of the app     *)
(* (chat_provider.dart, chat_service.dart) as its client.                  *)
(*                                                                         *)
(* A message reaches a screen in two ways that race each other: the list   *)
(* of stored messages, fetched once when the screen opens, and the         *)
(* WebSocket, fed by a Redis channel.  Screens are never polled and a      *)
(* broken socket is not reopened.  A message is named by its place in the  *)
(* table, which is also its time.                                          *)
(***************************************************************************)
EXTENDS Integers, Sequences, SequencesExt, FiniteSets

CONSTANTS
  Party,         \* the two parties
  Watcher,      \* those whose screens are followed; the others only write
  Starter,      \* bound: those who start conversations
  Conv,         \* ids of conversations
  MaxMessages,  \* bound: messages stored
  MaxOpens,     \* bound: how often a watcher opens a chat
  NoConv        \* no conversation

ASSUME ChatAssumption ==
  NoConv \notin Conv /\ MaxMessages \in Nat /\ MaxOpens \in Nat

VARIABLES
  participants,  \* of each conversation that exists; a function on those
  making,        \* what getOrCreateConversation is doing for a user
  messages,      \* chat.messages with their attachments and what remains to do
  notices,       \* notification.notification_logs of chat messages, by user
  screen,        \* the conversation a user's screen shows, or NoConv
  shown,         \* _messages of the user's screen
  fetches,       \* a user's requests for stored messages, in flight
  socket,        \* a user's WebSocket: the rooms it may hear and what waits
  opens          \* how often a user opened a chat

tables == <<participants, messages, notices>>
app == <<screen, shown, fetches, opens>>
chatVars == <<tables, app, making, socket>>

MessageIds == 1..Len(messages)
Kind == {"text", "file"}

(* bare: a file's message without its attachment. broken: its handler ended *)
(* before PUBLISH. unpublished: PUBLISH failed.                             *)
MessageStage == {"bare", "broken", "stored", "published", "unpublished", "answered"}

(* nr: the opening of the screen that the socket was connected for. known:  *)
(* the handler got the user's rooms. subscribed: it hears the channel.      *)
Socket == [open : BOOLEAN, known : BOOLEAN, subscribed : BOOLEAN, nr : 0..MaxOpens,
           authorized : SUBSET Conv, queue : Seq(1..MaxMessages)]

(* A socket, open or not, over which nothing comes. *)
Silent(open, nr) ==
  [open |-> open, known |-> FALSE, subscribed |-> FALSE, nr |-> nr, authorized |-> {}, queue |-> <<>>]
Making == [step : {"idle", "create", "add me", "add other"}, conv : Conv \cup {NoConv}]
Idle == [step |-> "idle", conv |-> NoConv]

(* nr: the sender's socket. *)
Message == [conv : Conv, sender : Party, kind : Kind, stage : MessageStage, nr : 0..MaxOpens]

(* found: what the query saw, empty while asked is TRUE. *)
Fetch == [conv : Conv, asked : BOOLEAN, found : SUBSET MessageIds]

ChatTypeOK ==
  /\ DOMAIN participants \subseteq Conv
  /\ participants \in [DOMAIN participants -> SUBSET Party]
  /\ making \in [Party -> Making]
  /\ Len(messages) <= MaxMessages
  /\ messages \in Seq(Message)
  /\ notices \in [Party -> Seq(MessageIds)]
  /\ screen \in [Party -> Conv \cup {NoConv}]
  /\ shown \in [Party -> Seq(MessageIds)]
  /\ fetches \in [Party -> SUBSET Fetch]
  /\ socket \in [Party -> Socket]
  /\ opens \in [Party -> 0..MaxOpens]

ChatInit ==
  /\ participants = <<>>
  /\ making = [u \in Party |-> Idle]
  /\ messages = <<>>
  /\ notices = [u \in Party |-> <<>>]
  /\ screen = [u \in Party |-> NoConv]
  /\ shown = [u \in Party |-> <<>>]
  /\ fetches = [u \in Party |-> {}]
  /\ socket = [u \in Party |-> Silent(FALSE, 0)]
  /\ opens = [u \in Party |-> 0]

-----------------------------------------------------------------------------
(* Conversations *)

(* list_conversations: those u takes part in. *)
ListConversations(u) == {c \in DOMAIN participants : u \in participants[c]}

(* The app looks for a conversation of the request and creates one if its   *)
(* list has none. Nothing keeps the two parties from doing so at once.      *)
LookFor(u) ==
  /\ u \in Starter
  /\ making[u] = Idle
  /\ ListConversations(u) = {}
  /\ making' = [making EXCEPT ![u].step = "create"]
  /\ UNCHANGED <<tables, app, socket>>

(* Each INSERT of create_conversation commits by itself. *)
CreateConversation(u) ==
  /\ making[u].step = "create"
  /\ \E c \in Conv \ DOMAIN participants :
       /\ participants' = [d \in (DOMAIN participants) \cup {c} |->
                             IF d = c THEN {} ELSE participants[d]]
       /\ making' = [making EXCEPT ![u] = [step |-> "add me", conv |-> c]]
  /\ UNCHANGED <<messages, notices, app, socket>>

AddParticipant(u) ==
  LET c == making[u].conv
  IN  /\ \/ /\ making[u].step = "add me"
            /\ participants' = [participants EXCEPT ![c] = @ \cup {u}]
            /\ making' = [making EXCEPT ![u].step = "add other"]
         \/ /\ making[u].step = "add other"
            /\ participants' = [participants EXCEPT ![c] = @ \cup (Party \ {u})]
            /\ making' = [making EXCEPT ![u] = Idle]
      /\ UNCHANGED <<messages, notices, app, socket>>

(* The request fails before or between two INSERTs. *)
CreateFails(u) ==
  /\ making[u] # Idle
  /\ making' = [making EXCEPT ![u] = Idle]
  /\ UNCHANGED <<tables, app, socket>>

-----------------------------------------------------------------------------
(* The screen *)

(* The messages S, the oldest first: ORDER BY created_at, reversed. *)
Chronicle(S) ==
  LET upTo[n \in 0..Len(messages)] ==
        IF n = 0 THEN <<>>
        ELSE IF n \in S THEN Append(upTo[n - 1], n) ELSE upTo[n - 1]
  IN  upTo[Len(messages)]

StoredIn(c) == {i \in MessageIds : messages[i].conv = c}

(* What _messages becomes when message i arrives on its own.                *)
(* Slip: the listener does not look for the id.                             *)
AppendedTwice(u, i) ==
  IF messages[i].conv # screen[u] THEN shown[u] ELSE Append(shown[u], i)

Appended(u, i) ==
  IF messages[i].conv # screen[u] \/ Contains(shown[u], i) THEN shown[u]
  ELSE Append(shown[u], i)

(* initState: the stored messages are asked for and the socket is connected, *)
(* neither waiting for the other. That the chat is also marked as read is   *)
(* left out.                                                                *)
OpenScreen(u, c) ==
  /\ u \in Watcher
  /\ screen[u] = NoConv
  /\ opens[u] < MaxOpens
  /\ c \in ListConversations(u)
  /\ screen' = [screen EXCEPT ![u] = c]
  /\ opens' = [opens EXCEPT ![u] = @ + 1]
  /\ fetches' = [fetches EXCEPT ![u] = @ \cup {[conv |-> c, asked |-> TRUE, found |-> {}]}]
  /\ UNCHANGED <<tables, making, shown, socket>>

ListMessages(u) ==
  /\ \E f \in fetches[u] :
       /\ f.asked
       /\ u \in participants[f.conv]
       /\ fetches' = [fetches EXCEPT ![u] =
            (@ \ {f}) \cup {[conv |-> f.conv, asked |-> FALSE, found |-> StoredIn(f.conv)]}]
  /\ UNCHANGED <<tables, making, screen, shown, opens, socket>>

(* The answer replaces what the screen shows, whichever conversation it is  *)
(* for. A failed request leaves an empty screen.                            *)
MessagesFetched(u) ==
  /\ \E f \in fetches[u] :
       /\ fetches' = [fetches EXCEPT ![u] = @ \ {f}]
       /\ \/ ~f.asked /\ shown' = [shown EXCEPT ![u] = Chronicle(f.found)]
          \/ shown' = [shown EXCEPT ![u] = <<>>]
  /\ UNCHANGED <<tables, making, screen, opens, socket>>

(* Slip: rooms become audible only by sending to them. *)
NoRooms(u) == {}

(* The query for the rooms a socket may hear. *)
Rooms(u) == ListConversations(u)

(* The handler asks for the user's rooms, then subscribes to the channel.   *)
(* If the query fails it goes on without rooms. The app connects once for   *)
(* each opening of the screen.                                              *)
Connect(u) ==
  /\ screen[u] # NoConv
  /\ socket[u].nr < opens[u]
  /\ \E known \in BOOLEAN :
       socket' = [socket EXCEPT ![u] =
                    [open |-> TRUE, known |-> known, subscribed |-> TRUE, nr |-> opens[u],
                     authorized |-> IF known THEN Rooms(u) ELSE {}, queue |-> <<>>]]
  /\ UNCHANGED <<tables, app, making>>

(* The handler's connection to Redis ends, with what it has not handed over: *)
(* select! goes on without it, and the rooms no longer matter.              *)
SubscriptionLost(u) ==
  /\ socket[u].subscribed
  /\ socket' = [socket EXCEPT ![u] = Silent(TRUE, socket[u].nr)]
  /\ UNCHANGED <<tables, app, making>>

Closed(s) == Silent(FALSE, s.nr)

(* The network, or the ping that is not answered for ten seconds. *)
SocketLost(u) ==
  /\ socket[u].open
  /\ socket' = [socket EXCEPT ![u] = Closed(@)]
  /\ UNCHANGED <<tables, app, making>>

CloseScreen(u) ==
  /\ screen[u] # NoConv
  /\ screen' = [screen EXCEPT ![u] = NoConv]
  /\ shown' = [shown EXCEPT ![u] = <<>>]
  /\ socket' = [socket EXCEPT ![u] = Closed(@)]
  /\ UNCHANGED <<tables, making, fetches, opens>>

-----------------------------------------------------------------------------
(* Messages *)

Insert(u, c, kind, stage) ==
  /\ Len(messages) < MaxMessages
  /\ messages' = Append(messages,
       [conv |-> c, sender |-> u, kind |-> kind, stage |-> stage, nr |-> socket[u].nr])

(* Message i came over the socket that its sender has now. *)
OverSocket(i) ==
  LET u == messages[i].sender
  IN  messages[i].kind = "text" /\ socket[u].open /\ messages[i].nr = socket[u].nr

(* The socket's handler is done with the text it read before. *)
HandlerFree(u) ==
  \A i \in MessageIds : messages[i].sender = u /\ OverSocket(i) => messages[i].stage = "answered"

(* The room counts as the sender's before send_message looks for him among  *)
(* its participants. A text within 200 ms of the last one is dropped, which *)
(* changes nothing. When the check or the INSERT fails the room still counts. *)
SendMessage(u, c) ==
  /\ u \in Watcher => c = screen[u] /\ socket[u].open
  /\ HandlerFree(u)
  /\ socket' = [socket EXCEPT ![u].authorized = IF u \in Watcher THEN @ \cup {c} ELSE @]
  /\ \/ u \in participants[c] /\ Insert(u, c, "text", "stored")
     \/ UNCHANGED messages
  /\ UNCHANGED <<participants, notices, app, making>>

(* upload_attachment, once the file is in the object store. The upload can  *)
(* outlast the screen that began it.                                        *)
UploadAttachment(u, c) ==
  /\ u \in participants[c]
  /\ Insert(u, c, "file", "bare")
  /\ UNCHANGED <<participants, notices, app, making, socket>>

(* The attachment's own INSERT; when it fails the message stays, and nobody *)
(* is told of it.                                                           *)
SaveAttachment(i) ==
  /\ messages[i].stage = "bare"
  /\ \E s \in {"stored", "broken"} : messages' = [messages EXCEPT ![i].stage = s]
  /\ UNCHANGED <<participants, notices, app, making, socket>>

(* The handler goes on whether PUBLISH succeeds or fails. *)
Publish(i) ==
  /\ messages[i].stage = "stored"
  /\ \/ /\ messages' = [messages EXCEPT ![i].stage = "published"]
        /\ socket' = [u \in Party |-> IF socket[u].subscribed
                                     THEN [socket[u] EXCEPT !.queue = Append(@, i)]
                                     ELSE socket[u]]
     \/ /\ messages' = [messages EXCEPT ![i].stage = "unpublished"]
        /\ UNCHANGED socket
  /\ UNCHANGED <<participants, notices, app, making>>

(* The handler of an upload ends with its connection, that of a text with   *)
(* the service, whose sockets end before. One that ends after PUBLISH is    *)
(* like one whose look-up fails and whose answer is lost.                   *)
DropHandler(i) ==
  /\ messages[i].stage \in {"bare", "stored"}
  /\ messages[i].kind = "file" \/ \A u \in Party : ~socket[u].open
  /\ messages' = [messages EXCEPT ![i].stage = "broken"]
  /\ UNCHANGED <<participants, notices, app, making, socket>>

(* Slip: everybody in the conversation is notified. *)
AllParticipants(i) == participants[messages[i].conv]

(* Who is notified of message i. *)
OtherParticipants(i) == participants[messages[i].conv] \ {messages[i].sender}

(* The others are notified, unless the query for them fails, and the sender *)
(* is answered: a text over his socket, a file by the response, which may   *)
(* not reach him.                                                           *)
NotifyAndAnswer(i) ==
  LET u == messages[i].sender
  IN  /\ messages[i].stage \in {"published", "unpublished"}
      /\ messages' = [messages EXCEPT ![i].stage = "answered"]
      /\ \/ notices' = [v \in Party |->
                        IF v \in OtherParticipants(i) THEN Append(notices[v], i) ELSE notices[v]]
         \/ UNCHANGED notices
      /\ \/ /\ messages[i].kind = "file" \/ OverSocket(i)
            /\ shown' = [shown EXCEPT ![u] = Appended(u, i)]
         \/ UNCHANGED shown
      /\ UNCHANGED <<participants, screen, fetches, opens, making, socket>>

(* One's own messages and those of other rooms are skipped. *)
Hears(u, i) == messages[i].sender # u /\ messages[i].conv \in socket[u].authorized

(* The handler reads its queue only between two texts of its own user. *)
Deliver(u) ==
  /\ socket[u].open
  /\ socket[u].queue # <<>>
  /\ HandlerFree(u)
  /\ socket' = [socket EXCEPT ![u].queue = Tail(@)]
  /\ shown' = [shown EXCEPT ![u] =
                 IF Hears(u, Head(socket[u].queue)) THEN Appended(u, Head(socket[u].queue)) ELSE @]
  /\ UNCHANGED <<tables, screen, fetches, opens, making>>

-----------------------------------------------------------------------------
ChatNext ==
  \/ \E u \in Party :
       \/ LookFor(u) \/ CreateConversation(u) \/ AddParticipant(u) \/ CreateFails(u)
       \/ \E c \in DOMAIN participants :
            OpenScreen(u, c) \/ SendMessage(u, c) \/ UploadAttachment(u, c)
       \/ ListMessages(u) \/ MessagesFetched(u)
       \/ Connect(u) \/ SubscriptionLost(u) \/ SocketLost(u) \/ CloseScreen(u)
       \/ Deliver(u)
  \/ \E i \in MessageIds :
       SaveAttachment(i) \/ Publish(i) \/ DropHandler(i) \/ NotifyAndAnswer(i)

(* A handler goes on to its end if it is not dropped, and a socket that     *)
(* lives is served.                                                         *)
ChatFairness ==
  /\ \A i \in 1..MaxMessages :
       WF_chatVars(i \in MessageIds /\ (SaveAttachment(i) \/ Publish(i) \/ NotifyAndAnswer(i)))
  /\ \A u \in Watcher : WF_chatVars(Deliver(u))

ChatSpec == ChatInit /\ [][ChatNext]_chatVars /\ ChatFairness

-----------------------------------------------------------------------------
(* Correctness *)

(***************************************************************************)
(* However the stored list, the socket, the answer to an upload and the    *)
(* echo of a text overlap, a screen shows each message once, and shows     *)
(* nothing its user may not read. All variables have their types.           *)
(***************************************************************************)
ScreensShowOnce ==
  /\ ChatTypeOK
  /\ \A u \in Party :
       /\ IsInjective(shown[u])
       /\ \A i \in ToSet(shown[u]) : messages[i].conv \in ListConversations(u)

(***************************************************************************)
(* A message is announced to nobody but the other party, once, with its    *)
(* file saved; and who is told of it finds its conversation in the list.   *)
(***************************************************************************)
AnnouncementsAreTrue ==
  \A u \in Party :
    /\ IsInjective(notices[u])
    /\ \A i \in ToSet(notices[u]) \cup ToSet(socket[u].queue) :
         messages[i].stage \in {"published", "answered"}
    /\ \A i \in ToSet(notices[u]) :
         /\ messages[i].sender # u
         /\ messages[i].conv \in ListConversations(u)

(* The screen has its stored messages, and its socket lives, knows the      *)
(* user's rooms and hears the channel.                                      *)
Settled(u) ==
  /\ screen[u] # NoConv /\ fetches[u] = {}
  /\ socket[u].open /\ socket[u].known /\ socket[u].subscribed

Failed(i) == i \in MessageIds /\ messages[i].stage \in {"broken", "unpublished"}

Due(u, i) ==
  /\ i \in MessageIds
  /\ Settled(u)
  /\ messages[i].conv = screen[u] /\ messages[i].sender # u
  /\ messages[i].stage \in {"bare", "stored"}

(***************************************************************************)
(* What the other party says while a screen is settled appears on it,      *)
(* unless the screen is closed, its socket or its subscription lost, or    *)
(* the message itself failed: its file was not saved, its PUBLISH failed   *)
(* or its handler was dropped before. A socket whose query for the rooms   *)
(* failed promises nothing. So only a failure of this very message or of   *)
(* this very socket keeps a screen silent.                                 *)
(***************************************************************************)
SettledScreensHear ==
  \A u \in Watcher, i \in 1..MaxMessages :
    Due(u, i) ~> ~Settled(u) \/ Failed(i) \/ Contains(shown[u], i)
=============================================================================
