--------------------------- MODULE CallSignaling ---------------------------
(***************************************************************************)
(* The signaling of one call (handle_call_signaling and publish_call_event *)
(* in services/booking/src/handlers.rs). Peers exchange offers, answers    *)
(* and candidates over WebSockets; each handler relays its client's        *)
(* signals through the Redis channel of the call and mirrors them into a   *)
(* buffer, which is replayed to a peer that connects late. The HTTP        *)
(* handlers and the sweep publish status events in tasks of their own.     *)
(*                                                                         *)
(* A peer may have several connections: a phone reconnects before the      *)
(* server notices that the old socket is dead. Redis executes one command  *)
(* at a time; the commands of different tasks interleave, and each may     *)
(* fail. Nothing in the code looks at a failed PUBLISH, RPUSH, EXPIRE,     *)
(* LRANGE or DEL: the task goes on as if it had succeeded.                 *)
(***************************************************************************)
EXTENDS Sequences, Integers, FiniteSets

CONSTANTS
  Peer,        \* the caller and the callee
  Conn,        \* WebSocket connections, each used once
  Owner,       \* the peer who opens a connection
  Server,      \* the sender of status events
  Plans        \* bound: how much may happen in the life of a call

(* sockets: the connections that are opened; signals: how many the client   *)
(* of each sends; events: the status events; closes: the connections that   *)
(* close in order; expiries: how often the buffer expires; faults: how many *)
(* commands fail.                                                           *)
Plan == [sockets : SUBSET Conn, signals : [Conn -> 0..2],
         events : 0..2, closes : 0..2, expiries : 0..2, faults : 0..2]

ASSUME SignalingAssumption ==
  /\ Owner \in [Conn -> Peer]
  /\ Server \notin Peer \cup Conn
  /\ Plans \subseteq Plan

VARIABLES
  plan,        \* the plan of this call
  stage,       \* how far the handler of a connection is
  sent,        \* signals the client of a connection has sent
  mirroring,   \* the signal a handler has published and not mirrored yet
  live,        \* messages of the channel a handler has not taken yet
  received,    \* what the client of a connection got, in order
  buffer,      \* the Redis list call_sig_buf
  event,       \* how far the task of a status event is
  found,       \* auxiliary: how far each event was when a connection subscribed
  failed,      \* auxiliary: the commands that failed
  closed,      \* how often a closing connection deleted the buffer
  expired      \* how often the buffer expired

signalingVars == <<plan, stage, sent, mirroring, live, received, buffer, event, found, failed, closed, expired>>

Stage == {"new", "subscribed", "open", "closed"}
Task == {"waiting", "published", "mirrored", "unmirrored"}

(* A signal: who sent it, and its number. *)
Signal == [from : Conn \cup {Server}, n : 1..2]

StatusEvent(i) == [from |-> Server, n |-> i]
None == [from |-> Server, n |-> 0]

(* The commands whose failure others may notice. *)
Command == ({"PUBLISH", "RPUSH"} \X Signal) \cup ({"LRANGE"} \X Conn)

SignalingTypeOK ==
  /\ plan \in Plans
  /\ stage \in [Conn -> Stage]
  /\ sent \in [Conn -> 0..2] /\ \A k \in Conn : sent[k] <= plan.signals[k]
  /\ mirroring \in [Conn -> Signal \cup {None}]
  /\ live \in [Conn -> Seq(Signal)]
  /\ received \in [Conn -> Seq(Signal)]
  /\ buffer \in Seq(Signal)
  /\ event \in [1..plan.events -> Task]
  /\ found \in [Conn -> [DOMAIN event -> Task]]
  /\ failed \in SUBSET Command
  /\ closed \in 0..plan.closes
  /\ expired \in 0..plan.expiries

SignalingInit ==
  /\ plan \in Plans
  /\ stage = [k \in Conn |-> "new"]
  /\ sent = [k \in Conn |-> 0]
  /\ mirroring = [k \in Conn |-> None]
  /\ live = [k \in Conn |-> <<>>]
  /\ received = [k \in Conn |-> <<>>]
  /\ buffer = <<>>
  /\ event = [i \in 1..plan.events |-> "waiting"]
  /\ found = [k \in Conn |-> event]
  /\ failed = {}
  /\ closed = 0
  /\ expired = 0

Elements(s) == {s[i] : i \in DOMAIN s}

-----------------------------------------------------------------------------
(* Redis *)

Fails(command) ==
  /\ Cardinality(failed) < plan.faults
  /\ failed' = failed \cup {command}

Subscribers == {k \in Conn : stage[k] \in {"subscribed", "open"}}

(* PUBLISH reaches whoever is subscribed at that moment, or nobody. *)
Publish(s) ==
  \/ /\ live' = [k \in Conn |-> IF k \in Subscribers THEN Append(live[k], s) ELSE live[k]]
     /\ UNCHANGED failed
  \/ Fails(<<"PUBLISH", s>>) /\ UNCHANGED live

(* Slip: LPUSH. *)
PushFirst(s) == buffer' = <<s>> \o buffer

(* RPUSH; EXPIRE then starts the sixty seconds anew. *)
Mirror(s) == buffer' = Append(buffer, s)

(* Sixty seconds without a signal. *)
BufferExpires ==
  /\ buffer # <<>>
  /\ expired < plan.expiries
  /\ expired' = expired + 1
  /\ buffer' = <<>>
  /\ UNCHANGED <<plan, stage, sent, mirroring, live, received, event, found, failed, closed>>

-----------------------------------------------------------------------------
(* The handler of a connection *)

Subscribe(k) ==
  /\ stage[k] = "new"
  /\ k \in plan.sockets
  /\ stage' = [stage EXCEPT ![k] = "subscribed"]
  /\ found' = [found EXCEPT ![k] = event]
  /\ UNCHANGED <<plan, sent, mirroring, live, received, buffer, event, failed, closed, expired>>

(* Slip: events without a sender are dropped. *)
NotWithoutSender(k, s) == s.from # Server /\ Owner[s.from] # Owner[k]

(* The message does not carry the sender_id of the client's own user. *)
NotEcho(k, s) == s.from = Server \/ Owner[s.from] # Owner[k]

(* What a handler passes on of the messages s, in their order. *)
Heard(k, s) ==
  LET upTo[n \in 0..Len(s)] ==
        IF n = 0 THEN <<>>
        ELSE IF NotEcho(k, s[n]) THEN Append(upTo[n - 1], s[n]) ELSE upTo[n - 1]
  IN  upTo[Len(s)]

(* LRANGE and the replay: the handler takes nothing from the channel yet.   *)
(* If LRANGE fails it goes on to the channel without a replay.              *)
Replay(k) ==
  /\ stage[k] = "subscribed"
  /\ stage' = [stage EXCEPT ![k] = "open"]
  /\ \/ /\ received' = [received EXCEPT ![k] = @ \o Heard(k, buffer)]
        /\ UNCHANGED failed
     \/ Fails(<<"LRANGE", k>>) /\ UNCHANGED received
  /\ UNCHANGED <<plan, sent, mirroring, live, buffer, event, found, closed, expired>>

(* The handler is in its loop and not busy with a signal of its client. *)
Idle(k) == stage[k] = "open" /\ mirroring[k] = None

Relay(k) ==
  /\ Idle(k)
  /\ live[k] # <<>>
  /\ received' = IF NotEcho(k, Head(live[k]))
                  THEN [received EXCEPT ![k] = Append(@, Head(live[k]))] ELSE received
  /\ live' = [live EXCEPT ![k] = Tail(@)]
  /\ UNCHANGED <<plan, stage, sent, mirroring, buffer, event, found, failed, closed, expired>>

SignalPublish(k) ==
  /\ Idle(k)
  /\ sent[k] < plan.signals[k]
  /\ LET s == [from |-> k, n |-> sent[k] + 1]
     IN  /\ Publish(s)
         /\ mirroring' = [mirroring EXCEPT ![k] = s]
  /\ sent' = [sent EXCEPT ![k] = @ + 1]
  /\ UNCHANGED <<plan, stage, received, buffer, event, found, closed, expired>>

HasPublished(k) == stage[k] = "open" /\ mirroring[k] # None

SignalMirror(k) ==
  /\ HasPublished(k)
  /\ \/ Mirror(mirroring[k]) /\ UNCHANGED failed
     \/ Fails(<<"RPUSH", mirroring[k]>>) /\ UNCHANGED buffer
  /\ mirroring' = [mirroring EXCEPT ![k] = None]
  /\ UNCHANGED <<plan, stage, sent, live, received, event, found, closed, expired>>

(* The client closes its socket: the handler deletes the buffer. *)
Close(k) ==
  /\ Idle(k)
  /\ closed < plan.closes
  /\ closed' = closed + 1
  /\ stage' = [stage EXCEPT ![k] = "closed"]
  /\ live' = [live EXCEPT ![k] = <<>>]
  /\ buffer' = <<>>
  /\ UNCHANGED <<plan, sent, mirroring, received, event, found, failed, expired>>

(* Sending the replay fails, the service restarts, or the DEL of an orderly *)
(* close fails: nothing is cleaned up.                                      *)
Break(k) ==
  /\ stage[k] \in {"subscribed", "open"}
  /\ stage' = [stage EXCEPT ![k] = "closed"]
  /\ live' = [live EXCEPT ![k] = <<>>]
  /\ mirroring' = [mirroring EXCEPT ![k] = None]
  /\ UNCHANGED <<plan, sent, received, buffer, event, found, failed, closed, expired>>

-----------------------------------------------------------------------------
(* The task of a status event *)

EventPublish(i) ==
  /\ event[i] = "waiting"
  /\ event' = [event EXCEPT ![i] = "published"]
  /\ Publish(StatusEvent(i))
  /\ UNCHANGED <<plan, stage, sent, mirroring, received, buffer, found, closed, expired>>

(* The sweep of stale calls publishes its event and does not mirror it. *)
SweepEventPublish(i) ==
  /\ event[i] = "waiting"
  /\ event' = [event EXCEPT ![i] = "unmirrored"]
  /\ Publish(StatusEvent(i))
  /\ UNCHANGED <<plan, stage, sent, mirroring, received, buffer, found, closed, expired>>

EventMirror(i) ==
  /\ event[i] = "published"
  /\ \/ /\ Mirror(StatusEvent(i))
        /\ event' = [event EXCEPT ![i] = "mirrored"]
        /\ UNCHANGED failed
     \/ /\ Fails(<<"RPUSH", StatusEvent(i)>>)
        /\ event' = [event EXCEPT ![i] = "unmirrored"]
        /\ UNCHANGED buffer
  /\ UNCHANGED <<plan, stage, sent, mirroring, live, received, found, closed, expired>>

-----------------------------------------------------------------------------
SignalingNext ==
  \/ \E k \in Conn : Subscribe(k)
  \/ \E k \in Conn : Replay(k)
  \/ \E k \in Conn : Relay(k)
  \/ \E k \in Conn : SignalPublish(k)
  \/ \E k \in Conn : SignalMirror(k)
  \/ \E k \in Conn : Close(k)
  \/ \E k \in Conn : Break(k)
  \/ \E i \in DOMAIN event : EventPublish(i)
  \/ \E i \in DOMAIN event : EventMirror(i)
  \/ \E i \in DOMAIN event : SweepEventPublish(i)
  \/ BufferExpires

(***************************************************************************)
(* Handlers keep running: a subscribed one replays, and select! polls its  *)
(* branches in random order, so a message waiting in the channel is taken  *)
(* however often the client sends.                                         *)
(***************************************************************************)
SignalingFairness ==
  \A k \in Conn :
    /\ WF_signalingVars(Replay(k))
    /\ SF_signalingVars(Relay(k))
    /\ WF_signalingVars(SignalMirror(k))

SignalingSpec == SignalingInit /\ [][SignalingNext]_signalingVars /\ SignalingFairness

-----------------------------------------------------------------------------
(* Correctness *)

(* Replay and live stream overlap by one copy at most. *)
TwoCopiesAtMost ==
  \A k \in Conn : \A h, i, j \in DOMAIN received[k] :
    h < i /\ i < j => received[k][h] # received[k][i] \/ received[k][i] # received[k][j]

(* Nothing has removed signals from the buffer. *)
NothingDeleted == closed = 0 /\ expired = 0

(* All signals of the clients that have been relayed are in the buffer. *)
BufferIsComplete ==
  NothingDeleted /\ \A s \in Signal : <<"RPUSH", s>> \in failed => s.from = Server

(* What a client has not heard before comes in its sender's order. *)
InOrder(k) ==
  \A i, j \in DOMAIN received[k] :
    LET s == received[k][i]
        t == received[k][j]
    IN  i < j /\ s.from = t.from /\ s.from # Server /\ t.n < s.n
          => \E h \in 1..i : received[k][h] = t

(***************************************************************************)
(* Offers come before candidates, through replay, live stream and their    *)
(* overlap, as long as the buffer has all of them: whichever PUBLISH and   *)
(* LRANGE failed. And a client gets a signal twice at worst, never twice   *)
(* from the channel. Status events are published by unrelated tasks and    *)
(* keep no order. All variables have their types.                          *)
(***************************************************************************)
NewSignalsInOrder ==
  /\ SignalingTypeOK
  /\ TwoCopiesAtMost
  /\ BufferIsComplete => \A k \in Conn : InOrder(k)

(***************************************************************************)
(* A status event whose task ended before a peer connected reaches it with *)
(* the replay, unless the buffer was deleted or the peer's own LRANGE      *)
(* failed, whoever broke off and whatever else failed. An event that       *)
(* starts when the peer is connected reaches it or waits for it in the     *)
(* channel, unless its own PUBLISH failed. So a peer whose connection and  *)
(* whose commands work misses only an event that was published before it   *)
(* subscribed and mirrored after its replay, or never.                     *)
(***************************************************************************)
EarlyEventsAreReplayed ==
  \A k \in Conn : stage[k] = "open" => \A i \in DOMAIN event :
    /\ found[k][i] = "mirrored" /\ NothingDeleted /\ <<"LRANGE", k>> \notin failed
         => StatusEvent(i) \in Elements(received[k])
    /\ found[k][i] = "waiting" /\ event[i] # "waiting"
       /\ <<"PUBLISH", StatusEvent(i)>> \notin failed
         => StatusEvent(i) \in Elements(received[k]) \cup Elements(live[k])

(* What the client of k may hear in some plan. *)
Audible(k) ==
  {s \in Signal :
     /\ s.from = Server \/ Owner[s.from] # Owner[k]
     /\ \E p \in Plans : s.n <= IF s.from = Server THEN p.events ELSE p.signals[s.from]}

(***************************************************************************)
(* Everything that reaches the channel while a peer is connected reaches   *)
(* it, unless the connection ends first.                                   *)
(***************************************************************************)
ConnectedPeersHear ==
  \A k \in Conn : \A s \in Audible(k) :
    s \in Elements(live[k]) ~> s \in Elements(received[k]) \/ stage[k] = "closed"
=============================================================================
