------------------------ MODULE CallLifecycle_proofs ------------------------
(***************************************************************************)
(* What holds of the call log for any number of users and calls: its rows  *)
(* are consistent, the outcome of a call is final, and peers and chat are  *)
(* told that one outcome. And what holds of the signaling of a call for    *)
(* any number of connections and events: no signal is heard three times,   *)
(* none overtakes another of its sender, no early event is missed.         *)
(***************************************************************************)
EXTENDS CallLifecycle, CallSignaling, WellFoundedInduction, TLAPS

(***************************************************************************)
(* Between its INSERT and its UPDATE a call is unknown to everybody and    *)
(* too young for the sweep, so the blind UPDATE finds it as it was.        *)
(***************************************************************************)
InitiateInv ==
  \A c \in Call :
    /\ phase[c] \in {"free", "checked"} <=> status[c] = "absent"
    /\ status[c] = "absent" => age[c] = 0
    /\ phase[c] = "inserted" => status[c] = "initiated" /\ age[c] <= MaxStall

(* What was told of c and what its handlers and tasks have still to tell    *)
(* agree with its row: who has an outcome to write or to announce is the    *)
(* one who gave the call that outcome.                                      *)
HandlingOK(c) ==
  /\ status[c] \in Ringing \cup {"absent"}
       => handling[c] \cup logged[c] \cup publishing[c] \cup announced[c] = {}
  /\ \A r \in (handling[c] \cup logged[c]) \ {"accepted"} :
       r = status[c] /\ publishing[c] \cup announced[c] \subseteq {"accepted"}
  /\ handling[c] \cap logged[c] = {} /\ "accepted" \notin logged[c]
  /\ handling[c] \subseteq {"accepted"} \/ chatLog[c] = <<>>
  /\ publishing[c] \cap announced[c] \subseteq {"accepted"}
  /\ chatLog[c] # <<>> => /\ status[c] \in Finished /\ chatLog[c] = <<status[c]>>
                         /\ "missed" \notin publishing[c] \cup announced[c]

HandlingInv == \A c \in Call : HandlingOK(c)

CallInv == TypeOK /\ InitiateInv /\ ColumnsAgree /\ HandlingInv /\ OneOutcomeAnnounced

LEMMA InitCallInv == Init => CallInv
BY CallAssumption DEF Init, CallInv, TypeOK, InitiateInv, ColumnsAgree, HandlingInv, HandlingOK,
  OneOutcomeAnnounced, Phase, CallStatus, Ringing, Active, Finished, Event

(* A log of messages stays one when a message is appended to it. *)
LEMMA LogGrows ==
  ASSUME NEW S, NEW log \in [Call -> Seq(S)], NEW c \in Call, NEW s \in S
  PROVE  [log EXCEPT ![c] = Append(log[c], s)] \in [Call -> Seq(S)]
<1>1. Append(log[c], s) \in Seq(S)
  OBVIOUS
<1> QED
  BY <1>1

(* A handler writes to an empty log, and nothing has been told by then. *)
LEMMA LoggingKeeps ==
  ASSUME CallInv, NEW c \in Call, NEW r \in Event, LogToChat(c, r)
  PROVE  TypeOK' /\ HandlingInv'
<1>0. /\ TypeOK /\ r \in handling[c] \ {"accepted"} /\ r \in Finished
      /\ UNCHANGED <<phase, row, publishing, announced>>
      /\ handling' = [handling EXCEPT ![c] = handling[c] \ {r}]
      /\ logged' = [logged EXCEPT ![c] = logged[c] \cup {r}]
      /\ UNCHANGED chatLog \/ chatLog' = [chatLog EXCEPT ![c] = Append(chatLog[c], r)]
  <2>1. UNCHANGED chatLog \/ chatLog' = [chatLog EXCEPT ![c] = Append(chatLog[c], r)]
    BY DEF LogToChat
  <2>2. /\ r \in handling[c] \ {"accepted"}
        /\ UNCHANGED <<phase, row, publishing, announced>>
        /\ handling' = [handling EXCEPT ![c] = handling[c] \ {r}]
        /\ logged' = [logged EXCEPT ![c] = logged[c] \cup {r}]
    BY DEF LogToChat
  <2>3. TypeOK
    BY DEF CallInv
  <2>4. r \in Finished
    BY <2>2 DEF Event, Finished
  <2> QED
    BY <2>1, <2>2, <2>3, <2>4, Zenon
<1>1. /\ handling \in [Call -> SUBSET Event] /\ logged \in [Call -> SUBSET Event]
      /\ chatLog \in [Call -> Seq(Finished)]
  BY <1>0 DEF TypeOK
<1>2. chatLog' \in [Call -> Seq(Finished)]
  <2>1. r \in Finished /\ chatLog \in [Call -> Seq(Finished)]
    BY <1>0, <1>1
  <2>2. [chatLog EXCEPT ![c] = Append(chatLog[c], r)] \in [Call -> Seq(Finished)]
    BY <2>1, LogGrows
  <2> QED
    BY <1>0, <2>1, <2>2
<1>3. handling' \in [Call -> SUBSET Event] /\ logged' \in [Call -> SUBSET Event]
  BY <1>0, <1>1
<1>4. TypeOK'
  BY <1>0, <1>2, <1>3 DEF TypeOK, row
<1>5. ASSUME NEW d \in Call PROVE HandlingOK(d)'
  <2>1. HandlingOK(d) /\ UNCHANGED <<status, publishing, announced>>
    BY <1>0 DEF CallInv, HandlingInv, row
  <2>2. CASE d # c
    <3>1. handling'[d] = handling[d] /\ logged'[d] = logged[d] /\ chatLog'[d] = chatLog[d]
      BY <1>0, <1>1, <2>2
    <3> QED
      BY <2>1, <3>1 DEF HandlingOK
  <2>3. CASE d = c
    <3>1. /\ r = status[d] /\ handling[d] \subseteq Event
          /\ handling'[d] = handling[d] \ {r} /\ logged'[d] = logged[d] \cup {r}
      BY <1>0, <1>1, <2>1, <2>3 DEF HandlingOK
    <3>2. chatLog[d] = <<>> /\ publishing[d] \cup announced[d] \subseteq {"accepted"}
      BY <1>0, <2>1, <2>3 DEF HandlingOK
    <3>3. chatLog'[d] \in {<<>>, <<r>>}
      BY <1>0, <1>1, <2>3, <3>2
    <3>4. handling'[d] \subseteq {"accepted"}
      BY <1>0, <2>1, <2>3, <3>1 DEF HandlingOK
    <3> QED
      BY <1>0, <2>1, <2>3, <3>1, <3>2, <3>3, <3>4 DEF HandlingOK
  <2> QED
    BY <2>2, <2>3
<1> QED
  BY <1>4, <1>5 DEF HandlingInv

(* What a task publishes it had announced to publish. *)
LEMMA PublishingKeeps ==
  ASSUME CallInv, NEW c \in Call, NEW e \in Event, PublishEvent(c, e)
  PROVE  HandlingInv' /\ OneOutcomeAnnounced'
<1>0. /\ publishing \in [Call -> SUBSET Event] /\ announced \in [Call -> SUBSET Event]
      /\ UNCHANGED <<status, handling, logged, chatLog>>
      /\ e \in publishing[c]
      /\ publishing' = [publishing EXCEPT ![c] = publishing[c] \ {e}]
      /\ announced' = [announced EXCEPT ![c] = announced[c] \cup {e}]
  BY DEF PublishEvent, row, CallInv, TypeOK
<1>1. \A d \in Call : announced'[d] \cup publishing'[d] = announced[d] \cup publishing[d]
  BY <1>0
<1>2. ASSUME NEW d \in Call PROVE HandlingOK(d)'
  <2>1. HandlingOK(d)
    BY DEF CallInv, HandlingInv
  <2>2. publishing'[d] \cap announced'[d] \subseteq {"accepted"}
    BY <1>0, <2>1 DEF HandlingOK
  <2>3. publishing'[d] \cup announced'[d] = publishing[d] \cup announced[d]
    BY <1>1
  <2> QED
    BY <1>0, <2>1, <2>2, <2>3 DEF HandlingOK
<1>3. OneOutcomeAnnounced'
  BY <1>0, <1>1 DEF CallInv, OneOutcomeAnnounced
<1> QED
  BY <1>2, <1>3 DEF HandlingInv

(* The sweep finds calls of which nothing has been told. *)
LEMMA SweepingKeeps ==
  ASSUME CallInv, SweepStaleCalls
  PROVE  HandlingInv' /\ OneOutcomeAnnounced'
<1>0. UNCHANGED <<handling, logged, announced, chatLog>>
  BY DEF SweepStaleCalls
<1>1. ASSUME NEW d \in Call, d \notin StaleCalls
      PROVE  status'[d] = status[d] /\ publishing'[d] = publishing[d]
  BY <1>1 DEF SweepStaleCalls
<1>2. ASSUME NEW d \in Call, d \in StaleCalls
      PROVE  /\ handling[d] \cup logged[d] \cup publishing[d] \cup announced[d] = {}
             /\ chatLog[d] = <<>> /\ status'[d] = "missed" /\ publishing'[d] = {"missed"}
  <2>1. HandlingOK(d) /\ status[d] \in Ringing
    BY <1>2 DEF CallInv, HandlingInv, StaleCalls
  <2>2. chatLog[d] = <<>>
    BY <2>1 DEF HandlingOK, Ringing, Finished
  <2>3. publishing'[d] = publishing[d] \cup {"missed"}
    BY <1>2 DEF SweepStaleCalls
  <2> QED
    BY <1>2, <2>1, <2>2, <2>3 DEF HandlingOK, SweepStaleCalls
<1>3. ASSUME NEW d \in Call PROVE HandlingOK(d)'
  <2>1. CASE d \in StaleCalls
    BY <1>0, <1>2, <2>1 DEF HandlingOK, Ringing
  <2>2. CASE d \notin StaleCalls
    <3>1. HandlingOK(d)
      BY DEF CallInv, HandlingInv
    <3> QED
      BY <1>0, <1>1, <2>2, <3>1 DEF HandlingOK
  <2> QED
    BY <2>1, <2>2
<1>4. OneOutcomeAnnounced'
  <2> SUFFICES ASSUME NEW d \in Call PROVE
        LET outcomes == (announced'[d] \cup publishing'[d]) \ {"accepted"}
        IN  /\ \A e, f \in outcomes : e = f
            /\ outcomes # {} => status'[d] \in Finished
            /\ "rejected" \in outcomes => status'[d] = "rejected"
            /\ "missed" \in outcomes => status'[d] = "missed"
            /\ "ended" \in outcomes => status'[d] \in {"ended", "missed"}
    BY DEF OneOutcomeAnnounced
  <2>1. CASE d \in StaleCalls
    BY <1>0, <1>2, <2>1 DEF Finished
  <2>2. CASE d \notin StaleCalls
    BY <1>0, <1>1, <2>2 DEF CallInv, OneOutcomeAnnounced
  <2> QED
    BY <2>1, <2>2
<1> QED
  BY <1>3, <1>4 DEF HandlingInv

LEMMA NextCallInv == CallInv /\ [Next]_vars => CallInv'
<1> SUFFICES ASSUME CallInv, [Next]_vars PROVE CallInv'
  OBVIOUS
<1> USE CallAssumption DEF CallInv, TypeOK, InitiateInv, ColumnsAgree, HandlingInv, HandlingOK,
      OneOutcomeAnnounced, row, telling, Phase, CallStatus, Ringing, Active, Finished, Event
<1>1. ASSUME NEW u \in User, NEW v \in User, NEW c \in Call, InitiateCheck(u, v, c)
      PROVE  CallInv'
  <2>1. TypeOK'
    BY <1>1 DEF InitiateCheck
  <2>2. InitiateInv'
    BY <1>1 DEF InitiateCheck
  <2>3. ColumnsAgree'
    BY <1>1 DEF InitiateCheck
  <2>4. HandlingInv'
    BY <1>1 DEF InitiateCheck
  <2>5. OneOutcomeAnnounced'
    BY <1>1 DEF InitiateCheck
  <2> QED
    BY <2>1, <2>2, <2>3, <2>4, <2>5
<1>2. ASSUME NEW c \in Call, InitiateInsert(c)
      PROVE  CallInv'
  <2>1. TypeOK'
    BY <1>2 DEF InitiateInsert
  <2>2. InitiateInv'
    BY <1>2 DEF InitiateInsert
  <2>3. ColumnsAgree'
    BY <1>2 DEF InitiateInsert
  <2>4. HandlingInv'
    BY <1>2 DEF InitiateInsert
  <2>5. OneOutcomeAnnounced'
    BY <1>2 DEF InitiateInsert
  <2> QED
    BY <2>1, <2>2, <2>3, <2>4, <2>5
<1>3. ASSUME NEW c \in Call, InitiateRing(c)
      PROVE  CallInv'
  <2>1. TypeOK'
    BY <1>3 DEF InitiateRing
  <2>2. InitiateInv'
    BY <1>3 DEF InitiateRing
  <2>3. ColumnsAgree'
    BY <1>3 DEF InitiateRing
  <2>4. HandlingInv'
    BY <1>3 DEF InitiateRing
  <2>5. OneOutcomeAnnounced'
    BY <1>3 DEF InitiateRing
  <2> QED
    BY <2>1, <2>2, <2>3, <2>4, <2>5
<1>4. ASSUME NEW c \in Call, InitiateFails(c)
      PROVE  CallInv'
  <2>1. TypeOK'
    <3>1. CASE phase[c] = "checked"
      <4>1. /\ phase' = [phase EXCEPT ![c] = "free"]
            /\ caller' = [caller EXCEPT ![c] = NoUser]
            /\ callee' = [callee EXCEPT ![c] = NoUser]
            /\ UNCHANGED <<status, age, answered, over, timed, telling>>
        BY <1>4, <3>1 DEF InitiateFails
      <4> QED
        BY <4>1
    <3>2. CASE phase[c] = "inserted"
      <4>1. /\ phase' = [phase EXCEPT ![c] = "abandoned"]
            /\ UNCHANGED <<row, telling>>
        BY <1>4, <3>2 DEF InitiateFails
      <4> QED
        BY <4>1
    <3> QED
      BY <1>4, <3>1, <3>2 DEF InitiateFails
  <2>2. InitiateInv'
    BY <1>4 DEF InitiateFails
  <2>3. ColumnsAgree'
    BY <1>4 DEF InitiateFails
  <2>4. HandlingInv'
    <3>1. UNCHANGED <<status, telling>>
      BY <1>4 DEF InitiateFails
    <3> QED
      BY <3>1
  <2>5. OneOutcomeAnnounced'
    <3>1. UNCHANGED <<status, publishing, announced>>
      BY <1>4 DEF InitiateFails
    <3> QED
      BY <3>1
  <2> QED
    BY <2>1, <2>2, <2>3, <2>4, <2>5
<1>5. ASSUME NEW u \in User, NEW c \in Call, AcceptCall(u, c)
      PROVE  CallInv'
  BY <1>5 DEF AcceptCall, Knows
<1>6. ASSUME NEW u \in User, NEW c \in Call, RejectCall(u, c)
      PROVE  CallInv'
  <2>1. TypeOK'
    BY <1>6 DEF RejectCall, Knows
  <2>2. InitiateInv'
    BY <1>6 DEF RejectCall, Knows
  <2>3. ColumnsAgree'
    BY <1>6 DEF RejectCall, Knows
  <2>4. HandlingInv'
    BY <1>6 DEF RejectCall, Knows
  <2>5. OneOutcomeAnnounced'
    BY <1>6 DEF RejectCall, Knows
  <2> QED
    BY <2>1, <2>2, <2>3, <2>4, <2>5
<1>7. ASSUME NEW u \in User, NEW c \in Call, EndCall(u, c)
      PROVE  CallInv'
  BY <1>7 DEF EndCall, Knows, CanEnd, StatusAfterEnd
<1>8. ASSUME NEW u \in User, NEW c \in Call, MarkCallConnected(u, c)
      PROVE  CallInv'
  <2>1. TypeOK'
    BY <1>8 DEF MarkCallConnected, Knows
  <2>2. InitiateInv'
    BY <1>8 DEF MarkCallConnected, Knows
  <2>3. ColumnsAgree'
    BY <1>8 DEF MarkCallConnected, Knows
  <2>4. HandlingInv'
    BY <1>8 DEF MarkCallConnected, Knows
  <2>5. OneOutcomeAnnounced'
    BY <1>8 DEF MarkCallConnected, Knows
  <2> QED
    BY <2>1, <2>2, <2>3, <2>4, <2>5
<1>9. ASSUME NEW c \in Call, NEW r \in Event, LogToChat(c, r)
      PROVE  CallInv'
  <2>1. TypeOK'
    BY <1>9, LoggingKeeps
  <2>2. InitiateInv'
    BY <1>9 DEF LogToChat
  <2>3. ColumnsAgree'
    BY <1>9 DEF LogToChat
  <2>4. HandlingInv'
    BY <1>9, LoggingKeeps
  <2>5. OneOutcomeAnnounced'
    BY <1>9 DEF LogToChat
  <2> QED
    BY <2>1, <2>2, <2>3, <2>4, <2>5
<1>10. ASSUME NEW c \in Call, NEW r \in Event, SpawnEvent(c, r)
       PROVE  CallInv'
  <2>1. TypeOK'
    BY <1>10 DEF SpawnEvent, EventOf
  <2>2. InitiateInv'
    BY <1>10 DEF SpawnEvent, EventOf
  <2>3. ColumnsAgree'
    BY <1>10 DEF SpawnEvent, EventOf
  <2>4. HandlingInv'
    BY <1>10 DEF SpawnEvent, EventOf
  <2>5. OneOutcomeAnnounced'
    BY <1>10 DEF SpawnEvent, EventOf
  <2> QED
    BY <2>1, <2>2, <2>3, <2>4, <2>5
<1>11. ASSUME NEW c \in Call, NEW r \in Event, DropHandler(c, r)
       PROVE  CallInv'
  <2>1. TypeOK'
    BY <1>11 DEF DropHandler
  <2>2. InitiateInv'
    BY <1>11 DEF DropHandler
  <2>3. ColumnsAgree'
    BY <1>11 DEF DropHandler
  <2>4. HandlingInv'
    BY <1>11 DEF DropHandler
  <2>5. OneOutcomeAnnounced'
    BY <1>11 DEF DropHandler
  <2> QED
    BY <2>1, <2>2, <2>3, <2>4, <2>5
<1>12. ASSUME NEW c \in Call, NEW e \in Event, PublishEvent(c, e)
       PROVE  CallInv'
  <2>1. TypeOK'
    BY <1>12 DEF PublishEvent
  <2>2. InitiateInv'
    BY <1>12 DEF PublishEvent
  <2>3. ColumnsAgree'
    BY <1>12 DEF PublishEvent
  <2>4. HandlingInv' /\ OneOutcomeAnnounced'
    BY <1>12, PublishingKeeps
  <2> QED
    BY <2>1, <2>2, <2>3, <2>4
<1>13. ASSUME NEW c \in Call, NEW e \in Event, EventLost(c, e)
       PROVE  CallInv'
  <2>1. TypeOK'
    BY <1>13 DEF EventLost
  <2>2. InitiateInv'
    BY <1>13 DEF EventLost
  <2>3. ColumnsAgree'
    BY <1>13 DEF EventLost
  <2>4. HandlingInv'
    BY <1>13 DEF EventLost
  <2>5. OneOutcomeAnnounced'
    BY <1>13 DEF EventLost
  <2> QED
    BY <2>1, <2>2, <2>3, <2>4, <2>5
<1>14. CASE SweepStaleCalls
  <2>1. TypeOK'
    BY <1>14 DEF SweepStaleCalls, StaleCalls
  <2>2. InitiateInv'
    BY <1>14 DEF SweepStaleCalls, StaleCalls
  <2>3. ColumnsAgree'
    BY <1>14 DEF SweepStaleCalls, StaleCalls
  <2>4. HandlingInv' /\ OneOutcomeAnnounced'
    BY <1>14, SweepingKeeps
  <2> QED
    BY <2>1, <2>2, <2>3, <2>4
<1>15. CASE Tick
  <2>1. TypeOK'
    BY <1>15 DEF Tick
  <2>2. InitiateInv'
    BY <1>15 DEF Tick
  <2>3. ColumnsAgree'
    BY <1>15 DEF Tick
  <2>4. HandlingInv'
    BY <1>15 DEF Tick
  <2>5. OneOutcomeAnnounced'
    BY <1>15 DEF Tick
  <2> QED
    BY <2>1, <2>2, <2>3, <2>4, <2>5
<1>16. CASE UNCHANGED vars
  <2>1. TypeOK'
    BY <1>16 DEF vars
  <2>2. InitiateInv' /\ ColumnsAgree'
    BY <1>16 DEF vars
  <2>3. HandlingInv' /\ OneOutcomeAnnounced'
    BY <1>16 DEF vars
  <2> QED
    BY <2>1, <2>2, <2>3
<1> HIDE DEF CallInv, TypeOK, InitiateInv, ColumnsAgree, HandlingInv, HandlingOK,
      OneOutcomeAnnounced, row, telling, Phase, CallStatus, Ringing, Active, Finished, Event
<1> QED
  BY <1>1, <1>2, <1>3, <1>4, <1>5, <1>6, <1>7, <1>8, <1>9, <1>10, <1>11, <1>12, <1>13, <1>14,
    <1>15, <1>16 DEF Next

LEMMA AlwaysCallInv == Spec => []CallInv
BY InitCallInv, NextCallInv, PTL DEF Spec

(***************************************************************************)
(* The rows of the call log are well-formed and tell one story, whatever   *)
(* the peers, the sweep and a failing initiate_call do.                    *)
(***************************************************************************)
THEOREM RowsAreConsistent == Spec => []RowTellsStory
BY AlwaysCallInv, PTL DEF CallInv, RowTellsStory

(* Peers of a call are told one outcome, the one in the log. *)
THEOREM PeersHearOneOutcome == Spec => []OneOutcomeAnnounced
BY AlwaysCallInv, PTL DEF CallInv

(* The chat shows a call once, when it is over, with its outcome. *)
THEOREM ChatShowsOutcome == Spec => []ChatTellsOutcome
<1>1. ASSUME CallInv PROVE ChatTellsOutcome
  <2>1. \A c \in Call : chatLog[c] \in Seq(Finished)
                        /\ (chatLog[c] = <<>> \/ chatLog[c] = <<status[c]>>)
    BY <1>1 DEF CallInv, TypeOK, HandlingInv, HandlingOK
  <2>2. \A x : Len(<<x>>) = 1 /\ DOMAIN <<x>> = {1} /\ <<x>>[1] = x
    OBVIOUS
  <2>3. Len(<<>>) = 0 /\ DOMAIN <<>> = {}
    OBVIOUS
  <2> SUFFICES ASSUME NEW c \in Call
               PROVE  /\ Len(chatLog[c]) <= 1
                      /\ \A i \in DOMAIN chatLog[c] : chatLog[c][i] = status[c]
    BY DEF ChatTellsOutcome
  <2>4. CASE chatLog[c] = <<>>
    BY <2>3, <2>4
  <2>5. CASE chatLog[c] = <<status[c]>>
    BY <2>2, <2>5
  <2> QED
    BY <2>1, <2>4, <2>5
<1> QED
  BY AlwaysCallInv, <1>1, PTL

(***************************************************************************)
(* No step of anybody changes a finished call: neither a peer who hangs up *)
(* late nor the blind second UPDATE of initiate_call, which the sweep      *)
(* cannot overtake because MaxStall < RingTimeout.                         *)
(***************************************************************************)
OutcomeIsFinal ==
  [][\A c \in Call : status[c] \in Finished => status'[c] = status[c]]_vars

THEOREM FinishedCallsKeepTheirStatus == Spec => OutcomeIsFinal
<1>1. CallInv /\ [Next]_vars => \A c \in Call : status[c] \in Finished => status'[c] = status[c]
  <2> SUFFICES ASSUME CallInv, [Next]_vars, NEW d \in Call, status[d] \in Finished
               PROVE  status'[d] = status[d]
    OBVIOUS
  <2> USE DEF CallInv, TypeOK, InitiateInv, row, Ringing, Active, Finished
  <2>1. ASSUME NEW c \in Call, InitiateInsert(c)
        PROVE  status'[d] = status[d]
    BY <2>1 DEF InitiateInsert
  <2>2. ASSUME NEW c \in Call, InitiateRing(c)
        PROVE  status'[d] = status[d]
    BY <2>2 DEF InitiateRing
  <2>3. ASSUME NEW u \in User, NEW c \in Call,
               AcceptCall(u, c) \/ RejectCall(u, c) \/ EndCall(u, c) \/ MarkCallConnected(u, c)
        PROVE  status'[d] = status[d]
    BY <2>3 DEF AcceptCall, RejectCall, EndCall, CanEnd, MarkCallConnected
  <2>4. CASE SweepStaleCalls
    BY <2>4 DEF SweepStaleCalls, StaleCalls
  <2>5. CASE UNCHANGED status
    BY <2>5
  <2> HIDE DEF CallInv, TypeOK, InitiateInv, row, Ringing, Active, Finished
  <2>6. /\ \A u, v \in User, c \in Call : InitiateCheck(u, v, c) => UNCHANGED status
        /\ \A c \in Call : InitiateFails(c) => UNCHANGED status
        /\ \A c \in Call, e \in Event : LogToChat(c, e) \/ SpawnEvent(c, e) => UNCHANGED status
        /\ \A c \in Call, e \in Event :
             DropHandler(c, e) \/ PublishEvent(c, e) \/ EventLost(c, e) => UNCHANGED status
    BY DEF InitiateCheck, InitiateFails, LogToChat, SpawnEvent, DropHandler, PublishEvent, EventLost,
         row
  <2>7. Tick \/ UNCHANGED vars => UNCHANGED status
    BY DEF Tick, vars, row
  <2> QED
    BY <2>1, <2>2, <2>3, <2>4, <2>5, <2>6, <2>7 DEF Next
<1> QED
  BY AlwaysCallInv, <1>1, PTL DEF Spec, OutcomeIsFinal
-----------------------------------------------------------------------------
(* The promise to the peers *)

(* What a step may do to call c, by the promise. *)
Kept(c) == Promise!Step(c) \/ UNCHANGED <<StageOf(c), announced[c], chatLog[c]>>

LEMMA StepsKeepPromise == CallInv /\ [Next]_vars => \A d \in Call : Kept(d)
<1> SUFFICES ASSUME CallInv, [Next]_vars, NEW d \in Call
             PROVE  Kept(d)
  OBVIOUS
<1>0. /\ status \in [Call -> CallStatus \cup {"absent"}]
      /\ announced \in [Call -> SUBSET Event]
      /\ handling \in [Call -> SUBSET Event]
      /\ phase[d] = "checked" => status[d] = "absent"
  BY DEF CallInv, TypeOK, InitiateInv
<1> USE DEF Kept, Promise!Step, StageOf, Ringing, Active, Finished, CallStatus, Event, row
<1>1. ASSUME NEW c \in Call, InitiateInsert(c) PROVE Kept(d)
  BY <1>0, <1>1 DEF InitiateInsert, telling, Promise!Ring, CallInv, InitiateInv
<1>2. ASSUME NEW c \in Call, InitiateRing(c) PROVE Kept(d)
  BY <1>0, <1>2 DEF InitiateRing, telling, CallInv, InitiateInv
<1>3. ASSUME NEW u \in User, NEW c \in Call, AcceptCall(u, c) PROVE Kept(d)
  BY <1>0, <1>3 DEF AcceptCall, Promise!Answer
<1>4. ASSUME NEW u \in User, NEW c \in Call, RejectCall(u, c) PROVE Kept(d)
  BY <1>0, <1>4 DEF RejectCall, Promise!Finish
<1>5. ASSUME NEW u \in User, NEW c \in Call, EndCall(u, c) PROVE Kept(d)
  BY <1>0, <1>5 DEF EndCall, CanEnd, StatusAfterEnd, Promise!Finish
<1>6. ASSUME NEW u \in User, NEW c \in Call, MarkCallConnected(u, c) PROVE Kept(d)
  BY <1>0, <1>6 DEF MarkCallConnected, telling
<1>7. CASE SweepStaleCalls
  BY <1>0, <1>7 DEF SweepStaleCalls, StaleCalls, Promise!Finish
<1>8. ASSUME NEW c \in Call, NEW r \in Event, LogToChat(c, r) PROVE Kept(d)
  <2>1. r \in handling[c] \ {"accepted"} /\ UNCHANGED <<status, announced>>
    BY <1>8 DEF LogToChat
  <2>2. CASE d # c \/ UNCHANGED chatLog
    <3>1. chatLog'[d] = chatLog[d]
      BY <1>8, <2>2 DEF LogToChat, CallInv, TypeOK
    <3> QED
      BY <2>1, <3>1
  <2>3. CASE d = c /\ ~UNCHANGED chatLog
    <3>1. r = status[d] /\ chatLog[d] = <<>> /\ announced[d] \subseteq {"accepted"}
      BY <1>0, <2>1, <2>3 DEF CallInv, HandlingInv, HandlingOK
    <3>2. chatLog'[d] = <<status[d]>>
      BY <1>8, <2>3, <3>1 DEF LogToChat, CallInv, TypeOK
    <3> QED
      BY <1>0, <2>1, <2>3, <3>1, <3>2 DEF Promise!LogOutcome, Promise!Outcome
  <2> QED
    BY <2>2, <2>3
<1>9. ASSUME NEW c \in Call, NEW e \in Event, PublishEvent(c, e) PROVE Kept(d)
  <2>1. /\ e \in publishing[c]
        /\ announced' = [announced EXCEPT ![c] = @ \cup {e}]
        /\ UNCHANGED <<status, chatLog>>
    BY <1>9 DEF PublishEvent
  <2>2. CASE d # c
    BY <1>0, <2>1, <2>2
  <2>3. CASE d = c /\ e = "accepted"
    <3>1. status[d] \notin Ringing \cup {"absent"}
      BY <2>1, <2>3 DEF CallInv, HandlingInv, HandlingOK
    <3> QED
      BY <1>0, <2>1, <2>3, <3>1 DEF Promise!TellAnswer
  <2>4. CASE d = c /\ e # "accepted"
    <3>1. announced[d] \subseteq {"accepted"}
      BY <1>0, <2>1, <2>4 DEF CallInv, HandlingInv, HandlingOK, OneOutcomeAnnounced
    <3>2. /\ status[d] \in Finished
          /\ e \in {status[d], "ended"}
          /\ status[d] = "rejected" => e = "rejected"
      BY <1>0, <2>1, <2>4 DEF CallInv, OneOutcomeAnnounced
    <3>3. e = "missed" => chatLog[d] = <<>>
      BY <2>1, <2>4 DEF CallInv, HandlingInv, HandlingOK
    <3> QED
      BY <1>0, <2>1, <2>4, <3>1, <3>2, <3>3 DEF Promise!TellOutcome, Promise!Outcome
  <2> QED
    BY <2>2, <2>3, <2>4
<1>10. CASE UNCHANGED <<status, announced, chatLog>>
  BY <1>10
<1> HIDE DEF Kept, Promise!Step, StageOf, Ringing, Active, Finished, CallStatus, Event, row
<1>11. /\ \A u, v \in User, c \in Call : InitiateCheck(u, v, c) => UNCHANGED <<status, announced, chatLog>>
       /\ \A c \in Call : InitiateFails(c) => UNCHANGED <<status, announced, chatLog>>
       /\ \A c \in Call, e \in Event :
            SpawnEvent(c, e) \/ DropHandler(c, e) \/ EventLost(c, e)
              => UNCHANGED <<status, announced, chatLog>>
  BY DEF InitiateCheck, InitiateFails, SpawnEvent, DropHandler, EventLost, row, telling
<1>12. Tick \/ UNCHANGED vars => UNCHANGED <<status, announced, chatLog>>
  BY DEF Tick, vars, row, telling
<1> QED
  BY <1>1, <1>2, <1>3, <1>4, <1>5, <1>6, <1>7, <1>8, <1>9, <1>10, <1>11, <1>12 DEF Next

(***************************************************************************)
(* For any number of users and calls, every step of handlers, sweep and    *)
(* initiate_call is one that CallPromise allows each call, or none: the    *)
(* call log implements the safety of the promise.                          *)
(***************************************************************************)
THEOREM CallsKeepTheirPromise == Spec => Promise!Safety
<1>1. Init => Promise!Init
  BY DEF Init, Promise!Init, StageOf, Ringing
<1>2. CallInv /\ [Next]_vars => [Promise!Next]_Promise!vars
  BY StepsKeepPromise DEF Kept, Promise!Next
<1> QED
  BY <1>1, <1>2, AlwaysCallInv, PTL DEF Spec, Promise!Safety

-----------------------------------------------------------------------------
(* Signaling: the inductive invariant *)

(* In a queue s comes before t: they differ, and one sender's keep their order. *)
Before(s, t) == s # t /\ (s.from = t.from /\ s.from # Server => s.n < t.n)

(* Its PUBLISH has been tried. *)
Published(s) ==
  /\ s \in Signal
  /\ IF s.from = Server THEN s.n \in DOMAIN event /\ event[s.n] # "waiting"
     ELSE s.n <= sent[s.from]

Mirrored(s) ==
  /\ Published(s)
  /\ IF s.from = Server THEN event[s.n] = "mirrored" ELSE mirroring[s.from] # s

(* The earlier signals of each sender come before. *)
Gapless(s, n) ==
  \A i \in 1..n : s[i].from # Server =>
    \A e \in 1..s[i].n - 1 : \E h \in 1..i - 1 : s[h].from = s[i].from /\ s[h].n = e

HandlerOK(k) ==
  /\ stage[k] = "new" => sent[k] = 0
  /\ stage[k] \in {"new", "subscribed"} => received[k] = <<>> /\ sent[k] = 0
  /\ stage[k] \in {"new", "closed"} => live[k] = <<>>
  /\ mirroring[k] # None => stage[k] = "open" /\ mirroring[k] = [from |-> k, n |-> sent[k]]
  /\ \A i \in DOMAIN event : found[k][i] = "mirrored" => event[i] = "mirrored"

(* The events that started while k was connected. *)
Witnessed(k, i) ==
  /\ stage[k] \in {"subscribed", "open"}
  /\ found[k][i] = "waiting"
  /\ event[i] # "waiting"
  /\ <<"PUBLISH", StatusEvent(i)>> \notin failed

WitnessOK(k) ==
  \A i \in DOMAIN event :
    Witnessed(k, i) => StatusEvent(i) \in Elements(received[k]) \cup Elements(live[k])

(* The first b messages a client received were replayed, the others came by *)
(* the channel, before those that wait there.                               *)
Split(k, b) ==
  /\ b \in 0..Len(received[k])
  /\ \A i, j \in 1..b : i < j => received[k][i] # received[k][j]
  /\ BufferIsComplete => Gapless(received[k], b)
  /\ \A i, j \in (b + 1)..Len(received[k]) : i < j => Before(received[k][i], received[k][j])
  /\ \A i \in (b + 1)..Len(received[k]), j \in 1..Len(live[k]) :
       Before(received[k][i], live[k][j])

QueueOK(k) ==
  /\ \A i \in 1..Len(live[k]) : Published(live[k][i])
  /\ \A i \in 1..Len(received[k]) : Published(received[k][i])
  /\ \A i, j \in 1..Len(live[k]) : i < j => Before(live[k][i], live[k][j])
  /\ \E b \in 0..Len(received[k]) : Split(k, b)

BufferOK ==
  /\ \A i \in 1..Len(buffer) : Mirrored(buffer[i])
  /\ \A i, j \in 1..Len(buffer) : i < j => buffer[i] # buffer[j]
  /\ BufferIsComplete => Gapless(buffer, Len(buffer))

(* What has been mirrored is there. *)
CompleteOK ==
  /\ BufferIsComplete =>
       \A k \in Conn : stage[k] = "open" =>
         \A n \in 1..sent[k] :
           mirroring[k] # [from |-> k, n |-> n] => [from |-> k, n |-> n] \in Elements(buffer)
  /\ NothingDeleted =>
       \A i \in DOMAIN event : event[i] = "mirrored" => StatusEvent(i) \in Elements(buffer)

SignalingInv ==
  /\ SignalingTypeOK
  /\ \A k \in Conn : HandlerOK(k) /\ QueueOK(k) /\ WitnessOK(k)
  /\ BufferOK /\ CompleteOK /\ EarlyEventsAreReplayed

-----------------------------------------------------------------------------
(* The least element stands in for induction over numbers. *)

LEMMA NatMin ==
  ASSUME NEW T \in SUBSET Nat, T # {}
  PROVE  \E m \in T : \A y \in T : m <= y
<1>1. IsWellFoundedOn(OpToRel(<, Nat), Nat)
  BY NatLessThanWellFounded
<1>2. PICK m \in T : \A y \in T : ~(<<y, m>> \in OpToRel(<, Nat))
  BY <1>1, WFMin
<1>3. ASSUME NEW y \in T, y < m PROVE FALSE
  BY <1>2, <1>3 DEF OpToRel
<1> QED
  BY <1>3

-----------------------------------------------------------------------------
(* Signaling: what a handler passes on *)

(* u[n] is what it passes on of the first n messages of s. *)
IsHeard(u, k, s, N) ==
  u = [n \in 0..N |->
         IF n = 0 THEN <<>>
         ELSE IF NotEcho(k, s[n]) THEN Append(u[n - 1], s[n]) ELSE u[n - 1]]

LEMMA HeardExists ==
  ASSUME NEW k, NEW s, NEW N \in Nat
  PROVE  \E u : IsHeard(u, k, s, N)
<1> DEFINE T == {n \in Nat : ~\E u : IsHeard(u, k, s, n)}
<1> SUFFICES ASSUME T # {} PROVE FALSE
  OBVIOUS
<1>1. PICK m \in T : \A y \in T : m <= y
  <2>1. T \in SUBSET Nat
    OBVIOUS
  <2> HIDE DEF T
  <2> QED
    BY <2>1, NatMin
<1>2. m # 0
  <2>1. IsHeard([n \in 0..0 |-> <<>>], k, s, 0)
    BY DEF IsHeard
  <2> QED
    BY <2>1
<1>3. m - 1 \in Nat /\ m - 1 \notin T /\ m \in Nat
  BY <1>1, <1>2
<1>4. PICK u : IsHeard(u, k, s, m - 1)
  BY <1>3
<1> DEFINE next == IF NotEcho(k, s[m]) THEN Append(u[m - 1], s[m]) ELSE u[m - 1]
           w == [n \in 0..m |-> IF n = m THEN next ELSE u[n]]
<1>5. \A n \in 0..m :
        w[n] = IF n = 0 THEN <<>>
               ELSE IF NotEcho(k, s[n]) THEN Append(w[n - 1], s[n]) ELSE w[n - 1]
  <2>1. w[m] = next /\ w[m - 1] = u[m - 1]
    BY <1>2, <1>3
  <2>2. \A n \in 0..m - 1 : w[n] = u[n] /\ (n # 0 => w[n - 1] = u[n - 1])
    BY <1>3
  <2>3. \A n \in 0..m - 1 :
          u[n] = IF n = 0 THEN <<>>
                 ELSE IF NotEcho(k, s[n]) THEN Append(u[n - 1], s[n]) ELSE u[n - 1]
    BY <1>4 DEF IsHeard
  <2>4. \A n \in 0..m : n = m \/ n \in 0..m - 1
    BY <1>3
  <2> HIDE DEF w
  <2> QED
    BY <1>2, <2>1, <2>2, <2>3, <2>4
<1>6. IsHeard(w, k, s, m)
  BY <1>5 DEF IsHeard
<1> QED
  BY <1>6

LEMMA HeardUnfolds ==
  ASSUME NEW k, NEW s, Len(s) \in Nat
  PROVE  \E u : IsHeard(u, k, s, Len(s)) /\ Heard(k, s) = u[Len(s)]
<1> DEFINE Step(u, n) == IF n = 0 THEN <<>>
                         ELSE IF NotEcho(k, s[n]) THEN Append(u[n - 1], s[n]) ELSE u[n - 1]
           upTo == CHOOSE u : u = [n \in 0..Len(s) |-> Step(u, n)]
<1>1. \E u : u = [n \in 0..Len(s) |-> Step(u, n)]
  <2>1. PICK u : IsHeard(u, k, s, Len(s))
    BY HeardExists
  <2> QED
    BY <2>1 DEF IsHeard
<1>2. upTo = [n \in 0..Len(s) |-> Step(upTo, n)]
  BY <1>1
<1>3. Heard(k, s) = upTo[Len(s)]
  BY DEF Heard
<1>4. IsHeard(upTo, k, s, Len(s))
  <2> HIDE DEF upTo
  <2> QED
    BY <1>2 DEF IsHeard
<1> HIDE DEF upTo
<1> QED
  BY <1>3, <1>4

(* The messages h are those of the first n of s that are no echo: f says    *)
(* where each comes from.                                                   *)
Passes(k, s, n, h, f) ==
  /\ h \in Seq(Signal)
  /\ f \in [1..Len(h) -> 1..n]
  /\ \A p \in 1..Len(h) : h[p] = s[f[p]] /\ NotEcho(k, h[p])
  /\ \A p, q \in 1..Len(h) : p < q => f[p] < f[q]
  /\ \A i \in 1..n : NotEcho(k, s[i]) => \E p \in 1..Len(h) : f[p] = i

LEMMA PassesOneMore ==
  ASSUME NEW k, NEW s \in Seq(Signal), NEW n \in 1..Len(s), NEW h, NEW f, Passes(k, s, n - 1, h, f)
  PROVE  \E g : Passes(k, s, n, IF NotEcho(k, s[n]) THEN Append(h, s[n]) ELSE h, g)
<1>0. h \in Seq(Signal) /\ Len(h) \in Nat /\ n \in Nat /\ s[n] \in Signal
  BY DEF Passes
<1>1. CASE NotEcho(k, s[n])
  <2> DEFINE l == Append(h, s[n])
             g == [p \in 1..Len(h) + 1 |-> IF p = Len(h) + 1 THEN n ELSE f[p]]
  <2>1. /\ l \in Seq(Signal) /\ Len(l) = Len(h) + 1 /\ l[Len(h) + 1] = s[n]
        /\ \A p \in 1..Len(h) : l[p] = h[p]
    BY <1>0
  <2>a. \A p \in 1..Len(h) : f[p] \in 1..n - 1
    BY DEF Passes
  <2>b. g[Len(h) + 1] = n /\ \A p \in 1..Len(h) : g[p] = f[p]
    BY <1>0
  <2>c. \A p \in 1..Len(h) + 1 : g[p] \in 1..n
    BY <1>0, <2>a
  <2>2. /\ g[Len(h) + 1] = n /\ \A p \in 1..Len(h) : g[p] = f[p] /\ f[p] \in 1..n - 1
        /\ g \in [1..Len(h) + 1 -> 1..n]
    BY <2>a, <2>b, <2>c
  <2> HIDE DEF l, g
  <2>3. \A p \in 1..Len(l) : p = Len(h) + 1 \/ p \in 1..Len(h)
    BY <1>0, <2>1
  <2>4. \A p \in 1..Len(l) : l[p] = s[g[p]] /\ NotEcho(k, l[p])
    BY <1>0, <1>1, <2>1, <2>2, <2>3 DEF Passes
  <2>5. \A p, q \in 1..Len(l) : p < q => g[p] < g[q]
    BY <1>0, <2>1, <2>2, <2>3 DEF Passes
  <2>6. ASSUME NEW i \in 1..n, NotEcho(k, s[i]) PROVE \E p \in 1..Len(l) : g[p] = i
    <3>1. CASE i = n
      BY <3>1, <1>0, <2>1, <2>2
    <3>2. CASE i \in 1..n - 1
      <4>1. PICK p \in 1..Len(h) : f[p] = i
        BY <3>2, <2>6 DEF Passes
      <4> QED
        BY <4>1, <1>0, <2>1, <2>2
    <3> QED
      BY <3>1, <3>2, <1>0
  <2>7. Passes(k, s, n, l, g)
    BY <2>1, <2>2, <2>4, <2>5, <2>6 DEF Passes
  <2> QED
    BY <1>1, <2>7 DEF l
<1>2. CASE ~NotEcho(k, s[n])
  <2>1. \A i \in 1..n : NotEcho(k, s[i]) => i \in 1..n - 1
    BY <1>2
  <2>2. f \in [1..Len(h) -> 1..n]
    BY <1>0 DEF Passes
  <2>3. Passes(k, s, n, h, f)
    BY <2>1, <2>2 DEF Passes
  <2> QED
    BY <1>2, <2>3
<1> QED
  BY <1>1, <1>2

LEMMA HeardPasses ==
  ASSUME NEW k, NEW s \in Seq(Signal)
  PROVE  \E f : Passes(k, s, Len(s), Heard(k, s), f)
<1>0. Len(s) \in Nat
  OBVIOUS
<1>1. PICK u : IsHeard(u, k, s, Len(s)) /\ Heard(k, s) = u[Len(s)]
  BY <1>0, HeardUnfolds
<1>2. \A n \in 0..Len(s) :
        u[n] = IF n = 0 THEN <<>>
               ELSE IF NotEcho(k, s[n]) THEN Append(u[n - 1], s[n]) ELSE u[n - 1]
  BY <1>1 DEF IsHeard
<1> DEFINE T == {n \in 0..Len(s) : ~\E f : Passes(k, s, n, u[n], f)}
<1> SUFFICES ASSUME T # {} PROVE FALSE
  BY <1>0, <1>1
<1>3. PICK m \in T : \A y \in T : m <= y
  <2>1. T \in SUBSET Nat
    OBVIOUS
  <2> HIDE DEF T
  <2> QED
    BY <2>1, NatMin
<1>4. m # 0
  <2>1. u[0] = <<>>
    BY <1>0, <1>2
  <2>2. Passes(k, s, 0, <<>>, <<>>)
    BY DEF Passes
  <2> QED
    BY <2>1, <2>2
<1>5. m \in 1..Len(s) /\ m - 1 \in 0..Len(s) /\ m - 1 \notin T
  BY <1>0, <1>3, <1>4
<1>6. PICK f : Passes(k, s, m - 1, u[m - 1], f)
  BY <1>5
<1>7. \E g : Passes(k, s, m, u[m], g)
  BY <1>2, <1>5, <1>6, PassesOneMore
<1> QED
  BY <1>3, <1>7

-----------------------------------------------------------------------------
(* Signaling: what steps do to queues *)

LEMMA SignalingTypes ==
  ASSUME SignalingTypeOK
  PROVE  /\ \A k \in Conn : /\ sent[k] \in Nat /\ plan.signals[k] \in 0..2 /\ sent[k] <= plan.signals[k]
                            /\ live[k] \in Seq(Signal) /\ received[k] \in Seq(Signal)
                            /\ k # Server
         /\ DOMAIN event = 1..plan.events /\ plan.events \in 0..2 /\ buffer \in Seq(Signal)
         /\ closed \in Nat /\ expired \in Nat /\ Server \notin Conn
  BY SignalingAssumption DEF SignalingTypeOK, Plan

LEMMA FirstSignalingInv == SignalingInit => SignalingInv
<1> SUFFICES ASSUME SignalingInit PROVE SignalingInv
  OBVIOUS
<1> USE DEF SignalingInit
<1>0. plan \in Plan /\ plan.events \in 0..2 /\ plan.signals \in [Conn -> 0..2]
      /\ plan.closes \in 0..2 /\ plan.expiries \in 0..2
  BY SignalingAssumption DEF Plan
<1>1. SignalingTypeOK
  <2>1. live \in [Conn -> Seq(Signal)] /\ received \in [Conn -> Seq(Signal)] /\ buffer \in Seq(Signal)
    OBVIOUS
  <2>2. event \in [1..plan.events -> Task] /\ found \in [Conn -> [DOMAIN event -> Task]]
    BY <1>0 DEF Task
  <2> QED
    BY <1>0, <2>1, <2>2 DEF SignalingTypeOK, Stage
<1>2. ASSUME NEW k \in Conn PROVE HandlerOK(k) /\ QueueOK(k) /\ WitnessOK(k)
  <2>1. received[k] = <<>> /\ live[k] = <<>> /\ Len(received[k]) = 0 /\ Len(live[k]) = 0
    OBVIOUS
  <2>2. Split(k, 0)
    BY <2>1 DEF Split, Gapless
  <2>3. QueueOK(k)
    BY <2>1, <2>2 DEF QueueOK
  <2>4. HandlerOK(k)
    BY DEF HandlerOK
  <2>5. WitnessOK(k)
    BY DEF WitnessOK, Witnessed
  <2> QED
    BY <2>3, <2>4, <2>5
<1>3. Len(buffer) = 0
  OBVIOUS
<1>4. BufferOK
  BY <1>3 DEF BufferOK, Gapless
<1>5. CompleteOK /\ EarlyEventsAreReplayed
  BY <1>0 DEF CompleteOK, EarlyEventsAreReplayed
<1> QED
  BY <1>1, <1>2, <1>4, <1>5 DEF SignalingInv

(* What a step changes, as far as the order of messages is concerned. *)
Onward ==
  /\ \A s \in Signal : Published(s) => Published(s)'
  /\ BufferIsComplete' => BufferIsComplete
  /\ NothingDeleted' => NothingDeleted
  /\ failed \subseteq failed'

(* A step that sends k nothing, or ends its connection. *)
LEMMA QueueStays ==
  ASSUME NEW k \in Conn, QueueOK(k), Onward,
         received'[k] = received[k], live'[k] = live[k] \/ live'[k] = <<>>
  PROVE  QueueOK(k)'
<1>1. PICK b \in 0..Len(received[k]) : Split(k, b)
  BY DEF QueueOK
<1>2. Len(<<>>) = 0
  OBVIOUS
<1>3. Split(k, b)'
  BY <1>1, <1>2 DEF Split, Onward, Gapless, Before
<1>4. /\ (\A i \in 1..Len(live[k]) : Published(live[k][i]))'
      /\ (\A i \in 1..Len(received[k]) : Published(received[k][i]))'
  <2>1. /\ \A i \in 1..Len(live[k]) : live[k][i] \in Signal /\ Published(live[k][i])
        /\ \A i \in 1..Len(received[k]) : received[k][i] \in Signal /\ Published(received[k][i])
    BY DEF QueueOK, Published
  <2> QED
    BY <2>1, <1>2 DEF Onward, Published
<1>5. \A i, j \in 1..Len(live'[k]) : i < j => Before(live'[k][i], live'[k][j])
  BY <1>2 DEF QueueOK
<1> QED
  BY <1>1, <1>3, <1>4, <1>5 DEF QueueOK

(* A step that publishes s, which nobody has seen. *)
LEMMA QueueGrows ==
  ASSUME NEW k \in Conn, QueueOK(k), SignalingTypeOK, Onward, received'[k] = received[k],
         NEW s \in Signal, ~Published(s), Published(s)', live'[k] = Append(live[k], s)
  PROVE  QueueOK(k)'
<1>0. live[k] \in Seq(Signal) /\ Len(live[k]) \in Nat /\ received[k] \in Seq(Signal)
  BY SignalingTypes
<1>1. /\ Len(live'[k]) = Len(live[k]) + 1 /\ live'[k][Len(live[k]) + 1] = s
      /\ \A i \in 1..Len(live[k]) : live'[k][i] = live[k][i]
      /\ \A i \in 1..Len(live'[k]) : i \in 1..Len(live[k]) \/ i = Len(live[k]) + 1
  BY <1>0
<1>2. ASSUME NEW t \in Signal, Published(t) PROVE Before(t, s)
  <2>1. t # s
    BY <1>2
  <2>2. CASE s.from # Server /\ t.from = s.from
    <3>1. t.n <= sent[s.from] /\ ~(s.n <= sent[s.from]) /\ s.n \in Nat /\ t.n \in Nat /\ s.from \in Conn
      BY <1>2, <2>2 DEF Published, Signal
    <3>2. sent[s.from] \in Nat
      BY <3>1, SignalingTypes
    <3> QED
      BY <3>1, <3>2, <2>1 DEF Before
  <2> QED
    BY <2>1, <2>2 DEF Before
<1>3. PICK b \in 0..Len(received[k]) : Split(k, b)
  BY DEF QueueOK
<1>4. /\ \A i \in 1..Len(live[k]) : live[k][i] \in Signal /\ Published(live[k][i])
      /\ \A i \in 1..Len(received[k]) : received[k][i] \in Signal /\ Published(received[k][i])
  BY DEF QueueOK, Published
<1>5. Split(k, b)'
  <2>1. \A i \in (b + 1)..Len(received[k]) : i \in 1..Len(received[k])
    BY <1>0
  <2>2. \A i \in (b + 1)..Len(received[k]), j \in 1..Len(live'[k]) : Before(received[k][i], live'[k][j])
    BY <1>1, <1>2, <1>3, <1>4, <2>1 DEF Split
  <2>3. (b \in 0..Len(received[k]) /\ \A i, j \in 1..b : i < j => received[k][i] # received[k][j])'
    BY <1>3 DEF Split
  <2>4. (BufferIsComplete => Gapless(received[k], b))'
    BY <1>3 DEF Split, Onward, Gapless
  <2>5. (\A i, j \in (b + 1)..Len(received[k]) : i < j => Before(received[k][i], received[k][j]))'
    BY <1>3 DEF Split, Before
  <2>6. (\A i \in (b + 1)..Len(received[k]), j \in 1..Len(live[k]) :
           Before(received[k][i], live[k][j]))'
    BY <2>2 DEF Before
  <2> QED
    BY <2>3, <2>4, <2>5, <2>6 DEF Split, Before, Gapless
<1>6. /\ (\A i \in 1..Len(live[k]) : Published(live[k][i]))'
      /\ (\A i \in 1..Len(received[k]) : Published(received[k][i]))'
  <2>1. ASSUME NEW i \in 1..Len(live'[k]) PROVE (Published(live[k][i]))'
    <3>1. CASE i \in 1..Len(live[k])
      BY <1>1, <1>4, <3>1 DEF Onward, Published
    <3>2. CASE i = Len(live[k]) + 1
      BY <1>1, <3>2 DEF Published
    <3> QED
      BY <1>1, <3>1, <3>2
  <2>2. (\A i \in 1..Len(received[k]) : Published(received[k][i]))'
    BY <1>4 DEF Onward, Published
  <2> QED
    BY <2>1, <2>2
<1>7. \A i, j \in 1..Len(live'[k]) : i < j => Before(live'[k][i], live'[k][j])
  <2>1. \A i, j \in 1..Len(live'[k]) : i < j => i \in 1..Len(live[k])
    BY <1>0, <1>1
  <2> QED
    BY <1>0, <1>1, <1>2, <1>4, <2>1 DEF QueueOK
<1> QED
  BY <1>3, <1>5, <1>6, <1>7 DEF QueueOK

-----------------------------------------------------------------------------
(* Signaling: every step keeps the invariant *)

LEMMA OnwardBy ==
  ASSUME SignalingTypeOK, DOMAIN event' = DOMAIN event,
         \A k \in Conn : sent'[k] \in Nat /\ sent[k] <= sent'[k],
         \A i \in DOMAIN event : event[i] # "waiting" => event'[i] # "waiting",
         closed' \in Nat, expired' \in Nat, closed <= closed', expired <= expired',
         failed \subseteq failed'
  PROVE  Onward
<1>1. ASSUME NEW s \in Signal, Published(s) PROVE Published(s)'
  <2>1. CASE s.from = Server
    BY <1>1, <2>1 DEF Published
  <2>2. CASE s.from # Server
    <3>1. s.from \in Conn /\ s.n \in Nat
      BY <2>2 DEF Signal
    <3> QED
      BY <1>1, <2>2, <3>1, SignalingTypes DEF Published
  <2> QED
    BY <2>1, <2>2
<1>2. NothingDeleted' => NothingDeleted
  BY SignalingTypes DEF NothingDeleted
<1>3. BufferIsComplete' => BufferIsComplete
  BY <1>2 DEF BufferIsComplete
<1> QED
  BY <1>1, <1>2, <1>3 DEF Onward

LEMMA SignalingTypesStay ==
  ASSUME SignalingTypeOK, SignalingNext
  PROVE  SignalingTypeOK'
<1> USE DEF SignalingTypeOK
<1>0. plan' = plan /\ DOMAIN event = 1..plan.events
  BY DEF SignalingNext, Subscribe, Replay, Relay, SignalPublish, SignalMirror, Close, Break,
         EventPublish, EventMirror, SweepEventPublish, BufferExpires
<1>1. ASSUME NEW k \in Conn, Subscribe(k) PROVE SignalingTypeOK'
  <2>1. stage' \in [Conn -> Stage]
    BY <1>1 DEF Subscribe, Stage
  <2>2. event \in [DOMAIN event -> Task]
    BY <1>0
  <2>3. found' \in [Conn -> [DOMAIN event -> Task]]
    BY <1>1, <2>2 DEF Subscribe
  <2> QED
    BY <1>0, <1>1, <2>1, <2>3 DEF Subscribe
<1>2. ASSUME NEW k \in Conn, Replay(k) PROVE SignalingTypeOK'
  <2>1. stage' \in [Conn -> Stage]
    BY <1>2 DEF Replay, Stage
  <2>2. Heard(k, buffer) \in Seq(Signal)
    BY HeardPasses DEF Passes
  <2>3. received[k] \o Heard(k, buffer) \in Seq(Signal)
    BY <2>2
  <2>4. received' \in [Conn -> Seq(Signal)]
    BY <1>2, <2>3 DEF Replay
  <2>5. <<"LRANGE", k>> \in Command
    BY DEF Command
  <2>6. failed' \in SUBSET Command
    BY <1>2, <2>5 DEF Replay, Fails
  <2> QED
    BY <1>0, <1>2, <2>1, <2>4, <2>6 DEF Replay
<1>3. ASSUME NEW k \in Conn, Relay(k) PROVE SignalingTypeOK'
  <2>1. live[k] \in Seq(Signal) /\ live[k] # <<>> /\ received[k] \in Seq(Signal)
    BY <1>3 DEF Relay
  <2>2. Head(live[k]) \in Signal /\ Tail(live[k]) \in Seq(Signal)
    BY <2>1
  <2>3. Append(received[k], Head(live[k])) \in Seq(Signal)
    BY <2>1, <2>2
  <2>4. live' \in [Conn -> Seq(Signal)]
    BY <1>3, <2>2 DEF Relay
  <2>5. received' \in [Conn -> Seq(Signal)]
    BY <1>3, <2>3 DEF Relay
  <2> QED
    BY <1>0, <1>3, <2>4, <2>5 DEF Relay
<1>4. ASSUME NEW s \in Signal, Publish(s)
      PROVE  live' \in [Conn -> Seq(Signal)] /\ failed' \in SUBSET Command
  <2>1. \A k \in Conn : Append(live[k], s) \in Seq(Signal)
    BY <1>4
  <2>2. live' \in [Conn -> Seq(Signal)]
    <3>1. \/ live' = [k \in Conn |-> IF k \in Subscribers THEN Append(live[k], s) ELSE live[k]]
          \/ live' = live
      BY <1>4 DEF Publish
    <3>2. live \in [Conn -> Seq(Signal)]
      OBVIOUS
    <3> HIDE DEF SignalingTypeOK
    <3> QED
      BY <2>1, <3>1, <3>2
  <2>3. <<"PUBLISH", s>> \in Command
    BY <1>4 DEF Command
  <2> QED
    BY <1>4, <2>2, <2>3 DEF Publish, Fails
<1>m. ASSUME NEW s \in Signal, Fails(<<"RPUSH", s>>) PROVE failed' \in SUBSET Command
  <2>1. <<"RPUSH", s>> \in Command
    BY <1>m DEF Command
  <2> QED
    BY <1>m, <2>1 DEF Fails
<1>5. ASSUME NEW s \in Signal, Mirror(s) PROVE buffer' \in Seq(Signal)
  BY <1>5 DEF Mirror
<1>6. ASSUME NEW k \in Conn, SignalPublish(k) PROVE SignalingTypeOK'
  <2>1. plan.signals[k] \in 0..2 /\ sent[k] \in 0..plan.signals[k] /\ sent[k] < plan.signals[k]
    <3>1. plan \in Plan /\ plan.signals \in [Conn -> 0..2]
      BY SignalingAssumption DEF Plan
    <3>2. sent[k] \in 0..2 /\ sent[k] <= plan.signals[k] /\ sent[k] < plan.signals[k]
      BY <1>6 DEF SignalPublish
    <3> QED
      BY <3>1, <3>2
  <2>2. [from |-> k, n |-> sent[k] + 1] \in Signal
    BY <2>1 DEF Signal
  <2>3. live' \in [Conn -> Seq(Signal)] /\ failed' \in SUBSET Command
    BY <1>4, <1>6, <2>2 DEF SignalPublish
  <2>4. mirroring' \in [Conn -> Signal \cup {None}]
    BY <1>6, <2>2 DEF SignalPublish
  <2>5. sent' \in [Conn -> 0..2] /\ \A c \in Conn : sent'[c] <= plan.signals[c]
    BY <1>6, <2>1 DEF SignalPublish
  <2> QED
    BY <1>0, <1>6, <2>3, <2>4, <2>5 DEF SignalPublish
<1>7. ASSUME NEW k \in Conn, SignalMirror(k) PROVE SignalingTypeOK'
  <2>1. mirroring[k] \in Signal
    BY <1>7 DEF SignalMirror, HasPublished
  <2>2. mirroring' \in [Conn -> Signal \cup {None}]
    BY <1>7 DEF SignalMirror
  <2>3. buffer' \in Seq(Signal) /\ failed' \in SUBSET Command
    BY <1>5, <1>m, <1>7, <2>1 DEF SignalMirror
  <2> QED
    BY <1>0, <1>7, <2>2, <2>3 DEF SignalMirror
<1>8. ASSUME NEW k \in Conn, Close(k) PROVE SignalingTypeOK'
  <2>1. plan.closes \in 0..2
    BY SignalingAssumption DEF Plan
  <2>2. closed' \in 0..plan.closes
    BY <1>8, <2>1 DEF Close
  <2>3. stage' \in [Conn -> Stage] /\ live' \in [Conn -> Seq(Signal)] /\ buffer' \in Seq(Signal)
    BY <1>8 DEF Close, Stage
  <2> QED
    BY <1>0, <1>8, <2>2, <2>3 DEF Close
<1>9. ASSUME NEW k \in Conn, Break(k) PROVE SignalingTypeOK'
  <2>1. stage' \in [Conn -> Stage] /\ live' \in [Conn -> Seq(Signal)]
    BY <1>9 DEF Break, Stage
  <2>2. mirroring' \in [Conn -> Signal \cup {None}]
    BY <1>9 DEF Break
  <2> QED
    BY <1>0, <1>9, <2>1, <2>2 DEF Break
<1>10. ASSUME NEW i \in DOMAIN event PROVE StatusEvent(i) \in Signal
  <2>1. plan.events \in 0..2
    BY SignalingAssumption DEF Plan
  <2> QED
    BY <1>0, <2>1 DEF StatusEvent, Signal
<1>11. ASSUME NEW i \in DOMAIN event, EventPublish(i) \/ SweepEventPublish(i) PROVE SignalingTypeOK'
  <2>1. event' \in [1..plan.events -> Task] /\ DOMAIN event' = DOMAIN event
    BY <1>11 DEF EventPublish, SweepEventPublish, Task
  <2>2. live' \in [Conn -> Seq(Signal)] /\ failed' \in SUBSET Command
    BY <1>4, <1>10, <1>11 DEF EventPublish, SweepEventPublish
  <2> QED
    BY <1>0, <1>11, <2>1, <2>2 DEF EventPublish, SweepEventPublish
<1>12. ASSUME NEW i \in DOMAIN event, EventMirror(i) PROVE SignalingTypeOK'
  <2>1. event' \in [1..plan.events -> Task] /\ DOMAIN event' = DOMAIN event
    BY <1>12 DEF EventMirror, Task
  <2>2. buffer' \in Seq(Signal) /\ failed' \in SUBSET Command
    BY <1>5, <1>m, <1>10, <1>12 DEF EventMirror
  <2> QED
    BY <1>0, <1>12, <2>1, <2>2 DEF EventMirror
<1>13. ASSUME BufferExpires PROVE SignalingTypeOK'
  <2>1. plan.expiries \in 0..2
    BY SignalingAssumption DEF Plan
  <2>2. expired' \in 0..plan.expiries /\ buffer' \in Seq(Signal)
    BY <1>13, <2>1 DEF BufferExpires
  <2> QED
    BY <1>0, <1>13, <2>2 DEF BufferExpires
<1> HIDE DEF SignalingTypeOK
<1> QED
  BY <1>1, <1>2, <1>3, <1>6, <1>7, <1>8, <1>9, <1>11, <1>12, <1>13 DEF SignalingNext

LEMMA StepsGoOnward ==
  ASSUME SignalingTypeOK, SignalingNext
  PROVE  Onward
<1>1. SignalingTypeOK'
  BY SignalingTypesStay
<1>2. /\ \A k \in Conn : sent[k] \in Nat /\ sent'[k] \in Nat
      /\ closed \in Nat /\ expired \in Nat /\ closed' \in Nat /\ expired' \in Nat
  <2>1. sent \in [Conn -> 0..2] /\ sent' \in [Conn -> 0..2]
    BY <1>1 DEF SignalingTypeOK
  <2>2. closed \in 0..plan.closes /\ expired \in 0..plan.expiries /\ plan \in Plan
    BY SignalingAssumption DEF SignalingTypeOK
  <2>3. closed' \in 0..plan'.closes /\ expired' \in 0..plan'.expiries /\ plan' \in Plan
    BY <1>1, SignalingAssumption DEF SignalingTypeOK
  <2> QED
    BY <2>1, <2>2, <2>3 DEF Plan
<1>f. failed \subseteq failed'
  BY DEF SignalingNext, Subscribe, Replay, Relay, SignalPublish, SignalMirror, Close, Break, Publish, Fails,
         EventPublish, EventMirror, SweepEventPublish, BufferExpires
<1>3. CASE UNCHANGED <<sent, event, closed, expired>>
  BY <1>2, <1>f, <1>3, OnwardBy
<1>4. ASSUME NEW k \in Conn, SignalPublish(k) PROVE Onward
  <2>1. \A c \in Conn : sent[c] <= sent'[c]
    <3>1. sent' = [sent EXCEPT ![k] = sent[k] + 1]
      BY <1>4 DEF SignalPublish
    <3> QED
      BY <1>2, <3>1
  <2> QED
    BY <1>2, <1>f, <1>4, <2>1, OnwardBy DEF SignalPublish
<1>5. ASSUME NEW k \in Conn, Close(k) PROVE Onward
  BY <1>2, <1>f, <1>5, OnwardBy DEF Close
<1>6. CASE BufferExpires
  BY <1>2, <1>f, <1>6, OnwardBy DEF BufferExpires
<1>7. ASSUME NEW i \in DOMAIN event, EventPublish(i) \/ SweepEventPublish(i) \/ EventMirror(i)
      PROVE  Onward
  <2>1. DOMAIN event' = DOMAIN event
    BY <1>7 DEF EventPublish, SweepEventPublish, EventMirror
  <2>2. \A j \in DOMAIN event : event[j] # "waiting" => event'[j] # "waiting"
    BY <1>7 DEF EventPublish, SweepEventPublish, EventMirror
  <2> QED
    BY <1>2, <1>f, <1>7, <2>1, <2>2, OnwardBy DEF EventPublish, SweepEventPublish, EventMirror
<1> QED
  BY <1>3, <1>4, <1>5, <1>6, <1>7
     DEF SignalingNext, Subscribe, Replay, Relay, SignalMirror, Break

LEMMA NoneIsNoSignal ==
  \A k \in Conn, n \in Nat : [from |-> k, n |-> n] # None
  BY SignalingAssumption DEF None

LEMMA HandlersStay ==
  ASSUME SignalingInv, SignalingNext, NEW c \in Conn
  PROVE  HandlerOK(c)'
<1>0. SignalingTypeOK /\ HandlerOK(c)
  BY DEF SignalingInv
<1>t. /\ stage \in [Conn -> Stage] /\ mirroring \in [Conn -> Signal \cup {None}]
      /\ DOMAIN event = 1..plan.events /\ event \in [1..plan.events -> Task]
      /\ found \in [Conn -> [DOMAIN event -> Task]] /\ sent \in [Conn -> 0..2]
      /\ live \in [Conn -> Seq(Signal)] /\ received \in [Conn -> Seq(Signal)]
  BY <1>0 DEF SignalingTypeOK
<1>s. /\ stage[c] = "new" => live[c] = <<>> /\ received[c] = <<>> /\ sent[c] = 0
      /\ stage[c] = "subscribed" => received[c] = <<>> /\ sent[c] = 0
      /\ stage[c] = "closed" => live[c] = <<>>
      /\ mirroring[c] # None => stage[c] = "open" /\ mirroring[c] = [from |-> c, n |-> sent[c]]
      /\ \A i \in DOMAIN event : found[c][i] = "mirrored" => event[i] = "mirrored"
  BY <1>0 DEF HandlerOK
<1> USE DEF HandlerOK
<1>1. ASSUME NEW k \in Conn, Subscribe(k) PROVE HandlerOK(c)'
  BY <1>1, <1>s, <1>t DEF Subscribe
<1>2. ASSUME NEW k \in Conn, Replay(k) PROVE HandlerOK(c)'
  BY <1>2, <1>s, <1>t DEF Replay
<1>3. ASSUME NEW k \in Conn, Relay(k) PROVE HandlerOK(c)'
  BY <1>3, <1>s, <1>t DEF Relay, Idle
<1>4. ASSUME NEW k \in Conn, SignalPublish(k) PROVE HandlerOK(c)'
  <2>1. stage[c] \in {"new", "closed"} => live'[c] = live[c]
    BY <1>4 DEF SignalPublish, Publish, Subscribers
  <2> QED
    BY <1>4, <2>1, <1>s, <1>t DEF SignalPublish, Idle
<1>5. ASSUME NEW k \in Conn, SignalMirror(k) PROVE HandlerOK(c)'
  BY <1>5, <1>s, <1>t DEF SignalMirror, HasPublished
<1>6. ASSUME NEW k \in Conn, Close(k) PROVE HandlerOK(c)'
  BY <1>6, <1>s, <1>t DEF Close, Idle
<1>7. ASSUME NEW k \in Conn, Break(k) PROVE HandlerOK(c)'
  BY <1>7, <1>s, <1>t DEF Break
<1>8. ASSUME NEW i \in DOMAIN event, EventPublish(i) \/ SweepEventPublish(i) PROVE HandlerOK(c)'
  <2>1. stage[c] \in {"new", "closed"} => live'[c] = live[c]
    BY <1>8 DEF EventPublish, SweepEventPublish, Publish, Subscribers
  <2>2. DOMAIN event' = DOMAIN event /\ \A j \in DOMAIN event : event[j] = "mirrored" => event'[j] = "mirrored"
    BY <1>8, <1>t DEF EventPublish, SweepEventPublish
  <2> QED
    BY <1>8, <2>1, <2>2, <1>s, <1>t DEF EventPublish, SweepEventPublish
<1>9. ASSUME NEW i \in DOMAIN event, EventMirror(i) PROVE HandlerOK(c)'
  <2>1. DOMAIN event' = DOMAIN event /\ \A j \in DOMAIN event : event[j] = "mirrored" => event'[j] = "mirrored"
    BY <1>9, <1>t DEF EventMirror
  <2> QED
    BY <1>9, <2>1, <1>s, <1>t DEF EventMirror
<1>10. ASSUME BufferExpires PROVE HandlerOK(c)'
  BY <1>10, <1>s, <1>t DEF BufferExpires
<1> HIDE DEF HandlerOK
<1> QED
  BY <1>1, <1>2, <1>3, <1>4, <1>5, <1>6, <1>7, <1>8, <1>9, <1>10 DEF SignalingNext

LEMMA QueuesStay ==
  ASSUME SignalingInv, SignalingNext, NEW c \in Conn
  PROVE  QueueOK(c)'
<1>0. SignalingTypeOK /\ HandlerOK(c) /\ QueueOK(c) /\ BufferOK /\ SignalingTypeOK' /\ Onward
  BY SignalingTypesStay, StepsGoOnward DEF SignalingInv
<1>t. /\ live \in [Conn -> Seq(Signal)] /\ received \in [Conn -> Seq(Signal)]
      /\ sent \in [Conn -> 0..2] /\ event \in [1..plan.events -> Task]
  BY <1>0 DEF SignalingTypeOK
<1>1. CASE received' = received /\ (live'[c] = live[c] \/ live'[c] = <<>>)
  BY <1>0, <1>1, QueueStays
<1>2. ASSUME NEW s \in Signal, ~Published(s), Published(s)', Publish(s), received' = received
      PROVE  QueueOK(c)'
  <2>1. live'[c] = live[c] \/ live'[c] = Append(live[c], s)
    BY <1>2 DEF Publish
  <2>2. CASE live'[c] = Append(live[c], s)
    BY <1>0, <1>2, <2>2, QueueGrows
  <2> QED
    BY <1>1, <1>2, <2>1, <2>2
<1>3. ASSUME NEW k \in Conn, SignalPublish(k) PROVE QueueOK(c)'
  <2>1. PICK s : s = [from |-> k, n |-> sent[k] + 1]
    OBVIOUS
  <2>2. sent \in [Conn -> 0..2] /\ sent' = [sent EXCEPT ![k] = sent[k] + 1] /\ sent[k] < plan.signals[k]
    BY <1>3, <1>t DEF SignalPublish
  <2>3. sent[k] \in 0..2 /\ sent'[k] = sent[k] + 1 /\ plan.signals[k] \in 0..2 /\ k # Server
    BY <1>0, <2>2, SignalingTypes
  <2>4. s \in Signal /\ s.from = k /\ s.n = sent[k] + 1
    BY <2>1, <2>2, <2>3 DEF Signal
  <2>5. ~Published(s) /\ Published(s)'
    BY <2>3, <2>4 DEF Published
  <2>6. Publish(s) /\ received' = received
    BY <1>3, <2>1 DEF SignalPublish
  <2> QED
    BY <1>2, <2>4, <2>5, <2>6
<1>4. ASSUME NEW i \in DOMAIN event, EventPublish(i) \/ SweepEventPublish(i) PROVE QueueOK(c)'
  <2>1. StatusEvent(i) \in Signal /\ StatusEvent(i).from = Server /\ StatusEvent(i).n = i
    BY <1>0, <1>t, SignalingTypes DEF StatusEvent, Signal
  <2>2. /\ event[i] = "waiting" /\ event'[i] # "waiting" /\ DOMAIN event' = DOMAIN event
        /\ Publish(StatusEvent(i)) /\ received' = received
    BY <1>4, <1>t DEF EventPublish, SweepEventPublish
  <2>3. ~Published(StatusEvent(i)) /\ Published(StatusEvent(i))'
    BY <2>1, <2>2 DEF Published
  <2> QED
    BY <1>2, <2>1, <2>2, <2>3
<1>5. ASSUME Replay(c), received' # received PROVE QueueOK(c)'
  <2>1. received[c] = <<>> /\ live'[c] = live[c] /\ buffer \in Seq(Signal)
    BY <1>0, <1>5 DEF HandlerOK, Replay, SignalingTypeOK
  <2>2. PICK f : Passes(c, buffer, Len(buffer), Heard(c, buffer), f)
    BY <2>1, HeardPasses
  <2>3. PICK h : h = Heard(c, buffer)
    OBVIOUS
  <2>4. h \in Seq(Signal) /\ Len(h) \in Nat /\ received'[c] = h
    <3>1. h \in Seq(Signal)
      BY <2>2, <2>3 DEF Passes
    <3>2. received'[c] = received[c] \o h
      BY <1>5, <1>t, <2>3 DEF Replay
    <3> QED
      BY <3>1, <3>2, <2>1
  <2>5. /\ \A p \in 1..Len(h) : /\ f[p] \in 1..Len(buffer) /\ h[p] = buffer[f[p]]
                                /\ NotEcho(c, h[p]) /\ h[p] \in Signal
        /\ \A p, q \in 1..Len(h) : p < q => f[p] < f[q]
        /\ \A i \in 1..Len(buffer) : NotEcho(c, buffer[i]) => \E p \in 1..Len(h) : f[p] = i
    BY <2>2, <2>3, <2>4 DEF Passes
  <2>6. \A p \in 1..Len(h) : Published(h[p])
    BY <1>0, <2>5 DEF BufferOK, Mirrored
  <2>7. \A p, q \in 1..Len(h) : p < q => h[p] # h[q]
    BY <1>0, <2>5 DEF BufferOK
  <2>8. BufferIsComplete => Gapless(h, Len(h))
    <3> SUFFICES ASSUME BufferIsComplete, NEW p \in 1..Len(h), h[p].from # Server,
                        NEW e \in 1..h[p].n - 1
                 PROVE  \E q \in 1..p - 1 : h[q].from = h[p].from /\ h[q].n = e
      BY DEF Gapless
    <3>1. PICK i \in 1..f[p] - 1 : buffer[i].from = h[p].from /\ buffer[i].n = e
      <4>1. Gapless(buffer, Len(buffer))
        BY <1>0 DEF BufferOK
      <4>2. PICK j \in 1..Len(buffer) : j = f[p] /\ buffer[j] = h[p]
        BY <2>5
      <4>3. \E i \in 1..j - 1 : buffer[i].from = buffer[j].from /\ buffer[i].n = e
        BY <4>1, <4>2 DEF Gapless
      <4> QED
        BY <4>2, <4>3
    <3>2. i \in 1..Len(buffer) /\ Len(buffer) \in Nat
      BY <2>1, <2>5, <3>1
    <3>3. NotEcho(c, buffer[i])
      BY <2>5, <3>1 DEF NotEcho
    <3>4. PICK q \in 1..Len(h) : f[q] = i
      BY <2>5, <3>2, <3>3
    <3>5. q < p
      <4>1. f[q] < f[p] /\ f[q] \in Nat /\ f[p] \in Nat /\ p \in Nat /\ q \in Nat
        BY <2>1, <2>4, <2>5, <3>1, <3>2, <3>4
      <4>2. p < q => f[p] < f[q]
        BY <2>5
      <4> QED
        BY <4>1, <4>2
    <3> QED
      BY <2>4, <2>5, <3>1, <3>4, <3>5
  <2>9. Split(c, Len(h))'
    BY <2>4, <2>7, <2>8, <1>0 DEF Split, Onward, Gapless
  <2>10. /\ (\A i \in 1..Len(live[c]) : Published(live[c][i]))'
         /\ (\A i \in 1..Len(received[c]) : Published(received[c][i]))'
         /\ (\A i, j \in 1..Len(live[c]) : i < j => Before(live[c][i], live[c][j]))'
    <3>1. \A i \in 1..Len(live[c]) : live[c][i] \in Signal /\ Published(live[c][i])
      BY <1>0 DEF QueueOK, Published
    <3>2. (\A i \in 1..Len(live[c]) : Published(live[c][i]))'
      BY <1>0, <2>1, <3>1 DEF Onward, Published
    <3>3. (\A i \in 1..Len(received[c]) : Published(received[c][i]))'
      BY <1>0, <2>4, <2>5, <2>6 DEF Onward, Published
    <3>4. (\A i, j \in 1..Len(live[c]) : i < j => Before(live[c][i], live[c][j]))'
      BY <1>0, <2>1 DEF QueueOK, Before
    <3> QED
      BY <3>2, <3>3, <3>4
  <2> QED
    BY <2>4, <2>9, <2>10 DEF QueueOK
<1>6. ASSUME Relay(c) PROVE QueueOK(c)'
  <2>1. /\ live[c] \in Seq(Signal) /\ received[c] \in Seq(Signal) /\ live[c] # <<>>
        /\ live' = [live EXCEPT ![c] = Tail(live[c])]
        /\ received' = IF NotEcho(c, Head(live[c]))
                       THEN [received EXCEPT ![c] = Append(received[c], Head(live[c]))] ELSE received
    BY <1>6, <1>t DEF Relay
  <2>2. PICK s, l : s = Head(live[c]) /\ l = Tail(live[c])
    OBVIOUS
  <2>3. /\ Len(live[c]) \in Nat /\ Len(received[c]) \in Nat /\ l \in Seq(Signal)
        /\ s = live[c][1] /\ 1 \in 1..Len(live[c]) /\ Len(l) = Len(live[c]) - 1
        /\ \A j \in 1..Len(l) : l[j] = live[c][j + 1] /\ j + 1 \in 1..Len(live[c]) /\ 1 < j + 1
    BY <2>1, <2>2
  <2>4. live'[c] = l
    BY <1>t, <2>1, <2>2
  <2>5. PICK b \in 0..Len(received[c]) : Split(c, b)
    BY <1>0 DEF QueueOK
  <2>6. /\ \A i \in 1..Len(live[c]) : live[c][i] \in Signal /\ Published(live[c][i])
        /\ \A i \in 1..Len(received[c]) : received[c][i] \in Signal /\ Published(received[c][i])
    BY <1>0 DEF QueueOK, Published
  <2>7. \A i, j \in 1..Len(l) : i < j => Before(l[i], l[j])
    <3>1. \A i, j \in 1..Len(l) : i < j => i + 1 < j + 1
      BY <2>3
    <3> QED
      BY <1>0, <2>3, <3>1 DEF QueueOK
  <2>8. \A j \in 1..Len(l) : Published(l[j]) /\ l[j] \in Signal /\ Before(s, l[j])
    BY <1>0, <2>3, <2>6 DEF QueueOK
  <2>9. \A i \in (b + 1)..Len(received[c]) : Before(received[c][i], s)
          /\ \A j \in 1..Len(l) : Before(received[c][i], l[j])
    BY <2>3, <2>5 DEF Split
  <2>10. (\A i \in 1..Len(live[c]) : Published(live[c][i]))'
    BY <1>0, <2>4, <2>8 DEF Onward, Published
  <2>11. CASE received'[c] = received[c]
    <3>1. (\A i \in 1..Len(received[c]) : Published(received[c][i]))'
      BY <1>0, <2>6, <2>11 DEF Onward, Published
    <3>2. Split(c, b)'
      BY <1>0, <2>4, <2>5, <2>9, <2>11 DEF Split, Onward, Gapless, Before
    <3>3. (\A i, j \in 1..Len(live[c]) : i < j => Before(live[c][i], live[c][j]))'
      BY <2>4, <2>7 DEF Before
    <3> QED
      BY <2>10, <2>11, <3>1, <3>2, <3>3 DEF QueueOK
  <2>12. CASE received'[c] = Append(received[c], s)
    <3>1. PICK r : r = Append(received[c], s)
      OBVIOUS
    <3>2. /\ r \in Seq(Signal) /\ Len(r) = Len(received[c]) + 1 /\ r[Len(received[c]) + 1] = s
          /\ \A i \in 1..Len(received[c]) : r[i] = received[c][i]
          /\ \A i \in 1..Len(r) : i \in 1..Len(received[c]) \/ i = Len(received[c]) + 1
      BY <2>1, <2>3, <2>6, <3>1
    <3>3. \A i \in 1..Len(r) : Published(r[i]) /\ r[i] \in Signal
      BY <2>3, <2>6, <3>2
    <3>4. (\A i \in 1..Len(received[c]) : Published(received[c][i]))'
      BY <1>0, <2>12, <3>1, <3>3 DEF Onward, Published
    <3>5. b \in 0..Len(r) /\ b \in Nat
      BY <2>3, <3>2
    <3>6. /\ \A i \in 1..b : i \in 1..Len(received[c])
          /\ \A i \in (b + 1)..Len(r) : i \in (b + 1)..Len(received[c]) \/ i = Len(received[c]) + 1
          /\ \A i \in (b + 1)..Len(received[c]) : i \in 1..Len(received[c])
      BY <2>3, <3>2, <3>5
    <3>7. \A i, j \in 1..b : i < j => r[i] # r[j]
      BY <2>5, <3>2, <3>6 DEF Split
    <3>8. BufferIsComplete => Gapless(r, b)
      <4> SUFFICES ASSUME BufferIsComplete, NEW i \in 1..b, r[i].from # Server, NEW e \in 1..r[i].n - 1
                   PROVE  \E h \in 1..i - 1 : r[h].from = r[i].from /\ r[h].n = e
        BY DEF Gapless
      <4>1. Gapless(received[c], b)
        BY <2>5 DEF Split
      <4>2. r[i] = received[c][i]
        BY <3>2, <3>6
      <4>3. PICK h \in 1..i - 1 : received[c][h].from = r[i].from /\ received[c][h].n = e
        BY <4>1, <4>2 DEF Gapless
      <4>4. h \in 1..Len(received[c])
        BY <3>5, <3>6
      <4> QED
        BY <3>2, <4>3, <4>4
    <3>9. \A i, j \in (b + 1)..Len(r) : i < j => Before(r[i], r[j])
      <4>1. \A i, j \in (b + 1)..Len(r) : i < j => i \in (b + 1)..Len(received[c])
        BY <2>3, <3>2, <3>5
      <4> QED
        BY <2>5, <2>9, <3>2, <3>6, <4>1 DEF Split
    <3>10. \A i \in (b + 1)..Len(r), j \in 1..Len(l) : Before(r[i], l[j])
      BY <2>8, <2>9, <3>2, <3>6
    <3>11. received'[c] = r
      BY <2>12, <3>1
    <3>12. (BufferIsComplete => Gapless(received[c], b))'
      BY <1>0, <3>8, <3>11 DEF Onward, Gapless
    <3>13. Split(c, b)'
      BY <2>4, <3>5, <3>7, <3>9, <3>10, <3>11, <3>12 DEF Split, Before
    <3>14. (\A i, j \in 1..Len(live[c]) : i < j => Before(live[c][i], live[c][j]))'
      BY <2>4, <2>7 DEF Before
    <3> QED
      BY <2>10, <3>4, <3>5, <3>11, <3>13, <3>14 DEF QueueOK
  <2> QED
    BY <2>1, <2>2, <2>11, <2>12, <1>t
<1>r. CASE Replay(c) /\ received' = received
  BY <1>1, <1>r DEF Replay
<1>7. ASSUME NEW k \in Conn, k # c, Replay(k) \/ Relay(k) PROVE QueueOK(c)'
  <2>1. received'[c] = received[c] /\ live'[c] = live[c]
    BY <1>7, <1>t DEF Replay, Relay
  <2> QED
    BY <1>0, <2>1, QueueStays
<1>8. ASSUME NEW k \in Conn, Close(k) \/ Break(k) PROVE QueueOK(c)'
  BY <1>1, <1>8, <1>t DEF Close, Break
<1> QED
  BY <1>1, <1>3, <1>4, <1>5, <1>r, <1>6, <1>7, <1>8
     DEF SignalingNext, Subscribe, SignalMirror, EventMirror, BufferExpires

LEMMA MirroredStays ==
  ASSUME SignalingInv, SignalingNext, NEW t \in Signal, Mirrored(t)
  PROVE  Mirrored(t)'
<1>0. SignalingTypeOK /\ Onward /\ Published(t) /\ Published(t)'
  <2>1. SignalingTypeOK /\ Onward
    BY StepsGoOnward DEF SignalingInv
  <2> QED
    BY <2>1 DEF Mirrored, Onward
<1>t. /\ mirroring \in [Conn -> Signal \cup {None}] /\ event \in [1..plan.events -> Task]
      /\ sent \in [Conn -> 0..2]
  BY <1>0 DEF SignalingTypeOK
<1>1. CASE t.from = Server
  <2>1. t.n \in DOMAIN event /\ event[t.n] = "mirrored"
    BY <1>1 DEF Mirrored, Published
  <2>2. event'[t.n] = "mirrored"
    BY <1>t, <2>1 DEF SignalingNext, Subscribe, Replay, Relay, SignalPublish, SignalMirror, Close, Break,
                      EventPublish, EventMirror, SweepEventPublish, BufferExpires
  <2> QED
    BY <1>0, <1>1, <2>2 DEF Mirrored
<1>2. CASE t.from # Server
  <2>1. t.from \in Conn /\ t.n \in Nat /\ mirroring[t.from] # t /\ t.n <= sent[t.from] /\ t # None
    BY <1>2 DEF Signal, Mirrored, Published, None
  <2>2. CASE mirroring' = mirroring
    BY <1>0, <1>2, <2>1, <2>2 DEF Mirrored
  <2>3. ASSUME NEW k \in Conn, SignalPublish(k) PROVE mirroring'[t.from] # t
    <3>1. mirroring'[t.from] = mirroring[t.from] \/ mirroring'[t.from] = [from |-> k, n |-> sent[k] + 1]
      BY <1>t, <2>1, <2>3 DEF SignalPublish
    <3>2. t # [from |-> k, n |-> sent[k] + 1]
      BY <1>t, <2>1
    <3> QED
      BY <2>1, <3>1, <3>2
  <2>4. ASSUME NEW k \in Conn, SignalMirror(k) \/ Break(k) PROVE mirroring'[t.from] # t
    BY <1>t, <2>1, <2>4 DEF SignalMirror, Break
  <2>5. mirroring' = mirroring \/ mirroring'[t.from] # t
    BY <2>3, <2>4 DEF SignalingNext, Subscribe, Replay, Relay, Close, EventPublish, EventMirror,
                      SweepEventPublish, BufferExpires
  <2> QED
    BY <1>0, <1>2, <2>2, <2>5 DEF Mirrored
<1> QED
  BY <1>1, <1>2

LEMMA BufferStays ==
  ASSUME SignalingInv, SignalingNext
  PROVE  BufferOK'
<1>0. /\ SignalingTypeOK /\ BufferOK /\ CompleteOK /\ Onward
      /\ \A k \in Conn : HandlerOK(k)
      /\ buffer \in Seq(Signal) /\ Len(buffer) \in Nat
  BY StepsGoOnward DEF SignalingInv, SignalingTypeOK
<1>t. /\ mirroring \in [Conn -> Signal \cup {None}] /\ event \in [1..plan.events -> Task]
      /\ sent \in [Conn -> 0..2] /\ plan.events \in 0..2
  BY <1>0, SignalingTypes DEF SignalingTypeOK
<1>1. \A i \in 1..Len(buffer) : buffer[i] \in Signal /\ Mirrored(buffer[i])
  BY <1>0 DEF BufferOK, Mirrored, Published
<1>2. CASE buffer' = buffer
  <2>1. (\A i \in 1..Len(buffer) : Mirrored(buffer[i]))'
    BY <1>1, <1>2, MirroredStays DEF Mirrored, Published
  <2> QED
    BY <1>0, <1>2, <2>1 DEF BufferOK, Onward, Gapless
<1>3. CASE buffer' = <<>>
  <2>1. Len(buffer') = 0
    BY <1>3
  <2> QED
    BY <2>1 DEF BufferOK, Gapless
<1>4. ASSUME NEW s \in Signal, Mirror(s), Mirrored(s)', \A i \in 1..Len(buffer) : buffer[i] # s,
             BufferIsComplete /\ s.from # Server =>
               \A e \in 1..s.n - 1 : \E h \in 1..Len(buffer) : buffer[h].from = s.from /\ buffer[h].n = e
      PROVE  BufferOK'
  <2>1. PICK d : d = Append(buffer, s)
    OBVIOUS
  <2>2. /\ Len(d) = Len(buffer) + 1 /\ d[Len(buffer) + 1] = s
        /\ \A i \in 1..Len(buffer) : d[i] = buffer[i] /\ i < Len(buffer) + 1
        /\ \A i \in 1..Len(d) : i \in 1..Len(buffer) \/ i = Len(buffer) + 1
    BY <1>0, <2>1
  <2>4. buffer' = d
    BY <1>4, <2>1 DEF Mirror
  <2>5. ASSUME NEW i \in 1..Len(buffer') PROVE (Mirrored(buffer[i]))'
    <3>1. CASE i \in 1..Len(buffer)
      BY <1>1, <2>2, <2>4, <3>1, MirroredStays DEF Mirrored, Published
    <3>2. CASE i = Len(buffer) + 1
      BY <1>4, <2>2, <2>4, <3>2 DEF Mirrored, Published
    <3> QED
      BY <2>2, <2>4, <3>1, <3>2
  <2>6. \A i, j \in 1..Len(d) : i < j => d[i] # d[j]
    <3> SUFFICES ASSUME NEW i \in 1..Len(d), NEW j \in 1..Len(d), i < j PROVE d[i] # d[j]
      OBVIOUS
    <3>1. i \in 1..Len(buffer)
      BY <1>0, <2>2
    <3>2. CASE j \in 1..Len(buffer)
      BY <1>0, <2>2, <3>1, <3>2 DEF BufferOK
    <3>3. CASE j = Len(buffer) + 1
      BY <1>4, <2>2, <3>1, <3>3
    <3> QED
      BY <2>2, <3>2, <3>3
  <2>7. BufferIsComplete' => Gapless(d, Len(d))
    <3> SUFFICES ASSUME BufferIsComplete, NEW i \in 1..Len(d), d[i].from # Server, NEW e \in 1..d[i].n - 1
                 PROVE  \E h \in 1..i - 1 : d[h].from = d[i].from /\ d[h].n = e
      BY <1>0 DEF Gapless, Onward
    <3>1. CASE i \in 1..Len(buffer)
      <4>1. Gapless(buffer, Len(buffer)) /\ d[i] = buffer[i]
        BY <1>0, <2>2, <3>1 DEF BufferOK
      <4>2. PICK h \in 1..i - 1 : buffer[h].from = d[i].from /\ buffer[h].n = e
        BY <3>1, <4>1 DEF Gapless
      <4>3. h \in 1..Len(buffer)
        BY <1>0, <3>1
      <4> QED
        BY <2>2, <4>2, <4>3
    <3>2. CASE i = Len(buffer) + 1
      <4>1. PICK h \in 1..Len(buffer) : buffer[h].from = d[i].from /\ buffer[h].n = e
        BY <1>4, <2>2, <3>2
      <4> QED
        BY <1>0, <2>2, <3>2, <4>1
    <3> QED
      BY <2>2, <3>1, <3>2
  <2> QED
    BY <2>4, <2>5, <2>6, <2>7 DEF BufferOK, Gapless
<1>5. ASSUME NEW k \in Conn, SignalMirror(k), buffer' # buffer PROVE BufferOK'
  <2>1. PICK s : s = mirroring[k]
    OBVIOUS
  <2>2. /\ s \in Signal /\ s.from = k /\ s.n = sent[k] /\ k # Server /\ s # None
        /\ mirroring[k] = s /\ stage[k] = "open"
    BY <1>0, <1>5, <1>t, <2>1, SignalingTypes DEF SignalMirror, HasPublished, HandlerOK
  <2>3. Mirror(s) /\ mirroring'[k] = None /\ sent' = sent
    BY <1>5, <1>t, <2>1 DEF SignalMirror
  <2>4. Mirrored(s)'
    BY <1>t, <2>2, <2>3 DEF Mirrored, Published
  <2>5. \A i \in 1..Len(buffer) : buffer[i] # s
    BY <1>1, <2>2 DEF Mirrored
  <2>6. BufferIsComplete =>
          \A e \in 1..s.n - 1 : \E h \in 1..Len(buffer) : buffer[h].from = s.from /\ buffer[h].n = e
    <3> SUFFICES ASSUME BufferIsComplete, NEW e \in 1..s.n - 1
                 PROVE  \E h \in 1..Len(buffer) : buffer[h].from = s.from /\ buffer[h].n = e
      OBVIOUS
    <3>1. e \in 1..sent[k] /\ e # sent[k] /\ mirroring[k] # [from |-> k, n |-> e]
      BY <1>t, <2>2
    <3>2. [from |-> k, n |-> e] \in Elements(buffer)
      BY <1>0, <2>2, <3>1 DEF CompleteOK
    <3>3. PICK h \in DOMAIN buffer : buffer[h] = [from |-> k, n |-> e]
      BY <3>2 DEF Elements
    <3> QED
      BY <1>0, <2>2, <3>3
  <2> QED
    BY <1>4, <2>2, <2>3, <2>4, <2>5, <2>6
<1>6. ASSUME NEW j \in DOMAIN event, EventMirror(j), buffer' # buffer PROVE BufferOK'
  <2>1. StatusEvent(j) \in Signal /\ StatusEvent(j).from = Server /\ StatusEvent(j).n = j
    BY <1>t DEF StatusEvent, Signal
  <2>2. event[j] = "published" /\ event'[j] = "mirrored" /\ DOMAIN event' = DOMAIN event /\ Mirror(StatusEvent(j))
    BY <1>6, <1>t DEF EventMirror
  <2>3. Mirrored(StatusEvent(j))'
    BY <2>1, <2>2 DEF Mirrored, Published
  <2>4. \A i \in 1..Len(buffer) : buffer[i] # StatusEvent(j)
    BY <1>1, <2>1, <2>2 DEF Mirrored
  <2> QED
    BY <1>4, <2>1, <2>2, <2>3, <2>4
<1> QED
  BY <1>2, <1>3, <1>5, <1>6
     DEF SignalingNext, Subscribe, Replay, Relay, SignalPublish, Close, Break, EventPublish,
         SweepEventPublish, BufferExpires

LEMMA ElementsGrow ==
  ASSUME NEW s \in Seq(Signal), NEW t \in Signal
  PROVE  Elements(s) \subseteq Elements(Append(s, t)) /\ t \in Elements(Append(s, t))
  BY DEF Elements

LEMMA ElementsStay ==
  ASSUME SignalingInv, SignalingNext, NothingDeleted'
  PROVE  Elements(buffer) \subseteq Elements(buffer')
<1>0. SignalingTypeOK
  BY DEF SignalingInv
<1>t. /\ mirroring \in [Conn -> Signal \cup {None}] /\ buffer \in Seq(Signal)
      /\ closed \in Nat /\ expired \in Nat /\ plan.events \in 0..2 /\ DOMAIN event = 1..plan.events
  BY <1>0, SignalingTypes DEF SignalingTypeOK
<1>1. ASSUME NEW k \in Conn, SignalMirror(k) PROVE Elements(buffer) \subseteq Elements(buffer')
  <2>1. mirroring[k] \in Signal
    BY <1>t, <1>1 DEF SignalMirror, HasPublished
  <2>2. buffer' = buffer \/ buffer' = Append(buffer, mirroring[k])
    BY <1>1 DEF SignalMirror, Mirror
  <2> QED
    BY <1>t, <2>1, <2>2, ElementsGrow
<1>2. ASSUME NEW i \in DOMAIN event, EventMirror(i) PROVE Elements(buffer) \subseteq Elements(buffer')
  <2>1. StatusEvent(i) \in Signal
    BY <1>t DEF StatusEvent, Signal
  <2>2. buffer' = buffer \/ buffer' = Append(buffer, StatusEvent(i))
    BY <1>2 DEF EventMirror, Mirror
  <2> QED
    BY <1>t, <2>1, <2>2, ElementsGrow
<1>3. ~BufferExpires /\ \A k \in Conn : ~Close(k)
  BY <1>t DEF BufferExpires, Close, NothingDeleted
<1> QED
  BY <1>1, <1>2, <1>3
     DEF SignalingNext, Subscribe, Replay, Relay, SignalPublish, Break, EventPublish, SweepEventPublish

LEMMA EventsComplete ==
  ASSUME SignalingInv, SignalingNext, NothingDeleted'
  PROVE  \A i \in DOMAIN event' : event'[i] = "mirrored" => StatusEvent(i) \in Elements(buffer')
<1>0. SignalingTypeOK /\ CompleteOK /\ Onward
  BY StepsGoOnward DEF SignalingInv
<1>t. /\ event \in [1..plan.events -> Task] /\ plan.events \in 0..2 /\ buffer \in Seq(Signal)
  BY <1>0, SignalingTypes DEF SignalingTypeOK
<1>1. \A i \in DOMAIN event : event[i] = "mirrored" => StatusEvent(i) \in Elements(buffer)
  BY <1>0 DEF CompleteOK, Onward
<1>2. Elements(buffer) \subseteq Elements(buffer')
  BY ElementsStay
<1>3. CASE event' = event
  BY <1>1, <1>2, <1>3
<1>4. ASSUME NEW j \in DOMAIN event, EventMirror(j)
      PROVE  \A i \in DOMAIN event' : event'[i] = "mirrored" => StatusEvent(i) \in Elements(buffer')
  <2>1. StatusEvent(j) \in Signal
    BY <1>t DEF StatusEvent, Signal
  <2>2. \/ event' = [event EXCEPT ![j] = "mirrored"] /\ buffer' = Append(buffer, StatusEvent(j))
        \/ event' = [event EXCEPT ![j] = "unmirrored"]
    BY <1>4 DEF EventMirror, Mirror
  <2>3. CASE event' = [event EXCEPT ![j] = "mirrored"] /\ buffer' = Append(buffer, StatusEvent(j))
    <3>1. StatusEvent(j) \in Elements(buffer')
      BY <1>t, <2>1, <2>3, ElementsGrow
    <3> QED
      BY <1>t, <1>1, <1>2, <2>3, <3>1
  <2>4. CASE event' = [event EXCEPT ![j] = "unmirrored"]
    BY <1>t, <1>1, <1>2, <2>4
  <2> QED
    BY <2>2, <2>3, <2>4
<1>5. ASSUME NEW j \in DOMAIN event, EventPublish(j) \/ SweepEventPublish(j)
      PROVE  \A i \in DOMAIN event' : event'[i] = "mirrored" => StatusEvent(i) \in Elements(buffer')
  BY <1>t, <1>1, <1>2, <1>5 DEF EventPublish, SweepEventPublish
<1> QED
  BY <1>3, <1>4, <1>5
     DEF SignalingNext, Subscribe, Replay, Relay, SignalPublish, SignalMirror, Close, Break, BufferExpires

LEMMA CompleteStays ==
  ASSUME SignalingInv, SignalingNext
  PROVE  CompleteOK'
<1>0. SignalingTypeOK /\ CompleteOK /\ Onward /\ \A k \in Conn : HandlerOK(k)
  BY StepsGoOnward DEF SignalingInv
<1>t. /\ mirroring \in [Conn -> Signal \cup {None}] /\ sent \in [Conn -> 0..2]
      /\ stage \in [Conn -> Stage] /\ buffer \in Seq(Signal)
  BY <1>0 DEF SignalingTypeOK
<1>e. NothingDeleted' =>
        (\A i \in DOMAIN event : event[i] = "mirrored" => StatusEvent(i) \in Elements(buffer))'
  BY EventsComplete DEF StatusEvent, Elements
<1> SUFFICES ASSUME BufferIsComplete', NEW k \in Conn, stage'[k] = "open", NEW n \in 1..sent'[k],
                    mirroring'[k] # [from |-> k, n |-> n]
             PROVE  [from |-> k, n |-> n] \in Elements(buffer')
  BY <1>e DEF CompleteOK, Elements
<1>1. /\ BufferIsComplete
      /\ stage[k] = "open" =>
           \A e \in 1..sent[k] :
             mirroring[k] # [from |-> k, n |-> e] => [from |-> k, n |-> e] \in Elements(buffer)
  BY <1>0 DEF CompleteOK, Onward
<1>2. Elements(buffer) \subseteq Elements(buffer')
  BY ElementsStay DEF BufferIsComplete
<1>3. CASE stage[k] = "open" /\ sent'[k] = sent[k] /\ mirroring'[k] = mirroring[k]
  BY <1>1, <1>2, <1>3
<1>4. CASE Replay(k)
  <2>1. sent'[k] = 0
    BY <1>0, <1>4 DEF Replay, HandlerOK
  <2> QED
    BY <2>1
<1>5. CASE SignalPublish(k)
  <2>1. sent' = [sent EXCEPT ![k] = sent[k] + 1] /\ mirroring[k] = None /\ stage[k] = "open"
        /\ mirroring' = [mirroring EXCEPT ![k] = [from |-> k, n |-> sent[k] + 1]]
    BY <1>5 DEF SignalPublish, Idle
  <2>2. sent[k] \in 0..2 /\ sent'[k] = sent[k] + 1 /\ mirroring'[k] = [from |-> k, n |-> sent[k] + 1]
    BY <1>t, <2>1
  <2>3. n \in 1..sent[k]
    BY <2>2
  <2>4. None # [from |-> k, n |-> n]
    BY <2>3, <2>2, NoneIsNoSignal
  <2> QED
    BY <1>1, <1>2, <2>1, <2>3, <2>4
<1>6. CASE SignalMirror(k)
  <2>1. mirroring[k] \in Signal /\ sent'[k] = sent[k] /\ stage[k] = "open" /\ mirroring[k].from = k
    BY <1>0, <1>t, <1>6 DEF SignalMirror, HasPublished, HandlerOK
  <2>2. buffer' = Append(buffer, mirroring[k])
    <3>1. CASE Fails(<<"RPUSH", mirroring[k]>>)
      <4>1. <<"RPUSH", mirroring[k]>> \in failed'
        BY <3>1 DEF Fails
      <4>2. mirroring[k].from = Server
        BY <2>1, <4>1 DEF BufferIsComplete
      <4> QED
        BY <2>1, <4>2, SignalingAssumption
    <3> QED
      BY <1>6, <3>1 DEF SignalMirror, Mirror
  <2>3. mirroring[k] \in Elements(buffer')
    BY <1>t, <2>1, <2>2, ElementsGrow
  <2> QED
    BY <1>1, <1>2, <2>1, <2>3
<1>7. ~Subscribe(k) /\ ~Close(k) /\ ~Break(k)
  BY <1>t DEF Subscribe, Close, Break
<1>8. ASSUME NEW c \in Conn, c # k,
             \/ Subscribe(c) \/ Replay(c) \/ SignalPublish(c) \/ SignalMirror(c) \/ Close(c) \/ Break(c)
      PROVE  stage[k] = "open" /\ sent'[k] = sent[k] /\ mirroring'[k] = mirroring[k]
  BY <1>t, <1>8 DEF Subscribe, Replay, SignalPublish, SignalMirror, Close, Break
<1>9. CASE UNCHANGED <<stage, sent, mirroring>>
  BY <1>3, <1>9
<1> QED
  BY <1>3, <1>4, <1>5, <1>6, <1>7, <1>8, <1>9
     DEF SignalingNext, Relay, EventPublish, EventMirror, SweepEventPublish, BufferExpires

LEMMA ElementsJoin ==
  ASSUME NEW s \in Seq(Signal), NEW t \in Seq(Signal)
  PROVE  Elements(s) \subseteq Elements(s \o t)
  BY DEF Elements

(* What waits in the channel or has been received is not lost. *)
LEMMA EventsReachTheirPeer ==
  ASSUME SignalingTypeOK, SignalingNext, NEW c \in Conn, stage'[c] \in {"subscribed", "open"},
         NEW t \in Signal, t.from = Server
  PROVE  /\ t \in Elements(received[c]) => t \in Elements(received'[c])
         /\ t \in Elements(live[c]) => t \in Elements(received'[c]) \cup Elements(live'[c])
<1>t. /\ received[c] \in Seq(Signal) /\ live[c] \in Seq(Signal) /\ buffer \in Seq(Signal)
      /\ received \in [Conn -> Seq(Signal)] /\ live \in [Conn -> Seq(Signal)]
      /\ stage \in [Conn -> Stage] /\ DOMAIN event = 1..plan.events /\ plan.events \in 0..2
      /\ \A k \in Conn : sent[k] \in Nat /\ plan.signals[k] \in 0..2
  BY SignalingTypes DEF SignalingTypeOK
<1>1. CASE received'[c] = received[c] /\ live'[c] = live[c]
  BY <1>1
<1>2. ASSUME NEW s \in Signal, Publish(s), received'[c] = received[c]
      PROVE  /\ t \in Elements(received[c]) => t \in Elements(received'[c])
             /\ t \in Elements(live[c]) => t \in Elements(received'[c]) \cup Elements(live'[c])
  <2>1. live'[c] = live[c] \/ live'[c] = Append(live[c], s)
    BY <1>2 DEF Publish
  <2> QED
    BY <1>t, <1>2, <2>1, ElementsGrow
<1>3. ASSUME NEW k \in Conn, SignalPublish(k)
      PROVE  /\ t \in Elements(received[c]) => t \in Elements(received'[c])
             /\ t \in Elements(live[c]) => t \in Elements(received'[c]) \cup Elements(live'[c])
  <2>1. PICK s : s = [from |-> k, n |-> sent[k] + 1]
    OBVIOUS
  <2>2. Publish(s) /\ received' = received
    BY <1>3, <2>1 DEF SignalPublish
  <2>3. s \in Signal
    <3>1. sent[k] < plan.signals[k]
      BY <1>3 DEF SignalPublish
    <3>2. sent[k] \in Nat /\ plan.signals[k] \in 0..2
      BY <1>t
    <3>3. sent[k] + 1 \in 1..2
      BY <3>1, <3>2
    <3> QED
      BY <2>1, <3>3 DEF Signal
  <2> QED
    BY <1>2, <2>2, <2>3
<1>4. ASSUME NEW i \in DOMAIN event, EventPublish(i) \/ SweepEventPublish(i)
      PROVE  /\ t \in Elements(received[c]) => t \in Elements(received'[c])
             /\ t \in Elements(live[c]) => t \in Elements(received'[c]) \cup Elements(live'[c])
  <2>1. StatusEvent(i) \in Signal
    BY <1>t DEF StatusEvent, Signal
  <2> QED
    BY <1>2, <1>4, <2>1 DEF EventPublish, SweepEventPublish
<1>5. CASE Replay(c)
  <2>1. Heard(c, buffer) \in Seq(Signal)
    BY <1>t, HeardPasses DEF Passes
  <2>2. received'[c] = received[c] \/ received'[c] = received[c] \o Heard(c, buffer)
    BY <1>t, <1>5 DEF Replay
  <2>3. live'[c] = live[c]
    BY <1>5 DEF Replay
  <2> QED
    BY <1>t, <2>1, <2>2, <2>3, ElementsJoin
<1>6. CASE Relay(c)
  <2>1. PICK h, l : h = Head(live[c]) /\ l = Tail(live[c])
    OBVIOUS
  <2>2. live[c] # <<>> /\ live'[c] = l
        /\ received'[c] = IF NotEcho(c, h) THEN Append(received[c], h) ELSE received[c]
    BY <1>t, <1>6, <2>1 DEF Relay
  <2>3. /\ h \in Signal /\ l \in Seq(Signal) /\ h = live[c][1] /\ Len(l) = Len(live[c]) - 1
        /\ \A j \in 1..Len(l) : l[j] = live[c][j + 1]
        /\ DOMAIN l = 1..Len(l) /\ DOMAIN live[c] = 1..Len(live[c]) /\ Len(live[c]) \in Nat
    BY <1>t, <2>1, <2>2
  <2>4. Elements(received[c]) \subseteq Elements(received'[c])
    BY <1>t, <2>2, <2>3, ElementsGrow
  <2>5. ASSUME t \in Elements(live[c]) PROVE t \in Elements(received'[c]) \cup Elements(live'[c])
    <3>1. PICK j \in 1..Len(live[c]) : live[c][j] = t
      BY <2>3, <2>5 DEF Elements
    <3>2. CASE j = 1
      <4>1. NotEcho(c, h) /\ h = t
        BY <2>3, <3>1, <3>2 DEF NotEcho
      <4> QED
        BY <1>t, <2>2, <2>3, <4>1, ElementsGrow
    <3>3. CASE j # 1
      <4>1. j - 1 \in 1..Len(l) /\ l[j - 1] = live[c][(j - 1) + 1] /\ (j - 1) + 1 = j
        BY <2>3, <3>1, <3>3
      <4>2. t \in Elements(l)
        BY <2>3, <3>1, <4>1 DEF Elements
      <4> QED
        BY <2>2, <4>2
    <3> QED
      BY <3>2, <3>3
  <2> QED
    BY <2>4, <2>5
<1>7. ASSUME NEW k \in Conn, k # c, Replay(k) \/ Relay(k) \/ Close(k) \/ Break(k)
      PROVE  received'[c] = received[c] /\ live'[c] = live[c]
  BY <1>t, <1>7 DEF Replay, Relay, Close, Break
<1>8. ~Close(c) /\ ~Break(c)
  BY <1>t DEF Close, Break
<1> QED
  BY <1>1, <1>3, <1>4, <1>5, <1>6, <1>7, <1>8
     DEF SignalingNext, Subscribe, SignalMirror, EventMirror, BufferExpires

LEMMA WitnessStays ==
  ASSUME SignalingInv, SignalingNext, NEW c \in Conn
  PROVE  WitnessOK(c)'
<1>0. SignalingTypeOK /\ Onward /\ WitnessOK(c)
  BY StepsGoOnward DEF SignalingInv
<1>t. /\ stage \in [Conn -> Stage] /\ found \in [Conn -> [DOMAIN event -> Task]]
      /\ event \in [1..plan.events -> Task] /\ DOMAIN event = 1..plan.events /\ plan.events \in 0..2
      /\ live \in [Conn -> Seq(Signal)]
  BY <1>0, SignalingTypes DEF SignalingTypeOK
<1> SUFFICES ASSUME NEW i \in DOMAIN event', Witnessed(c, i)'
             PROVE  StatusEvent(i) \in Elements(received'[c]) \cup Elements(live'[c])
  BY DEF WitnessOK, StatusEvent, Elements
<1>1. /\ stage'[c] \in {"subscribed", "open"} /\ found'[c][i] = "waiting" /\ event'[i] # "waiting"
      /\ <<"PUBLISH", StatusEvent(i)>> \notin failed'
  BY DEF Witnessed, StatusEvent
<1>2. DOMAIN event' = DOMAIN event
  BY <1>t DEF SignalingNext, Subscribe, Replay, Relay, SignalPublish, SignalMirror, Close, Break,
              EventPublish, EventMirror, SweepEventPublish, BufferExpires
<1>3. StatusEvent(i) \in Signal /\ StatusEvent(i).from = Server
  BY <1>t, <1>2 DEF StatusEvent, Signal
<1>4. ~Subscribe(c)
  BY <1>t, <1>1 DEF Subscribe
<1>5. stage[c] \in {"subscribed", "open"} /\ found'[c] = found[c]
  BY <1>t, <1>1, <1>4
     DEF SignalingNext, Subscribe, Replay, Relay, SignalPublish, SignalMirror, Close, Break,
         EventPublish, EventMirror, SweepEventPublish, BufferExpires
<1>6. CASE event[i] # "waiting"
  <2>1. Witnessed(c, i)
    BY <1>0, <1>1, <1>5, <1>6 DEF Witnessed, Onward
  <2>2. StatusEvent(i) \in Elements(received[c]) \cup Elements(live[c])
    BY <1>0, <1>2, <2>1 DEF WitnessOK
  <2> QED
    BY <1>0, <1>1, <1>3, <2>2, EventsReachTheirPeer
<1>7. CASE event[i] = "waiting"
  <2>1. Publish(StatusEvent(i))
    BY <1>t, <1>1, <1>2, <1>7
       DEF SignalingNext, Subscribe, Replay, Relay, SignalPublish, SignalMirror, Close, Break,
           EventPublish, EventMirror, SweepEventPublish, BufferExpires
  <2>2. live'[c] = Append(live[c], StatusEvent(i))
    BY <1>1, <1>5, <2>1 DEF Publish, Fails, Subscribers
  <2> QED
    BY <1>t, <1>3, <2>2, ElementsGrow
<1> QED
  BY <1>6, <1>7

LEMMA EarlyEventsStay ==
  ASSUME SignalingInv, SignalingNext
  PROVE  EarlyEventsAreReplayed'
<1>0. /\ SignalingTypeOK /\ CompleteOK /\ Onward /\ EarlyEventsAreReplayed
      /\ \A k \in Conn : HandlerOK(k)
  BY StepsGoOnward DEF SignalingInv
<1>t. /\ stage \in [Conn -> Stage] /\ found \in [Conn -> [DOMAIN event -> Task]]
      /\ received \in [Conn -> Seq(Signal)] /\ buffer \in Seq(Signal)
      /\ plan.events \in 0..2 /\ DOMAIN event = 1..plan.events
  BY <1>0, SignalingTypes DEF SignalingTypeOK
<1>w. ASSUME NEW c \in Conn, stage'[c] = "open", NEW i \in DOMAIN event',
             found'[c][i] = "waiting", event'[i] # "waiting", <<"PUBLISH", StatusEvent(i)>> \notin failed'
      PROVE  StatusEvent(i) \in Elements(received'[c]) \cup Elements(live'[c])
  <2>1. WitnessOK(c)'
    BY WitnessStays
  <2> QED
    BY <1>w, <2>1 DEF WitnessOK, Witnessed, StatusEvent, Elements
<1> SUFFICES ASSUME NothingDeleted', NEW c \in Conn, stage'[c] = "open", NEW i \in DOMAIN event',
                    found'[c][i] = "mirrored", <<"LRANGE", c>> \notin failed'
             PROVE  StatusEvent(i) \in Elements(received'[c])
  BY <1>w DEF EarlyEventsAreReplayed, StatusEvent, Elements
<1>1. NothingDeleted /\ <<"LRANGE", c>> \notin failed
  BY <1>0 DEF Onward
<1>2. found'[c] = found[c] /\ DOMAIN event' = DOMAIN event /\ (stage[c] = "open" \/ Replay(c))
  <2>1. DOMAIN event' = DOMAIN event
    BY <1>t DEF SignalingNext, Subscribe, Replay, Relay, SignalPublish, SignalMirror, Close, Break,
                EventPublish, EventMirror, SweepEventPublish, BufferExpires
  <2>2. found'[c] = found[c] /\ (stage[c] = "open" \/ Replay(c))
    BY <1>t DEF SignalingNext, Subscribe, Replay, Relay, SignalPublish, SignalMirror, Close, Break,
                EventPublish, EventMirror, SweepEventPublish, BufferExpires
  <2> QED
    BY <2>1, <2>2
<1>3. CASE Replay(c)
  <2>0. received' = [received EXCEPT ![c] = received[c] \o Heard(c, buffer)]
    BY <1>3 DEF Replay, Fails
  <2>1. /\ received[c] = <<>> /\ received'[c] = received[c] \o Heard(c, buffer)
        /\ i \in DOMAIN event /\ event[i] = "mirrored"
    BY <1>0, <1>2, <1>3, <1>t, <2>0 DEF Replay, HandlerOK
  <2>2. PICK j \in DOMAIN buffer : buffer[j] = StatusEvent(i)
    BY <1>0, <1>1, <2>1 DEF CompleteOK, Elements
  <2>3. PICK f : Passes(c, buffer, Len(buffer), Heard(c, buffer), f)
    BY <1>t, HeardPasses
  <2>4. Heard(c, buffer) \in Seq(Signal)
    BY <2>3 DEF Passes
  <2>5. j \in 1..Len(buffer) /\ NotEcho(c, buffer[j])
    BY <1>t, <2>2 DEF NotEcho, StatusEvent
  <2>6. PICK p \in 1..Len(Heard(c, buffer)) : Heard(c, buffer)[p] = buffer[j]
    BY <2>3, <2>5 DEF Passes
  <2>7. received'[c] = Heard(c, buffer)
    BY <2>1, <2>4
  <2> QED
    BY <2>2, <2>4, <2>6, <2>7 DEF Elements
<1>4. CASE stage[c] = "open"
  <2>1. StatusEvent(i) \in Elements(received[c])
    BY <1>0, <1>1, <1>2, <1>4 DEF EarlyEventsAreReplayed
  <2>2. StatusEvent(i) \in Signal /\ StatusEvent(i).from = Server
    BY <1>t, <1>2 DEF StatusEvent, Signal
  <2> QED
    BY <1>0, <2>1, <2>2, EventsReachTheirPeer
<1> QED
  BY <1>2, <1>3, <1>4

LEMMA SignalingInvSteps == SignalingInv /\ [SignalingNext]_signalingVars => SignalingInv'
<1> SUFFICES ASSUME SignalingInv, [SignalingNext]_signalingVars PROVE SignalingInv'
  OBVIOUS
<1>1. CASE SignalingNext
  <2>1. SignalingTypeOK'
    BY <1>1, SignalingTypesStay DEF SignalingInv
  <2>2. \A k \in Conn : HandlerOK(k)' /\ QueueOK(k)' /\ WitnessOK(k)'
    BY <1>1, HandlersStay, QueuesStay, WitnessStays
  <2>3. BufferOK' /\ CompleteOK' /\ EarlyEventsAreReplayed'
    BY <1>1, BufferStays, CompleteStays, EarlyEventsStay
  <2> QED
    BY <2>1, <2>2, <2>3 DEF SignalingInv
<1>2. CASE UNCHANGED signalingVars
  <2> USE <1>2 DEF signalingVars, SignalingInv
  <2>1. SignalingTypeOK'
    BY DEF SignalingTypeOK
  <2>2. ASSUME NEW k \in Conn PROVE HandlerOK(k)' /\ QueueOK(k)' /\ WitnessOK(k)'
    <3>1. HandlerOK(k)' /\ WitnessOK(k)'
      BY DEF HandlerOK, WitnessOK, Witnessed, StatusEvent, Elements
    <3>2. Onward
      BY DEF Onward, Published, BufferIsComplete, NothingDeleted
    <3>3. QueueOK(k) /\ received'[k] = received[k] /\ live'[k] = live[k]
      OBVIOUS
    <3>4. QueueOK(k)'
      BY <3>2, <3>3, QueueStays
    <3> QED
      BY <3>1, <3>4
  <2>3. BufferOK' /\ CompleteOK' /\ EarlyEventsAreReplayed'
    BY DEF BufferOK, CompleteOK, EarlyEventsAreReplayed, Mirrored, Published, Gapless, BufferIsComplete,
           NothingDeleted, StatusEvent, Elements
  <2> QED
    BY <2>1, <2>2, <2>3
<1> QED
  BY <1>1, <1>2

LEMMA SignalingAlways == SignalingSpec => []SignalingInv
  BY FirstSignalingInv, SignalingInvSteps, PTL DEF SignalingSpec

LEMMA QueuesKeepOrder == SignalingInv => NewSignalsInOrder
<1> SUFFICES ASSUME SignalingInv PROVE NewSignalsInOrder
  OBVIOUS
<1>0. SignalingTypeOK /\ received \in [Conn -> Seq(Signal)]
  BY DEF SignalingInv, SignalingTypeOK
<1>1. ASSUME NEW k \in Conn, NEW h \in DOMAIN received[k], NEW i \in DOMAIN received[k],
             NEW j \in DOMAIN received[k], h < i, i < j
      PROVE  received[k][h] # received[k][i] \/ received[k][i] # received[k][j]
  <2>1. PICK b \in 0..Len(received[k]) : Split(k, b)
    BY DEF SignalingInv, QueueOK
  <2>2. h \in 1..Len(received[k]) /\ i \in 1..Len(received[k]) /\ j \in 1..Len(received[k]) /\ b \in Nat
    BY <1>0
  <2>3. CASE i <= b
    <3>1. h \in 1..b /\ i \in 1..b
      BY <1>1, <2>2, <2>3
    <3> QED
      BY <1>1, <2>1, <3>1 DEF Split
  <2>4. CASE ~(i <= b)
    <3>1. i \in (b + 1)..Len(received[k]) /\ j \in (b + 1)..Len(received[k])
      BY <1>1, <2>2, <2>4
    <3> QED
      BY <1>1, <2>1, <3>1 DEF Split, Before
  <2> QED
    BY <2>3, <2>4
<1>2. ASSUME BufferIsComplete, NEW k \in Conn PROVE InOrder(k)
  <2> SUFFICES ASSUME NEW i \in DOMAIN received[k], NEW j \in DOMAIN received[k], i < j,
                      received[k][i].from = received[k][j].from, received[k][i].from # Server,
                      received[k][j].n < received[k][i].n
               PROVE  \E h \in 1..i : received[k][h] = received[k][j]
    BY DEF InOrder
  <2>1. PICK b \in 0..Len(received[k]) : Split(k, b)
    BY DEF SignalingInv, QueueOK
  <2>2. /\ i \in 1..Len(received[k]) /\ j \in 1..Len(received[k]) /\ b \in Nat
        /\ \A h \in 1..Len(received[k]) : received[k][h] \in Signal
    BY <1>0
  <2>3. received[k][i].n \in Nat /\ received[k][j].n \in 1..2
    BY <2>2 DEF Signal
  <2>4. CASE i <= b
    <3>1. Gapless(received[k], b) /\ i \in 1..b
      BY <1>2, <2>1, <2>2, <2>4 DEF Split
    <3>2. received[k][j].n \in 1..received[k][i].n - 1
      BY <2>3
    <3>3. PICK h \in 1..i - 1 : received[k][h].from = received[k][i].from
                                 /\ received[k][h].n = received[k][j].n
      BY <3>1, <3>2 DEF Gapless
    <3>4. h \in 1..Len(received[k]) /\ h \in 1..i
      BY <2>2, <3>3
    <3>5. received[k][h] = received[k][j]
      BY <2>2, <3>3, <3>4 DEF Signal
    <3> QED
      BY <3>4, <3>5
  <2>5. CASE ~(i <= b)
    <3>1. i \in (b + 1)..Len(received[k]) /\ j \in (b + 1)..Len(received[k])
      BY <2>2, <2>5
    <3>2. received[k][i].n < received[k][j].n
      BY <2>1, <3>1 DEF Split, Before
    <3> QED
      BY <2>3, <3>2
  <2> QED
    BY <2>4, <2>5
<1> QED
  BY <1>0, <1>1, <1>2 DEF NewSignalsInOrder, TwoCopiesAtMost

(***************************************************************************)
(* Whatever the plan of a call and however many connections it has, no     *)
(* client gets a signal three times, and none that is new to it out of its *)
(* sender's order while the buffer is complete (handle_call_signaling).    *)
(***************************************************************************)
THEOREM SignalsAlwaysInOrder == SignalingSpec => []NewSignalsInOrder
  BY SignalingAlways, QueuesKeepOrder, PTL

(***************************************************************************)
(* Whatever commands fail: a status event that was mirrored before a peer  *)
(* connected is in what the replay gave it, unless the buffer was deleted  *)
(* or the peer's own LRANGE failed, and one that starts while the peer is  *)
(* connected arrived or waits in the channel, unless its own PUBLISH       *)
(* failed (publish_call_event, handle_call_signaling).                     *)
(***************************************************************************)
THEOREM EarlyEventsAlwaysReplayed == SignalingSpec => []EarlyEventsAreReplayed
<1>1. SignalingInv => EarlyEventsAreReplayed
  BY DEF SignalingInv
<1> QED
  BY <1>1, SignalingAlways, PTL
=============================================================================
