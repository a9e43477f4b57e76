----------------------------- MODULE HNZWindow -----------------------------
(***************************************************************************)
(* The transmit window of one HNZ path: numbered information frames, their *)
(* acknowledgement by RR, the repetition of the first frame after a        *)
(* timeout and the queue of the messages that found the window full        *)
(* (src/hnzpath.cpp, m_check_timer of src/hnzconnection.cpp), facing an    *)
(* external RTU over two FIFO channels that may lose frames.               *)
(*                                                                         *)
(* m_sendInfo runs on the messages, connection and Fledge threads,         *)
(* m_receivedRR on the receive thread and m_check_timer on the messages    *)
(* thread.  They share no lock that covers msg_sent and msg_waiting: the   *)
(* module describes the executions in which each of them runs as a whole.  *)
(* The receive thread looks a transition up before it takes the locks:     *)
(* pending holds it in between.  Time is abstract, as in HNZConnection.    *)
(***************************************************************************)
EXTENDS HNZAutomaton, Integers, FiniteSets

CONSTANTS
  Configurations,  \* the settings to consider: records [ratio, repeat_max]
  StartNumbers,    \* numbers the window may have come to at the beginning
  MaxMessages,     \* bound: messages handed to m_sendInfo
  ChannelBound     \* bound: frames in a channel, further frames are lost

ASSUME WindowAssumption ==
  /\ Configurations \subseteq [ratio : 1..7, repeat_max : Nat]
  /\ StartNumbers \subseteq 0..7
  /\ MaxMessages \in Nat
  /\ ChannelBound \in Nat

VARIABLES
  conf,              \* conf.ratio = m_anticipation_ratio, conf.repeat_max
  m_protocol_state,
  m_ns, m_NRR,       \* next number to send, last acknowledged number
  m_repeat,          \* repetitions of the first unacknowledged frame
  msg_sent, msg_waiting,
  tcp_connected,
  pending,           \* transition the receive thread has looked up: {} or {t}
  to_rtu, from_rtu,  \* frames in the channels
  rtu_vr,            \* next number the RTU expects
  next_id,           \* identity of the next message
  delivered,         \* history: messages the RTU accepted, in order
  in_step            \* history: both ends restarted their numbers at the last UA

queueVars == <<msg_sent, msg_waiting>>
numberVars == <<m_ns, m_NRR, m_repeat>>
rtuVars == <<rtu_vr, delivered>>
vars == <<conf, m_protocol_state, numberVars, queueVars, tcp_connected, pending,
          to_rtu, from_rtu, rtuVars, next_id, in_step>>

Kinds == {"BULLE", "OTHER"}

\* Frames: INFO to the RTU; INFO (of which only NR matters here) and RR from it
INFO(m, p) == [type |-> "INFO", id |-> m.id, ns |-> m.ns, p |-> p]
Ack(type, nr, f) == [type |-> type, nr |-> nr, f |-> f]
Bare(type) == [type |-> type]

LeastOf(a, b) == IF a <= b THEN a ELSE b

\* createAndSendFr for each of frames; a full or closed channel loses them
Put(channel, frames) ==
  IF tcp_connected THEN SubSeq(channel \o frames, 1, LeastOf(Len(channel) + Len(frames), ChannelBound))
  ELSE channel

---------------------------------------------------------------------------
(* Effects of a transition on the window                                    *)

\* Bug: an UA does not restart the numbers.
ResetsOnLoss(t) == Calls(t, "resolveProtocolStateConnection")

ResetsOutput(t) == Calls(t, "resetOutputVariables") \/ Calls(t, "resolveProtocolStateConnection")

\* Bug: messages are kept when the connection is disrupted.
KeepsMessages(t) == Calls(t, "discardMessages") /\ t.on # "MAX_SEND"

Discards(t) == Calls(t, "discardMessages")

\* The RTU restarts its numbers too: nothing of the old numbering is left in
\* the channels, or a SARM is behind it.
RTUInStep ==
  /\ \A i \in DOMAIN to_rtu : to_rtu[i].type # "INFO"
  /\ \A i \in DOMAIN from_rtu : from_rtu[i].type \notin {"RR", "INFO"}
  /\ rtu_vr = 0

\* The locked part of protocolStateTransition
applyTransition(t) ==
  /\ m_protocol_state' = t.to
  /\ m_ns' = IF ResetsOutput(t) THEN 0 ELSE m_ns
  /\ m_NRR' = IF ResetsOutput(t) THEN 0 ELSE m_NRR
  /\ m_repeat' = IF ResetsOutput(t) THEN 0 ELSE m_repeat
  /\ msg_sent' = IF Discards(t) THEN <<>> ELSE msg_sent
  /\ msg_waiting' = IF Discards(t) THEN <<>> ELSE msg_waiting
  /\ in_step' = IF t.on = "RECEIVED_UA" THEN RTUInStep ELSE in_step /\ ~ResetsOutput(t)

\* stopTCP closes the connection and what is in flight is lost
CloseIf(closing) ==
  /\ tcp_connected' = (tcp_connected /\ ~closing)
  /\ to_rtu' = IF closing THEN <<>> ELSE to_rtu
  /\ from_rtu' = IF closing THEN <<>> ELSE from_rtu

\* protocolStateTransition(event) with the locks held
LockedTransition(event) ==
  /\ HasTransition(m_protocol_state, event)
  /\ \E t \in TransitionsOf(m_protocol_state, event) :
       applyTransition(t) /\ CloseIf(Calls(t, "stopTCP"))

---------------------------------------------------------------------------
(* Sending                                                                  *)

\* Common test of m_sendInfo and m_sendInfoImmediately
Sendable(kind) ==
  \/ m_protocol_state = "CONNECTED"
  \/ m_protocol_state = "OUTPUT_CONNECTED" /\ kind = "BULLE"

\* Bug: one message too many.
WindowOpenLate(sent) == Len(sent) <= conf.ratio

\* the test of m_sendInfo and of the loop of m_NRAccepted
WindowOpen(sent) == Len(sent) < conf.ratio

\* Message m as m_sendInfoImmediately numbers it when it is the i-th of a batch
Numbered(m, i) == [id |-> m.id, kind |-> m.kind, ns |-> (m_ns + i - 1) % 8]

\* m_sendInfo for a new message; HNZCommands models the value it returns.  A
\* message that cannot be sent is discarded, which is no step.
m_sendInfo(kind) ==
  /\ next_id <= MaxMessages
  /\ Sendable(kind)
  /\ LET message == [id |-> next_id, kind |-> kind, ns |-> 0]
     IN IF WindowOpen(msg_sent)
          THEN /\ msg_sent' = Append(msg_sent, Numbered(message, 1))
               /\ m_ns' = (m_ns + 1) % 8
               /\ to_rtu' = Put(to_rtu, <<INFO(Numbered(message, 1), FALSE)>>)
               /\ UNCHANGED msg_waiting
          ELSE /\ msg_waiting' = Append(msg_waiting, message)
               /\ UNCHANGED <<msg_sent, m_ns, to_rtu>>
  /\ next_id' = next_id + 1
  /\ UNCHANGED <<conf, m_protocol_state, m_NRR, m_repeat, tcp_connected, pending, from_rtu, rtuVars, in_step>>

\* Bugs: the room is computed before the acknowledged messages are removed; one
\* message too many is removed.
DrainBefore(sent) == IF WindowOpen(msg_sent) THEN LeastOf(Len(msg_waiting), conf.ratio - Len(msg_sent)) ELSE 0
OneMore(nr) == ((nr - m_NRR) % 8) + 1

\* nrOffset of m_NRAccepted
Acknowledged(nr) == (nr - m_NRR) % 8

\* Number of waiting messages the loop of m_NRAccepted sends when sent is left
\* of msg_sent
DrainCount(sent) == IF WindowOpen(sent) THEN LeastOf(Len(msg_waiting), conf.ratio - Len(sent)) ELSE 0

\* m_NRAccepted.  The loop ends because every message it meets can be sent
\* (QueuedIsSendable).
m_NRAccepted(nr) ==
  LET rest == SubSeq(msg_sent, Acknowledged(nr) + 1, Len(msg_sent))
      k == DrainCount(rest)
      batch == [i \in 1..k |-> Numbered(msg_waiting[i], i)]
  IN /\ m_NRR' = nr
     /\ m_repeat' = 0
     /\ msg_sent' = rest \o batch
     /\ msg_waiting' = SubSeq(msg_waiting, k + 1, Len(msg_waiting))
     /\ m_ns' = (m_ns + k) % 8
     /\ to_rtu' = Put(to_rtu, [i \in 1..k |-> INFO(batch[i], FALSE)])

m_isNRValid(nr) ==
  \/ nr = m_NRR
  \/ m_NRR < nr /\ nr <= m_ns
  \/ m_ns < m_NRR /\ (m_NRR < nr \/ nr <= m_ns)

\* The two ways m_receivedRR(nr, repetition) ends
Accepts(nr, repetition) == nr # m_NRR /\ m_isNRValid(nr) /\ (~repetition \/ m_repeat > 0)

---------------------------------------------------------------------------
(* Receive thread                                                           *)

ReceiverIdle == tcp_connected /\ pending = {}

Receives(type) == ReceiverIdle /\ from_rtu # <<>> /\ Head(from_rtu).type = type

\* m_analyze_frame, m_receivedINFO and m_sendRR: the NR of a RR counts outside
\* state CONNECTION, the NR of an information frame when the input is connected
Heeds(type) ==
  m_protocol_state \in IF type = "RR" THEN ProtocolState \ {"CONNECTION"} ELSE {"INPUT_CONNECTED", "CONNECTED"}

ReceiveAck(type) ==
  /\ Receives(type)
  /\ LET frame == Head(from_rtu)
     IN IF Heeds(type) /\ Accepts(frame.nr, frame.f)
          THEN m_NRAccepted(frame.nr)
          ELSE UNCHANGED <<numberVars, queueVars, to_rtu>>
  /\ from_rtu' = Tail(from_rtu)
  /\ UNCHANGED <<conf, m_protocol_state, tcp_connected, pending, rtuVars, next_id, in_step>>

\* protocolStateTransition(event): what it finds before it takes the locks
LookUp(event) ==
  pending' = IF HasTransition(m_protocol_state, event) THEN TransitionsOf(m_protocol_state, event) ELSE {}

\* m_receivedUA
ReceiveUA ==
  /\ Receives("UA")
  /\ LookUp("RECEIVED_UA")
  /\ from_rtu' = Tail(from_rtu)
  /\ UNCHANGED <<conf, m_protocol_state, numberVars, queueVars, tcp_connected, to_rtu, rtuVars, next_id, in_step>>

\* m_receivedSARM; too soon after the last connection it is ignored.  The UA it
\* answers concerns the other direction.
ReceiveSARM ==
  /\ Receives("SARM")
  /\ LookUp("RECEIVED_SARM") \/ UNCHANGED pending
  /\ from_rtu' = Tail(from_rtu)
  /\ UNCHANGED <<conf, m_protocol_state, numberVars, queueVars, tcp_connected, to_rtu, rtuVars, next_id, in_step>>

\* receive() finds the connection closed and calls disconnect()
ReceiveNothing ==
  /\ ~tcp_connected
  /\ pending = {}
  /\ m_protocol_state # "CONNECTION"
  /\ LookUp("TCP_CNX_LOST")
  /\ UNCHANGED <<conf, m_protocol_state, numberVars, queueVars, tcp_connected, to_rtu, from_rtu, rtuVars,
                 next_id, in_step>>

\* The update of protocolStateTransition, once the locks are taken
ApplyTransition ==
  /\ \E t \in pending : applyTransition(t) /\ CloseIf(Calls(t, "stopTCP"))
  /\ pending' = {}
  /\ UNCHANGED <<conf, rtuVars, next_id>>

\* connect() after the state has gone back to CONNECTION
Reconnect ==
  /\ ~tcp_connected
  /\ pending = {}
  /\ m_protocol_state = "CONNECTION"
  /\ tcp_connected' = TRUE
  /\ UNCHANGED <<conf, m_protocol_state, numberVars, queueVars, pending, to_rtu, from_rtu, rtuVars, next_id, in_step>>

---------------------------------------------------------------------------
(* Connection thread and messages thread                                    *)

\* m_manageHNZProtocolState sends a SARM
m_sendSARM ==
  /\ m_protocol_state \in {"CONNECTION", "INPUT_CONNECTED"}
  /\ to_rtu' = Put(to_rtu, <<Bare("SARM")>>)
  /\ UNCHANGED <<conf, m_protocol_state, numberVars, queueVars, tcp_connected, pending, from_rtu, rtuVars,
                 next_id, in_step>>

\* m_manageHNZProtocolState: too many SARM sent, or nothing received in time
ManageTimeout(event) ==
  /\ \/ event = "MAX_SARM_SENT" /\ m_protocol_state \in {"CONNECTION", "INPUT_CONNECTED"}
     \/ event = "TO_RECV" /\ m_protocol_state \in {"CONNECTION", "INPUT_CONNECTED", "CONNECTED"}
  /\ LockedTransition(event)
  /\ UNCHANGED <<conf, pending, rtuVars, next_id>>

\* Bugs: repetitions are not counted; one repetition too many.
RepeatsUncounted == m_repeat
ExhaustedLate == m_repeat > conf.repeat_max

RepeatsAfterResend == m_repeat + 1
Exhausted == m_repeat >= conf.repeat_max

\* sendBackInfo for the first frame of msg_sent, then the others go back to the
\* front of msg_waiting
Resend ==
  /\ m_repeat' = RepeatsAfterResend
  /\ to_rtu' = Put(to_rtu, <<INFO(Head(msg_sent), TRUE)>>)
  /\ msg_waiting' = Tail(msg_sent) \o msg_waiting
  /\ msg_sent' = <<Head(msg_sent)>>
  /\ UNCHANGED <<m_protocol_state, m_ns, m_NRR, tcp_connected, from_rtu, in_step>>

\* m_check_timer: the first frame was not acknowledged in time
CheckTimer ==
  /\ msg_sent # <<>>
  /\ tcp_connected
  /\ IF Exhausted THEN LockedTransition("MAX_SEND") ELSE Resend
  /\ UNCHANGED <<conf, pending, rtuVars, next_id>>

---------------------------------------------------------------------------
(* External: the RTU and the network                                        *)

\* The RTU acknowledges the frame it expects, and repeats its last RR for a
\* repeated frame
RTUReceive ==
  /\ to_rtu # <<>>
  /\ to_rtu' = Tail(to_rtu)
  /\ LET frame == Head(to_rtu)
     IN \/ /\ frame.type = "SARM"
           /\ rtu_vr' = 0
           /\ from_rtu' = Put(from_rtu, <<Bare("UA")>>)
           /\ UNCHANGED delivered
        \/ /\ frame.type = "INFO" /\ frame.ns = rtu_vr
           /\ rtu_vr' = (rtu_vr + 1) % 8
           /\ from_rtu' = Put(from_rtu, <<Ack("RR", (rtu_vr + 1) % 8, frame.p)>>)
           /\ delivered' = Append(delivered, frame.id)
        \/ /\ frame.type = "INFO" /\ frame.ns # rtu_vr
           /\ from_rtu' = IF frame.p THEN Put(from_rtu, <<Ack("RR", rtu_vr, TRUE)>>) ELSE from_rtu
           /\ UNCHANGED rtuVars
  /\ UNCHANGED <<conf, m_protocol_state, numberVars, queueVars, tcp_connected, pending, next_id, in_step>>

RTUSend(frame) ==
  /\ tcp_connected
  /\ from_rtu' = Put(from_rtu, <<frame>>)
  /\ UNCHANGED <<conf, m_protocol_state, numberVars, queueVars, tcp_connected, pending, to_rtu, rtuVars,
                 next_id, in_step>>

\* A frame is damaged: the receiver drops it because its CRC does not match
Lose ==
  /\ \/ to_rtu # <<>> /\ to_rtu' = Tail(to_rtu) /\ UNCHANGED from_rtu
     \/ from_rtu # <<>> /\ from_rtu' = Tail(from_rtu) /\ UNCHANGED to_rtu
  /\ UNCHANGED <<conf, m_protocol_state, numberVars, queueVars, tcp_connected, pending, rtuVars, next_id, in_step>>

TCPLost ==
  /\ tcp_connected
  /\ CloseIf(TRUE)
  /\ UNCHANGED <<conf, m_protocol_state, numberVars, queueVars, pending, rtuVars, next_id, in_step>>

---------------------------------------------------------------------------
\* The connection has been up long enough for the numbers to be anywhere
Init ==
  /\ conf \in Configurations
  /\ m_protocol_state = "CONNECTED"
  /\ m_ns \in StartNumbers
  /\ m_NRR = m_ns
  /\ m_repeat = 0
  /\ msg_sent = <<>>
  /\ msg_waiting = <<>>
  /\ tcp_connected = TRUE
  /\ pending = {}
  /\ to_rtu = <<>>
  /\ from_rtu = <<>>
  /\ rtu_vr = m_ns
  /\ next_id = 1
  /\ delivered = <<>>
  /\ in_step = TRUE

Next ==
  \/ \E kind \in Kinds : m_sendInfo(kind)
  \/ (\E type \in {"RR", "INFO"} : ReceiveAck(type)) \/ ReceiveUA \/ ReceiveSARM \/ ReceiveNothing \/ ApplyTransition \/ Reconnect
  \/ m_sendSARM \/ (\E event \in ConnectionEvent : ManageTimeout(event)) \/ CheckTimer
  \/ RTUReceive \/ RTUSend(Bare("SARM")) \/ RTUSend(Ack("INFO", rtu_vr, FALSE)) \/ Lose \/ TCPLost

\* The messages thread and the receive thread keep running
Fairness == WF_vars(CheckTimer) /\ WF_vars(ReceiveNothing) /\ WF_vars(ApplyTransition)

Spec == Init /\ [][Next]_vars /\ Fairness

---------------------------------------------------------------------------
(* Properties                                                               *)

Messages == [id : Nat, kind : Kinds, ns : 0..7]
ToRTU == [type : {"INFO"}, id : Nat, ns : 0..7, p : BOOLEAN] \cup [type : {"SARM"}]
FromRTU == [type : {"RR", "INFO"}, nr : 0..7, f : BOOLEAN] \cup [type : {"UA", "SARM"}]

\* Every variable of the path has its type.
TypeOK ==
  /\ conf \in Configurations
  /\ m_protocol_state \in ProtocolState
  /\ m_ns \in 0..7 /\ m_NRR \in 0..7
  /\ m_repeat \in 0..conf.repeat_max
  /\ msg_sent \in Seq(Messages)
  /\ msg_waiting \in Seq(Messages)
  /\ tcp_connected \in BOOLEAN
  /\ pending \subseteq m_protocolStateTransitionMap
  /\ to_rtu \in Seq(ToRTU) /\ from_rtu \in Seq(FromRTU)
  /\ rtu_vr \in 0..7
  /\ next_id \in Nat
  /\ delivered \in Seq(Nat)
  /\ in_step \in BOOLEAN

\* m_sendInfo, m_NRAccepted and m_check_timer together never have more than
\* m_anticipation_ratio unacknowledged messages in msg_sent.
WindowBound == Len(msg_sent) <= conf.ratio

\* Every message in a queue can be sent in the present state of the protocol,
\* whatever transition the receive thread applies late.  Otherwise the loop of
\* m_NRAccepted, which retries a message that is refused, would never end.
QueuedIsSendable ==
  /\ \A i \in DOMAIN msg_sent : Sendable(msg_sent[i].kind)
  /\ \A i \in DOMAIN msg_waiting : Sendable(msg_waiting[i].kind)

\* Only an acknowledgement sends the waiting messages: none waits when nothing
\* is left to be acknowledged.
NothingStranded == msg_waiting # <<>> => msg_sent # <<>>

\* The cases of m_isNRValid are the test m_NRR <= nr <= m_ns modulo 8.
NRTestIsModular ==
  \A nr \in 0..7 : m_isNRValid(nr) <=> (nr - m_NRR) % 8 <= (m_ns - m_NRR) % 8

\* Settings under which the retry does not renumber: one frame at a time, or no
\* repetition.
NoRenumbering == conf.ratio = 1 \/ conf.repeat_max = 0

\* The unacknowledged messages carry the numbers from m_NRR up to m_ns.
NumberingConsistent ==
  NoRenumbering /\ m_protocol_state \in {"CONNECTED", "OUTPUT_CONNECTED"} =>
    /\ m_ns = (m_NRR + Len(msg_sent)) % 8
    /\ \A i \in DOMAIN msg_sent : msg_sent[i].ns = (m_NRR + i - 1) % 8

\* The RTU gets no message twice, and gets them in the order of m_sendInfo,
\* although frames and acknowledgements are lost and frames repeated.
DeliveredOnceInOrder ==
  NoRenumbering => \A i, j \in DOMAIN delivered : i < j => delivered[i] < delivered[j]

Ids(queue) == {queue[i].id : i \in DOMAIN queue}

\* A step of m_NRAccepted that removes a message the RTU did not get
FalseAck ==
  /\ m_NRR' # m_NRR
  /\ m_protocol_state' = m_protocol_state
  /\ \E id \in Ids(msg_sent) \ (Ids(msg_sent') \cup Ids(msg_waiting')) :
       \A i \in DOMAIN delivered : delivered[i] # id

\* As long as both ends count from the same UA, a message that is removed from
\* msg_sent by an acknowledgement has reached the RTU.
AckedInStep == [][in_step /\ NoRenumbering => ~FalseAck]_vars

\* Every message that m_sendInfo accepts leaves the queues: it is acknowledged,
\* or the repetitions run out and the connection is started again.
EveryMessageLeaves ==
  \A id \in 1..MaxMessages : id \in Ids(msg_sent) \cup Ids(msg_waiting)
                               ~> id \notin Ids(msg_sent) \cup Ids(msg_waiting)

=============================================================================
