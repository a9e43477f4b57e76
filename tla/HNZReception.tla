--------------------------- MODULE HNZReception ---------------------------
(***************************************************************************)
(* The other direction of one HNZ path: the information frames of the RTU, *)
(* their number of reception m_nr and the RR that answer them, and the     *)
(* SARM and UA by which each end makes the other restart its numbers       *)
(* (m_analyze_frame, m_receivedINFO, m_sendRR, m_receivedSARM, m_sendSARM  *)
(* and m_manageHNZProtocolState of src/hnzpath.cpp).  What the plugin      *)
(* sends is the subject of HNZWindow; here only its disturbances remain.   *)
(*                                                                         *)
(* The RTU is external: it repeats its first unacknowledged frame, starts  *)
(* over with a SARM when the repetitions run out or the plugin is silent,  *)
(* and answers each SARM by an UA.  The receive thread reads               *)
(* m_protocol_state before it takes the locks: pending and analysing hold  *)
(* what it has decided in between.                                         *)
(***************************************************************************)
EXTENDS HNZAutomaton, Integers, FiniteSets

CONSTANTS
  Windows,       \* numbers of frames the RTU may send without acknowledgement
  StartNumbers,  \* numbers the reception may have come to at the beginning
  MaxSarm,       \* m_max_sarm
  MaxRepeat,     \* repetitions of a frame by the RTU
  MaxMessages,   \* bound: messages of the RTU (its BULLE are not counted)
  MaxFaults,     \* bound: losses, early timeouts, restarts and invalid NR
  ChannelBound   \* bound: frames in a channel, further frames are lost

ASSUME ReceptionAssumption ==
  /\ Windows \subseteq 1..7
  /\ StartNumbers \subseteq 0..7
  /\ MaxSarm \in Nat \ {0}
  /\ {MaxRepeat, MaxMessages, MaxFaults, ChannelBound} \subseteq Nat

VARIABLES
  window,            \* anticipation of the RTU
  m_protocol_state,
  m_nr,              \* number of reception
  m_nbr_sarm_sent,
  recent,            \* now - m_last_connected <= m_repeat_timeout
  tcp_connected,
  receiver,          \* receive thread: receiving, in disconnect() or in connect()
  pending,           \* transition the receive thread has looked up: {} or {t}
  analysing,         \* INFO the receive thread has let through: {} or {frame}
  handled,           \* messages handed to HNZ::m_handle_message
  to_rtu, from_rtu,  \* frames in the channels
  rtu_up,            \* the RTU got an UA for its SARM
  rtu_vs,            \* its next number
  rtu_sent,          \* its unacknowledged frames
  rtu_repeat,        \* repetitions of the first of them
  next_id,           \* identity of its next message
  faults,            \* disturbances so far
  in_step            \* history: since the last UA to the RTU both ends count
                     \* from 0 and the input of the plugin is connected

threadVars == <<receiver, pending, analysing>>
stateVars == <<m_protocol_state, m_nr, m_nbr_sarm_sent, recent>>
rtuVars == <<rtu_up, rtu_vs, rtu_sent, rtu_repeat, next_id>>
vars == <<window, stateVars, tcp_connected, threadVars, handled, to_rtu, from_rtu, rtuVars, faults, in_step>>

InputStates == {"INPUT_CONNECTED", "CONNECTED"}

\* Frames.  id = 0 is a BULLE.
Bare(type) == [type |-> type]
RR(nr, f) == [type |-> "RR", nr |-> nr, f |-> f]
INFO(id, ns, p) == [type |-> "INFO", id |-> id, ns |-> ns, p |-> p]

\* m_sendFrame; a full or closed channel loses the frame
Put(channel, frame) ==
  IF tcp_connected /\ Len(channel) < ChannelBound THEN Append(channel, frame) ELSE channel

Types(channel) == {channel[i].type : i \in DOMAIN channel}

\* A disturbance
Fault == faults < MaxFaults /\ faults' = faults + 1

---------------------------------------------------------------------------
(* Transitions                                                              *)

\* Bug: the number of reception survives a restart of the RTU.
ResetsInputOnLoss(t) == Calls(t, "resolveProtocolStateConnection")

ResetsInput(t) == Calls(t, "resetInputVariables") \/ Calls(t, "resolveProtocolStateConnection")

\* Bug: the SARM are counted across connections.
ResetsSarmOnRestart(t) == Calls(t, "resetSarmCounters")

ResetsSarm(t) == Calls(t, "resetSarmCounters") \/ Calls(t, "resolveProtocolStateConnection")

\* The locked part of protocolStateTransition, up to the counters
applyTransition(t) ==
  /\ m_protocol_state' = t.to
  /\ m_nr' = IF ResetsInput(t) THEN 0 ELSE m_nr
  /\ recent' = (recent \/ Calls(t, "resolveProtocolStateConnected"))
  /\ in_step' = (in_step /\ t.to \in InputStates /\ (t.on = "RECEIVED_SARM" \/ ~ResetsInput(t) \/ m_nr = 0))

SarmsAfter(t) == IF ResetsSarm(t) THEN 0 ELSE m_nbr_sarm_sent

\* stopTCP, or the loss of the link: what is in flight is lost, and the RTU
\* begins the next connection with a SARM
CloseIf(closing) ==
  /\ tcp_connected' = (tcp_connected /\ ~closing)
  /\ to_rtu' = IF closing THEN <<>> ELSE to_rtu
  /\ from_rtu' = IF closing THEN <<>> ELSE from_rtu
  /\ rtu_up' = (rtu_up /\ ~closing)
  /\ rtu_sent' = IF closing THEN <<>> ELSE rtu_sent
  /\ rtu_repeat' = IF closing THEN 0 ELSE rtu_repeat
  /\ UNCHANGED <<rtu_vs, next_id>>

\* protocolStateTransition(event) with the locks held
LockedTransition(event) ==
  /\ HasTransition(m_protocol_state, event)
  /\ \E t \in TransitionsOf(m_protocol_state, event) :
       /\ applyTransition(t)
       /\ m_nbr_sarm_sent' = SarmsAfter(t)
       /\ CloseIf(Calls(t, "stopTCP"))

---------------------------------------------------------------------------
(* Receive thread                                                           *)

ReceiverIdle == receiver = "receiving" /\ pending = {} /\ analysing = {}

Receives(type) ==
  /\ ReceiverIdle
  /\ from_rtu # <<>> /\ Head(from_rtu).type = type
  /\ from_rtu' = Tail(from_rtu)

\* protocolStateTransition(event): what it finds before it takes the locks
LookUp(event) ==
  pending' = IF HasTransition(m_protocol_state, event) THEN TransitionsOf(m_protocol_state, event) ELSE {}

\* Bug: the test of m_last_connected lets every SARM be ignored once connected.
IgnoresWhenConnected == m_protocol_state = "CONNECTED"

\* the test of m_receivedSARM
IgnoresSARM == recent

\* m_receivedSARM: the UA goes out first, even if the SARM came too soon
ReceiveSARM ==
  /\ Receives("SARM")
  /\ to_rtu' = Put(to_rtu, Bare("UA"))
  /\ IF IgnoresSARM THEN UNCHANGED pending ELSE LookUp("RECEIVED_SARM")
  /\ UNCHANGED <<window, stateVars, tcp_connected, receiver, analysing, handled, rtuVars, faults, in_step>>

\* m_receivedUA
ReceiveUA ==
  /\ Receives("UA")
  /\ LookUp("RECEIVED_UA")
  /\ UNCHANGED <<window, stateVars, tcp_connected, receiver, analysing, handled, to_rtu, rtuVars, faults, in_step>>

\* receive() finds the connection closed and calls disconnect()
ReceiveNothing ==
  /\ ReceiverIdle
  /\ ~tcp_connected
  /\ receiver' = "disconnecting"
  /\ LookUp("TCP_CNX_LOST")
  /\ UNCHANGED <<window, stateVars, tcp_connected, analysing, handled, to_rtu, from_rtu, rtuVars, faults, in_step>>

\* The update of protocolStateTransition, once the locks are taken
ApplyTransition ==
  /\ \E t \in pending :
       /\ applyTransition(t)
       /\ m_nbr_sarm_sent' = SarmsAfter(t)
       /\ CloseIf(Calls(t, "stopTCP"))
  /\ pending' = {}
  /\ UNCHANGED <<window, receiver, analysing, handled, faults>>

\* m_analyze_frame: an information frame is dropped in state CONNECTION
AnalyzeInfo ==
  /\ Receives("INFO")
  /\ analysing' = IF m_protocol_state = "CONNECTION" THEN {} ELSE {Head(from_rtu)}
  /\ UNCHANGED <<window, stateVars, tcp_connected, receiver, pending, handled, to_rtu, rtuVars, faults, in_step>>

\* canPathExtractMessage for a path without another one: it is the active path
\* or the first whose input is connected
Extracted(frame) == IF m_protocol_state \in InputStates THEN {frame.id} \ {0} ELSE {}

\* Bug: a repeated frame is accepted whatever its number.
AcceptsRepeated(frame) == frame.ns = m_nr \/ frame.p

\* the comparison of m_sendRR
AcceptsNumber(frame) == frame.ns = m_nr

\* Bug: the number of reception does not come back to 0.
NextUnbounded(nr) == nr + 1

Next8(nr) == (nr + 1) % 8

\* m_sendRR once the NR of the frame is found valid
m_sendRR(frame) ==
  LET nr == IF AcceptsNumber(frame) THEN Next8(m_nr) ELSE m_nr
  IN /\ m_nr' = nr
     /\ to_rtu' = IF AcceptsNumber(frame) \/ frame.p THEN Put(to_rtu, RR(nr, frame.p)) ELSE to_rtu

\* m_receivedINFO under the locks; in OUTPUT_CONNECTED the frame is ignored
ReceiveInfo ==
  /\ \E frame \in analysing :
       IF m_protocol_state = "OUTPUT_CONNECTED"
         THEN UNCHANGED <<handled, m_nr, to_rtu>>
         ELSE handled' = handled \cup Extracted(frame) /\ m_sendRR(frame)
  /\ analysing' = {}
  /\ UNCHANGED <<window, m_protocol_state, m_nbr_sarm_sent, recent, tcp_connected, receiver, pending, from_rtu, rtuVars,
                 faults, in_step>>

\* m_receivedINFO when the NR of the frame is invalid: its messages are cleared
\* and nothing is answered
RefuseInfo ==
  /\ analysing # {}
  /\ analysing' = {}
  /\ Fault
  /\ UNCHANGED <<window, stateVars, tcp_connected, receiver, pending, handled, to_rtu, from_rtu, rtuVars, in_step>>

\* The end of disconnect(): the connection thread is joined
JoinConnectionThread ==
  /\ receiver = "disconnecting" /\ pending = {}
  /\ receiver' = "connecting"
  /\ UNCHANGED <<window, stateVars, tcp_connected, pending, analysing, handled, to_rtu, from_rtu, rtuVars, faults, in_step>>

\* connect(): a new connection thread is started
Reconnect ==
  /\ receiver = "connecting"
  /\ receiver' = "receiving"
  /\ tcp_connected' = TRUE
  /\ UNCHANGED <<window, stateVars, pending, analysing, handled, to_rtu, from_rtu, rtuVars, faults, in_step>>

---------------------------------------------------------------------------
(* Connection thread and messages thread                                    *)

SarmsExhausted == m_nbr_sarm_sent = MaxSarm

\* m_repeat_timeout has passed since the last SARM: it is longer than a round
\* trip and than the time it takes to notice that the connection is closed
SarmDue ==
  IF tcp_connected
    THEN "SARM" \notin Types(to_rtu) /\ "UA" \notin Types(from_rtu) /\ pending = {}
    ELSE m_nbr_sarm_sent = 0

\* m_manageHNZProtocolState in CONNECTION and INPUT_CONNECTED: a SARM each
\* m_repeat_timeout.  At the limit the TCP connection is closed, and the SARM
\* that follows is lost but counted.
ManageSarm ==
  /\ receiver # "connecting"
  /\ m_protocol_state \in {"CONNECTION", "INPUT_CONNECTED"}
  /\ \/ SarmDue /\ UNCHANGED faults
     \/ Fault
  /\ IF SarmsExhausted
       THEN \E t \in TransitionsOf(m_protocol_state, "MAX_SARM_SENT") :
              /\ applyTransition(t)
              /\ m_nbr_sarm_sent' = SarmsAfter(t) + 1
              /\ CloseIf(TRUE)
       ELSE /\ m_nbr_sarm_sent' = m_nbr_sarm_sent + 1
            /\ to_rtu' = Put(to_rtu, Bare("SARM"))
            /\ UNCHANGED <<m_protocol_state, m_nr, recent, tcp_connected, from_rtu, rtuVars, in_step>>
  /\ UNCHANGED <<window, threadVars, handled>>

\* m_manageHNZProtocolState and m_check_timer: nothing received in time, or a
\* frame of the plugin repeated too often
Timeout(event) ==
  /\ event \in {"TO_RECV", "MAX_SEND"}
  /\ event = "MAX_SEND" => tcp_connected
  /\ event = "TO_RECV" => receiver # "connecting" /\ m_protocol_state # "OUTPUT_CONNECTED"
  /\ Fault
  /\ LockedTransition(event)
  /\ UNCHANGED <<window, threadVars, handled>>

\* m_repeat_timeout has passed since the transition to CONNECTED
Elapse ==
  /\ recent
  /\ recent' = FALSE
  /\ UNCHANGED <<window, m_protocol_state, m_nr, m_nbr_sarm_sent, tcp_connected, threadVars, handled, to_rtu,
                 from_rtu, rtuVars, faults, in_step>>

---------------------------------------------------------------------------
(* External: the RTU and the network                                        *)

pluginVars == <<window, stateVars, tcp_connected, threadVars, handled>>

\* Number of frames a RR acknowledges; 0 when its number is not awaited
AcknowledgedBy(nr) ==
  LET k == IF rtu_sent = <<>> THEN 0 ELSE (nr - Head(rtu_sent).ns) % 8
  IN IF k <= Len(rtu_sent) THEN k ELSE 0

\* What the RTU takes as an acknowledgement although the message never came
FalseAck(nr) == \E i \in 1..AcknowledgedBy(nr) : rtu_sent[i].id \notin handled \cup {0}

\* Both ends restart at this UA: nothing of the old numbering is on its way
Restarted ==
  /\ from_rtu = <<>>
  /\ "RR" \notin Types(Tail(to_rtu))
  /\ analysing = {}
  /\ IF pending = {} THEN m_protocol_state \in InputStates /\ m_nr = 0
     ELSE \E t \in pending : t.on = "RECEIVED_SARM"

RTUReceiveUA ==
  /\ to_rtu # <<>> /\ Head(to_rtu).type = "UA"
  /\ to_rtu' = Tail(to_rtu)
  /\ IF rtu_up THEN UNCHANGED <<rtuVars, in_step>>
     ELSE /\ rtu_up' = TRUE
          /\ rtu_vs' = 0 /\ rtu_sent' = <<>> /\ rtu_repeat' = 0
          /\ in_step' = Restarted
          /\ UNCHANGED next_id
  /\ UNCHANGED <<pluginVars, from_rtu, faults>>

RTUReceiveSARM ==
  /\ to_rtu # <<>> /\ Head(to_rtu).type = "SARM"
  /\ to_rtu' = Tail(to_rtu)
  /\ from_rtu' = Put(from_rtu, Bare("UA"))
  /\ UNCHANGED <<pluginVars, rtuVars, faults, in_step>>

RTUReceiveRR ==
  /\ to_rtu # <<>> /\ Head(to_rtu).type = "RR"
  /\ to_rtu' = Tail(to_rtu)
  /\ LET k == IF rtu_up THEN AcknowledgedBy(Head(to_rtu).nr) ELSE 0
     IN /\ rtu_sent' = SubSeq(rtu_sent, k + 1, Len(rtu_sent))
        /\ rtu_repeat' = IF k > 0 THEN 0 ELSE rtu_repeat
  /\ UNCHANGED <<pluginVars, from_rtu, rtu_up, rtu_vs, next_id, faults, in_step>>

\* A new message, or a BULLE when nothing is under way
RTUSend(id) ==
  /\ rtu_up /\ tcp_connected
  /\ Len(rtu_sent) < window
  /\ \/ id = next_id /\ next_id <= MaxMessages /\ next_id' = next_id + 1
     \/ id = 0 /\ rtu_sent = <<>> /\ from_rtu = <<>> /\ UNCHANGED next_id
  /\ rtu_sent' = Append(rtu_sent, [id |-> id, ns |-> rtu_vs])
  /\ rtu_vs' = (rtu_vs + 1) % 8
  /\ from_rtu' = Put(from_rtu, INFO(id, rtu_vs, FALSE))
  /\ UNCHANGED <<pluginVars, to_rtu, rtu_up, rtu_repeat, faults, in_step>>

\* Nothing is on its way that could answer the RTU
RTUUnanswered == tcp_connected /\ to_rtu = <<>> /\ from_rtu = <<>> /\ ReceiverIdle

RTURepeat ==
  /\ RTUUnanswered
  /\ rtu_sent # <<>> /\ rtu_repeat < MaxRepeat
  /\ rtu_repeat' = rtu_repeat + 1
  /\ from_rtu' = Put(from_rtu, INFO(Head(rtu_sent).id, Head(rtu_sent).ns, TRUE))
  /\ UNCHANGED <<pluginVars, to_rtu, rtu_up, rtu_vs, rtu_sent, next_id, faults, in_step>>

SendSARM ==
  /\ from_rtu' = Put(from_rtu, Bare("SARM"))
  /\ rtu_up' = FALSE
  /\ rtu_sent' = <<>> /\ rtu_repeat' = 0
  /\ in_step' = FALSE
  /\ UNCHANGED <<pluginVars, to_rtu, rtu_vs, next_id>>

\* A SARM, again if there is no UA; the end of the repetitions; the plugin sends
\* no BULLE in the states without output
RTUSendSARM ==
  /\ RTUUnanswered
  /\ \/ ~rtu_up
     \/ rtu_sent # <<>> /\ rtu_repeat = MaxRepeat
     \/ m_protocol_state \in {"CONNECTION", "INPUT_CONNECTED"}
  /\ SendSARM
  /\ UNCHANGED faults

\* The RTU restarts, or repeats its SARM too early
RTURestart ==
  /\ tcp_connected
  /\ Fault
  /\ SendSARM

\* A frame is damaged: its CRC does not match
Lose ==
  /\ \/ to_rtu # <<>> /\ to_rtu' = Tail(to_rtu) /\ UNCHANGED from_rtu
     \/ from_rtu # <<>> /\ from_rtu' = Tail(from_rtu) /\ UNCHANGED to_rtu
  /\ Fault
  /\ UNCHANGED <<pluginVars, rtuVars, in_step>>

TCPLost ==
  /\ tcp_connected
  /\ Fault
  /\ CloseIf(TRUE)
  /\ UNCHANGED <<window, stateVars, threadVars, handled, in_step>>

---------------------------------------------------------------------------
\* The connection has been up for some time
Init ==
  /\ window \in Windows
  /\ m_protocol_state = "CONNECTED"
  /\ m_nr \in StartNumbers
  /\ m_nbr_sarm_sent = 1
  /\ recent \in BOOLEAN
  /\ tcp_connected = TRUE
  /\ receiver = "receiving" /\ pending = {} /\ analysing = {}
  /\ handled = {}
  /\ to_rtu = <<>> /\ from_rtu = <<>>
  /\ rtu_up = TRUE
  /\ rtu_vs = m_nr
  /\ rtu_sent = <<>>
  /\ rtu_repeat = 0
  /\ next_id = 1
  /\ faults = 0
  /\ in_step = TRUE

ReceiveNext ==
  \/ ReceiveSARM \/ ReceiveUA \/ ReceiveNothing \/ ApplyTransition \/ AnalyzeInfo \/ ReceiveInfo
  \/ JoinConnectionThread \/ Reconnect

RTUReceive == RTUReceiveUA \/ RTUReceiveSARM \/ RTUReceiveRR
RTUTimers == RTURepeat \/ RTUSendSARM

Next ==
  \/ ReceiveNext \/ RefuseInfo
  \/ ManageSarm \/ (\E event \in ConnectionEvent : Timeout(event)) \/ Elapse
  \/ RTUReceive \/ (\E id \in 0..MaxMessages : RTUSend(id)) \/ RTUTimers \/ RTURestart
  \/ Lose \/ TCPLost

\* The threads of the plugin run, the RTU answers, repeats and sends its BULLE.
\* What is received does not put off the timer of the SARM (SF).
Fairness ==
  /\ WF_vars(ReceiveNext) /\ SF_vars(ManageSarm) /\ WF_vars(Elapse)
  /\ WF_vars(RTUReceive) /\ WF_vars(RTUTimers) /\ WF_vars(RTUSend(0))

Spec == Init /\ [][Next]_vars /\ Fairness

---------------------------------------------------------------------------
(* Properties                                                               *)

INFOs == [type : {"INFO"}, id : 0..MaxMessages, ns : 0..7, p : BOOLEAN]

\* Every variable of the path has its type.
TypeOK ==
  /\ window \in Windows
  /\ m_protocol_state \in ProtocolState
  /\ m_nr \in 0..7
  /\ m_nbr_sarm_sent \in Nat
  /\ recent \in BOOLEAN /\ tcp_connected \in BOOLEAN
  /\ receiver \in {"receiving", "disconnecting", "connecting"}
  /\ pending \subseteq m_protocolStateTransitionMap
  /\ analysing \subseteq INFOs
  /\ handled \subseteq 1..MaxMessages
  /\ to_rtu \in Seq([type : {"RR"}, nr : 0..7, f : BOOLEAN] \cup [type : {"UA", "SARM"}])
  /\ from_rtu \in Seq(INFOs \cup [type : {"UA", "SARM"}])
  /\ rtu_up \in BOOLEAN
  /\ rtu_vs \in 0..7
  /\ rtu_sent \in Seq([id : 0..MaxMessages, ns : 0..7])
  /\ rtu_repeat \in 0..MaxRepeat
  /\ next_id \in 1..(MaxMessages + 1)
  /\ faults \in 0..MaxFaults
  /\ in_step \in BOOLEAN

\* While both ends count from the same SARM and the input stays connected, a RR
\* never acknowledges a message that was not handed to m_handle_message, with
\* lost, repeated and refused frames and early restarts of either side.
AckedWasHandled ==
  in_step /\ rtu_up => \A i \in DOMAIN to_rtu : to_rtu[i].type = "RR" => ~FalseAck(to_rtu[i].nr)

\* m_nbr_sarm_sent is compared with m_max_sarm by ==: no sequence of transitions
\* that reset it, or do not, lets it pass the limit, after which the SARM would
\* never end.
SarmsAreBounded == m_nbr_sarm_sent <= MaxSarm

\* When the disturbances end, both directions get connected again and stay so,
\* although a SARM may have been ignored (m_receivedSARM), reset one end only
\* (MAX_SEND, TO_RECV), or left the numbers of the two ends apart.
ComesTogether == <>[](m_protocol_state = "CONNECTED" /\ rtu_up)
=============================================================================
