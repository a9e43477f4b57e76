------------------------- MODULE HNZReceptionProofs -------------------------
(***************************************************************************)
(* Proofs about HNZReception, for any windows, start numbers, limits and   *)
(* bounds: the types, the bound on the SARM, and that a RR acknowledges    *)
(* only what the plugin has handled.                                       *)
(***************************************************************************)
EXTENDS HNZReception, SequenceTheorems, TLAPS

---------------------------------------------------------------------------
(* Sequences and frames                                                     *)

ToRTU == [type : {"RR"}, nr : 0..7, f : BOOLEAN] \cup [type : {"UA", "SARM"}]
FromRTU == INFOs \cup [type : {"UA", "SARM"}]
Sent == [id : 0..MaxMessages, ns : 0..7]

\* A sequence without its first element.
LEMMA TailFacts ==
  ASSUME NEW S, NEW q \in Seq(S), q # <<>>
  PROVE  /\ 1 \in DOMAIN q /\ Head(q) = q[1] /\ q[1] \in S /\ Tail(q) \in Seq(S)
         /\ \A i \in DOMAIN Tail(q) : i \in Nat /\ i + 1 \in DOMAIN q /\ Tail(q)[i] = q[i + 1]
<1>1. Len(q) \in Nat /\ DOMAIN q = 1..Len(q) /\ Len(q) # 0
  BY LenProperties, EmptySeq
<1>2. /\ Tail(q) \in Seq(S) /\ Len(Tail(q)) = Len(q) - 1 /\ Head(q) = q[1] /\ Head(q) \in S
      /\ \A i \in 1..Len(Tail(q)) : Tail(q)[i] = q[i + 1]
  BY HeadTailProperties
<1>3. DOMAIN Tail(q) = 1..Len(Tail(q))
  BY <1>2, LenProperties
<1>4. QED
  BY <1>1, <1>2, <1>3

\* A sequence with one more element.
LEMMA AppendFacts ==
  ASSUME NEW S, NEW q \in Seq(S), NEW x \in S
  PROVE  /\ Append(q, x) \in Seq(S) /\ DOMAIN Append(q, x) = 1..(Len(q) + 1) /\ Len(Append(q, x)) = Len(q) + 1
         /\ \A i \in DOMAIN q : i \in DOMAIN Append(q, x) /\ Append(q, x)[i] = q[i]
         /\ Append(q, x)[Len(q) + 1] = x
<1>1. /\ Append(q, x) \in Seq(S) /\ Len(Append(q, x)) = Len(q) + 1
      /\ \A i \in 1..Len(q) : Append(q, x)[i] = q[i]
      /\ Append(q, x)[Len(q) + 1] = x
  BY AppendProperties
<1>2. DOMAIN q = 1..Len(q) /\ Len(q) \in Nat /\ DOMAIN Append(q, x) = 1..Len(Append(q, x))
  BY <1>1, LenProperties
<1>3. QED
  BY <1>1, <1>2

\* What is left of a sequence without its first elements.
LEMMA RestFacts ==
  ASSUME NEW S, NEW q \in Seq(S), NEW k \in 0..Len(q)
  PROVE  /\ SubSeq(q, k + 1, Len(q)) \in Seq(S) /\ Len(SubSeq(q, k + 1, Len(q))) = Len(q) - k
         /\ \A i \in DOMAIN SubSeq(q, k + 1, Len(q)) :
              i \in Nat /\ i + k \in DOMAIN q /\ SubSeq(q, k + 1, Len(q))[i] = q[i + k]
<1>1. Len(q) \in Nat /\ DOMAIN q = 1..Len(q)
  BY LenProperties
<1>2. \A i \in 1..Len(q) : q[i] \in S
  BY ElementOfSeq
<1>3. k + 1 \in Int /\ Len(q) \in Int /\ \A i \in (k + 1)..Len(q) : i \in 1..Len(q)
  BY <1>1
<1> DEFINE r == SubSeq(q, k + 1, Len(q))
<1>4. /\ r \in Seq(S)
      /\ Len(r) = IF k + 1 <= Len(q) THEN Len(q) - (k + 1) + 1 ELSE 0
      /\ \A i \in 1..(Len(q) - (k + 1) + 1) : r[i] = q[(k + 1) + i - 1]
  BY <1>2, <1>3, SubSeqProperties
<1> HIDE DEF r
<1>5. \A l \in Nat : \A n \in 0..l : l - (n + 1) + 1 = l - n /\ (n + 1 <= l \/ l - n = 0)
  OBVIOUS
<1>6. Len(r) = Len(q) - k /\ Len(q) - (k + 1) + 1 = Len(q) - k
  BY <1>1, <1>4, <1>5
<1>7. DOMAIN r = 1..(Len(q) - k)
  BY <1>4, <1>6, LenProperties
<1>8. \A i \in 1..(Len(q) - k) : i \in Nat /\ i + k \in 1..Len(q) /\ (k + 1) + i - 1 = i + k
  BY <1>1
<1>9. \A i \in 1..(Len(q) - k) : r[i] = q[i + k]
  BY <1>4, <1>6, <1>8
<1>10. QED
  BY <1>1, <1>4, <1>6, <1>7, <1>8, <1>9 DEF r

\* Sending a frame, which may be lost.
LEMMA PutFacts ==
  ASSUME NEW S, NEW channel \in Seq(S), NEW frame \in S
  PROVE  /\ Put(channel, frame) \in Seq(S)
         /\ \A i \in DOMAIN Put(channel, frame) :
              \/ i \in DOMAIN channel /\ i < Len(channel) + 1 /\ Put(channel, frame)[i] = channel[i]
              \/ i = Len(channel) + 1 /\ Put(channel, frame)[i] = frame
<1>1. DOMAIN channel = 1..Len(channel) /\ Len(channel) \in Nat
  BY LenProperties
<1>2. /\ Append(channel, frame) \in Seq(S) /\ DOMAIN Append(channel, frame) = 1..(Len(channel) + 1)
      /\ \A i \in DOMAIN channel : Append(channel, frame)[i] = channel[i]
      /\ Append(channel, frame)[Len(channel) + 1] = frame
  BY AppendFacts
<1>3. CASE tcp_connected /\ Len(channel) < ChannelBound
  <2>1. Put(channel, frame) = Append(channel, frame)
    BY <1>3 DEF Put
  <2>2. QED
    BY <1>1, <1>2, <2>1
<1>4. CASE ~(tcp_connected /\ Len(channel) < ChannelBound)
  <2>1. Put(channel, frame) = channel
    BY <1>4 DEF Put
  <2>2. QED
    BY <1>1, <2>1
<1>5. QED
  BY <1>3, <1>4

\* What is sent is a frame.
LEMMA FrameTypes ==
  /\ Bare("UA") \in ToRTU /\ Bare("SARM") \in ToRTU /\ Bare("UA") \in FromRTU /\ Bare("SARM") \in FromRTU
  /\ \A nr \in 0..7, f \in BOOLEAN : RR(nr, f) \in ToRTU
  /\ \A id \in 0..MaxMessages, ns \in 0..7, p \in BOOLEAN : INFO(id, ns, p) \in INFOs /\ INFO(id, ns, p) \in FromRTU
  BY DEF Bare, RR, INFO, ToRTU, FromRTU, INFOs

\* The next number.
LEMMA NextNumber ==
  ASSUME NEW n \in 0..7
  PROVE  Next8(n) \in 0..7 /\ (n + 1) % 8 \in 0..7
  BY DEF Next8

---------------------------------------------------------------------------
(* The automaton                                                            *)

\* Looking up an event gives entries of the table for it.
LEMMA LookUpFacts ==
  ASSUME NEW e, LookUp(e)
  PROVE  pending' \subseteq m_protocolStateTransitionMap /\ \A t \in pending' : t.on = e
  BY DEF LookUp, TransitionsOf

\* So does a transition with the locks held.
LEMMA LockedFacts ==
  ASSUME NEW e, HasTransition(m_protocol_state, e), NEW t \in TransitionsOf(m_protocol_state, e)
  PROVE  t \in m_protocolStateTransitionMap /\ t.on = e
  BY DEF TransitionsOf

\* The states of the entries, the effect of a SARM of the RTU and of too many of the plugin.
LEMMA EntryFacts ==
  ASSUME NEW t \in m_protocolStateTransitionMap
  PROVE  /\ t.to \in ProtocolState
         /\ t.on = "RECEIVED_SARM" => ResetsInput(t) /\ t.to \in InputStates
         /\ t.on = "MAX_SARM_SENT" => ResetsSarm(t)
  BY DEF m_protocolStateTransitionMap, Entry, ProtocolState, InputStates, ResetsInput, ResetsSarm, Calls

\* Too many SARM have an entry in the two states that send them.
LEMMA SarmEntry ==
  ASSUME m_protocol_state \in {"CONNECTION", "INPUT_CONNECTED"}
  PROVE  HasTransition(m_protocol_state, "MAX_SARM_SENT")
  BY DEF HasTransition, m_protocolStateTransitionMap, Entry

---------------------------------------------------------------------------
(* Types                                                                    *)

\* The two halves of TypeOK.
PluginType ==
  /\ window \in Windows
  /\ m_protocol_state \in ProtocolState
  /\ m_nr \in 0..7
  /\ m_nbr_sarm_sent \in Nat
  /\ recent \in BOOLEAN /\ tcp_connected \in BOOLEAN
  /\ receiver \in {"receiving", "disconnecting", "connecting"}
  /\ pending \subseteq m_protocolStateTransitionMap
  /\ analysing \subseteq INFOs
  /\ handled \subseteq 1..MaxMessages
RTUType ==
  /\ to_rtu \in Seq(ToRTU)
  /\ from_rtu \in Seq(FromRTU)
  /\ rtu_up \in BOOLEAN
  /\ rtu_vs \in 0..7
  /\ rtu_sent \in Seq(Sent)
  /\ rtu_repeat \in 0..MaxRepeat
  /\ next_id \in 1..(MaxMessages + 1)
  /\ faults \in 0..MaxFaults
  /\ in_step \in BOOLEAN

\* They are TypeOK.
LEMMA Halves ==
  TypeOK <=> PluginType /\ RTUType
  BY DEF TypeOK, PluginType, RTUType, ToRTU, FromRTU, Sent

\* A transition.
LEMMA TransitionType ==
  ASSUME TypeOK, NEW t \in m_protocolStateTransitionMap, applyTransition(t)
  PROVE  /\ m_protocol_state' \in ProtocolState /\ m_nr' \in 0..7 /\ recent' \in BOOLEAN /\ in_step' \in BOOLEAN
         /\ SarmsAfter(t) \in Nat
<1>1. m_protocol_state' \in ProtocolState /\ m_nr' \in 0..7
  BY EntryFacts DEF applyTransition, TypeOK
<1>2. recent' \in BOOLEAN /\ in_step' \in BOOLEAN
  BY Zenon DEF applyTransition
<1>3. SarmsAfter(t) \in Nat
  BY DEF SarmsAfter, TypeOK
<1>4. QED
  BY <1>1, <1>2, <1>3

\* Closing, or not closing, the connection.
LEMMA CloseType ==
  ASSUME TypeOK, NEW closing \in BOOLEAN, CloseIf(closing)
  PROVE  /\ tcp_connected' \in BOOLEAN /\ to_rtu' \in Seq(ToRTU) /\ from_rtu' \in Seq(FromRTU)
         /\ rtu_up' \in BOOLEAN /\ rtu_vs' \in 0..7 /\ rtu_sent' \in Seq(Sent) /\ rtu_repeat' \in 0..MaxRepeat
         /\ next_id' \in 1..(MaxMessages + 1)
<1> USE ReceptionAssumption
<1>1. RTUType
  BY Halves
<1>2. \A S : <<>> \in Seq(S)
  BY EmptySeq
<1>3. tcp_connected' \in BOOLEAN /\ rtu_up' \in BOOLEAN
  BY Zenon DEF CloseIf
<1>4. QED
  BY <1>1, <1>2, <1>3 DEF CloseIf, RTUType

\* A disturbance is counted.
LEMMA FaultType ==
  ASSUME TypeOK, Fault
  PROVE  faults' \in 0..MaxFaults
  BY ReceptionAssumption DEF TypeOK, Fault

\* The frames that are left of a channel.
LEMMA TailType ==
  ASSUME TypeOK
  PROVE  /\ to_rtu # <<>> => Tail(to_rtu) \in Seq(ToRTU) /\ Head(to_rtu) \in ToRTU
         /\ from_rtu # <<>> => Tail(from_rtu) \in Seq(FromRTU) /\ Head(from_rtu) \in FromRTU
<1>1. to_rtu \in Seq(ToRTU) /\ from_rtu \in Seq(FromRTU)
  BY Halves DEF RTUType
<1>2. QED
  BY <1>1, TailFacts

\* The frames of the plugin of type RR carry a number.
LEMMA NumberedRR ==
  ASSUME NEW f \in ToRTU, f.type = "RR"
  PROVE  f.nr \in 0..7
  BY DEF ToRTU

\* The remainder of a number.
LEMMA Remainder ==
  ASSUME NEW a \in Int
  PROVE  a % 8 \in 0..7
OBVIOUS

\* What a RR acknowledges.
LEMMA AcknowledgedFacts ==
  ASSUME TypeOK, NEW nr \in 0..7
  PROVE  /\ AcknowledgedBy(nr) \in 0..Len(rtu_sent)
         /\ rtu_sent # <<>> => rtu_sent[1].ns \in 0..7
         /\ AcknowledgedBy(nr) # 0 => rtu_sent # <<>> /\ AcknowledgedBy(nr) = (nr - rtu_sent[1].ns) % 8
<1>1. rtu_sent \in Seq(Sent) /\ Len(rtu_sent) \in Nat
  BY LenProperties DEF TypeOK, Sent
<1>2. CASE rtu_sent = <<>>
  BY <1>1, <1>2 DEF AcknowledgedBy
<1>3. CASE rtu_sent # <<>>
  <2>1. Head(rtu_sent) = rtu_sent[1] /\ rtu_sent[1] \in Sent
    BY <1>1, <1>3, TailFacts
  <2>2. rtu_sent[1].ns \in 0..7
    BY <2>1 DEF Sent
  <2> DEFINE k == (nr - rtu_sent[1].ns) % 8
  <2>3. k \in 0..7
    BY <2>2, Remainder
  <2>4. AcknowledgedBy(nr) = IF k <= Len(rtu_sent) THEN k ELSE 0
    BY <1>3, <2>1 DEF AcknowledgedBy
  <2> HIDE DEF k
  <2>5. AcknowledgedBy(nr) \in 0..Len(rtu_sent) /\ (AcknowledgedBy(nr) # 0 => AcknowledgedBy(nr) = k)
    BY <1>1, <2>3, <2>4
  <2>6. QED
    BY <1>3, <2>2, <2>5 DEF k
<1>4. QED
  BY <1>2, <1>3

---------------------------------------------------------------------------
(* Type correctness                                                         *)

\* The steps of the receive thread keep the types.
LEMMA ReceiveTypes ==
  ASSUME TypeOK, ReceiveNext \/ RefuseInfo
  PROVE  TypeOK'
<1> USE DEF vars, stateVars, threadVars, rtuVars
<1>1. PluginType /\ RTUType
  BY Halves
<1>2. SUFFICES PluginType' /\ RTUType'
  BY DEF TypeOK, PluginType, RTUType, ToRTU, FromRTU, Sent
<1>3. CASE ReceiveSARM
  <2>1. PluginType'
    BY <1>1, <1>3, LookUpFacts DEF ReceiveSARM, PluginType
  <2>2. from_rtu' \in Seq(FromRTU)
    BY <1>3, TailType DEF ReceiveSARM, Receives
  <2>3. to_rtu' \in Seq(ToRTU)
    BY <1>1, <1>3, PutFacts, FrameTypes DEF ReceiveSARM, RTUType
  <2>4. QED
    BY <1>1, <1>3, <2>1, <2>2, <2>3 DEF ReceiveSARM, RTUType
<1>4. CASE ReceiveUA
  <2>1. PluginType'
    BY <1>1, <1>4, LookUpFacts DEF ReceiveUA, PluginType
  <2>2. from_rtu' \in Seq(FromRTU)
    BY <1>4, TailType DEF ReceiveUA, Receives
  <2>3. QED
    BY <1>1, <1>4, <2>1, <2>2 DEF ReceiveUA, RTUType
<1>5. CASE ReceiveNothing
  BY <1>1, <1>5, LookUpFacts DEF ReceiveNothing, PluginType, RTUType
<1>6. CASE ApplyTransition
  <2>1. PICK t \in pending : applyTransition(t) /\ m_nbr_sarm_sent' = SarmsAfter(t) /\ CloseIf(Calls(t, "stopTCP"))
    BY <1>6 DEF ApplyTransition
  <2>2. t \in m_protocolStateTransitionMap /\ Calls(t, "stopTCP") \in BOOLEAN
    BY <1>1 DEF PluginType, Calls
  <2>3. /\ m_protocol_state' \in ProtocolState /\ m_nr' \in 0..7 /\ recent' \in BOOLEAN /\ in_step' \in BOOLEAN
        /\ m_nbr_sarm_sent' \in Nat
    BY <2>1, <2>2, TransitionType
  <2>4. /\ tcp_connected' \in BOOLEAN /\ to_rtu' \in Seq(ToRTU) /\ from_rtu' \in Seq(FromRTU)
        /\ rtu_up' \in BOOLEAN /\ rtu_vs' \in 0..7 /\ rtu_sent' \in Seq(Sent) /\ rtu_repeat' \in 0..MaxRepeat
        /\ next_id' \in 1..(MaxMessages + 1)
    BY <2>1, <2>2, CloseType
  <2>5. QED
    BY <1>1, <1>6, <2>3, <2>4 DEF ApplyTransition, PluginType, RTUType
<1>7. CASE AnalyzeInfo
  <2>1. from_rtu' \in Seq(FromRTU) /\ Head(from_rtu) \in FromRTU /\ Head(from_rtu).type = "INFO"
    BY <1>7, TailType DEF AnalyzeInfo, Receives
  <2>2. Head(from_rtu) \in INFOs
    BY <2>1 DEF FromRTU
  <2>3. analysing' \subseteq INFOs
    BY <1>7, <2>2 DEF AnalyzeInfo
  <2>4. QED
    BY <1>1, <1>7, <2>1, <2>3 DEF AnalyzeInfo, PluginType, RTUType
<1>8. CASE ReceiveInfo
  <2>1. PICK frame \in analysing :
          IF m_protocol_state = "OUTPUT_CONNECTED"
            THEN UNCHANGED <<handled, m_nr, to_rtu>>
            ELSE handled' = handled \cup Extracted(frame) /\ m_sendRR(frame)
    BY <1>8 DEF ReceiveInfo
  <2>2. frame \in INFOs /\ frame.id \in 0..MaxMessages /\ frame.ns \in 0..7 /\ frame.p \in BOOLEAN
    BY <1>1 DEF PluginType, INFOs
  <2>3. Extracted(frame) \subseteq 1..MaxMessages
    BY <2>2 DEF Extracted
  <2>4. handled' \subseteq 1..MaxMessages
    BY <1>1, <2>1, <2>3 DEF PluginType
  <2>5. CASE m_sendRR(frame)
    <3> DEFINE nr == IF AcceptsNumber(frame) THEN Next8(m_nr) ELSE m_nr
    <3>1. nr \in 0..7
      BY <1>1, NextNumber DEF PluginType
    <3>2. m_nr' = nr /\ to_rtu' = IF AcceptsNumber(frame) \/ frame.p THEN Put(to_rtu, RR(nr, frame.p)) ELSE to_rtu
      BY <2>5 DEF m_sendRR
    <3> HIDE DEF nr
    <3>3. RR(nr, frame.p) \in ToRTU
      BY <2>2, <3>1, FrameTypes
    <3>4. to_rtu \in Seq(ToRTU)
      BY <1>1 DEF RTUType
    <3>5. Put(to_rtu, RR(nr, frame.p)) \in Seq(ToRTU)
      BY <3>3, <3>4, PutFacts
    <3>6. QED
      BY <1>1, <1>8, <2>4, <3>1, <3>2, <3>4, <3>5 DEF ReceiveInfo, PluginType, RTUType
  <2>6. CASE UNCHANGED <<handled, m_nr, to_rtu>>
    BY <1>1, <1>8, <2>6 DEF ReceiveInfo, PluginType, RTUType
  <2>7. QED
    BY <2>1, <2>5, <2>6
<1>9. CASE JoinConnectionThread
  BY <1>1, <1>9 DEF JoinConnectionThread, PluginType, RTUType
<1>10. CASE Reconnect
  BY <1>1, <1>10 DEF Reconnect, PluginType, RTUType
<1>11. CASE RefuseInfo
  BY <1>1, <1>11, FaultType DEF RefuseInfo, PluginType, RTUType
<1>12. QED
  BY <1>3, <1>4, <1>5, <1>6, <1>7, <1>8, <1>9, <1>10, <1>11 DEF ReceiveNext

\* So do those of the other threads.
LEMMA TimerTypes ==
  ASSUME TypeOK, ManageSarm \/ (\E event \in ConnectionEvent : Timeout(event)) \/ Elapse
  PROVE  TypeOK'
<1> USE DEF vars, stateVars, threadVars, rtuVars
<1>1. PluginType /\ RTUType
  BY Halves
<1>2. SUFFICES PluginType' /\ RTUType'
  BY DEF TypeOK, PluginType, RTUType, ToRTU, FromRTU, Sent
<1>3. CASE ManageSarm
  <2>1. faults' \in 0..MaxFaults
    BY <1>1, <1>3, FaultType DEF ManageSarm, RTUType
  <2>2. CASE SarmsExhausted
    <3>1. PICK t \in TransitionsOf(m_protocol_state, "MAX_SARM_SENT") :
            applyTransition(t) /\ m_nbr_sarm_sent' = SarmsAfter(t) + 1 /\ CloseIf(TRUE)
      BY <1>3, <2>2 DEF ManageSarm
    <3>2. t \in m_protocolStateTransitionMap
      BY <1>3, <3>1, SarmEntry, LockedFacts DEF ManageSarm
    <3>3. /\ m_protocol_state' \in ProtocolState /\ m_nr' \in 0..7 /\ recent' \in BOOLEAN /\ in_step' \in BOOLEAN
          /\ SarmsAfter(t) \in Nat
      BY <3>1, <3>2, TransitionType
    <3>4. m_nbr_sarm_sent' \in Nat
      BY <3>1, <3>3
    <3>5. /\ tcp_connected' \in BOOLEAN /\ to_rtu' \in Seq(ToRTU) /\ from_rtu' \in Seq(FromRTU)
          /\ rtu_up' \in BOOLEAN /\ rtu_vs' \in 0..7 /\ rtu_sent' \in Seq(Sent) /\ rtu_repeat' \in 0..MaxRepeat
          /\ next_id' \in 1..(MaxMessages + 1)
      BY <3>1, CloseType
    <3>6. QED
      BY <1>1, <1>3, <2>1, <3>3, <3>4, <3>5 DEF ManageSarm, PluginType, RTUType
  <2>3. CASE ~SarmsExhausted
    <3>1. to_rtu' \in Seq(ToRTU)
      BY <1>1, <1>3, <2>3, PutFacts, FrameTypes DEF ManageSarm, RTUType
    <3>2. QED
      BY <1>1, <1>3, <2>1, <2>3, <3>1 DEF ManageSarm, PluginType, RTUType
  <2>4. QED
    BY <2>2, <2>3
<1>4. ASSUME NEW event \in ConnectionEvent, Timeout(event)
      PROVE  PluginType' /\ RTUType'
  <2>1. PICK t \in TransitionsOf(m_protocol_state, event) :
          applyTransition(t) /\ m_nbr_sarm_sent' = SarmsAfter(t) /\ CloseIf(Calls(t, "stopTCP"))
    BY <1>4 DEF Timeout, LockedTransition
  <2>2. t \in m_protocolStateTransitionMap /\ Calls(t, "stopTCP") \in BOOLEAN
    BY <1>4, <2>1, LockedFacts DEF Timeout, LockedTransition, Calls
  <2>3. /\ m_protocol_state' \in ProtocolState /\ m_nr' \in 0..7 /\ recent' \in BOOLEAN /\ in_step' \in BOOLEAN
        /\ m_nbr_sarm_sent' \in Nat
    BY <2>1, <2>2, TransitionType
  <2>4. /\ tcp_connected' \in BOOLEAN /\ to_rtu' \in Seq(ToRTU) /\ from_rtu' \in Seq(FromRTU)
        /\ rtu_up' \in BOOLEAN /\ rtu_vs' \in 0..7 /\ rtu_sent' \in Seq(Sent) /\ rtu_repeat' \in 0..MaxRepeat
        /\ next_id' \in 1..(MaxMessages + 1)
    BY <2>1, <2>2, CloseType
  <2>5. faults' \in 0..MaxFaults
    BY <1>4, FaultType DEF Timeout
  <2>6. QED
    BY <1>1, <1>4, <2>3, <2>4, <2>5 DEF Timeout, PluginType, RTUType
<1>5. CASE Elapse
  BY <1>1, <1>5 DEF Elapse, PluginType, RTUType
<1>6. QED
  BY <1>3, <1>4, <1>5

\* And those of the RTU and of the network.
LEMMA RTUTypes ==
  ASSUME TypeOK, RTUReceive \/ (\E id \in 0..MaxMessages : RTUSend(id)) \/ RTUTimers \/ RTURestart \/ Lose \/ TCPLost
  PROVE  TypeOK'
<1> USE DEF vars, stateVars, threadVars, rtuVars, pluginVars
<1>1. PluginType /\ RTUType
  BY Halves
<1>2. SUFFICES PluginType' /\ RTUType'
  BY DEF TypeOK, PluginType, RTUType, ToRTU, FromRTU, Sent
<1> USE ReceptionAssumption
<1>3. <<>> \in Seq(Sent)
  BY EmptySeq
<1>4. CASE RTUReceiveUA
  <2>1. PluginType'
    BY <1>1, <1>4 DEF RTUReceiveUA, PluginType
  <2>2. to_rtu' \in Seq(ToRTU)
    BY <1>4, TailType DEF RTUReceiveUA
  <2>3. in_step' \in BOOLEAN
    BY <1>1, <1>4, Zenon DEF RTUReceiveUA, RTUType, Restarted
  <2>4. UNCHANGED <<from_rtu, faults, next_id>>
    BY <1>4 DEF RTUReceiveUA
  <2>5. /\ rtu_up' \in BOOLEAN /\ rtu_vs' \in 0..7 /\ rtu_sent' \in Seq(Sent) /\ rtu_repeat' \in 0..MaxRepeat
    <3>1. 0 \in 0..MaxRepeat /\ 0 \in 0..7
      OBVIOUS
    <3>2. CASE rtu_up
      BY <1>1, <1>4, <3>2 DEF RTUReceiveUA, RTUType
    <3>3. CASE ~rtu_up
      BY <1>3, <1>4, <3>1, <3>3 DEF RTUReceiveUA
    <3>4. QED
      BY <3>2, <3>3
  <2>6. QED
    BY <1>1, <2>1, <2>2, <2>3, <2>4, <2>5 DEF RTUType
<1>5. CASE RTUReceiveSARM
  <2>1. PluginType'
    BY <1>1, <1>5 DEF RTUReceiveSARM, PluginType
  <2>2. to_rtu' \in Seq(ToRTU)
    BY <1>5, TailType DEF RTUReceiveSARM
  <2>3. from_rtu' \in Seq(FromRTU)
    BY <1>1, <1>5, PutFacts, FrameTypes DEF RTUReceiveSARM, RTUType
  <2>4. QED
    BY <1>1, <1>5, <2>1, <2>2, <2>3 DEF RTUReceiveSARM, RTUType
<1>6. CASE RTUReceiveRR
  <2>1. PluginType'
    BY <1>1, <1>6 DEF RTUReceiveRR, PluginType
  <2>2. to_rtu' \in Seq(ToRTU)
    BY <1>6, TailType DEF RTUReceiveRR
  <2> DEFINE k == IF rtu_up THEN AcknowledgedBy(Head(to_rtu).nr) ELSE 0
  <2>3. /\ rtu_sent' = SubSeq(rtu_sent, k + 1, Len(rtu_sent))
        /\ rtu_repeat' = IF k > 0 THEN 0 ELSE rtu_repeat
    BY <1>6 DEF RTUReceiveRR
  <2>4. k \in 0..Len(rtu_sent)
    <3>1. Head(to_rtu) \in ToRTU /\ Head(to_rtu).type = "RR"
      BY <1>6, TailType DEF RTUReceiveRR
    <3>2. Len(rtu_sent) \in Nat
      BY <1>1, LenProperties DEF RTUType
    <3>3. AcknowledgedBy(Head(to_rtu).nr) \in 0..Len(rtu_sent)
      BY <3>1, NumberedRR, AcknowledgedFacts
    <3>4. QED
      BY <3>2, <3>3
  <2> HIDE DEF k
  <2>5. rtu_sent' \in Seq(Sent)
    BY <1>1, <2>3, <2>4, RestFacts DEF RTUType
  <2>6. rtu_repeat' \in 0..MaxRepeat
    BY <1>1, <2>3 DEF RTUType
  <2>7. QED
    BY <1>1, <1>6, <2>1, <2>2, <2>5, <2>6 DEF RTUReceiveRR, RTUType
<1>7. ASSUME NEW id \in 0..MaxMessages, RTUSend(id)
      PROVE  PluginType' /\ RTUType'
  <2>1. PluginType'
    BY <1>1, <1>7 DEF RTUSend, PluginType
  <2>2. rtu_vs' \in 0..7
    BY <1>1, <1>7, NextNumber DEF RTUSend, RTUType
  <2>3. [id |-> id, ns |-> rtu_vs] \in Sent
    BY <1>1 DEF RTUType, Sent
  <2>4. rtu_sent' \in Seq(Sent)
    BY <1>1, <1>7, <2>3, AppendFacts DEF RTUSend, RTUType
  <2>5. INFO(id, rtu_vs, FALSE) \in FromRTU
    BY <1>1, FrameTypes DEF RTUType
  <2>6. from_rtu' \in Seq(FromRTU)
    BY <1>1, <1>7, <2>5, PutFacts DEF RTUSend, RTUType
  <2>7. next_id' \in 1..(MaxMessages + 1)
    BY SMTT(30), <1>1, <1>7 DEF RTUSend, RTUType
  <2>8. QED
    BY <1>1, <1>7, <2>1, <2>2, <2>4, <2>6, <2>7 DEF RTUSend, RTUType
<1>8. CASE RTURepeat
  <2>1. PluginType'
    BY <1>1, <1>8 DEF RTURepeat, PluginType
  <2>2. Head(rtu_sent).id \in 0..MaxMessages /\ Head(rtu_sent).ns \in 0..7
    <3>1. rtu_sent \in Seq(Sent) /\ rtu_sent # <<>>
      BY <1>1, <1>8 DEF RTURepeat, RTUType
    <3>2. Head(rtu_sent) \in Sent
      BY <3>1, TailFacts
    <3>3. QED
      BY <3>2 DEF Sent
  <2>3. INFO(Head(rtu_sent).id, Head(rtu_sent).ns, TRUE) \in FromRTU
    BY <2>2, FrameTypes
  <2>4. from_rtu' \in Seq(FromRTU)
    BY <1>1, <1>8, <2>3, PutFacts DEF RTURepeat, RTUType
  <2>5. rtu_repeat' \in 0..MaxRepeat
    BY <1>1, <1>8 DEF RTURepeat, RTUType
  <2>6. QED
    BY <1>1, <1>8, <2>1, <2>4, <2>5 DEF RTURepeat, RTUType
<1>9. CASE RTUSendSARM \/ RTURestart
  <2>1. SendSARM /\ faults' \in 0..MaxFaults
    BY <1>1, <1>9, FaultType DEF RTUSendSARM, RTURestart, RTUType
  <2>2. PluginType'
    BY <1>1, <2>1 DEF SendSARM, PluginType
  <2>3. from_rtu' \in Seq(FromRTU)
    BY <1>1, <2>1, PutFacts, FrameTypes DEF SendSARM, RTUType
  <2>4. QED
    <3>1. 0 \in 0..MaxRepeat /\ FALSE \in BOOLEAN
      OBVIOUS
    <3>2. /\ rtu_up' \in BOOLEAN /\ rtu_sent' \in Seq(Sent) /\ rtu_repeat' \in 0..MaxRepeat /\ in_step' \in BOOLEAN
          /\ UNCHANGED <<to_rtu, rtu_vs, next_id>>
      BY <1>3, <2>1, <3>1 DEF SendSARM
    <3>3. QED
      BY <1>1, <2>1, <2>2, <2>3, <3>2 DEF RTUType
<1>10. CASE Lose
  <2>1. PluginType'
    BY <1>1, <1>10 DEF Lose, PluginType
  <2>2. to_rtu' \in Seq(ToRTU) /\ from_rtu' \in Seq(FromRTU)
    BY <1>1, <1>10, TailType DEF Lose, RTUType
  <2>3. faults' \in 0..MaxFaults
    BY <1>10, FaultType DEF Lose
  <2>4. QED
    BY <1>1, <1>10, <2>1, <2>2, <2>3 DEF Lose, RTUType
<1>11. CASE TCPLost
  <2>1. /\ tcp_connected' \in BOOLEAN /\ to_rtu' \in Seq(ToRTU) /\ from_rtu' \in Seq(FromRTU)
        /\ rtu_up' \in BOOLEAN /\ rtu_vs' \in 0..7 /\ rtu_sent' \in Seq(Sent) /\ rtu_repeat' \in 0..MaxRepeat
        /\ next_id' \in 1..(MaxMessages + 1)
    BY <1>11, CloseType DEF TCPLost
  <2>2. faults' \in 0..MaxFaults
    BY <1>11, FaultType DEF TCPLost
  <2>3. QED
    BY <1>1, <1>11, <2>1, <2>2 DEF TCPLost, PluginType, RTUType
<1>12. QED
  BY <1>4, <1>5, <1>6, <1>7, <1>8, <1>9, <1>10, <1>11 DEF RTUReceive, RTUTimers

\* TypeOK is inductive.
LEMMA TypeInductive ==
  /\ Init => TypeOK
  /\ TypeOK /\ [Next]_vars => TypeOK'
<1>1. ASSUME Init PROVE TypeOK
  <2> USE ReceptionAssumption
  <2>1. /\ m_protocol_state \in ProtocolState /\ m_nr \in 0..7 /\ m_nbr_sarm_sent \in Nat
        /\ receiver \in {"receiving", "disconnecting", "connecting"}
    BY <1>1 DEF Init, ProtocolState
  <2>2. next_id \in 1..(MaxMessages + 1) /\ rtu_repeat \in 0..MaxRepeat /\ faults \in 0..MaxFaults
    BY <1>1 DEF Init
  <2>3. to_rtu \in Seq(ToRTU) /\ from_rtu \in Seq(FromRTU) /\ rtu_sent \in Seq(Sent)
    BY <1>1, EmptySeq DEF Init
  <2>4. PluginType /\ RTUType
    BY <1>1, <2>1, <2>2, <2>3 DEF Init, PluginType, RTUType
  <2>5. QED
    BY <2>4, Halves
<1>2. ASSUME TypeOK, UNCHANGED vars PROVE TypeOK'
  BY <1>2 DEF TypeOK, vars, stateVars, threadVars, rtuVars
<1>3. ASSUME TypeOK, Next PROVE TypeOK'
  BY <1>3, ReceiveTypes, TimerTypes, RTUTypes DEF Next
<1>4. QED
  BY <1>1, <1>2, <1>3

\* Every variable of the path keeps its type, whatever the order of the threads,
\* of the frames and of the disturbances.
THEOREM TypeCorrectness ==
  Spec => []TypeOK
<1>1. Init => TypeOK
  BY TypeInductive
<1>2. TypeOK /\ [Next]_vars => TypeOK'
  BY TypeInductive
<1>3. QED
  BY <1>1, <1>2, PTL DEF Spec

---------------------------------------------------------------------------
(* The SARM                                                                 *)

\* A transition never adds to the SARM that were counted.
LEMMA SarmsCount ==
  ASSUME TypeOK, NEW t
  PROVE  SarmsAfter(t) \in Nat /\ SarmsAfter(t) <= m_nbr_sarm_sent /\ (ResetsSarm(t) => SarmsAfter(t) = 0)
  BY DEF TypeOK, SarmsAfter

\* The bound on the SARM is inductive with the types: the entries of the table
\* for MAX_SARM_SENT reset the counter, so the SARM counted at the limit is the first again.
LEMMA SarmsInductive ==
  ASSUME TypeOK, SarmsAreBounded, [Next]_vars
  PROVE  SarmsAreBounded'
<1> USE ReceptionAssumption DEF vars, stateVars, threadVars, rtuVars, pluginVars
<1>1. m_nbr_sarm_sent \in Nat /\ m_nbr_sarm_sent <= MaxSarm /\ MaxSarm \in Nat /\ 1 <= MaxSarm
  BY DEF TypeOK, SarmsAreBounded
<1>2. ASSUME NEW t, m_nbr_sarm_sent' = SarmsAfter(t)
      PROVE  m_nbr_sarm_sent' <= MaxSarm
  BY <1>1, <1>2, SarmsCount
<1>3. CASE ManageSarm
  <2>1. CASE SarmsExhausted
    <3>1. PICK t \in TransitionsOf(m_protocol_state, "MAX_SARM_SENT") : m_nbr_sarm_sent' = SarmsAfter(t) + 1
      BY <1>3, <2>1 DEF ManageSarm
    <3>2. t \in m_protocolStateTransitionMap /\ t.on = "MAX_SARM_SENT"
      BY <1>3, <3>1, SarmEntry, LockedFacts DEF ManageSarm
    <3>3. SarmsAfter(t) = 0
      BY <3>2, EntryFacts, SarmsCount
    <3>4. QED
      BY <1>1, <3>1, <3>3 DEF SarmsAreBounded
  <2>2. CASE ~SarmsExhausted
    <3>1. m_nbr_sarm_sent # MaxSarm /\ m_nbr_sarm_sent' = m_nbr_sarm_sent + 1
      BY <1>3, <2>2 DEF ManageSarm, SarmsExhausted
    <3>2. QED
      BY <1>1, <3>1 DEF SarmsAreBounded
  <2>3. QED
    BY <2>1, <2>2
<1>4. CASE ApplyTransition
  BY <1>2, <1>4 DEF ApplyTransition, SarmsAreBounded
<1>5. ASSUME NEW event \in ConnectionEvent, Timeout(event)
      PROVE  SarmsAreBounded'
  BY <1>2, <1>5 DEF Timeout, LockedTransition, SarmsAreBounded
<1>6. ASSUME UNCHANGED m_nbr_sarm_sent
      PROVE  SarmsAreBounded'
  BY <1>1, <1>6 DEF SarmsAreBounded
<1>7. CASE \/ ReceiveSARM \/ ReceiveUA \/ ReceiveNothing \/ AnalyzeInfo \/ ReceiveInfo
           \/ JoinConnectionThread \/ Reconnect \/ RefuseInfo \/ Elapse
  BY <1>6, <1>7 DEF ReceiveSARM, ReceiveUA, ReceiveNothing, AnalyzeInfo, ReceiveInfo, JoinConnectionThread,
                    Reconnect, RefuseInfo, Elapse
<1>8. CASE \/ RTUReceive \/ (\E id \in 0..MaxMessages : RTUSend(id)) \/ RTUTimers \/ RTURestart \/ Lose \/ TCPLost
  BY <1>6, <1>8 DEF RTUReceive, RTUReceiveUA, RTUReceiveSARM, RTUReceiveRR, RTUSend, RTUTimers, RTURepeat,
                    RTUSendSARM, SendSARM, RTURestart, Lose, TCPLost
<1>9. CASE UNCHANGED vars
  BY <1>6, <1>9
<1>10. QED
  BY <1>3, <1>4, <1>5, <1>7, <1>8, <1>9 DEF Next, ReceiveNext

\* The number of SARM stays within m_max_sarm, whatever resets it or does not: the
\* comparison by == of m_manageHNZProtocolState is reached.
THEOREM SarmsStayWithinTheLimit ==
  Spec => []SarmsAreBounded
<1>1. Init => SarmsAreBounded
  BY ReceptionAssumption DEF Init, SarmsAreBounded
<1>2. SarmsAreBounded /\ TypeOK /\ [Next]_vars => SarmsAreBounded'
  BY SarmsInductive
<1>3. QED
  BY <1>1, <1>2, TypeCorrectness, PTL DEF Spec

---------------------------------------------------------------------------
(* Numbers: the invariant                                                   *)

\* How far a number is ahead of another one, and of the first unacknowledged one
\* of the RTU.
Ahead(x, a) == (x - a) % 8
Base == Ahead(rtu_vs, Len(rtu_sent))
Distance(x) == Ahead(x, Base)

\* A SARM is being applied; the number of reception it leaves.
Restarting == \E t \in pending : t.on = "RECEIVED_SARM"
Expected == IF Restarting THEN 0 ELSE m_nr

\* The window of the RTU holds consecutive numbers.
RTUNumbers ==
  /\ Len(rtu_sent) <= window
  /\ \A i \in DOMAIN rtu_sent : Distance(rtu_sent[i].ns) = i - 1

\* The receive thread is at one thing: a transition of one event, or a frame.
ThreadInv ==
  /\ pending # {} => analysing = {}
  /\ \A t, u \in pending : t.on = u.on

\* In step, the input is connected or about to be by a SARM, and no SARM is on its
\* way that would restart it.
RestartInv ==
  in_step => /\ m_protocol_state \in InputStates \/ Restarting
             /\ \A i \in DOMAIN from_rtu : from_rtu[i].type # "SARM"

\* The plugin expects a number of the window, and has handled what is before it.
WindowHandled ==
  /\ Distance(Expected) <= Len(rtu_sent)
  /\ \A i \in DOMAIN rtu_sent : i <= Distance(Expected) => rtu_sent[i].id \in handled \cup {0}

\* A frame carries a message of the window and its number; the one behind another
\* is further, and not handled.
Current(f) == \E k \in DOMAIN rtu_sent : k = Distance(f.ns) + 1 /\ rtu_sent[k].id = f.id
Later(g, f) == Distance(f.ns) < Distance(g.ns) /\ Distance(Expected) <= Distance(g.ns)

FramesCurrent ==
  /\ \A f \in analysing : Current(f)
  /\ \A i \in DOMAIN from_rtu : from_rtu[i].type = "INFO" =>
       Current(from_rtu[i]) /\ \A f \in analysing : Later(from_rtu[i], f)
  /\ \A i, j \in DOMAIN from_rtu : from_rtu[i].type = "INFO" /\ from_rtu[j].type = "INFO" /\ i < j =>
       Later(from_rtu[j], from_rtu[i])

\* A RR acknowledges no more than what was handled, nothing of the frames on their
\* way, and no less than the RR before it.
AcksInOrder ==
  /\ \A i \in DOMAIN to_rtu : to_rtu[i].type = "RR" =>
       /\ Distance(to_rtu[i].nr) <= Distance(Expected)
       /\ \A f \in analysing : Distance(to_rtu[i].nr) <= Distance(f.ns)
       /\ \A j \in DOMAIN from_rtu : from_rtu[j].type = "INFO" => Distance(to_rtu[i].nr) <= Distance(from_rtu[j].ns)
  /\ \A i, j \in DOMAIN to_rtu : to_rtu[i].type = "RR" /\ to_rtu[j].type = "RR" /\ i < j =>
       Distance(to_rtu[i].nr) <= Distance(to_rtu[j].nr)

StepFacts == WindowHandled /\ FramesCurrent /\ AcksInOrder
StepInv == in_step /\ rtu_up => StepFacts

ReceptionInv == RTUNumbers /\ ThreadInv /\ RestartInv /\ StepInv

---------------------------------------------------------------------------
(* Distances                                                                *)

\* A distance.
LEMMA AheadType ==
  ASSUME NEW x \in Int, NEW a \in Int
  PROVE  Ahead(x, a) \in 0..7 /\ Ahead(a, a) = 0
  BY DEF Ahead

\* Nothing but the number itself is at distance 0.
LEMMA AheadZero ==
  ASSUME NEW x \in 0..7, NEW a \in 0..7, Ahead(x, a) = 0
  PROVE  x = a
  BY DEF Ahead

\* The next number is one further.
LEMMA AheadNext ==
  ASSUME NEW a \in 0..7, NEW x \in 0..7, Ahead(x, a) <= 6
  PROVE  Ahead(Next8(x), a) = Ahead(x, a) + 1
  BY DEF Ahead, Next8

\* The number after a window of l messages is l ahead of its base.
LEMMA AheadOfWindow ==
  ASSUME NEW s \in 0..7, NEW l \in 0..7
  PROVE  Ahead(s, Ahead(s, l)) = l
  BY DEF Ahead

\* A new message leaves the base of the window where it is.
LEMMA BaseStays ==
  ASSUME NEW s \in 0..7, NEW l \in 0..7
  PROVE  Ahead((s + 1) % 8, l + 1) = Ahead(s, l)
  BY DEF Ahead

\* Counted from the base of a window of which k messages are acknowledged, a number
\* that is not acknowledged is k nearer.
Nearer(s, l, k, x) ==
  k <= Ahead(x, Ahead(s, l)) => Ahead(x, Ahead(s, l - k)) = Ahead(x, Ahead(s, l)) - k

LEMMA BaseAdvances ==
  ASSUME NEW s \in 0..7, NEW l \in 0..7, NEW k \in 0..l, NEW x \in 0..7
  PROVE  Nearer(s, l, k, x)
  BY DEF Ahead, Nearer

\* The types of what the invariant speaks of.
LEMMA WindowTypes ==
  ASSUME TypeOK
  PROVE  /\ rtu_sent \in Seq(Sent) /\ Len(rtu_sent) \in Nat /\ DOMAIN rtu_sent = 1..Len(rtu_sent)
         /\ rtu_vs \in 0..7 /\ Base \in 0..7 /\ Expected \in 0..7
         /\ \A i \in DOMAIN rtu_sent : rtu_sent[i].ns \in 0..7 /\ rtu_sent[i].id \in 0..MaxMessages
<1>1. rtu_sent \in Seq(Sent) /\ rtu_vs \in 0..7 /\ m_nr \in 0..7
  BY DEF TypeOK, Sent
<1>2. Len(rtu_sent) \in Nat /\ DOMAIN rtu_sent = 1..Len(rtu_sent)
  BY <1>1, LenProperties
<1>3. Base \in 0..7
  BY <1>1, <1>2, AheadType DEF Base
<1>4. Expected \in 0..7
  BY <1>1 DEF Expected
<1>5. \A i \in DOMAIN rtu_sent : rtu_sent[i] \in Sent
  BY <1>1, <1>2, ElementOfSeq
<1>6. QED
  BY <1>1, <1>2, <1>3, <1>4, <1>5 DEF Sent

\* The types of the distances.
LEMMA DistanceTypes ==
  ASSUME TypeOK
  PROVE  /\ Distance(Expected) \in 0..7
         /\ \A f \in analysing : f \in INFOs /\ f.ns \in 0..7 /\ Distance(f.ns) \in 0..7
         /\ DOMAIN from_rtu = 1..Len(from_rtu) /\ Len(from_rtu) \in Nat
         /\ \A i \in DOMAIN from_rtu : from_rtu[i].type = "INFO" =>
              from_rtu[i] \in INFOs /\ from_rtu[i].ns \in 0..7 /\ Distance(from_rtu[i].ns) \in 0..7
         /\ DOMAIN to_rtu = 1..Len(to_rtu) /\ Len(to_rtu) \in Nat
         /\ \A i \in DOMAIN to_rtu : to_rtu[i].type = "RR" =>
              to_rtu[i].nr \in 0..7 /\ Distance(to_rtu[i].nr) \in 0..7
<1>1. \A x \in 0..7 : Distance(x) \in 0..7
  BY WindowTypes, AheadType DEF Distance
<1>2. from_rtu \in Seq(FromRTU) /\ to_rtu \in Seq(ToRTU) /\ analysing \subseteq INFOs
  BY Halves DEF RTUType, PluginType
<1>3. /\ DOMAIN from_rtu = 1..Len(from_rtu) /\ Len(from_rtu) \in Nat
      /\ DOMAIN to_rtu = 1..Len(to_rtu) /\ Len(to_rtu) \in Nat
  BY <1>2, LenProperties
<1>4. (\A i \in DOMAIN from_rtu : from_rtu[i] \in FromRTU) /\ (\A i \in DOMAIN to_rtu : to_rtu[i] \in ToRTU)
  BY <1>2, <1>3, ElementOfSeq
<1>5. \A f \in INFOs : f.ns \in 0..7
  BY DEF INFOs
<1>6. \A i \in DOMAIN from_rtu : from_rtu[i].type = "INFO" => from_rtu[i] \in INFOs
  BY <1>4 DEF FromRTU
<1>7. \A i \in DOMAIN to_rtu : to_rtu[i].type = "RR" => to_rtu[i].nr \in 0..7
  BY <1>4, NumberedRR
<1>8. Expected \in 0..7
  BY WindowTypes
<1>9. QED
  BY <1>1, <1>2, <1>3, <1>5, <1>6, <1>7, <1>8

---------------------------------------------------------------------------
(* Numbers: steps                                                           *)

\* The INFO of the channel are those of before without the first p frames, and so
\* are the RR.
InfosLeft(p) ==
  \A i \in DOMAIN from_rtu' : from_rtu'[i].type = "INFO" =>
    i \in Nat /\ i + p \in DOMAIN from_rtu /\ from_rtu'[i] = from_rtu[i + p]
AcksLeft(n) ==
  \A i \in DOMAIN to_rtu' : to_rtu'[i].type = "RR" =>
    i \in Nat /\ i + n \in DOMAIN to_rtu /\ to_rtu'[i] = to_rtu[i + n]

\* The INFO that are left stay current.
LEMMA LossKeepsFrames ==
  ASSUME FramesCurrent, UNCHANGED <<rtu_vs, rtu_sent>>, Expected' = Expected,
         analysing' \subseteq analysing, NEW p \in Nat, InfosLeft(p)
  PROVE  FramesCurrent'
<1>1. Base' = Base
  BY DEF Base
<1>2. \A i, j \in DOMAIN from_rtu' :
        from_rtu'[i].type = "INFO" /\ from_rtu'[j].type = "INFO" /\ i < j => i + p < j + p
  BY DEF InfosLeft
<1>3. \A f \in analysing' : Current(f)
  BY DEF FramesCurrent
<1>4. \A i \in DOMAIN from_rtu' : from_rtu'[i].type = "INFO" =>
        Current(from_rtu'[i]) /\ \A f \in analysing' : Later(from_rtu'[i], f)
  BY DEF FramesCurrent, InfosLeft
<1>5. \A i, j \in DOMAIN from_rtu' :
        from_rtu'[i].type = "INFO" /\ from_rtu'[j].type = "INFO" /\ i < j => Later(from_rtu'[j], from_rtu'[i])
  BY <1>2 DEF FramesCurrent, InfosLeft
<1>6. QED
  BY <1>1, <1>3, <1>4, <1>5 DEF FramesCurrent, Current, Later, Distance

\* What is handled stays so, and the RR that are left stay in order.
LEMMA LossKeepsAcks ==
  ASSUME WindowHandled, AcksInOrder, UNCHANGED <<rtu_vs, rtu_sent>>, Expected' = Expected,
         handled \subseteq handled', analysing' \subseteq analysing, NEW p \in Nat, InfosLeft(p), NEW n \in Nat, AcksLeft(n)
  PROVE  WindowHandled' /\ AcksInOrder'
<1>1. Base' = Base
  BY DEF Base
<1>2. WindowHandled'
  BY <1>1 DEF WindowHandled, Distance
<1>3. \A i, j \in DOMAIN to_rtu' :
        to_rtu'[i].type = "RR" /\ to_rtu'[j].type = "RR" /\ i < j => i + n < j + n
  BY DEF AcksLeft
<1>4. \A i \in DOMAIN to_rtu' : to_rtu'[i].type = "RR" =>
        /\ Distance(to_rtu'[i].nr) <= Distance(Expected)
        /\ \A f \in analysing' : Distance(to_rtu'[i].nr) <= Distance(f.ns)
        /\ \A j \in DOMAIN from_rtu' : from_rtu'[j].type = "INFO" => Distance(to_rtu'[i].nr) <= Distance(from_rtu'[j].ns)
  BY DEF AcksInOrder, AcksLeft, InfosLeft
<1>5. \A i, j \in DOMAIN to_rtu' :
        to_rtu'[i].type = "RR" /\ to_rtu'[j].type = "RR" /\ i < j => Distance(to_rtu'[i].nr) <= Distance(to_rtu'[j].nr)
  BY <1>3 DEF AcksInOrder, AcksLeft
<1>6. QED
  BY <1>1, <1>2, <1>4, <1>5 DEF AcksInOrder, Distance

\* So a step that only loses frames keeps the facts.
LEMMA LossKeepsStep ==
  ASSUME StepFacts, UNCHANGED <<rtu_vs, rtu_sent>>, Expected' = Expected,
         handled \subseteq handled', analysing' \subseteq analysing, NEW p \in Nat, InfosLeft(p), NEW n \in Nat, AcksLeft(n)
  PROVE  StepFacts'
  BY LossKeepsFrames, LossKeepsAcks DEF StepFacts

\* A frame is read from the channel and let through.
LEMMA AnalyzeKeepsStep ==
  ASSUME TypeOK, StepFacts, from_rtu # <<>>, Head(from_rtu).type = "INFO",
         from_rtu' = Tail(from_rtu), analysing' = {Head(from_rtu)},
         UNCHANGED <<rtu_vs, rtu_sent, handled, to_rtu, m_nr, pending>>
  PROVE  StepFacts'
<1>1. Base' = Base /\ Expected' = Expected
  BY DEF Base, Expected, Restarting
<1>2. from_rtu \in Seq(FromRTU)
  BY Halves DEF RTUType
<1>3. /\ 1 \in DOMAIN from_rtu /\ Head(from_rtu) = from_rtu[1]
      /\ \A i \in DOMAIN from_rtu' : i \in Nat /\ i + 1 \in DOMAIN from_rtu /\ from_rtu'[i] = from_rtu[i + 1]
  BY <1>2, TailFacts
<1>4. DOMAIN from_rtu = 1..Len(from_rtu) /\ Len(from_rtu) \in Nat
  BY DistanceTypes
<1>5. \A i, j \in DOMAIN from_rtu' : 1 < i + 1 /\ (i < j => i + 1 < j + 1)
  BY <1>3, <1>4
<1>6. WindowHandled'
  BY <1>1 DEF StepFacts, WindowHandled, Distance
<1>7. FramesCurrent'
  <2>1. \A f \in analysing' : Current(f)
    BY <1>3 DEF StepFacts, FramesCurrent
  <2>2. \A i \in DOMAIN from_rtu' : from_rtu'[i].type = "INFO" =>
          Current(from_rtu'[i]) /\ \A f \in analysing' : Later(from_rtu'[i], f)
    BY <1>3, <1>5 DEF StepFacts, FramesCurrent
  <2>3. \A i, j \in DOMAIN from_rtu' :
          from_rtu'[i].type = "INFO" /\ from_rtu'[j].type = "INFO" /\ i < j => Later(from_rtu'[j], from_rtu'[i])
    BY <1>3, <1>5 DEF StepFacts, FramesCurrent
  <2>4. QED
    BY <1>1, <2>1, <2>2, <2>3 DEF FramesCurrent, Current, Later, Distance
<1>8. AcksInOrder'
  <2>1. \A i \in DOMAIN to_rtu' : to_rtu'[i].type = "RR" =>
          /\ Distance(to_rtu'[i].nr) <= Distance(Expected)
          /\ \A f \in analysing' : Distance(to_rtu'[i].nr) <= Distance(f.ns)
          /\ \A j \in DOMAIN from_rtu' : from_rtu'[j].type = "INFO" => Distance(to_rtu'[i].nr) <= Distance(from_rtu'[j].ns)
    BY <1>3 DEF StepFacts, AcksInOrder
  <2>2. \A i, j \in DOMAIN to_rtu' :
          to_rtu'[i].type = "RR" /\ to_rtu'[j].type = "RR" /\ i < j => Distance(to_rtu'[i].nr) <= Distance(to_rtu'[j].nr)
    BY DEF StepFacts, AcksInOrder
  <2>3. QED
    BY <1>1, <2>1, <2>2 DEF AcksInOrder, Distance
<1>9. QED
  BY <1>6, <1>7, <1>8 DEF StepFacts

\* The window has at most seven frames.
LEMMA WindowSize ==
  ASSUME TypeOK, RTUNumbers
  PROVE  Len(rtu_sent) \in 0..7 /\ DOMAIN rtu_sent = 1..Len(rtu_sent)
<1>1. window \in 1..7 /\ Len(rtu_sent) <= window
  BY ReceptionAssumption DEF TypeOK, RTUNumbers
<1>2. \A l \in Nat : \A w \in 1..7 : l <= w => l \in 0..7
  OBVIOUS
<1>3. QED
  BY <1>1, <1>2, WindowTypes

\* A RR is sent; it may be lost.
LEMMA AckSent ==
  ASSUME TypeOK, NEW nr \in 0..7, NEW f \in BOOLEAN, to_rtu' = Put(to_rtu, RR(nr, f)) \/ to_rtu' = to_rtu
  PROVE  \A i \in DOMAIN to_rtu' :
           \/ i \in DOMAIN to_rtu /\ i < Len(to_rtu) + 1 /\ to_rtu'[i] = to_rtu[i]
           \/ i = Len(to_rtu) + 1 /\ to_rtu'[i].nr = nr
<1>1. to_rtu \in Seq(ToRTU) /\ RR(nr, f) \in ToRTU /\ RR(nr, f).nr = nr
  BY Halves, FrameTypes DEF RTUType, RR
<1>2. \A i \in DOMAIN to_rtu : i < Len(to_rtu) + 1
  BY DistanceTypes
<1>3. CASE to_rtu' = to_rtu
  BY <1>2, <1>3
<1>4. CASE to_rtu' = Put(to_rtu, RR(nr, f))
  <2>1. \A i \in DOMAIN Put(to_rtu, RR(nr, f)) :
          \/ i \in DOMAIN to_rtu /\ i < Len(to_rtu) + 1 /\ Put(to_rtu, RR(nr, f))[i] = to_rtu[i]
          \/ i = Len(to_rtu) + 1 /\ Put(to_rtu, RR(nr, f))[i] = RR(nr, f)
    BY <1>1, PutFacts
  <2>2. QED
    BY <1>1, <1>4, <2>1
<1>5. QED
  BY <1>3, <1>4

\* The plugin answers a frame by the number that it expects afterwards, e: one
\* further than the frame if it accepts it, and no further than what is on its way.
LEMMA AnswerKeepsStep ==
  ASSUME TypeOK, TypeOK', StepFacts, NEW frame \in analysing, analysing' = {},
         Distance(Expected) <= Distance(Expected'), Distance(Expected') <= Len(rtu_sent),
         \A i \in DOMAIN rtu_sent : i <= Distance(Expected') => rtu_sent[i].id \in handled' \cup {0},
         Distance(Expected') <= Distance(Expected) \/ Distance(Expected') <= Distance(frame.ns) + 1,
         NEW f \in BOOLEAN, to_rtu' = Put(to_rtu, RR(Expected', f)) \/ to_rtu' = to_rtu,
         UNCHANGED <<rtu_vs, rtu_sent, from_rtu>>
  PROVE  StepFacts'
<1> DEFINE e == Expected'
<1>1. Base' = Base
  BY DEF Base
<1>2. e \in 0..7
  BY DEF Expected, TypeOK
<1>3. Distance(e) \in 0..7
  BY <1>2, WindowTypes, AheadType DEF Distance
<1> HIDE DEF e
<1>4. \A i \in DOMAIN to_rtu' :
        \/ i \in DOMAIN to_rtu /\ i < Len(to_rtu) + 1 /\ to_rtu'[i] = to_rtu[i]
        \/ i = Len(to_rtu) + 1 /\ to_rtu'[i].nr = e
  BY <1>2, AckSent DEF e
<1>5. Distance(Expected) <= Distance(e)
  BY DEF e
<1>6. \A i \in DOMAIN from_rtu : from_rtu[i].type = "INFO" => Distance(e) <= Distance(from_rtu[i].ns)
  <2> SUFFICES ASSUME NEW i \in DOMAIN from_rtu, from_rtu[i].type = "INFO"
               PROVE  Distance(e) <= Distance(from_rtu[i].ns)
    OBVIOUS
  <2>1. Distance(frame.ns) < Distance(from_rtu[i].ns) /\ Distance(Expected) <= Distance(from_rtu[i].ns)
    BY DEF StepFacts, FramesCurrent, Later
  <2>2. /\ Distance(frame.ns) \in 0..7 /\ Distance(from_rtu[i].ns) \in 0..7 /\ Distance(Expected) \in 0..7
    BY DistanceTypes
  <2>3. Distance(e) <= Distance(Expected) \/ Distance(e) <= Distance(frame.ns) + 1
    BY DEF e
  <2>4. QED
    BY <1>3, <2>1, <2>2, <2>3
<1>7. WindowHandled'
  BY <1>1 DEF WindowHandled, Distance, e
<1>8. FramesCurrent'
  <2>1. \A i \in DOMAIN from_rtu' : from_rtu'[i].type = "INFO" => Current(from_rtu'[i])
    BY DEF StepFacts, FramesCurrent
  <2>2. \A i, j \in DOMAIN from_rtu' :
          from_rtu'[i].type = "INFO" /\ from_rtu'[j].type = "INFO" /\ i < j =>
            Distance(from_rtu'[i].ns) < Distance(from_rtu'[j].ns) /\ Distance(e) <= Distance(from_rtu'[j].ns)
    BY <1>6 DEF StepFacts, FramesCurrent, Later
  <2>3. QED
    BY <1>1, <2>1, <2>2 DEF FramesCurrent, Current, Later, Distance, e
<1>9. AcksInOrder'
  <2>1. \A i \in DOMAIN to_rtu' : to_rtu'[i].type = "RR" => Distance(to_rtu'[i].nr) <= Distance(e)
    <3> SUFFICES ASSUME NEW i \in DOMAIN to_rtu', to_rtu'[i].type = "RR" PROVE Distance(to_rtu'[i].nr) <= Distance(e)
      OBVIOUS
    <3>1. CASE i \in DOMAIN to_rtu /\ to_rtu'[i] = to_rtu[i]
      <4>1. Distance(to_rtu[i].nr) <= Distance(Expected) /\ Distance(to_rtu[i].nr) \in 0..7
        BY <3>1, DistanceTypes DEF StepFacts, AcksInOrder
      <4>2. Distance(Expected) \in 0..7
        BY DistanceTypes
      <4>3. QED
        BY <1>3, <1>5, <3>1, <4>1, <4>2
    <3>2. CASE to_rtu'[i].nr = e
      BY <1>3, <3>2
    <3>3. QED
      BY <1>4, <3>1, <3>2
  <2>2. \A i \in DOMAIN to_rtu' : to_rtu'[i].type = "RR" =>
          \A j \in DOMAIN from_rtu : from_rtu[j].type = "INFO" => Distance(to_rtu'[i].nr) <= Distance(from_rtu[j].ns)
    BY <1>4, <1>6 DEF StepFacts, AcksInOrder
  <2>3. ASSUME NEW i \in DOMAIN to_rtu', NEW j \in DOMAIN to_rtu', to_rtu'[i].type = "RR", to_rtu'[j].type = "RR", i < j
        PROVE  Distance(to_rtu'[i].nr) <= Distance(to_rtu'[j].nr)
    <3>1. CASE j = Len(to_rtu) + 1 /\ to_rtu'[j].nr = e
      BY <2>1, <2>3, <3>1
    <3>2. CASE j \in DOMAIN to_rtu /\ j < Len(to_rtu) + 1 /\ to_rtu'[j] = to_rtu[j]
      <4>1. j \in Nat /\ Len(to_rtu) \in Nat
        BY <3>2, DistanceTypes
      <4>2. i # Len(to_rtu) + 1
        BY <2>3, <3>2, <4>1
      <4>3. i \in DOMAIN to_rtu /\ to_rtu'[i] = to_rtu[i]
        BY <1>4, <4>2
      <4>4. QED
        BY <2>3, <3>2, <4>3 DEF StepFacts, AcksInOrder
    <3>3. QED
      BY <1>4, <3>1, <3>2
  <2>4. QED
    BY <1>1, <2>1, <2>2, <2>3 DEF AcksInOrder, Distance, e
<1>10. QED
  BY <1>7, <1>8, <1>9 DEF StepFacts

\* The plugin handles a frame.
LEMMA InfoKeepsStep ==
  ASSUME TypeOK, TypeOK', RTUNumbers, ThreadInv, RestartInv, StepFacts, in_step, ReceiveInfo
  PROVE  StepFacts'
<1> USE ReceptionAssumption
<1>1. PICK frame \in analysing :
        IF m_protocol_state = "OUTPUT_CONNECTED"
          THEN UNCHANGED <<handled, m_nr, to_rtu>>
          ELSE handled' = handled \cup Extracted(frame) /\ m_sendRR(frame)
  BY DEF ReceiveInfo
<1>2. pending = {} /\ ~Restarting
  BY <1>1 DEF ThreadInv, Restarting
<1>3. m_protocol_state \in InputStates
  BY <1>2 DEF RestartInv
<1>4. handled' = handled \cup ({frame.id} \ {0}) /\ m_sendRR(frame)
  BY <1>1, <1>3 DEF InputStates, Extracted
<1>5. UNCHANGED <<rtu_vs, rtu_sent, from_rtu, pending>> /\ analysing' = {}
  BY DEF ReceiveInfo, rtuVars
<1>6. Expected = m_nr /\ Expected' = m_nr' /\ m_nr \in 0..7
  BY <1>2, <1>5 DEF Expected, Restarting, TypeOK
<1>7. frame \in INFOs /\ frame.p \in BOOLEAN /\ frame.ns \in 0..7
  BY <1>1, DistanceTypes DEF INFOs
<1>8. /\ Distance(Expected) \in 0..7 /\ Distance(Expected) <= Len(rtu_sent)
      /\ \A i \in DOMAIN rtu_sent : i <= Distance(Expected) => rtu_sent[i].id \in handled \cup {0}
  BY DistanceTypes DEF StepFacts, WindowHandled
<1>9. Len(rtu_sent) \in 0..7 /\ DOMAIN rtu_sent = 1..Len(rtu_sent)
  BY WindowSize
<1>10. CASE AcceptsNumber(frame)
  <2>1. m_nr' = Next8(m_nr) /\ to_rtu' = Put(to_rtu, RR(m_nr', frame.p)) /\ frame.ns = m_nr
    BY <1>4, <1>10 DEF m_sendRR, AcceptsNumber
  <2>2. PICK k \in DOMAIN rtu_sent : k = Distance(frame.ns) + 1 /\ rtu_sent[k].id = frame.id
    BY <1>1 DEF StepFacts, FramesCurrent, Current
  <2>3. k = Distance(Expected) + 1 /\ Distance(Expected) <= 6 /\ k <= Len(rtu_sent)
    <3>1. k = Distance(Expected) + 1 /\ k \in 1..Len(rtu_sent)
      BY <1>6, <1>9, <2>1, <2>2
    <3>2. \A d \in 0..7 : \A l \in 0..7 : d + 1 \in 1..l => d <= 6 /\ d + 1 <= l
      OBVIOUS
    <3>3. QED
      BY <1>8, <1>9, <3>1, <3>2
  <2>4. Distance(Expected') = k
    BY <1>6, <2>1, <2>3, AheadNext, WindowTypes DEF Distance
  <2>5. \A i \in DOMAIN rtu_sent : i <= k => rtu_sent[i].id \in handled' \cup {0}
    <3> SUFFICES ASSUME NEW i \in DOMAIN rtu_sent, i <= k PROVE rtu_sent[i].id \in handled' \cup {0}
      OBVIOUS
    <3>1. i <= Distance(Expected) \/ i = k
      BY <1>8, <1>9, <2>3
    <3>2. QED
      BY <1>4, <1>8, <2>2, <3>1
  <2>6. Distance(Expected) <= k /\ k <= Len(rtu_sent) /\ k <= Distance(frame.ns) + 1
    BY <1>6, <1>8, <2>1, <2>3
  <2>7. to_rtu' = Put(to_rtu, RR(Expected', frame.p))
    BY <1>6, <2>1
  <2>8. QED
    BY <1>1, <1>5, <1>7, <2>4, <2>5, <2>6, <2>7, AnswerKeepsStep
<1>11. CASE ~AcceptsNumber(frame)
  <2>1. m_nr' = m_nr /\ (to_rtu' = Put(to_rtu, RR(m_nr', frame.p)) \/ to_rtu' = to_rtu)
    BY <1>4, <1>11 DEF m_sendRR
  <2>2. Expected' = Expected /\ (to_rtu' = Put(to_rtu, RR(Expected', frame.p)) \/ to_rtu' = to_rtu)
    BY <1>6, <2>1
  <2>3. \A i \in DOMAIN rtu_sent : i <= Distance(Expected') => rtu_sent[i].id \in handled' \cup {0}
    BY <1>4, <1>8, <2>2
  <2>4. Distance(Expected) <= Distance(Expected') /\ Distance(Expected') <= Len(rtu_sent)
        /\ Distance(Expected') <= Distance(Expected)
    BY <1>8, <2>2
  <2>5. QED
    BY <1>1, <1>5, <1>7, <2>2, <2>3, <2>4, AnswerKeepsStep
<1>12. QED
  BY <1>10, <1>11

\* A RR reaches the RTU: k frames leave its window, and what is beyond them is k
\* nearer to its base.
LEMMA RebaseFacts ==
  ASSUME TypeOK, RTUNumbers, NEW k \in 0..Len(rtu_sent), UNCHANGED rtu_vs,
         rtu_sent' = SubSeq(rtu_sent, k + 1, Len(rtu_sent))
  PROVE  /\ DOMAIN rtu_sent' = 1..Len(rtu_sent') /\ Len(rtu_sent') = Len(rtu_sent) - k
         /\ \A i \in DOMAIN rtu_sent' : i \in Nat /\ i + k \in DOMAIN rtu_sent /\ rtu_sent'[i] = rtu_sent[i + k]
         /\ \A x \in 0..7 : k <= Distance(x) => Ahead(x, Base') = Distance(x) - k
<1>1. rtu_sent \in Seq(Sent) /\ rtu_vs \in 0..7
  BY WindowTypes
<1>2. /\ rtu_sent' \in Seq(Sent) /\ Len(rtu_sent') = Len(rtu_sent) - k
      /\ \A i \in DOMAIN rtu_sent' : i \in Nat /\ i + k \in DOMAIN rtu_sent /\ rtu_sent'[i] = rtu_sent[i + k]
  BY <1>1, RestFacts
<1>3. DOMAIN rtu_sent' = 1..Len(rtu_sent')
  BY <1>2, LenProperties
<1>4. Base' = Ahead(rtu_vs, Len(rtu_sent) - k)
  BY <1>2 DEF Base
<1>5. Len(rtu_sent) \in 0..7
  BY WindowSize
<1>6. \A x \in 0..7 : Nearer(rtu_vs, Len(rtu_sent), k, x)
  BY <1>1, <1>5, BaseAdvances
<1>7. \A x \in 0..7 : k <= Distance(x) => Ahead(x, Base') = Distance(x) - k
  BY <1>4, <1>6 DEF Nearer, Distance, Base
<1>8. QED
  BY <1>2, <1>3, <1>7

\* The window keeps consecutive numbers.
LEMMA RebaseKeepsNumbers ==
  ASSUME TypeOK, RTUNumbers, NEW k \in 0..Len(rtu_sent), UNCHANGED <<window, rtu_vs>>,
         rtu_sent' = SubSeq(rtu_sent, k + 1, Len(rtu_sent))
  PROVE  RTUNumbers'
<1>1. /\ DOMAIN rtu_sent' = 1..Len(rtu_sent') /\ Len(rtu_sent') = Len(rtu_sent) - k
      /\ \A i \in DOMAIN rtu_sent' : i \in Nat /\ i + k \in DOMAIN rtu_sent /\ rtu_sent'[i] = rtu_sent[i + k]
      /\ \A x \in 0..7 : k <= Distance(x) => Ahead(x, Base') = Distance(x) - k
  BY RebaseFacts
<1>2. Len(rtu_sent) \in Nat /\ window \in 1..7 /\ Len(rtu_sent) <= window
  BY WindowTypes, ReceptionAssumption DEF TypeOK, RTUNumbers
<1>3. Len(rtu_sent') <= window'
  <2>1. \A l \in Nat : \A n \in 0..l : \A w \in 1..7 : l <= w => l - n <= w
    OBVIOUS
  <2>2. QED
    BY <1>1, <1>2, <2>1
<1>4. ASSUME NEW i \in DOMAIN rtu_sent' PROVE Ahead(rtu_sent'[i].ns, Base') = i - 1
  <2>1. /\ i + k \in DOMAIN rtu_sent /\ rtu_sent'[i] = rtu_sent[i + k] /\ i \in 1..Len(rtu_sent')
        /\ rtu_sent[i + k].ns \in 0..7 /\ Distance(rtu_sent[i + k].ns) = (i + k) - 1
    BY <1>1, WindowTypes DEF RTUNumbers
  <2>2. \A n \in Nat : \A j \in Nat \ {0} : n <= (j + n) - 1 /\ ((j + n) - 1) - n = j - 1
    OBVIOUS
  <2>3. k \in Nat /\ i \in Nat \ {0}
    BY <1>2, <2>1
  <2>4. Ahead(rtu_sent[i + k].ns, Base') = ((i + k) - 1) - k
    BY <1>1, <2>1, <2>2, <2>3
  <2>5. QED
    BY <2>1, <2>2, <2>3, <2>4
<1>5. QED
  BY <1>3, <1>4 DEF RTUNumbers, Distance

\* What the RR on the way says is what it acknowledges.
LEMMA AcknowledgedIsDistance ==
  ASSUME TypeOK, RTUNumbers, NEW nr \in 0..7
  PROVE  /\ AcknowledgedBy(nr) # 0 => AcknowledgedBy(nr) = Distance(nr)
         /\ Distance(nr) <= Len(rtu_sent) => AcknowledgedBy(nr) = Distance(nr)
<1>1. rtu_sent \in Seq(Sent) /\ Len(rtu_sent) \in Nat /\ DOMAIN rtu_sent = 1..Len(rtu_sent) /\ Base \in 0..7
  BY WindowTypes
<1>2. Distance(nr) \in 0..7
  BY <1>1, AheadType DEF Distance
<1>3. CASE rtu_sent = <<>>
  <2>1. Len(rtu_sent) = 0 /\ AcknowledgedBy(nr) = 0
    BY <1>3 DEF AcknowledgedBy
  <2>2. QED
    BY <1>2, <2>1
<1>4. CASE rtu_sent # <<>>
  <2>1. 1 \in DOMAIN rtu_sent /\ Head(rtu_sent) = rtu_sent[1]
    BY <1>1, <1>4, TailFacts
  <2>2. rtu_sent[1].ns \in 0..7 /\ Distance(rtu_sent[1].ns) = 0
    BY <2>1, WindowTypes DEF RTUNumbers
  <2>3. rtu_sent[1].ns = Base
    BY <1>1, <2>2, AheadZero DEF Distance
  <2>4. AcknowledgedBy(nr) = IF Distance(nr) <= Len(rtu_sent) THEN Distance(nr) ELSE 0
    BY <1>4, <2>1, <2>3 DEF AcknowledgedBy, Distance, Ahead
  <2>5. QED
    BY <2>4
<1>5. QED
  BY <1>3, <1>4

\* The RTU takes a RR.
LEMMA AckKeepsStep ==
  ASSUME TypeOK, TypeOK', RTUNumbers, StepFacts, rtu_up, RTUReceiveRR
  PROVE  StepFacts'
<1> DEFINE nr == to_rtu[1].nr
           k == Distance(nr)
<1>1. to_rtu \in Seq(ToRTU) /\ to_rtu # <<>> /\ Head(to_rtu).type = "RR" /\ to_rtu' = Tail(to_rtu)
  BY Halves DEF RTUReceiveRR, RTUType
<1>2. /\ 1 \in DOMAIN to_rtu /\ Head(to_rtu) = to_rtu[1]
      /\ \A i \in DOMAIN to_rtu' : i \in Nat /\ i + 1 \in DOMAIN to_rtu /\ to_rtu'[i] = to_rtu[i + 1]
  BY <1>1, TailFacts
<1>3. nr \in 0..7 /\ k \in 0..7 /\ Distance(Expected) \in 0..7
  BY <1>1, <1>2, DistanceTypes
<1>4. k <= Distance(Expected) /\ Distance(Expected) <= Len(rtu_sent)
  BY <1>1, <1>2 DEF StepFacts, AcksInOrder, WindowHandled
<1>5. Len(rtu_sent) \in 0..7
  BY WindowSize
<1>6. k \in 0..Len(rtu_sent)
  BY <1>3, <1>4, <1>5
<1>7. /\ rtu_sent' = SubSeq(rtu_sent, k + 1, Len(rtu_sent))
      /\ UNCHANGED <<rtu_vs, m_nr, pending, handled, analysing, from_rtu>>
  <2>1. AcknowledgedBy(nr) = k
    BY <1>3, <1>6, AcknowledgedIsDistance
  <2>2. QED
    BY <1>2, <2>1 DEF RTUReceiveRR, pluginVars, stateVars, threadVars
<1>8. /\ DOMAIN rtu_sent' = 1..Len(rtu_sent') /\ Len(rtu_sent') = Len(rtu_sent) - k
      /\ \A i \in DOMAIN rtu_sent' : i \in Nat /\ i + k \in DOMAIN rtu_sent /\ rtu_sent'[i] = rtu_sent[i + k]
      /\ \A x \in 0..7 : k <= Distance(x) => Ahead(x, Base') = Distance(x) - k
  BY <1>6, <1>7, RebaseFacts
<1>9. Expected' = Expected /\ Expected \in 0..7
  BY <1>7, WindowTypes DEF Expected, Restarting
<1>10. /\ \A f \in analysing : k <= Distance(f.ns)
       /\ \A j \in DOMAIN from_rtu : from_rtu[j].type = "INFO" => k <= Distance(from_rtu[j].ns)
       /\ \A j \in DOMAIN to_rtu' : to_rtu'[j].type = "RR" => k <= Distance(to_rtu'[j].nr)
  <2>1. \A i \in Nat : i + 1 \in DOMAIN to_rtu /\ i # 0 => 1 < i + 1
    OBVIOUS
  <2>2. \A j \in DOMAIN to_rtu' : j # 0
    BY <1>1, HeadTailProperties, LenProperties
  <2>3. QED
    BY <1>1, <1>2, <2>1, <2>2 DEF StepFacts, AcksInOrder
<1> HIDE DEF k, nr
\* The distances after the step.
<1>11. Ahead(Expected, Base') = Distance(Expected) - k
  BY <1>4, <1>8, <1>9
<1>12. /\ \A f \in analysing : Ahead(f.ns, Base') = Distance(f.ns) - k /\ Distance(f.ns) \in 0..7
       /\ \A j \in DOMAIN from_rtu : from_rtu[j].type = "INFO" =>
            Ahead(from_rtu[j].ns, Base') = Distance(from_rtu[j].ns) - k /\ Distance(from_rtu[j].ns) \in 0..7
       /\ \A j \in DOMAIN to_rtu' : to_rtu'[j].type = "RR" =>
            Ahead(to_rtu'[j].nr, Base') = Distance(to_rtu'[j].nr) - k /\ Distance(to_rtu'[j].nr) \in 0..7
  BY <1>2, <1>8, <1>10, DistanceTypes
<1>13. \A x, y \in 0..7 : (x <= y => x - k <= y - k) /\ (x < y => x - k < y - k)
  BY <1>3
<1>14. WindowHandled'
  <2>1. Ahead(Expected, Base') <= Len(rtu_sent')
    BY <1>3, <1>4, <1>5, <1>8, <1>11
  <2>2. ASSUME NEW i \in DOMAIN rtu_sent', i <= Ahead(Expected, Base') PROVE rtu_sent'[i].id \in handled \cup {0}
    <3>1. i \in Nat /\ i + k \in DOMAIN rtu_sent /\ rtu_sent'[i] = rtu_sent[i + k]
      BY <1>8
    <3>2. i + k <= Distance(Expected)
      BY <1>3, <1>11, <2>2, <3>1
    <3>3. QED
      BY <3>1, <3>2 DEF StepFacts, WindowHandled
  <2>3. QED
    BY <1>7, <1>9, <2>1, <2>2 DEF WindowHandled, Distance
<1>15. FramesCurrent'
  <2>1. ASSUME NEW f, Current(f), Ahead(f.ns, Base') = Distance(f.ns) - k, k <= Distance(f.ns), Distance(f.ns) \in 0..7
        PROVE  \E g \in DOMAIN rtu_sent' : g = Ahead(f.ns, Base') + 1 /\ rtu_sent'[g].id = f.id
    <3>1. PICK h \in DOMAIN rtu_sent : h = Distance(f.ns) + 1 /\ rtu_sent[h].id = f.id
      BY <2>1 DEF Current
    <3> DEFINE g == Ahead(f.ns, Base') + 1
    <3>2. h \in 1..Len(rtu_sent)
      BY <3>1, WindowTypes
    <3>3. g \in 1..Len(rtu_sent') /\ g + k = h
      BY SMTT(30), <1>3, <1>5, <1>8, <2>1, <3>1, <3>2
    <3>4. g \in DOMAIN rtu_sent' /\ rtu_sent'[g] = rtu_sent[g + k]
      BY <1>8, <3>3
    <3>5. QED
      BY <3>1, <3>3, <3>4
  <2>2. \A f \in analysing : \E g \in DOMAIN rtu_sent' : g = Ahead(f.ns, Base') + 1 /\ rtu_sent'[g].id = f.id
    BY <1>10, <1>12, <2>1 DEF StepFacts, FramesCurrent
  <2>3. \A i \in DOMAIN from_rtu : from_rtu[i].type = "INFO" =>
          \E g \in DOMAIN rtu_sent' : g = Ahead(from_rtu[i].ns, Base') + 1 /\ rtu_sent'[g].id = from_rtu[i].id
    BY <1>10, <1>12, <2>1 DEF StepFacts, FramesCurrent
  <2>4. \A i \in DOMAIN from_rtu : from_rtu[i].type = "INFO" => \A f \in analysing :
          /\ Ahead(f.ns, Base') < Ahead(from_rtu[i].ns, Base')
          /\ Ahead(Expected, Base') <= Ahead(from_rtu[i].ns, Base')
    BY <1>3, <1>11, <1>12, <1>13 DEF StepFacts, FramesCurrent, Later
  <2>5. \A i, j \in DOMAIN from_rtu : from_rtu[i].type = "INFO" /\ from_rtu[j].type = "INFO" /\ i < j =>
          /\ Ahead(from_rtu[i].ns, Base') < Ahead(from_rtu[j].ns, Base')
          /\ Ahead(Expected, Base') <= Ahead(from_rtu[j].ns, Base')
    BY <1>3, <1>11, <1>12, <1>13 DEF StepFacts, FramesCurrent, Later
  <2>6. QED
    BY <1>7, <1>9, <2>2, <2>3, <2>4, <2>5 DEF FramesCurrent, Current, Later, Distance
<1>16. AcksInOrder'
  <2>1. \A i \in DOMAIN to_rtu' : to_rtu'[i].type = "RR" =>
          /\ Distance(to_rtu'[i].nr) <= Distance(Expected)
          /\ \A f \in analysing : Distance(to_rtu'[i].nr) <= Distance(f.ns)
          /\ \A j \in DOMAIN from_rtu : from_rtu[j].type = "INFO" => Distance(to_rtu'[i].nr) <= Distance(from_rtu[j].ns)
    BY <1>2 DEF StepFacts, AcksInOrder
  <2>2. \A i, j \in DOMAIN to_rtu' : to_rtu'[i].type = "RR" /\ to_rtu'[j].type = "RR" /\ i < j =>
          Distance(to_rtu'[i].nr) <= Distance(to_rtu'[j].nr)
    <3>1. \A i, j \in DOMAIN to_rtu' : i < j => i + 1 < j + 1
      BY <1>2
    <3>2. QED
      BY <1>2, <3>1 DEF StepFacts, AcksInOrder
  <2>3. \A i \in DOMAIN to_rtu' : to_rtu'[i].type = "RR" =>
          /\ Ahead(to_rtu'[i].nr, Base') <= Ahead(Expected, Base')
          /\ \A f \in analysing : Ahead(to_rtu'[i].nr, Base') <= Ahead(f.ns, Base')
          /\ \A j \in DOMAIN from_rtu : from_rtu[j].type = "INFO" =>
               Ahead(to_rtu'[i].nr, Base') <= Ahead(from_rtu[j].ns, Base')
    BY <1>3, <1>11, <1>12, <1>13, <2>1
  <2>4. \A i, j \in DOMAIN to_rtu' : to_rtu'[i].type = "RR" /\ to_rtu'[j].type = "RR" /\ i < j =>
          Ahead(to_rtu'[i].nr, Base') <= Ahead(to_rtu'[j].nr, Base')
    BY <1>12, <1>13, <2>2
  <2>5. QED
    BY <1>7, <1>9, <2>3, <2>4 DEF AcksInOrder, Distance
<1>17. QED
  BY <1>14, <1>15, <1>16 DEF StepFacts

\* The RTU sends a new frame: its number is the next of the window.
LEMMA SendFacts ==
  ASSUME TypeOK, RTUNumbers, NEW id \in 0..MaxMessages, RTUSend(id)
  PROVE  /\ Base' = Base /\ Distance(rtu_vs) = Len(rtu_sent)
         /\ Len(rtu_sent') = Len(rtu_sent) + 1 /\ DOMAIN rtu_sent' = 1..(Len(rtu_sent) + 1)
         /\ \A i \in DOMAIN rtu_sent : i \in DOMAIN rtu_sent' /\ rtu_sent'[i] = rtu_sent[i]
         /\ rtu_sent'[Len(rtu_sent) + 1] = [id |-> id, ns |-> rtu_vs]
         /\ Len(rtu_sent') <= window /\ UNCHANGED window
<1>1. rtu_sent \in Seq(Sent) /\ rtu_vs \in 0..7 /\ [id |-> id, ns |-> rtu_vs] \in Sent
  BY WindowTypes DEF Sent
<1>2. rtu_sent' = Append(rtu_sent, [id |-> id, ns |-> rtu_vs]) /\ rtu_vs' = (rtu_vs + 1) % 8 /\ Len(rtu_sent) < window
  BY DEF RTUSend
<1>3. /\ Len(rtu_sent') = Len(rtu_sent) + 1 /\ DOMAIN rtu_sent' = 1..(Len(rtu_sent) + 1)
      /\ \A i \in DOMAIN rtu_sent : i \in DOMAIN rtu_sent' /\ rtu_sent'[i] = rtu_sent[i]
      /\ rtu_sent'[Len(rtu_sent) + 1] = [id |-> id, ns |-> rtu_vs]
  BY <1>1, <1>2, AppendFacts
<1>4. Len(rtu_sent) \in 0..7
  BY WindowSize
<1>5. Base' = Base
  BY <1>1, <1>2, <1>3, <1>4, BaseStays DEF Base
<1>6. Distance(rtu_vs) = Len(rtu_sent)
  BY <1>1, <1>4, AheadOfWindow DEF Distance, Base
<1>7. Len(rtu_sent) + 1 <= window
  <2>1. window \in 1..7
    BY ReceptionAssumption DEF TypeOK
  <2>2. \A l \in 0..7 : \A w \in 1..7 : l < w => l + 1 <= w
    OBVIOUS
  <2>3. QED
    BY <1>2, <1>4, <2>1, <2>2
<1>8. QED
  BY <1>3, <1>5, <1>6, <1>7 DEF RTUSend, pluginVars

\* The window keeps consecutive numbers.
LEMMA SendKeepsNumbers ==
  ASSUME TypeOK, RTUNumbers, NEW id \in 0..MaxMessages, RTUSend(id)
  PROVE  RTUNumbers'
<1>1. /\ Base' = Base /\ Distance(rtu_vs) = Len(rtu_sent)
      /\ Len(rtu_sent') = Len(rtu_sent) + 1 /\ DOMAIN rtu_sent' = 1..(Len(rtu_sent) + 1)
      /\ \A i \in DOMAIN rtu_sent : i \in DOMAIN rtu_sent' /\ rtu_sent'[i] = rtu_sent[i]
      /\ rtu_sent'[Len(rtu_sent) + 1] = [id |-> id, ns |-> rtu_vs]
      /\ Len(rtu_sent') <= window /\ UNCHANGED window
  BY SendFacts
<1>2. Len(rtu_sent) \in 0..7 /\ DOMAIN rtu_sent = 1..Len(rtu_sent)
  BY WindowSize
<1>3. ASSUME NEW i \in DOMAIN rtu_sent' PROVE Distance(rtu_sent'[i].ns) = i - 1
  <2>1. CASE i \in DOMAIN rtu_sent
    BY <1>1, <2>1 DEF RTUNumbers
  <2>2. CASE i = Len(rtu_sent) + 1
    <3>1. rtu_sent'[i].ns = rtu_vs
      BY <1>1, <2>2
    <3>2. QED
      BY <1>1, <1>2, <2>2, <3>1
  <2>3. QED
    BY <1>1, <1>2, <2>1, <2>2
<1>4. QED
  BY <1>1, <1>3 DEF RTUNumbers, Distance

\* The new frame is behind all the others, and what is on the way stays current.
LEMMA SendKeepsStep ==
  ASSUME TypeOK, TypeOK', RTUNumbers, StepFacts, NEW id \in 0..MaxMessages, RTUSend(id)
  PROVE  StepFacts'
<1> DEFINE frame == INFO(id, rtu_vs, FALSE)
           l == Len(rtu_sent)
<1>1. /\ Base' = Base /\ Distance(rtu_vs) = l
      /\ Len(rtu_sent') = l + 1 /\ DOMAIN rtu_sent' = 1..(l + 1)
      /\ \A i \in DOMAIN rtu_sent : i \in DOMAIN rtu_sent' /\ rtu_sent'[i] = rtu_sent[i]
      /\ rtu_sent'[l + 1] = [id |-> id, ns |-> rtu_vs]
  BY SendFacts
<1>2. l \in 0..7 /\ DOMAIN rtu_sent = 1..l
  BY WindowSize
<1>3. UNCHANGED <<m_nr, pending, handled, analysing, to_rtu>> /\ from_rtu' = Put(from_rtu, frame)
  BY DEF RTUSend, pluginVars, stateVars, threadVars
<1>4. Expected' = Expected
  BY <1>3 DEF Expected, Restarting
<1>5. frame \in FromRTU /\ frame.ns = rtu_vs /\ frame.id = id
  BY WindowTypes, FrameTypes DEF INFO
<1>6. \A i \in DOMAIN from_rtu' :
        \/ i \in DOMAIN from_rtu /\ i < Len(from_rtu) + 1 /\ from_rtu'[i] = from_rtu[i]
        \/ i = Len(from_rtu) + 1 /\ from_rtu'[i] = frame
  BY <1>3, <1>5, PutFacts, Halves DEF RTUType
<1>7. Distance(Expected) <= l /\ Distance(Expected) \in 0..7
  BY DistanceTypes DEF StepFacts, WindowHandled
<1> HIDE DEF l, frame
<1>8. \A f : Current(f) => \E k \in DOMAIN rtu_sent' : k = Distance(f.ns) + 1 /\ rtu_sent'[k].id = f.id
  BY <1>1 DEF Current
<1>9. \A f : Current(f) /\ Distance(f.ns) \in 0..7 => Distance(f.ns) < l
  <2> SUFFICES ASSUME NEW f, Current(f), Distance(f.ns) \in 0..7 PROVE Distance(f.ns) < l
    OBVIOUS
  <2>1. Distance(f.ns) + 1 \in 1..l
    BY <1>2 DEF Current
  <2>2. QED
    BY <1>2, <2>1
<1>10. WindowHandled'
  <2>1. Distance(Expected) <= Len(rtu_sent')
    BY <1>1, <1>2, <1>7
  <2>2. ASSUME NEW i \in DOMAIN rtu_sent', i <= Distance(Expected) PROVE rtu_sent'[i].id \in handled \cup {0}
    <3>1. i \in DOMAIN rtu_sent
      BY <1>1, <1>2, <1>7, <2>2
    <3>2. QED
      BY <1>1, <2>2, <3>1 DEF StepFacts, WindowHandled
  <2>3. QED
    BY <1>1, <1>3, <1>4, <2>1, <2>2 DEF WindowHandled, Distance
<1>11. Distance(frame.ns) = l /\ \E k \in DOMAIN rtu_sent' : k = Distance(frame.ns) + 1 /\ rtu_sent'[k].id = frame.id
  <2>1. l + 1 \in DOMAIN rtu_sent' /\ rtu_sent'[l + 1].id = id
    BY <1>1, <1>2
  <2>2. QED
    BY <1>1, <1>5, <2>1
<1>12. FramesCurrent'
  <2>1. \A f \in analysing : \E k \in DOMAIN rtu_sent' : k = Distance(f.ns) + 1 /\ rtu_sent'[k].id = f.id
    BY <1>8 DEF StepFacts, FramesCurrent
  <2>2. \A i \in DOMAIN from_rtu' : from_rtu'[i].type = "INFO" =>
          \E k \in DOMAIN rtu_sent' : k = Distance(from_rtu'[i].ns) + 1 /\ rtu_sent'[k].id = from_rtu'[i].id
    BY <1>6, <1>8, <1>11 DEF StepFacts, FramesCurrent
  <2>3. \A i \in DOMAIN from_rtu' : from_rtu'[i].type = "INFO" => \A f \in analysing : Later(from_rtu'[i], f)
    <3>1. \A f \in analysing : Later(frame, f)
      BY <1>7, <1>9, <1>11, DistanceTypes DEF StepFacts, FramesCurrent, Later
    <3>2. QED
      BY <1>6, <3>1 DEF StepFacts, FramesCurrent
  <2>4. ASSUME NEW i \in DOMAIN from_rtu', NEW j \in DOMAIN from_rtu',
               from_rtu'[i].type = "INFO", from_rtu'[j].type = "INFO", i < j
        PROVE  Later(from_rtu'[j], from_rtu'[i])
    <3>1. CASE i \in DOMAIN from_rtu /\ from_rtu'[i] = from_rtu[i]
      <4>1. CASE j \in DOMAIN from_rtu /\ from_rtu'[j] = from_rtu[j]
        BY <2>4, <3>1, <4>1 DEF StepFacts, FramesCurrent
      <4>2. CASE from_rtu'[j] = frame
        <5>1. Current(from_rtu[i]) /\ Distance(from_rtu[i].ns) \in 0..7
          BY <2>4, <3>1, DistanceTypes DEF StepFacts, FramesCurrent
        <5>2. QED
          BY <1>7, <1>9, <1>11, <3>1, <4>2, <5>1 DEF Later
      <4>3. QED
        BY <1>6, <4>1, <4>2
    <3>2. CASE i = Len(from_rtu) + 1
      <4>1. j < Len(from_rtu) + 1 \/ j = Len(from_rtu) + 1
        BY <1>6
      <4>2. Len(from_rtu) \in Nat /\ j \in Int
        <5>1. from_rtu' \in Seq(FromRTU) /\ Len(from_rtu) \in Nat
          BY DistanceTypes DEF TypeOK, FromRTU
        <5>2. DOMAIN from_rtu' = 1..Len(from_rtu')
          BY <5>1, LenProperties
        <5>3. QED
          BY <5>1, <5>2
      <4>3. QED
        BY <2>4, <3>2, <4>1, <4>2
    <3>3. QED
      BY <1>6, <3>1, <3>2
  <2>5. QED
    BY <1>1, <1>3, <1>4, <2>1, <2>2, <2>3, <2>4 DEF FramesCurrent, Current, Later, Distance
<1>13. AcksInOrder'
  <2>1. \A i \in DOMAIN to_rtu : to_rtu[i].type = "RR" => Distance(to_rtu[i].nr) <= Distance(frame.ns)
    <3> SUFFICES ASSUME NEW i \in DOMAIN to_rtu, to_rtu[i].type = "RR" PROVE Distance(to_rtu[i].nr) <= l
      BY <1>11
    <3>1. Distance(to_rtu[i].nr) <= Distance(Expected) /\ Distance(to_rtu[i].nr) \in 0..7
      BY DistanceTypes DEF StepFacts, AcksInOrder
    <3>2. QED
      BY <1>2, <1>7, <3>1
  <2>2. \A i \in DOMAIN to_rtu : to_rtu[i].type = "RR" =>
          \A j \in DOMAIN from_rtu' : from_rtu'[j].type = "INFO" => Distance(to_rtu[i].nr) <= Distance(from_rtu'[j].ns)
    BY <1>6, <2>1 DEF StepFacts, AcksInOrder
  <2>3. QED
    BY <1>1, <1>3, <1>4, <2>2 DEF StepFacts, AcksInOrder, Distance
<1>14. QED
  BY <1>10, <1>12, <1>13 DEF StepFacts

\* The RTU repeats the first frame of its window, when nothing is on the way.
LEMMA RepeatKeepsStep ==
  ASSUME TypeOK, TypeOK', RTUNumbers, StepFacts, RTURepeat
  PROVE  StepFacts'
<1> DEFINE frame == INFO(Head(rtu_sent).id, Head(rtu_sent).ns, TRUE)
<1>1. /\ to_rtu = <<>> /\ from_rtu = <<>> /\ analysing = {} /\ rtu_sent # <<>>
      /\ UNCHANGED <<m_nr, pending, handled, analysing, to_rtu, rtu_vs, rtu_sent>> /\ from_rtu' = Put(from_rtu, frame)
  BY DEF RTURepeat, RTUUnanswered, ReceiverIdle, pluginVars, stateVars, threadVars
<1>2. Base' = Base /\ Expected' = Expected
  BY <1>1 DEF Base, Expected, Restarting
<1>3. rtu_sent \in Seq(Sent)
  BY WindowTypes
<1>4. 1 \in DOMAIN rtu_sent /\ Head(rtu_sent) = rtu_sent[1]
  BY <1>1, <1>3, TailFacts
<1>5. rtu_sent[1].ns \in 0..7 /\ rtu_sent[1].id \in 0..MaxMessages /\ Distance(rtu_sent[1].ns) = 0
  BY <1>4, WindowTypes DEF RTUNumbers
<1>6. frame \in FromRTU /\ frame.ns = rtu_sent[1].ns /\ frame.id = rtu_sent[1].id
  BY <1>4, <1>5, FrameTypes DEF INFO
<1>7. \A i \in DOMAIN from_rtu' : i = 1 /\ from_rtu'[i] = frame
  <2>1. \A i \in DOMAIN from_rtu' :
          \/ i \in DOMAIN from_rtu /\ i < Len(from_rtu) + 1 /\ from_rtu'[i] = from_rtu[i]
          \/ i = Len(from_rtu) + 1 /\ from_rtu'[i] = frame
    BY <1>1, <1>6, PutFacts, Halves DEF RTUType
  <2>2. Len(from_rtu) + 1 = 1 /\ DOMAIN from_rtu = {}
    BY <1>1
  <2>3. QED
    BY <2>1, <2>2, Zenon
<1> HIDE DEF frame
<1>8. Current(frame)
  BY <1>4, <1>5, <1>6 DEF Current
<1>9. WindowHandled'
  BY <1>1, <1>2 DEF StepFacts, WindowHandled, Distance
<1>10. FramesCurrent'
  <2>1. \A i \in DOMAIN from_rtu' : Current(from_rtu'[i])
    BY <1>7, <1>8
  <2>2. \A i, j \in DOMAIN from_rtu' : ~(i < j)
    BY <1>7
  <2>3. QED
    BY <1>1, <1>2, <2>1, <2>2 DEF FramesCurrent, Current, Distance
<1>11. AcksInOrder'
  <2>1. DOMAIN to_rtu' = {}
    BY <1>1
  <2>2. QED
    BY <2>1 DEF AcksInOrder
<1>12. QED
  BY <1>9, <1>10, <1>11 DEF StepFacts

\* The RTU gets the UA that it waits for: both ends begin at 0.
LEMMA RestartKeepsStep ==
  ASSUME TypeOK, TypeOK', ~rtu_up, RTUReceiveUA, in_step'
  PROVE  StepFacts' /\ RestartInv'
<1>1. /\ rtu_vs' = 0 /\ rtu_sent' = <<>> /\ to_rtu' = Tail(to_rtu) /\ Restarted /\ to_rtu # <<>>
      /\ UNCHANGED <<m_protocol_state, m_nr, pending, handled, analysing, from_rtu>>
  BY DEF RTUReceiveUA, pluginVars, stateVars, threadVars
<1>2. /\ from_rtu' = <<>> /\ analysing' = {} /\ DOMAIN from_rtu' = {}
      /\ \A i \in DOMAIN to_rtu' : to_rtu'[i].type # "RR"
  BY <1>1 DEF Restarted, Types
<1>3. Expected' = 0
  BY <1>1 DEF Restarted, Expected, Restarting
<1>4. Len(rtu_sent') = 0 /\ DOMAIN rtu_sent' = {}
  BY <1>1
<1>5. Base' = 0 /\ Ahead(Expected', Base') = 0
  BY <1>1, <1>3, <1>4, AheadType DEF Base
<1>6. WindowHandled'
  BY <1>4, <1>5 DEF WindowHandled, Distance
<1>7. FramesCurrent' /\ AcksInOrder'
  BY <1>2 DEF FramesCurrent, AcksInOrder
<1>8. RestartInv'
  BY <1>1, <1>2 DEF RestartInv, Restarted, Restarting
<1>9. QED
  BY <1>6, <1>7, <1>8 DEF StepFacts

---------------------------------------------------------------------------
(* Acknowledged messages were handled                                       *)

\* A transition outside the connection keeps the number that is expected, in step.
LEMMA TransitionKeepsExpected ==
  ASSUME NEW t \in m_protocolStateTransitionMap, applyTransition(t), in_step',
         IF t.on = "RECEIVED_SARM" THEN Restarting /\ ~Restarting'
         ELSE (~Restarting /\ ~Restarting') \/ (Restarting /\ Restarting')
  PROVE  Expected' = Expected /\ in_step /\ t.to \in InputStates /\ m_protocol_state' = t.to
<1>1. /\ in_step /\ t.to \in InputStates /\ (t.on = "RECEIVED_SARM" \/ ~ResetsInput(t) \/ m_nr = 0)
      /\ m_nr' = (IF ResetsInput(t) THEN 0 ELSE m_nr) /\ m_protocol_state' = t.to
  BY DEF applyTransition
<1>2. CASE t.on = "RECEIVED_SARM"
  <2>1. m_nr' = 0
    BY <1>1, <1>2, EntryFacts
  <2>2. QED
    BY <1>1, <1>2, <2>1 DEF Expected
<1>3. CASE t.on # "RECEIVED_SARM"
  BY <1>1, <1>3 DEF Expected
<1>4. QED
  BY <1>2, <1>3

\* A transition of another thread, or of the receive thread.
LEMMA TransitionKeepsInv ==
  ASSUME TypeOK, ReceptionInv, NEW t \in m_protocolStateTransitionMap, applyTransition(t),
         NEW closing \in BOOLEAN, CloseIf(closing), UNCHANGED <<window, analysing, handled>>,
         \/ t.on # "RECEIVED_SARM" /\ UNCHANGED pending
         \/ t \in pending /\ pending' = {}
  PROVE  ReceptionInv'
<1>1. ThreadInv'
  BY DEF ReceptionInv, ThreadInv
<1>2. IF t.on = "RECEIVED_SARM" THEN Restarting /\ ~Restarting'
      ELSE (~Restarting /\ ~Restarting') \/ (Restarting /\ Restarting')
  BY DEF ReceptionInv, ThreadInv, Restarting
<1>3. in_step' => Expected' = Expected /\ in_step /\ m_protocol_state' \in InputStates
  BY <1>2, TransitionKeepsExpected
<1>4. CASE closing
  <2>1. /\ from_rtu' = <<>> /\ rtu_sent' = <<>> /\ rtu_up' = FALSE
        /\ DOMAIN from_rtu' = {} /\ DOMAIN rtu_sent' = {} /\ Len(rtu_sent') = 0
    <3>1. from_rtu' = <<>> /\ rtu_sent' = <<>>
      BY <1>4 DEF CloseIf
    <3>2. rtu_up' = FALSE
      BY <1>4, Zenon DEF CloseIf
    <3>3. QED
      BY <3>1, <3>2
  <2>2. RTUNumbers'
    <3>1. window' \in 1..7
      BY ReceptionAssumption DEF TypeOK
    <3>2. 0 <= window'
      BY <3>1
    <3>3. QED
      BY <2>1, <3>2 DEF RTUNumbers
  <2>3. RestartInv' /\ StepInv'
    BY <1>3, <2>1 DEF RestartInv, StepInv
  <2>4. QED
    BY <1>1, <2>2, <2>3 DEF ReceptionInv
<1>5. CASE ~closing
  <2>1. UNCHANGED <<to_rtu, from_rtu, rtu_sent, rtu_vs>> /\ rtu_up' = rtu_up
    <3>1. UNCHANGED <<to_rtu, from_rtu, rtu_sent, rtu_vs>>
      BY <1>5 DEF CloseIf
    <3>2. rtu_up \in BOOLEAN /\ rtu_up' = (rtu_up /\ ~closing)
      BY Zenon DEF CloseIf, TypeOK
    <3>3. rtu_up' = rtu_up
      BY <1>5, <3>2
    <3>4. QED
      BY <3>1, <3>3
  <2>2. RTUNumbers'
    BY <2>1 DEF ReceptionInv, RTUNumbers, Distance, Base
  <2>3. RestartInv'
    BY <1>3, <2>1 DEF ReceptionInv, RestartInv
  <2>4. StepInv'
    <3> SUFFICES ASSUME in_step', rtu_up' PROVE StepFacts'
      BY DEF StepInv
    <3>1. StepFacts /\ Expected' = Expected
      BY <1>3, <2>1 DEF ReceptionInv, StepInv
    <3>2. InfosLeft(0) /\ AcksLeft(0)
      <4>1. (\A i \in DOMAIN from_rtu : i \in Nat /\ i + 0 = i) /\ (\A i \in DOMAIN to_rtu : i \in Nat /\ i + 0 = i)
        BY DistanceTypes
      <4>2. QED
        BY <2>1, <4>1 DEF InfosLeft, AcksLeft
    <3>3. QED
      BY <2>1, <3>1, <3>2, LossKeepsStep
  <2>5. QED
    BY <1>1, <2>2, <2>3, <2>4 DEF ReceptionInv
<1>6. QED
  BY <1>4, <1>5

\* What a channel holds afterwards: a part of what it held, or one frame more, that
\* is neither an INFO nor a RR.
FewerBy(q, r, n) ==
  \A i \in DOMAIN r :
    /\ i \in Nat
    /\ \/ i + n \in DOMAIN q /\ r[i] = q[i + n]
       \/ r[i].type = "UA"
       \/ r[i] = Bare("SARM")
Fewer(q, r) == \E n \in Nat : FewerBy(q, r, n)

\* A channel that is left, read or added to.
LEMMA FewerFacts ==
  ASSUME NEW S, NEW q \in Seq(S), Bare("UA") \in S, Bare("SARM") \in S
  PROVE  /\ Fewer(q, q)
         /\ q # <<>> => Fewer(q, Tail(q))
         /\ Fewer(q, Put(q, Bare("UA"))) /\ Fewer(q, Put(q, Bare("SARM")))
<1>1. \A i \in DOMAIN q : i \in Nat /\ i + 0 \in DOMAIN q /\ q[i] = q[i + 0]
  BY LenProperties
<1>2. 0 \in Nat /\ 1 \in Nat
  OBVIOUS
<1>3. Fewer(q, q)
  BY <1>1, <1>2 DEF Fewer, FewerBy
<1>4. q # <<>> => Fewer(q, Tail(q))
  BY <1>2, TailFacts DEF Fewer, FewerBy
<1>5. ASSUME NEW f \in S, f = Bare("UA") \/ f = Bare("SARM")
      PROVE  Fewer(q, Put(q, f))
  <2>1. \A i \in DOMAIN Put(q, f) :
          \/ i \in DOMAIN q /\ Put(q, f)[i] = q[i]
          \/ i = Len(q) + 1 /\ Put(q, f)[i] = f
    BY PutFacts
  <2>2. Len(q) + 1 \in Nat
    BY LenProperties
  <2>3. f.type = "UA" \/ f = Bare("SARM")
    BY <1>5 DEF Bare
  <2>4. \A i \in DOMAIN Put(q, f) :
          /\ i \in Nat
          /\ \/ i + 0 \in DOMAIN q /\ Put(q, f)[i] = q[i + 0]
             \/ Put(q, f)[i].type = "UA"
             \/ Put(q, f)[i] = Bare("SARM")
    BY <1>1, <2>1, <2>2, <2>3
  <2>5. QED
    BY <1>2, <2>4 DEF Fewer, FewerBy
<1>6. QED
  BY <1>3, <1>4, <1>5

\* A step that only loses frames, or adds SARM and UA, keeps the invariant.
LEMMA LossKeepsInv ==
  ASSUME TypeOK, ReceptionInv, UNCHANGED <<window, rtu_vs, rtu_sent, rtu_up, in_step>>,
         ThreadInv', in_step => Expected' = Expected,
         in_step => m_protocol_state' \in InputStates \/ Restarting',
         handled \subseteq handled', analysing' \subseteq analysing,
         Fewer(from_rtu, from_rtu'), Fewer(to_rtu, to_rtu'),
         \A i \in DOMAIN from_rtu' : from_rtu'[i] # Bare("SARM") \/ ~in_step
  PROVE  ReceptionInv'
<1>1. RTUNumbers'
  BY DEF ReceptionInv, RTUNumbers, Distance, Base
<1>2. PICK p \in Nat : FewerBy(from_rtu, from_rtu', p)
  BY DEF Fewer
<1>3. PICK n \in Nat : FewerBy(to_rtu, to_rtu', n)
  BY DEF Fewer
<1>4. InfosLeft(p) /\ AcksLeft(n)
  BY <1>2, <1>3 DEF FewerBy, InfosLeft, AcksLeft, Bare
<1>5. RestartInv'
  <2> SUFFICES ASSUME in_step PROVE \A i \in DOMAIN from_rtu' : from_rtu'[i].type # "SARM"
    BY DEF RestartInv
  <2>1. \A i \in DOMAIN from_rtu : from_rtu[i].type # "SARM"
    BY DEF ReceptionInv, RestartInv
  <2>2. QED
    BY <1>2, <2>1 DEF FewerBy
<1>6. StepInv'
  BY <1>4, LossKeepsStep DEF ReceptionInv, StepInv
<1>7. QED
  BY <1>1, <1>5, <1>6 DEF ReceptionInv

\* The channels, and what is left or added to them.
LEMMA ChannelFacts ==
  ASSUME TypeOK
  PROVE  /\ Fewer(from_rtu, from_rtu) /\ Fewer(to_rtu, to_rtu)
         /\ from_rtu # <<>> => Fewer(from_rtu, Tail(from_rtu))
         /\ to_rtu # <<>> => Fewer(to_rtu, Tail(to_rtu))
         /\ Fewer(from_rtu, Put(from_rtu, Bare("UA")))
         /\ Fewer(to_rtu, Put(to_rtu, Bare("UA"))) /\ Fewer(to_rtu, Put(to_rtu, Bare("SARM")))
  BY Halves, FrameTypes, FewerFacts DEF RTUType

\* In step, no SARM is in what is left of the channel from the RTU.
LEMMA NoSarmLeft ==
  ASSUME TypeOK, RestartInv, in_step
  PROVE  /\ \A i \in DOMAIN from_rtu : from_rtu[i] # Bare("SARM")
         /\ from_rtu # <<>> => \A i \in DOMAIN Tail(from_rtu) : Tail(from_rtu)[i] # Bare("SARM")
         /\ \A i \in DOMAIN Put(from_rtu, Bare("UA")) : Put(from_rtu, Bare("UA"))[i] # Bare("SARM")
<1>1. from_rtu \in Seq(FromRTU) /\ Bare("UA") \in FromRTU /\ Bare("UA") # Bare("SARM")
  BY Halves, FrameTypes DEF RTUType, Bare
<1>2. \A i \in DOMAIN from_rtu : from_rtu[i] # Bare("SARM")
  BY DEF RestartInv, Bare
<1>3. from_rtu # <<>> => \A i \in DOMAIN Tail(from_rtu) : Tail(from_rtu)[i] # Bare("SARM")
  BY <1>1, <1>2, TailFacts
<1>4. \A i \in DOMAIN Put(from_rtu, Bare("UA")) :
        \/ i \in DOMAIN from_rtu /\ Put(from_rtu, Bare("UA"))[i] = from_rtu[i]
        \/ Put(from_rtu, Bare("UA"))[i] = Bare("UA")
  BY <1>1, PutFacts
<1>5. QED
  BY <1>1, <1>2, <1>3, <1>4

\* The steps of the receive thread keep the invariant.
LEMMA ReceiveKeepsInv ==
  ASSUME TypeOK, TypeOK', ReceptionInv, ReceiveNext \/ RefuseInfo
  PROVE  ReceptionInv'
<1> USE DEF stateVars, threadVars, rtuVars
<1>1. RTUNumbers /\ ThreadInv /\ RestartInv /\ StepInv
  BY DEF ReceptionInv
<1>2. CASE ReceiveSARM
  <2>1. /\ from_rtu # <<>> /\ Head(from_rtu).type = "SARM" /\ pending = {} /\ analysing = {}
        /\ from_rtu' = Tail(from_rtu) /\ to_rtu' = Put(to_rtu, Bare("UA"))
        /\ UNCHANGED <<window, m_protocol_state, m_nr, analysing, handled, rtu_up, rtu_vs, rtu_sent, in_step>>
    BY <1>2 DEF ReceiveSARM, Receives, ReceiverIdle
  <2>2. ~in_step
    <3>1. from_rtu \in Seq(FromRTU)
      BY Halves DEF RTUType
    <3>2. 1 \in DOMAIN from_rtu /\ Head(from_rtu) = from_rtu[1]
      BY <2>1, <3>1, TailFacts
    <3>3. QED
      BY <1>1, <2>1, <3>2 DEF RestartInv
  <2>3. ThreadInv'
    <3>1. \A t \in pending' : t.on = "RECEIVED_SARM"
      BY <1>2, <2>1, LookUpFacts DEF ReceiveSARM
    <3>2. QED
      BY <2>1, <3>1 DEF ThreadInv
  <2>4. QED
    BY <2>1, <2>2, <2>3, ChannelFacts, LossKeepsInv
<1>3. ASSUME NEW event \in {"RECEIVED_UA", "TCP_CNX_LOST"}, LookUp(event), pending = {}, analysing = {},
             Fewer(from_rtu, from_rtu'), in_step => \A i \in DOMAIN from_rtu' : from_rtu'[i] # Bare("SARM"),
             UNCHANGED <<window, m_protocol_state, m_nr, analysing, handled, to_rtu, rtu_up, rtu_vs, rtu_sent, in_step>>
      PROVE  ReceptionInv'
  <2>1. \A t \in pending' : t.on = event
    BY <1>3, LookUpFacts
  <2>2. ThreadInv' /\ ~Restarting /\ ~Restarting'
    BY <1>3, <2>1 DEF ThreadInv, Restarting
  <2>3. Expected' = Expected /\ (in_step => m_protocol_state' \in InputStates)
    BY <1>1, <1>3, <2>2 DEF Expected, RestartInv
  <2>4. QED
    BY <1>3, <2>2, <2>3, ChannelFacts, LossKeepsInv
<1>4. CASE ReceiveUA
  <2>1. /\ LookUp("RECEIVED_UA") /\ pending = {} /\ analysing = {} /\ from_rtu # <<>> /\ from_rtu' = Tail(from_rtu)
        /\ UNCHANGED <<window, m_protocol_state, m_nr, analysing, handled, to_rtu, rtu_up, rtu_vs, rtu_sent, in_step>>
    BY <1>4 DEF ReceiveUA, Receives, ReceiverIdle
  <2>2. Fewer(from_rtu, from_rtu') /\ (in_step => \A i \in DOMAIN from_rtu' : from_rtu'[i] # Bare("SARM"))
    BY <1>1, <2>1, ChannelFacts, NoSarmLeft
  <2>3. QED
    BY <1>3, <2>1, <2>2
<1>5. CASE ReceiveNothing
  <2>1. /\ LookUp("TCP_CNX_LOST") /\ pending = {} /\ analysing = {} /\ from_rtu' = from_rtu
        /\ UNCHANGED <<window, m_protocol_state, m_nr, analysing, handled, to_rtu, rtu_up, rtu_vs, rtu_sent, in_step>>
    BY <1>5 DEF ReceiveNothing, ReceiverIdle
  <2>2. Fewer(from_rtu, from_rtu') /\ (in_step => \A i \in DOMAIN from_rtu' : from_rtu'[i] # Bare("SARM"))
    BY <1>1, <2>1, ChannelFacts, NoSarmLeft
  <2>3. QED
    BY <1>3, <2>1, <2>2
<1>6. CASE ApplyTransition
  <2>1. PICK t \in pending : applyTransition(t) /\ CloseIf(Calls(t, "stopTCP"))
    BY <1>6 DEF ApplyTransition
  <2>2. t \in m_protocolStateTransitionMap /\ Calls(t, "stopTCP") \in BOOLEAN
    BY <2>1 DEF TypeOK, Calls
  <2>3. pending' = {} /\ UNCHANGED <<window, analysing, handled>>
    BY <1>6 DEF ApplyTransition
  <2>4. QED
    BY <2>1, <2>2, <2>3, TransitionKeepsInv
\* What does not change the thread or the numbers.
<1>7. ASSUME UNCHANGED <<window, m_protocol_state, m_nr, pending, handled, to_rtu, rtu_up, rtu_vs, rtu_sent, in_step>>,
             analysing' \subseteq analysing, from_rtu' = from_rtu \/ (from_rtu # <<>> /\ from_rtu' = Tail(from_rtu))
      PROVE  ReceptionInv'
  <2>1. ThreadInv' /\ Expected' = Expected /\ (in_step => m_protocol_state' \in InputStates \/ Restarting')
    BY <1>1, <1>7 DEF ThreadInv, Expected, Restarting, RestartInv
  <2>2. Fewer(from_rtu, from_rtu') /\ (in_step => \A i \in DOMAIN from_rtu' : from_rtu'[i] # Bare("SARM"))
    BY <1>1, <1>7, ChannelFacts, NoSarmLeft
  <2>3. QED
    BY <1>7, <2>1, <2>2, ChannelFacts, LossKeepsInv
<1>8. CASE AnalyzeInfo
  <2>1. /\ pending = {} /\ analysing = {} /\ from_rtu # <<>> /\ Head(from_rtu).type = "INFO" /\ from_rtu' = Tail(from_rtu)
        /\ analysing' = (IF m_protocol_state = "CONNECTION" THEN {} ELSE {Head(from_rtu)})
        /\ UNCHANGED <<window, m_protocol_state, m_nr, pending, handled, to_rtu, rtu_up, rtu_vs, rtu_sent, in_step>>
    BY <1>8 DEF AnalyzeInfo, Receives, ReceiverIdle
  <2>2. CASE m_protocol_state = "CONNECTION"
    BY <1>7, <2>1, <2>2
  <2>3. CASE m_protocol_state # "CONNECTION"
    <3>1. analysing' = {Head(from_rtu)}
      BY <2>1, <2>3
    <3>2. RTUNumbers' /\ ThreadInv'
      BY <1>1, <2>1 DEF RTUNumbers, ThreadInv, Distance, Base
    <3>3. RestartInv'
      <4> SUFFICES ASSUME in_step PROVE \A i \in DOMAIN from_rtu' : from_rtu'[i].type # "SARM"
        BY <1>1, <2>1 DEF RestartInv, Restarting
      <4>1. from_rtu \in Seq(FromRTU)
        BY Halves DEF RTUType
      <4>2. \A i \in DOMAIN from_rtu' : i + 1 \in DOMAIN from_rtu /\ from_rtu'[i] = from_rtu[i + 1]
        BY <2>1, <4>1, TailFacts
      <4>3. QED
        BY <1>1, <4>2 DEF RestartInv
    <3>4. StepInv'
      BY <1>1, <2>1, <3>1, AnalyzeKeepsStep DEF StepInv
    <3>5. QED
      BY <3>2, <3>3, <3>4 DEF ReceptionInv
  <2>4. QED
    BY <2>2, <2>3
<1>9. CASE ReceiveInfo
  <2>1. /\ UNCHANGED <<window, m_protocol_state, pending, from_rtu, rtu_up, rtu_vs, rtu_sent, in_step>>
        /\ analysing' = {}
    BY <1>9 DEF ReceiveInfo
  <2>2. RTUNumbers' /\ ThreadInv' /\ RestartInv'
    BY <1>1, <2>1 DEF RTUNumbers, ThreadInv, RestartInv, Restarting, Distance, Base
  <2>3. StepInv'
    BY <1>1, <1>9, <2>1, InfoKeepsStep DEF StepInv
  <2>4. QED
    BY <2>2, <2>3 DEF ReceptionInv
<1>10. CASE JoinConnectionThread \/ Reconnect
  <2>1. /\ UNCHANGED <<window, m_protocol_state, m_nr, pending, handled, to_rtu, rtu_up, rtu_vs, rtu_sent, in_step>>
        /\ analysing' = analysing /\ from_rtu' = from_rtu
    BY <1>10 DEF JoinConnectionThread, Reconnect
  <2>2. QED
    BY <1>7, <2>1
<1>11. CASE RefuseInfo
  <2>1. /\ UNCHANGED <<window, m_protocol_state, m_nr, pending, handled, to_rtu, rtu_up, rtu_vs, rtu_sent, in_step>>
        /\ analysing' = {} /\ from_rtu' = from_rtu
    BY <1>11 DEF RefuseInfo
  <2>2. QED
    BY <1>7, <2>1
<1>12. QED
  BY <1>2, <1>4, <1>5, <1>6, <1>8, <1>9, <1>10, <1>11 DEF ReceiveNext

\* So do those of the other threads.
LEMMA TimersKeepInv ==
  ASSUME TypeOK, TypeOK', ReceptionInv, ManageSarm \/ (\E event \in ConnectionEvent : Timeout(event)) \/ Elapse
  PROVE  ReceptionInv'
<1> USE DEF stateVars, threadVars, rtuVars
<1>1. RTUNumbers /\ ThreadInv /\ RestartInv /\ StepInv
  BY DEF ReceptionInv
<1>2. ASSUME UNCHANGED <<window, m_protocol_state, m_nr, threadVars, handled, from_rtu, rtu_up, rtu_vs, rtu_sent, in_step>>,
             to_rtu' = to_rtu \/ to_rtu' = Put(to_rtu, Bare("SARM"))
      PROVE  ReceptionInv'
  <2>1. ThreadInv' /\ Expected' = Expected /\ (in_step => m_protocol_state' \in InputStates \/ Restarting')
    BY <1>1, <1>2 DEF ThreadInv, Expected, Restarting, RestartInv
  <2>2. /\ Fewer(from_rtu, from_rtu') /\ Fewer(to_rtu, to_rtu')
        /\ in_step => \A i \in DOMAIN from_rtu' : from_rtu'[i] # Bare("SARM")
    BY <1>1, <1>2, ChannelFacts, NoSarmLeft
  <2>3. QED
    BY <1>2, <2>1, <2>2, LossKeepsInv
<1>3. CASE ManageSarm
  <2>1. CASE SarmsExhausted
    <3>1. PICK t \in TransitionsOf(m_protocol_state, "MAX_SARM_SENT") : applyTransition(t) /\ CloseIf(TRUE)
      BY <1>3, <2>1 DEF ManageSarm
    <3>2. t \in m_protocolStateTransitionMap /\ t.on = "MAX_SARM_SENT"
      BY <1>3, <3>1, SarmEntry, LockedFacts DEF ManageSarm
    <3>3. UNCHANGED <<window, pending, analysing, handled>>
      BY <1>3 DEF ManageSarm
    <3>4. QED
      BY <3>1, <3>2, <3>3, TransitionKeepsInv
  <2>2. CASE ~SarmsExhausted
    BY <1>2, <1>3, <2>2 DEF ManageSarm
  <2>3. QED
    BY <2>1, <2>2
<1>4. ASSUME NEW event \in ConnectionEvent, Timeout(event)
      PROVE  ReceptionInv'
  <2>1. PICK t \in TransitionsOf(m_protocol_state, event) : applyTransition(t) /\ CloseIf(Calls(t, "stopTCP"))
    BY <1>4 DEF Timeout, LockedTransition
  <2>2. t \in m_protocolStateTransitionMap /\ t.on = event /\ Calls(t, "stopTCP") \in BOOLEAN
    BY <1>4, <2>1, LockedFacts DEF Timeout, LockedTransition, Calls
  <2>3. event # "RECEIVED_SARM" /\ UNCHANGED <<window, pending, analysing, handled>>
    BY <1>4 DEF Timeout
  <2>4. QED
    BY <2>1, <2>2, <2>3, TransitionKeepsInv
<1>5. CASE Elapse
  BY <1>2, <1>5 DEF Elapse
<1>6. QED
  BY <1>3, <1>4, <1>5

\* And those of the RTU and of the network.
LEMMA RTUKeepsInv ==
  ASSUME TypeOK, TypeOK', ReceptionInv,
         RTUReceive \/ (\E id \in 0..MaxMessages : RTUSend(id)) \/ RTUTimers \/ RTURestart \/ Lose \/ TCPLost
  PROVE  ReceptionInv'
<1> USE DEF stateVars, threadVars, rtuVars, pluginVars
<1>1. RTUNumbers /\ ThreadInv /\ RestartInv /\ StepInv
  BY DEF ReceptionInv
\* The thread and the state stay as they are.
<1>2. ASSUME UNCHANGED <<window, m_protocol_state, m_nr, pending, analysing, in_step>>
      PROVE  /\ ThreadInv' /\ Expected' = Expected
             /\ in_step => m_protocol_state' \in InputStates \/ Restarting'
             /\ from_rtu' = from_rtu => RestartInv'
  BY <1>1, <1>2 DEF ThreadInv, Expected, Restarting, RestartInv
<1>3. ASSUME UNCHANGED <<window, m_protocol_state, m_nr, pending, analysing, handled, rtu_up, rtu_vs, rtu_sent, in_step>>,
             from_rtu' = from_rtu \/ (from_rtu # <<>> /\ from_rtu' = Tail(from_rtu)) \/ from_rtu' = Put(from_rtu, Bare("UA")),
             to_rtu' = to_rtu \/ (to_rtu # <<>> /\ to_rtu' = Tail(to_rtu))
      PROVE  ReceptionInv'
  <2>1. /\ Fewer(from_rtu, from_rtu') /\ Fewer(to_rtu, to_rtu')
        /\ in_step => \A i \in DOMAIN from_rtu' : from_rtu'[i] # Bare("SARM")
    BY <1>1, <1>3, ChannelFacts, NoSarmLeft
  <2>2. QED
    BY <1>2, <1>3, <2>1, LossKeepsInv
\* The window of the RTU becomes empty.
<1>4. ASSUME UNCHANGED window, rtu_sent' = <<>>
      PROVE  RTUNumbers'
  <2>1. window' \in 1..7 /\ Len(rtu_sent') = 0 /\ DOMAIN rtu_sent' = {}
    BY <1>4, ReceptionAssumption DEF TypeOK
  <2>2. 0 <= window'
    BY <2>1
  <2>3. QED
    BY <2>1, <2>2 DEF RTUNumbers
<1>5. CASE RTUReceiveUA
  <2>1. CASE rtu_up
    <3>1. /\ UNCHANGED <<window, m_protocol_state, m_nr, pending, analysing, handled, rtu_up, rtu_vs, rtu_sent, in_step>>
          /\ from_rtu' = from_rtu /\ to_rtu # <<>> /\ to_rtu' = Tail(to_rtu)
      BY <1>5, <2>1 DEF RTUReceiveUA
    <3>2. QED
      BY <1>3, <3>1
  <2>2. CASE ~rtu_up
    <3>1. rtu_sent' = <<>> /\ UNCHANGED <<window, pending, analysing>>
      BY <1>5, <2>2 DEF RTUReceiveUA
    <3>2. RTUNumbers' /\ ThreadInv'
      BY <1>1, <1>4, <3>1 DEF ThreadInv
    <3>3. in_step' => StepFacts' /\ RestartInv'
      BY <1>5, <2>2, RestartKeepsStep
    <3>4. RestartInv' /\ StepInv'
      BY <3>3 DEF RestartInv, StepInv
    <3>5. QED
      BY <3>2, <3>4 DEF ReceptionInv
  <2>3. QED
    BY <2>1, <2>2
<1>6. CASE RTUReceiveSARM
  BY <1>3, <1>6 DEF RTUReceiveSARM
<1>7. CASE RTUReceiveRR
  <2> DEFINE k == IF rtu_up THEN AcknowledgedBy(Head(to_rtu).nr) ELSE 0
  <2>1. /\ UNCHANGED <<window, m_protocol_state, m_nr, pending, analysing, in_step, from_rtu, rtu_up, rtu_vs>>
        /\ rtu_sent' = SubSeq(rtu_sent, k + 1, Len(rtu_sent))
    BY <1>7 DEF RTUReceiveRR
  <2>2. k \in 0..Len(rtu_sent)
    <3>1. Head(to_rtu) \in ToRTU /\ Head(to_rtu).type = "RR"
      BY <1>7, TailType DEF RTUReceiveRR
    <3>2. Len(rtu_sent) \in Nat
      BY WindowTypes
    <3>3. AcknowledgedBy(Head(to_rtu).nr) \in 0..Len(rtu_sent)
      BY <3>1, NumberedRR, AcknowledgedFacts
    <3>4. QED
      BY <3>2, <3>3
  <2> HIDE DEF k
  <2>3. RTUNumbers'
    BY <1>1, <2>1, <2>2, RebaseKeepsNumbers
  <2>4. ThreadInv' /\ RestartInv'
    BY <1>2, <2>1
  <2>5. StepInv'
    BY <1>1, <1>7, <2>1, AckKeepsStep DEF StepInv
  <2>6. QED
    BY <2>3, <2>4, <2>5 DEF ReceptionInv
<1>8. ASSUME NEW id \in 0..MaxMessages, RTUSend(id)
      PROVE  ReceptionInv'
  <2>1. /\ UNCHANGED <<window, m_protocol_state, m_nr, pending, analysing, in_step, rtu_up>>
        /\ from_rtu' = Put(from_rtu, INFO(id, rtu_vs, FALSE))
    BY <1>8 DEF RTUSend
  <2>2. RTUNumbers'
    BY <1>1, <1>8, SendKeepsNumbers
  <2>3. RestartInv'
    <3>1. from_rtu \in Seq(FromRTU) /\ INFO(id, rtu_vs, FALSE) \in FromRTU /\ INFO(id, rtu_vs, FALSE).type = "INFO"
      BY WindowTypes, FrameTypes, Halves DEF RTUType, INFO
    <3>2. \A i \in DOMAIN from_rtu' :
            (i \in DOMAIN from_rtu /\ from_rtu'[i] = from_rtu[i]) \/ from_rtu'[i] = INFO(id, rtu_vs, FALSE)
      BY <2>1, <3>1, PutFacts
    <3>3. QED
      BY <1>1, <1>2, <2>1, <3>1, <3>2 DEF RestartInv
  <2>4. StepInv'
    BY <1>1, <1>8, <2>1, SendKeepsStep DEF StepInv
  <2>5. QED
    BY <1>2, <2>1, <2>2, <2>3, <2>4 DEF ReceptionInv
<1>9. CASE RTURepeat
  <2> DEFINE frame == INFO(Head(rtu_sent).id, Head(rtu_sent).ns, TRUE)
  <2>1. /\ UNCHANGED <<window, m_protocol_state, m_nr, pending, analysing, in_step, rtu_up, rtu_vs, rtu_sent>>
        /\ from_rtu' = Put(from_rtu, frame) /\ rtu_sent # <<>>
    BY <1>9 DEF RTURepeat
  <2>2. RTUNumbers'
    BY <1>1, <2>1 DEF RTUNumbers, Distance, Base
  <2>3. RestartInv'
    <3>1. rtu_sent \in Seq(Sent)
      BY WindowTypes
    <3>2. 1 \in DOMAIN rtu_sent /\ Head(rtu_sent) = rtu_sent[1]
      BY <2>1, <3>1, TailFacts
    <3>3. frame \in FromRTU /\ frame.type = "INFO" /\ from_rtu \in Seq(FromRTU)
      BY <3>2, WindowTypes, FrameTypes, Halves DEF RTUType, INFO
    <3> HIDE DEF frame
    <3>4. \A i \in DOMAIN from_rtu' :
            (i \in DOMAIN from_rtu /\ from_rtu'[i] = from_rtu[i]) \/ from_rtu'[i] = frame
      BY <2>1, <3>3, PutFacts
    <3>5. QED
      BY <1>1, <1>2, <2>1, <3>3, <3>4 DEF RestartInv
  <2>4. StepInv'
    BY <1>1, <1>9, <2>1, RepeatKeepsStep DEF StepInv
  <2>5. QED
    BY <1>2, <2>1, <2>2, <2>3, <2>4 DEF ReceptionInv
<1>10. CASE RTUSendSARM \/ RTURestart
  <2>1. SendSARM
    BY <1>10 DEF RTUSendSARM, RTURestart
  <2>2. rtu_sent' = <<>> /\ ~in_step' /\ UNCHANGED <<window, pending, analysing>>
    BY <2>1 DEF SendSARM
  <2>3. RTUNumbers' /\ ThreadInv' /\ RestartInv' /\ StepInv'
    BY <1>1, <1>4, <2>2 DEF ThreadInv, RestartInv, StepInv
  <2>4. QED
    BY <2>3 DEF ReceptionInv
<1>11. CASE Lose
  <2>1. UNCHANGED <<window, m_protocol_state, m_nr, pending, analysing, handled, rtu_up, rtu_vs, rtu_sent, in_step>>
    BY <1>11 DEF Lose
  <2>2. \/ to_rtu # <<>> /\ to_rtu' = Tail(to_rtu) /\ from_rtu' = from_rtu
        \/ from_rtu # <<>> /\ from_rtu' = Tail(from_rtu) /\ to_rtu' = to_rtu
    BY <1>11 DEF Lose
  <2>3. QED
    BY <1>3, <2>1, <2>2
<1>12. CASE TCPLost
  <2>1. CloseIf(TRUE) /\ UNCHANGED <<window, m_protocol_state, m_nr, pending, analysing, in_step>>
    BY <1>12 DEF TCPLost
  <2>2. rtu_sent' = <<>> /\ from_rtu' = <<>> /\ DOMAIN from_rtu' = {}
    BY <2>1 DEF CloseIf
  <2>3. rtu_up' = FALSE
    BY <2>1, Zenon DEF CloseIf
  <2>4. RTUNumbers' /\ ThreadInv' /\ RestartInv' /\ StepInv'
    BY <1>2, <1>4, <2>1, <2>2, <2>3 DEF RestartInv, StepInv
  <2>5. QED
    BY <2>4 DEF ReceptionInv
<1>13. QED
  BY <1>5, <1>6, <1>7, <1>8, <1>9, <1>10, <1>11, <1>12 DEF RTUReceive, RTUTimers

\* The invariant of the numbers.
THEOREM ReceptionInvariance ==
  Spec => []ReceptionInv
<1>1. ASSUME Init PROVE ReceptionInv
  <2>1. /\ pending = {} /\ from_rtu = <<>> /\ to_rtu = <<>> /\ analysing = {} /\ rtu_sent = <<>> /\ rtu_vs = m_nr
        /\ m_protocol_state \in InputStates /\ m_nr \in 0..7 /\ window \in 1..7
    BY <1>1, ReceptionAssumption DEF Init, InputStates
  <2>2. DOMAIN from_rtu = {} /\ DOMAIN to_rtu = {} /\ DOMAIN rtu_sent = {} /\ Len(rtu_sent) = 0 /\ 0 <= window
    BY <2>1
  <2>3. Expected = rtu_vs /\ Ahead(rtu_vs, Ahead(rtu_vs, 0)) = 0
    BY <2>1, AheadOfWindow DEF Expected, Restarting
  <2>4. Distance(Expected) = 0
    BY <2>2, <2>3 DEF Distance, Base
  <2>5. WindowHandled /\ FramesCurrent /\ AcksInOrder
    BY <2>1, <2>2, <2>4 DEF WindowHandled, FramesCurrent, AcksInOrder
  <2>6. RTUNumbers /\ ThreadInv /\ RestartInv
    BY <2>1, <2>2 DEF RTUNumbers, ThreadInv, RestartInv
  <2>7. QED
    BY <2>5, <2>6 DEF ReceptionInv, StepInv, StepFacts
<1>2. ASSUME ReceptionInv, UNCHANGED vars PROVE ReceptionInv'
  BY <1>2 DEF ReceptionInv, RTUNumbers, ThreadInv, RestartInv, StepInv, StepFacts, WindowHandled, FramesCurrent,
              AcksInOrder, Current, Later, Distance, Base, Expected, Restarting, vars, stateVars, threadVars, rtuVars
<1>3. ASSUME ReceptionInv, TypeOK, TypeOK', Next PROVE ReceptionInv'
  BY <1>3, ReceiveKeepsInv, TimersKeepInv, RTUKeepsInv DEF Next
<1>4. ReceptionInv /\ TypeOK /\ TypeOK' /\ [Next]_vars => ReceptionInv'
  BY <1>2, <1>3
<1>5. QED
  BY <1>1, <1>4, TypeCorrectness, PTL DEF Spec

\* In step, a RR on its way acknowledges only messages that were handed to
\* m_handle_message: a frame that is lost, repeated, refused or overtaken by an
\* early restart is never taken for one that was received.
THEOREM AcknowledgedMessagesWereHandled ==
  Spec => []AckedWasHandled
<1>1. ASSUME TypeOK, ReceptionInv PROVE AckedWasHandled
  <2> SUFFICES ASSUME in_step, rtu_up, NEW i \in DOMAIN to_rtu, to_rtu[i].type = "RR",
                      NEW j \in 1..AcknowledgedBy(to_rtu[i].nr)
               PROVE  rtu_sent[j].id \in handled \cup {0}
    BY DEF AckedWasHandled, FalseAck
  <2> DEFINE nr == to_rtu[i].nr
  <2>1. /\ nr \in 0..7 /\ Distance(nr) \in 0..7 /\ Distance(Expected) \in 0..7
    BY <1>1, DistanceTypes
  <2>2. RTUNumbers /\ WindowHandled /\ Distance(nr) <= Distance(Expected)
    BY <1>1 DEF ReceptionInv, StepInv, StepFacts, AcksInOrder
  <2> HIDE DEF nr
  <2>3. j \in 1..AcknowledgedBy(nr) /\ AcknowledgedBy(nr) \in 0..Len(rtu_sent)
    BY <1>1, <2>1, AcknowledgedFacts DEF nr
  <2>4. Len(rtu_sent) \in 0..7 /\ DOMAIN rtu_sent = 1..Len(rtu_sent)
    BY <1>1, <2>2, WindowSize
  <2>5. AcknowledgedBy(nr) # 0 /\ j \in DOMAIN rtu_sent /\ j <= AcknowledgedBy(nr)
    BY <2>3, <2>4
  <2>6. AcknowledgedBy(nr) = Distance(nr)
    BY <1>1, <2>1, <2>2, <2>5, AcknowledgedIsDistance
  <2>7. j <= Distance(Expected)
    BY <2>1, <2>2, <2>4, <2>5, <2>6
  <2>8. QED
    BY <2>2, <2>5, <2>7 DEF WindowHandled
<1>2. QED
  BY <1>1, TypeCorrectness, ReceptionInvariance, PTL
=============================================================================
