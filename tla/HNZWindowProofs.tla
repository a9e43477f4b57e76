-------------------------- MODULE HNZWindowProofs --------------------------
(***************************************************************************)
(* Proofs about HNZWindow, for any settings, start numbers and bounds.     *)
(***************************************************************************)
EXTENDS HNZWindow, SequenceTheorems, TLAPS

---------------------------------------------------------------------------
(* The automaton                                                            *)

Low == {"CONNECTION", "INPUT_CONNECTED"}

\* What the entries of the table do to the queues and to the numbers.
LEMMA EntryFacts ==
  ASSUME NEW t \in m_protocolStateTransitionMap
  PROVE  /\ t.to \in ProtocolState /\ t.from \in ProtocolState
         /\ t.to = "CONNECTION" => ResetsOutput(t)
         /\ t.from \in Low /\ t.to \notin Low => ResetsOutput(t)
         /\ t.from = "CONNECTED" => Discards(t) /\ t.to # "CONNECTED"
                                     /\ (t.to = "OUTPUT_CONNECTED" => ResetsOutput(t))
         /\ t.from = "OUTPUT_CONNECTED" => \/ t.to = "CONNECTION" /\ Discards(t)
                                           \/ t.to = "CONNECTED" /\ ~ResetsOutput(t) /\ ~Discards(t)
         /\ t.on \notin {"RECEIVED_SARM", "RECEIVED_UA"} /\ t.from # "CONNECTED" => t.to = "CONNECTION"
  BY DEF m_protocolStateTransitionMap, Entry, ProtocolState, Low, ResetsOutput, Discards, Calls

\* Looking up an event that has an entry gives an entry of the table.
LEMMA LookupFacts ==
  ASSUME NEW e, HasTransition(m_protocol_state, e), NEW t \in TransitionsOf(m_protocol_state, e)
  PROVE  t \in m_protocolStateTransitionMap /\ t.from = m_protocol_state /\ t.on = e
  BY DEF TransitionsOf

---------------------------------------------------------------------------
(* The invariant                                                            *)

\* In state CONNECTION both numbers are zero.
NumbersAtRest == m_protocol_state = "CONNECTION" => m_ns = 0 /\ m_NRR = 0

\* A transition looked up in t.from is applied in a state that the other
\* threads can have reached from there.
Timely(t) ==
  /\ t.from \in Low => m_protocol_state \in Low
  /\ t.from = "OUTPUT_CONNECTED" => m_protocol_state \in {"OUTPUT_CONNECTED", "CONNECTION"}

WindowInv ==
  /\ WindowBound
  /\ QueuedIsSendable
  /\ NothingStranded
  /\ NumberingConsistent
  /\ NumbersAtRest

IInv == TypeOK /\ WindowInv /\ \A t \in pending : Timely(t)

---------------------------------------------------------------------------
(* Arithmetic and sequences                                                 *)

\* The test of m_isNRValid, for any numbers.
LEMMA NRTest ==
  ASSUME m_ns \in 0..7, m_NRR \in 0..7
  PROVE  NRTestIsModular
  BY DEF NRTestIsModular, m_isNRValid

\* Numbers modulo 8.
LEMMA DistanceMod8 ==
  ASSUME NEW a \in 0..7, NEW l \in 0..7
  PROVE  (((a + l) % 8) - a) % 8 = l
  OBVIOUS

\* Counting l steps, or n steps and then the rest.
LEMMA SplitMod8 ==
  ASSUME NEW a \in 0..7, NEW l \in 0..7, NEW n \in 0..l
  PROVE  (a + l) % 8 = (((a + n) % 8) + (l - n)) % 8
  OBVIOUS

\* Counting from the number n further.
LEMMA ShiftMod8 ==
  ASSUME NEW a \in 0..7, NEW n \in 0..7, NEW i \in Nat
  PROVE  (((a + n) % 8) + i - 1) % 8 = (a + (i + n) - 1) % 8
  OBVIOUS

\* A queue no longer than the ratio has at most seven messages.
LEMMA AtMostSeven ==
  ASSUME NEW l \in Nat, NEW ratio \in 1..7, l <= ratio
  PROVE  l \in 0..7
  OBVIOUS

\* A part of such a queue.
LEMMA AtMostLength ==
  ASSUME NEW l \in 0..7, NEW x \in 0..l
  PROVE  x \in 0..7
  OBVIOUS

\* What is left of l messages when n are removed.
LEMMA LeftOver ==
  ASSUME NEW l \in 0..7, NEW n \in 0..7, NEW left, left = IF n <= l THEN l - n ELSE 0
  PROVE  left \in 0..l /\ (n <= l => n \in 0..l /\ left = l - n)
  OBVIOUS

\* The room in the window and the number of waiting messages that take it.
LEMMA RoomTaken ==
  ASSUME NEW ratio \in 1..7, NEW l \in 0..ratio, NEW w \in Nat, NEW taken,
         taken = IF l < ratio THEN IF w <= ratio - l THEN w ELSE ratio - l ELSE 0
  PROVE  taken \in Nat /\ taken <= w /\ l + taken <= ratio /\ (taken < w => l + taken = ratio)
  OBVIOUS

\* Sending keeps a channel a sequence of frames.
LEMMA PutType ==
  ASSUME NEW S, NEW channel \in Seq(S), NEW frames \in Seq(S), ChannelBound \in Nat
  PROVE  Put(channel, frames) \in Seq(S)
<1> DEFINE all == channel \o frames
           n == LeastOf(Len(channel) + Len(frames), ChannelBound)
<1>1. all \in Seq(S) /\ Len(all) = Len(channel) + Len(frames)
  BY ConcatProperties
<1>2. n \in Int /\ n <= Len(all)
  BY <1>1, LenProperties DEF LeastOf
<1>3. \A i \in 1..n : all[i] \in S
  BY <1>1, <1>2, ElementOfSeq, LenProperties
<1> HIDE DEF all, n
<1>4. SubSeq(all, 1, n) \in Seq(S)
  BY <1>2, <1>3, SubSeqProperties
<1>5. QED
  BY <1>4 DEF Put, all, n

\* A sequence of one element.
LEMMA Singleton ==
  ASSUME NEW S, NEW x \in S
  PROVE  <<x>> \in Seq(S) /\ Len(<<x>>) = 1 /\ DOMAIN <<x>> = 1..1 /\ <<x>>[1] = x
  OBVIOUS

\* What m_sendInfo is given is a message.
LEMMA NewMessage ==
  ASSUME NEW id \in Nat, NEW kind \in Kinds
  PROVE  [id |-> id, kind |-> kind, ns |-> 0] \in Messages
  BY DEF Messages

\* A message that is numbered stays the same message, and so does its frame.
LEMMA NumberedFacts ==
  ASSUME m_ns \in 0..7, NEW m \in Messages, NEW i \in Nat
  PROVE  /\ Numbered(m, i) \in Messages
         /\ Numbered(m, i).kind = m.kind
         /\ Numbered(m, i).ns = (m_ns + i - 1) % 8
  BY DEF Numbered, Messages

\* An information frame is a frame to the RTU.
LEMMA InfoType ==
  ASSUME NEW m \in Messages, NEW p \in BOOLEAN
  PROVE  INFO(m, p) \in ToRTU
  BY DEF INFO, ToRTU, Messages

---------------------------------------------------------------------------
(* Preservation                                                             *)

\* In a state without output, the queues are empty.
LEMMA LowIsEmpty ==
  ASSUME TypeOK, QueuedIsSendable, m_protocol_state \in Low
  PROVE  msg_sent = <<>> /\ msg_waiting = <<>>
<1>1. \A kind : ~Sendable(kind)
  BY DEF Sendable, Low
<1>2. DOMAIN msg_sent = {} /\ DOMAIN msg_waiting = {}
  BY <1>1 DEF QueuedIsSendable
<1>3. ASSUME NEW q \in Seq(Messages), DOMAIN q = {} PROVE q = <<>>
  <2>1. Len(q) \in Nat /\ DOMAIN q = 1..Len(q)
    BY LenProperties
  <2>2. Len(q) = 0
    BY <1>3, <2>1
  <2>3. QED
    BY <2>2, EmptySeq
<1>4. QED
  BY <1>2, <1>3 DEF TypeOK

\* The locked part of protocolStateTransition, applied in time, keeps the
\* invariant of the window.
LEMMA ApplyPreserves ==
  ASSUME TypeOK, WindowInv, NEW t \in m_protocolStateTransitionMap, Timely(t),
         applyTransition(t), UNCHANGED conf
  PROVE  WindowInv' /\ msg_sent' \in Seq(Messages) /\ msg_waiting' \in Seq(Messages)
         /\ m_protocol_state' = t.to /\ t.to \in ProtocolState
         /\ m_ns' \in 0..7 /\ m_NRR' \in 0..7 /\ m_repeat' \in 0..conf.repeat_max /\ in_step' \in BOOLEAN
<1> USE WindowAssumption
<1>c. conf.ratio \in 1..7 /\ conf.repeat_max \in Nat
  BY DEF TypeOK
<1>1. /\ t.to \in ProtocolState /\ t.from \in ProtocolState
      /\ t.to = "CONNECTION" => ResetsOutput(t)
      /\ t.from \in Low /\ t.to \notin Low => ResetsOutput(t)
      /\ t.from = "CONNECTED" => Discards(t) /\ t.to # "CONNECTED"
                                     /\ (t.to = "OUTPUT_CONNECTED" => ResetsOutput(t))
      /\ t.from = "OUTPUT_CONNECTED" => \/ t.to = "CONNECTION" /\ Discards(t)
                                        \/ t.to = "CONNECTED" /\ ~ResetsOutput(t) /\ ~Discards(t)
  BY EntryFacts
<1>2. m_protocol_state \in Low => msg_sent = <<>> /\ msg_waiting = <<>>
  BY LowIsEmpty DEF WindowInv
<1>3. <<>> \in Seq(Messages) /\ Len(<<>>) = 0 /\ DOMAIN <<>> = {}
  BY EmptySeq
<1>4. /\ m_ns' \in 0..7 /\ m_NRR' \in 0..7 /\ m_repeat' \in 0..conf.repeat_max
      /\ msg_sent' \in Seq(Messages) /\ msg_waiting' \in Seq(Messages)
  BY <1>c, <1>3 DEF TypeOK, applyTransition
<1>b. in_step' \in BOOLEAN
  <2>1. RTUInStep \in BOOLEAN /\ in_step \in BOOLEAN /\ (in_step /\ ~ResetsOutput(t)) \in BOOLEAN
    BY DEF TypeOK, RTUInStep
  <2>2. in_step' = IF t.on = "RECEIVED_UA" THEN RTUInStep ELSE in_step /\ ~ResetsOutput(t)
    BY DEF applyTransition
  <2>3. QED
    BY <2>1, <2>2, Zenon
<1>5. CASE Discards(t) \/ m_protocol_state \in Low
  <2>1. msg_sent' = <<>> /\ msg_waiting' = <<>>
    BY <1>2, <1>5 DEF applyTransition
  <2>2. WindowBound' /\ QueuedIsSendable' /\ NothingStranded'
    BY <1>c, <1>3, <2>1 DEF WindowBound, QueuedIsSendable, NothingStranded
  <2>3. NumbersAtRest'
    BY <1>1 DEF applyTransition, NumbersAtRest
  <2>4. m_protocol_state' \in {"CONNECTED", "OUTPUT_CONNECTED"} => m_ns' = m_NRR' /\ m_ns' \in 0..7
    <3>1. CASE ResetsOutput(t)
      BY <3>1 DEF applyTransition
    <3>2. CASE ~ResetsOutput(t)
      BY <1>1, <1>4, <1>5, <3>2 DEF applyTransition, Timely, WindowInv, NumbersAtRest, Low, ProtocolState
    <3>3. QED
      BY <3>1, <3>2
  <2>5. NumberingConsistent'
    BY <1>3, <2>1, <2>4 DEF NumberingConsistent
  <2>6. QED
    BY <1>1, <1>4, <1>b, <2>2, <2>3, <2>5 DEF WindowInv, applyTransition
<1>6. CASE ~Discards(t) /\ m_protocol_state \notin Low
  <2>1. t.from = "OUTPUT_CONNECTED" /\ m_protocol_state = "OUTPUT_CONNECTED" /\ t.to = "CONNECTED"
    BY <1>1, <1>6 DEF Timely, Low, ProtocolState
  <2>2. /\ m_protocol_state' = "CONNECTED"
        /\ UNCHANGED <<msg_sent, msg_waiting, m_ns, m_NRR>>
    BY <1>1, <1>6, <2>1 DEF applyTransition
  <2>3. QED
    BY <1>1, <1>4, <1>b, <2>1, <2>2
       DEF WindowInv, WindowBound, QueuedIsSendable, Sendable, NothingStranded, NumberingConsistent, NoRenumbering,
           NumbersAtRest, applyTransition
<1>7. QED
  BY <1>5, <1>6

\* m_sendInfo keeps the invariant of the window.
LEMMA SendPreserves ==
  ASSUME TypeOK, WindowInv, NEW kind \in Kinds, m_sendInfo(kind)
  PROVE  TypeOK' /\ WindowInv'
<1> USE WindowAssumption
<1>c. conf.ratio \in 1..7 /\ conf.repeat_max \in Nat
  BY DEF TypeOK
<1> DEFINE message == [id |-> next_id, kind |-> kind, ns |-> 0]
           numbered == Numbered(message, 1)
<1>1. message \in Messages /\ numbered \in Messages /\ numbered.kind = kind /\ numbered.ns = m_ns
      /\ INFO(numbered, FALSE) \in ToRTU
  <2>a. message.kind = kind
    OBVIOUS
  <2>2. message \in Messages
    BY NewMessage, Zenon DEF TypeOK
  <2> HIDE DEF message
  <2>3. numbered \in Messages /\ numbered.kind = message.kind /\ numbered.ns = (m_ns + 1 - 1) % 8
    BY <2>2, NumberedFacts DEF TypeOK
  <2>4. INFO(numbered, FALSE) \in ToRTU
    BY <2>3, InfoType
  <2> HIDE DEF numbered
  <2>b. \A n \in 0..7 : (n + 1 - 1) % 8 = n
    OBVIOUS
  <2>c. m_ns \in 0..7
    BY DEF TypeOK
  <2>5. numbered.ns = m_ns
    BY <2>3, <2>b, <2>c
  <2>6. QED
    BY <2>a, <2>2, <2>3, <2>4, <2>5
<1>2. /\ Len(msg_sent) \in Nat /\ DOMAIN msg_sent = 1..Len(msg_sent)
      /\ Len(msg_waiting) \in Nat /\ DOMAIN msg_waiting = 1..Len(msg_waiting)
  BY LenProperties DEF TypeOK
<1>3. UNCHANGED <<conf, m_protocol_state, m_NRR, m_repeat, tcp_connected, pending, from_rtu, rtu_vr, delivered, in_step>>
      /\ next_id' = next_id + 1 /\ Sendable(kind)
  BY DEF m_sendInfo, rtuVars
<1> HIDE DEF message, numbered
<1>4. CASE WindowOpen(msg_sent)
  <2>1. /\ msg_sent' = Append(msg_sent, numbered)
        /\ m_ns' = (m_ns + 1) % 8
        /\ to_rtu' = Put(to_rtu, <<INFO(numbered, FALSE)>>)
        /\ UNCHANGED msg_waiting
    BY <1>4 DEF m_sendInfo, message, numbered
  <2>2. to_rtu' \in Seq(ToRTU)
    <3>1. <<INFO(numbered, FALSE)>> \in Seq(ToRTU)
      BY <1>1, Singleton
    <3>2. QED
      BY <2>1, <3>1, PutType DEF TypeOK
  <2>3. /\ msg_sent' \in Seq(Messages) /\ Len(msg_sent') = Len(msg_sent) + 1
        /\ \A i \in 1..Len(msg_sent) : msg_sent'[i] = msg_sent[i]
        /\ msg_sent'[Len(msg_sent) + 1] = numbered
    BY <1>1, <2>1, AppendProperties DEF TypeOK
  <2>4. DOMAIN msg_sent' = 1..(Len(msg_sent) + 1)
    BY <2>3, LenProperties
  <2>5. TypeOK'
    BY <1>3, <2>1, <2>2, <2>3 DEF TypeOK
  <2>6. WindowBound' /\ NothingStranded' /\ NumbersAtRest'
    BY SMTT(30), <1>2, <1>3, <1>4, <1>c, <2>1, <2>3
       DEF WindowInv, WindowBound, NothingStranded, NumbersAtRest, WindowOpen, Sendable
  <2>7. QueuedIsSendable'
    BY <1>1, <1>2, <1>3, <2>1, <2>3, <2>4 DEF WindowInv, QueuedIsSendable, Sendable
  <2>8. NumberingConsistent'
    <3> SUFFICES ASSUME NoRenumbering, m_protocol_state \in {"CONNECTED", "OUTPUT_CONNECTED"}
                 PROVE  /\ m_ns' = (m_NRR + Len(msg_sent')) % 8
                        /\ \A i \in DOMAIN msg_sent' : msg_sent'[i].ns = (m_NRR + i - 1) % 8
      BY <1>3 DEF NumberingConsistent, NoRenumbering
    <3>1. /\ m_ns = (m_NRR + Len(msg_sent)) % 8
          /\ \A i \in 1..Len(msg_sent) : msg_sent[i].ns = (m_NRR + i - 1) % 8
          /\ m_NRR \in 0..7
      BY <1>2 DEF WindowInv, NumberingConsistent, TypeOK
    <3>2. m_ns' = (m_NRR + Len(msg_sent')) % 8
      BY <1>2, <2>1, <2>3, <3>1
    <3>3. \A i \in 1..Len(msg_sent) : msg_sent'[i].ns = (m_NRR + i - 1) % 8
      BY <2>3, <3>1
    <3>4. msg_sent'[Len(msg_sent) + 1].ns = (m_NRR + (Len(msg_sent) + 1) - 1) % 8
      BY <1>1, <1>2, <2>3, <3>1
    <3>5. QED
      BY <1>2, <2>4, <3>2, <3>3, <3>4
  <2>9. QED
    BY <2>5, <2>6, <2>7, <2>8 DEF WindowInv
<1>5. CASE ~WindowOpen(msg_sent)
  <2>1. /\ msg_waiting' = Append(msg_waiting, message)
        /\ UNCHANGED <<msg_sent, m_ns, to_rtu>>
    BY <1>5 DEF m_sendInfo, message
  <2>2. /\ msg_waiting' \in Seq(Messages) /\ Len(msg_waiting') = Len(msg_waiting) + 1
        /\ \A i \in 1..Len(msg_waiting) : msg_waiting'[i] = msg_waiting[i]
        /\ msg_waiting'[Len(msg_waiting) + 1] = message
    BY <1>1, <2>1, AppendProperties DEF TypeOK
  <2>3. DOMAIN msg_waiting' = 1..(Len(msg_waiting) + 1)
    BY <2>2, LenProperties
  <2>4. message.kind = kind /\ msg_sent # <<>>
    BY <1>c, <1>5, EmptySeq DEF message, WindowOpen
  <2>5. TypeOK'
    BY <1>3, <2>1, <2>2 DEF TypeOK
  <2>6. QueuedIsSendable'
    BY <1>2, <1>3, <2>1, <2>2, <2>3, <2>4 DEF WindowInv, QueuedIsSendable, Sendable
  <2>7. QED
    BY <1>3, <2>1, <2>4, <2>5, <2>6
       DEF WindowInv, WindowBound, NothingStranded, NumberingConsistent, NoRenumbering, NumbersAtRest
<1>6. QED
  BY <1>4, <1>5

\* The repetition of the first frame keeps the invariant of the window.
LEMMA ResendPreserves ==
  ASSUME TypeOK, WindowInv, msg_sent # <<>>, ~Exhausted, Resend,
         UNCHANGED <<conf, pending, rtu_vr, delivered, next_id>>
  PROVE  TypeOK' /\ WindowInv'
<1> USE WindowAssumption
<1>c. conf.ratio \in 1..7 /\ conf.repeat_max \in Nat
  BY DEF TypeOK
<1> DEFINE first == Head(msg_sent)
           rest == Tail(msg_sent)
<1>1. /\ first \in Messages /\ first = msg_sent[1]
      /\ rest \in Seq(Messages) /\ Len(rest) = Len(msg_sent) - 1
      /\ \A i \in 1..Len(rest) : rest[i] = msg_sent[i + 1]
  BY HeadTailProperties DEF TypeOK
<1>2. /\ Len(msg_sent) \in Nat \ {0} /\ DOMAIN msg_sent = 1..Len(msg_sent)
      /\ Len(msg_waiting) \in Nat /\ DOMAIN msg_waiting = 1..Len(msg_waiting)
  BY LenProperties, EmptySeq DEF TypeOK
<1> HIDE DEF first, rest
<1>3. /\ m_repeat' = m_repeat + 1
      /\ to_rtu' = Put(to_rtu, <<INFO(first, TRUE)>>)
      /\ msg_waiting' = rest \o msg_waiting
      /\ msg_sent' = <<first>>
      /\ UNCHANGED <<m_protocol_state, m_ns, m_NRR, tcp_connected, from_rtu, in_step>>
  BY DEF Resend, RepeatsAfterResend, first, rest
<1>4. to_rtu' \in Seq(ToRTU)
  <2>1. <<INFO(first, TRUE)>> \in Seq(ToRTU)
    BY <1>1 DEF INFO, ToRTU, Messages
  <2>2. QED
    BY <1>3, <2>1, PutType DEF TypeOK
<1>5. /\ msg_waiting' \in Seq(Messages)
      /\ Len(msg_waiting') = Len(rest) + Len(msg_waiting)
      /\ \A i \in 1..(Len(rest) + Len(msg_waiting)) :
           msg_waiting'[i] = IF i <= Len(rest) THEN rest[i] ELSE msg_waiting[i - Len(rest)]
  BY <1>1, <1>3, ConcatProperties DEF TypeOK
<1>6. DOMAIN msg_waiting' = 1..(Len(rest) + Len(msg_waiting))
  BY <1>5, LenProperties
<1>7. msg_sent' \in Seq(Messages) /\ Len(msg_sent') = 1 /\ DOMAIN msg_sent' = 1..1 /\ msg_sent'[1] = msg_sent[1]
  BY <1>1, <1>3
<1>8. TypeOK'
  BY <1>3, <1>4, <1>5, <1>7, <1>c DEF TypeOK, Exhausted
<1>9. QueuedIsSendable'
  <2>1. \A i \in DOMAIN msg_sent' : Sendable(msg_sent'[i].kind)
    BY <1>2, <1>7 DEF WindowInv, QueuedIsSendable
  <2>2. ASSUME NEW i \in DOMAIN msg_waiting' PROVE Sendable(msg_waiting'[i].kind)
    <3>a. i \in 1..(Len(rest) + Len(msg_waiting)) /\ Len(rest) \in Nat /\ i \in Nat
      BY <1>1, <1>2, <1>6
    <3>1. CASE i <= Len(rest)
      <4>1. msg_waiting'[i] = msg_sent[i + 1] /\ i + 1 \in DOMAIN msg_sent
        BY SMTT(30), <1>1, <1>2, <1>5, <3>a, <3>1
      <4>2. QED
        BY <4>1 DEF WindowInv, QueuedIsSendable
    <3>2. CASE ~(i <= Len(rest))
      <4>1. msg_waiting'[i] = msg_waiting[i - Len(rest)] /\ i - Len(rest) \in DOMAIN msg_waiting
        <5>1. msg_waiting'[i] = msg_waiting[i - Len(rest)]
          BY <1>5, <3>a, <3>2
        <5>2. i - Len(rest) \in 1..Len(msg_waiting)
          BY <1>2, <3>a, <3>2
        <5>3. QED
          BY <1>2, <5>1, <5>2
      <4>2. QED
        BY <4>1 DEF WindowInv, QueuedIsSendable
    <3>3. QED
      BY <3>1, <3>2
  <2>3. QED
    BY <1>3, <2>1, <2>2 DEF QueuedIsSendable, Sendable
<1>10. NumberingConsistent'
  <2>1. NoRenumbering => Len(msg_sent) = 1
    BY <1>2, <1>c DEF NoRenumbering, Exhausted, TypeOK, WindowInv, WindowBound
  <2>2. NoRenumbering /\ m_protocol_state \in {"CONNECTED", "OUTPUT_CONNECTED"} =>
          m_ns = (m_NRR + 1) % 8 /\ msg_sent[1].ns = (m_NRR + 1 - 1) % 8
    <3>1. 1 \in DOMAIN msg_sent
      BY <1>2
    <3>2. QED
      BY <2>1, <3>1 DEF WindowInv, NumberingConsistent
  <2>3. QED
    BY <1>3, <1>7, <2>2 DEF NumberingConsistent, NoRenumbering
<1>11. WindowBound' /\ NothingStranded' /\ NumbersAtRest'
  BY <1>3, <1>7, <1>c, EmptySeq DEF WindowInv, WindowBound, NothingStranded, NumbersAtRest
<1>12. QED
  BY <1>8, <1>9, <1>10, <1>11 DEF WindowInv

\* A number up to r + k is one up to r, or r and then one up to k.
LEMMA Beyond ==
  ASSUME NEW r \in Nat, NEW k \in Nat, NEW i \in 1..(r + k)
  PROVE  i \in Nat /\ (i \in 1..r \/ \E h \in 1..k : i = r + h)
<1>1. CASE i <= r
  BY <1>1
<1>2. CASE ~(i <= r)
  <2>1. i - r \in 1..k /\ i = r + (i - r)
    BY <1>2
  <2>2. QED
    BY <2>1
<1>3. QED
  BY <1>1, <1>2

\* What is left of a queue when its first n elements are removed.
LEMMA RestFacts ==
  ASSUME NEW S, NEW q \in Seq(S), NEW n \in Nat
  PROVE  LET rest == SubSeq(q, n + 1, Len(q))
         IN /\ rest \in Seq(S)
            /\ Len(rest) = IF n <= Len(q) THEN Len(q) - n ELSE 0
            /\ DOMAIN rest = 1..Len(rest)
            /\ \A j \in 1..Len(rest) : rest[j] = q[n + j] /\ n + j \in 1..Len(q)
<1> DEFINE rest == SubSeq(q, n + 1, Len(q))
<1>1. Len(q) \in Nat /\ \A j \in (n + 1)..Len(q) : q[j] \in S
  BY LenProperties, ElementOfSeq
<1>2. /\ rest \in Seq(S)
      /\ Len(rest) = IF n + 1 <= Len(q) THEN Len(q) - (n + 1) + 1 ELSE 0
      /\ \A j \in 1..(Len(q) - (n + 1) + 1) : rest[j] = q[n + 1 + j - 1]
  BY <1>1, SubSeqProperties
<1>3. DOMAIN rest = 1..Len(rest)
  BY <1>2, LenProperties
<1> HIDE DEF rest
<1>4. Len(rest) = IF n <= Len(q) THEN Len(q) - n ELSE 0
  <2>1. Len(rest) = IF n + 1 <= Len(q) THEN Len(q) - (n + 1) + 1 ELSE 0
    BY <1>2
  <2>2. Len(q) \in Nat
    BY <1>1
  <2>3. QED
    BY <2>1, <2>2
<1>5. ASSUME NEW j \in 1..Len(rest) PROVE rest[j] = q[n + j] /\ n + j \in 1..Len(q)
  <2>1. n <= Len(q) /\ j \in 1..(Len(q) - n) /\ n + 1 + j - 1 = n + j
    BY <1>1, <1>4, <1>5
  <2>2. QED
    BY <1>1, <1>2, <2>1
<1>6. QED
  BY <1>2, <1>3, <1>4, <1>5 DEF rest

\* What m_NRAccepted(nr) counts: r messages are left of msg_sent and k follow from
\* msg_waiting, as many as there is room for.
Counted(nr, r, k) ==
  /\ r = IF Acknowledged(nr) <= Len(msg_sent) THEN Len(msg_sent) - Acknowledged(nr) ELSE 0
  /\ k <= Len(msg_waiting) /\ r + k <= conf.ratio /\ (k < Len(msg_waiting) => r + k = conf.ratio)
  /\ m_NRR' = nr /\ m_repeat' = 0 /\ m_ns' = (m_ns + k) % 8

\* The queues after it, when n messages were acknowledged.
Shifted(n, r, k) ==
  /\ msg_sent' \in Seq(Messages) /\ Len(msg_sent') = r + k
  /\ \A i \in 1..r : i + n \in DOMAIN msg_sent /\ msg_sent'[i] = msg_sent[i + n]
  /\ \A h \in 1..k : h \in DOMAIN msg_waiting /\ msg_sent'[r + h] = Numbered(msg_waiting[h], h)
  /\ msg_waiting' \in Seq(Messages) /\ Len(msg_waiting') = Len(msg_waiting) - k
  /\ \A j \in 1..(Len(msg_waiting) - k) : k + j \in DOMAIN msg_waiting /\ msg_waiting'[j] = msg_waiting[k + j]

\* The frames it sends.
FramesOf(k, frames) ==
  /\ DOMAIN frames = 1..k /\ to_rtu' = Put(to_rtu, frames)
  /\ \A h \in 1..k : frames[h] = INFO(Numbered(msg_waiting[h], h), FALSE)

\* m_NRAccepted has this effect.
LEMMA AcceptEffect ==
  ASSUME TypeOK, WindowBound, NEW nr \in 0..7, m_NRAccepted(nr)
  PROVE  \E r \in Nat, k \in Nat, frames \in Seq(ToRTU) :
           Counted(nr, r, k) /\ Shifted(Acknowledged(nr), r, k) /\ FramesOf(k, frames)
<1> USE WindowAssumption
<1> DEFINE n == Acknowledged(nr)
           rest == SubSeq(msg_sent, n + 1, Len(msg_sent))
           k == DrainCount(rest)
           batch == [i \in 1..k |-> Numbered(msg_waiting[i], i)]
           frames == [i \in 1..k |-> INFO(batch[i], FALSE)]
<1>1. /\ m_NRR' = nr /\ m_repeat' = 0
      /\ msg_sent' = rest \o batch
      /\ msg_waiting' = SubSeq(msg_waiting, k + 1, Len(msg_waiting))
      /\ m_ns' = (m_ns + k) % 8
      /\ to_rtu' = Put(to_rtu, frames)
  BY DEF m_NRAccepted
<1>c. conf.ratio \in 1..7 /\ conf.repeat_max \in Nat /\ m_ns \in 0..7 /\ m_NRR \in 0..7
  BY DEF TypeOK
<1>2. /\ Len(msg_sent) \in Nat /\ DOMAIN msg_sent = 1..Len(msg_sent)
      /\ Len(msg_waiting) \in Nat /\ DOMAIN msg_waiting = 1..Len(msg_waiting)
      /\ Len(msg_sent) <= conf.ratio
  BY LenProperties DEF TypeOK, WindowBound
<1>3. n \in 0..7 /\ n = (nr - m_NRR) % 8
  BY <1>c DEF Acknowledged
<1>m. Len(msg_sent) \in 0..7
  <2>1. conf.ratio \in 1..7
    BY <1>c
  <2>2. Len(msg_sent) \in Nat /\ Len(msg_sent) <= conf.ratio
    BY <1>2
  <2>3. QED
    BY <2>1, <2>2, AtMostSeven
<1> HIDE DEF n
<1>s. msg_sent \in Seq(Messages) /\ n \in Nat
  BY <1>3 DEF TypeOK
<1>4. /\ rest \in Seq(Messages)
      /\ Len(rest) = IF n <= Len(msg_sent) THEN Len(msg_sent) - n ELSE 0
      /\ \A j \in 1..Len(rest) : rest[j] = msg_sent[n + j] /\ n + j \in 1..Len(msg_sent)
  BY <1>s, RestFacts
<1> HIDE DEF rest
<1>5. /\ k \in Nat /\ k <= Len(msg_waiting)
      /\ Len(rest) + k <= conf.ratio
      /\ k < Len(msg_waiting) => Len(rest) + k = conf.ratio
  <2>2. conf.ratio \in 1..7 /\ Len(msg_waiting) \in Nat
    BY <1>c, <1>2
  <2>1. Len(rest) \in 0..conf.ratio
    <3>1. Len(rest) = IF n <= Len(msg_sent) THEN Len(msg_sent) - n ELSE 0
      BY <1>4
    <3>2. Len(msg_sent) <= conf.ratio /\ n \in 0..7
      BY <1>2, <1>3
    <3>3. Len(rest) \in 0..Len(msg_sent)
      BY <1>m, <3>1, <3>2, LeftOver
    <3>4. QED
      BY <1>m, <2>2, <3>2, <3>3
  <2>3. k = IF Len(rest) < conf.ratio
              THEN IF Len(msg_waiting) <= conf.ratio - Len(rest) THEN Len(msg_waiting) ELSE conf.ratio - Len(rest)
              ELSE 0
    BY DEF DrainCount, WindowOpen, LeastOf
  <2> HIDE DEF k
  <2>4. QED
    <3> DEFINE ratio == conf.ratio
               l == Len(rest)
               w == Len(msg_waiting)
    <3>1. ratio \in 1..7 /\ l \in 0..ratio /\ w \in Nat
          /\ k = IF l < ratio THEN IF w <= ratio - l THEN w ELSE ratio - l ELSE 0
      BY <2>1, <2>2, <2>3
    <3>2. k \in Nat /\ k <= w /\ l + k <= ratio /\ (k < w => l + k = ratio)
      <4> HIDE DEF ratio, l, w
      <4>1. QED
        BY <3>1, RoomTaken
    <3>3. QED
      BY <3>2
<1> HIDE DEF k
<1>6. \A i \in 1..k : /\ Numbered(msg_waiting[i], i) \in Messages
                      /\ Numbered(msg_waiting[i], i).kind = msg_waiting[i].kind
                      /\ Numbered(msg_waiting[i], i).ns = (m_ns + i - 1) % 8
  <2> TAKE i \in 1..k
  <2>1. msg_waiting[i] \in Messages /\ i \in Nat
    BY <1>2, <1>5, ElementOfSeq DEF TypeOK
  <2>2. QED
    BY <1>c, <2>1, NumberedFacts
<1>7. /\ batch \in Seq(Messages) /\ Len(batch) = k
      /\ \A i \in 1..k : batch[i] = Numbered(msg_waiting[i], i)
  BY <1>5, <1>6
<1> HIDE DEF batch
<1>8. frames \in Seq(ToRTU) /\ DOMAIN frames = 1..k
      /\ \A h \in 1..k : frames[h] = INFO(Numbered(msg_waiting[h], h), FALSE)
  <2>1. \A i \in 1..k : INFO(batch[i], FALSE) \in ToRTU
    BY <1>6, <1>7, InfoType
  <2>2. /\ frames \in [1..k -> ToRTU] /\ DOMAIN frames = 1..k
        /\ \A h \in 1..k : frames[h] = INFO(Numbered(msg_waiting[h], h), FALSE)
    BY <1>7, <2>1
  <2>3. k \in Nat
    BY <1>5
  <2> HIDE DEF frames
  <2>4. QED
    BY <2>2, <2>3, SeqDef
<1> HIDE DEF frames
<1>9. /\ msg_sent' \in Seq(Messages) /\ Len(msg_sent') = Len(rest) + k
      /\ \A i \in 1..(Len(rest) + k) :
           msg_sent'[i] = IF i <= Len(rest) THEN rest[i] ELSE batch[i - Len(rest)]
  <2>1. rest \in Seq(Messages) /\ batch \in Seq(Messages) /\ Len(batch) = k /\ msg_sent' = rest \o batch
    BY <1>1, <1>4, <1>7
  <2>2. /\ msg_sent' \in Seq(Messages) /\ Len(msg_sent') = Len(rest) + k
        /\ \A i \in 1..(Len(rest) + k) :
             msg_sent'[i] = IF i <= Len(rest) THEN rest[i] ELSE batch[i - Len(rest)]
    BY <2>1, ConcatProperties
  <2>3. QED
    BY <2>2
<1>10. /\ msg_waiting' \in Seq(Messages)
       /\ Len(msg_waiting') = Len(msg_waiting) - k
       /\ \A j \in 1..(Len(msg_waiting) - k) : msg_waiting'[j] = msg_waiting[k + j] /\ k + j \in DOMAIN msg_waiting
  BY <1>1, <1>2, <1>5, RestFacts DEF TypeOK
<1>11. Len(rest) \in Nat
  BY <1>2, <1>3, <1>4
<1>12. ASSUME NEW i \in 1..Len(rest) PROVE i + n \in DOMAIN msg_sent /\ msg_sent'[i] = msg_sent[i + n]
  <2>1. i \in 1..(Len(rest) + k) /\ i <= Len(rest) /\ n + i = i + n
    BY <1>3, <1>5, <1>11
  <2>2. QED
    BY <1>2, <1>4, <1>9, <2>1
<1>13. ASSUME NEW h \in 1..k PROVE h \in DOMAIN msg_waiting /\ msg_sent'[Len(rest) + h] = Numbered(msg_waiting[h], h)
  <2>1. h \in DOMAIN msg_waiting
    BY <1>2, <1>5
  <2>2. Len(rest) + h \in 1..(Len(rest) + k) /\ ~(Len(rest) + h <= Len(rest)) /\ (Len(rest) + h) - Len(rest) = h
    BY <1>5, <1>11
  <2>3. QED
    BY <1>7, <1>9, <2>1, <2>2
<1>14. Counted(nr, Len(rest), k)
  BY <1>1, <1>4, <1>5 DEF Counted, n
<1>15. Shifted(n, Len(rest), k)
  BY <1>9, <1>10, <1>12, <1>13 DEF Shifted
<1>16. FramesOf(k, frames)
  BY <1>1, <1>8 DEF FramesOf
<1>17. Len(rest) \in Nat /\ k \in Nat /\ frames \in Seq(ToRTU) /\ n = Acknowledged(nr)
  BY <1>5, <1>8, <1>11 DEF n
<1>18. QED
  BY <1>14, <1>15, <1>16, <1>17, Zenon

\* m_NRAccepted keeps the invariant of the window.
LEMMA AcceptPreserves ==
  ASSUME TypeOK, WindowInv, NEW nr \in 0..7, m_isNRValid(nr), m_protocol_state # "CONNECTION",
         m_NRAccepted(nr), UNCHANGED <<conf, m_protocol_state>>
  PROVE  /\ WindowInv'
         /\ msg_sent' \in Seq(Messages) /\ msg_waiting' \in Seq(Messages)
         /\ m_ns' \in 0..7 /\ m_NRR' \in 0..7 /\ m_repeat' \in 0..conf.repeat_max
         /\ to_rtu' \in Seq(ToRTU)
<1> USE WindowAssumption
<1> DEFINE n == Acknowledged(nr)
<1>c. conf.ratio \in 1..7 /\ conf.repeat_max \in Nat /\ m_ns \in 0..7 /\ m_NRR \in 0..7
  BY DEF TypeOK
<1>2. /\ Len(msg_sent) \in Nat /\ DOMAIN msg_sent = 1..Len(msg_sent)
      /\ Len(msg_waiting) \in Nat /\ DOMAIN msg_waiting = 1..Len(msg_waiting)
      /\ Len(msg_sent) <= conf.ratio
  BY LenProperties DEF TypeOK, WindowInv, WindowBound
<1>3. n \in 0..7 /\ n = (nr - m_NRR) % 8
  BY <1>c DEF Acknowledged
<1>m. Len(msg_sent) \in 0..7
  BY <1>c, <1>2, AtMostSeven
<1>1. PICK r \in Nat, k \in Nat, frames \in Seq(ToRTU) :
        Counted(nr, r, k) /\ Shifted(n, r, k) /\ FramesOf(k, frames)
  BY AcceptEffect DEF WindowInv
<1>n. n = Acknowledged(nr)
  OBVIOUS
<1> HIDE DEF n
<1>4. to_rtu' \in Seq(ToRTU)
  BY <1>1, PutType DEF FramesOf, TypeOK
<1>5. DOMAIN msg_sent' = 1..(r + k) /\ DOMAIN msg_waiting' = 1..(Len(msg_waiting) - k)
  BY <1>1, LenProperties DEF Shifted
<1>6. \A h \in 1..k : /\ Numbered(msg_waiting[h], h).kind = msg_waiting[h].kind
                      /\ Numbered(msg_waiting[h], h).ns = (m_ns + h - 1) % 8
  <2> TAKE h \in 1..k
  <2>1. msg_waiting[h] \in Messages /\ h \in Nat
    BY SMTT(30), <1>1, <1>2, ElementOfSeq DEF Shifted, TypeOK
  <2>2. QED
    BY <1>c, <2>1, NumberedFacts
<1>7. ASSUME NEW i \in DOMAIN msg_sent'
      PROVE  \/ i \in 1..r /\ msg_sent'[i] = msg_sent[i + n] /\ i + n \in DOMAIN msg_sent
             \/ \E h \in 1..k : i = r + h /\ msg_sent'[i] = Numbered(msg_waiting[h], h) /\ h \in DOMAIN msg_waiting
  <2>1. i \in 1..(r + k)
    BY <1>5
  <2>2. i \in 1..r \/ \E h \in 1..k : i = r + h
    BY <2>1, Beyond
  <2>3. QED
    BY <1>1, <2>2 DEF Shifted
<1>8. QueuedIsSendable'
  <2>1. ASSUME NEW i \in DOMAIN msg_sent' PROVE Sendable(msg_sent'[i].kind)
    <3>1. CASE i \in 1..r /\ msg_sent'[i] = msg_sent[i + n] /\ i + n \in DOMAIN msg_sent
      BY <3>1 DEF WindowInv, QueuedIsSendable
    <3>2. ASSUME NEW h \in 1..k, msg_sent'[i] = Numbered(msg_waiting[h], h), h \in DOMAIN msg_waiting
          PROVE  Sendable(msg_sent'[i].kind)
      BY <1>6, <3>2 DEF WindowInv, QueuedIsSendable
    <3>3. QED
      BY <1>7, <3>1, <3>2
  <2>2. \A j \in DOMAIN msg_waiting' : Sendable(msg_waiting'[j].kind)
    BY <1>1, <1>5 DEF Shifted, WindowInv, QueuedIsSendable
  <2>3. QED
    BY <2>1, <2>2 DEF QueuedIsSendable, Sendable
<1>9. NumberingConsistent'
  <2> SUFFICES ASSUME NoRenumbering, m_protocol_state \in {"CONNECTED", "OUTPUT_CONNECTED"}
               PROVE  /\ m_ns' = (m_NRR' + Len(msg_sent')) % 8
                      /\ \A i \in DOMAIN msg_sent' : msg_sent'[i].ns = (m_NRR' + i - 1) % 8
    BY DEF NumberingConsistent, NoRenumbering
  <2>1. /\ m_ns = (m_NRR + Len(msg_sent)) % 8
        /\ \A i \in DOMAIN msg_sent : msg_sent[i].ns = (m_NRR + i - 1) % 8
    BY DEF WindowInv, NumberingConsistent
  <2>2. n <= (m_ns - m_NRR) % 8
    BY <1>c, <1>3, NRTest DEF NRTestIsModular
  <2>3. n <= Len(msg_sent) /\ nr = (m_NRR + n) % 8
    <3>1. (m_ns - m_NRR) % 8 = Len(msg_sent)
      BY <1>c, <1>m, <2>1, DistanceMod8
    <3>2. QED
      BY SMTT(30), <1>c, <1>3, <2>2, <3>1
  <2>4. m_ns = (nr + r) % 8
    <3>1. r = IF n <= Len(msg_sent) THEN Len(msg_sent) - n ELSE 0
      BY <1>1, <1>n DEF Counted
    <3>2. n \in 0..Len(msg_sent) /\ r = Len(msg_sent) - n
      BY <1>m, <1>3, <2>3, <3>1, LeftOver
    <3>3. m_ns = (m_NRR + Len(msg_sent)) % 8 /\ nr = (m_NRR + n) % 8 /\ m_NRR \in 0..7
      BY <1>c, <2>1, <2>3
    <3>4. QED
      BY <1>m, <3>2, <3>3, SplitMod8
  <2>5. m_ns' = (m_NRR' + Len(msg_sent')) % 8
    <3>1. m_ns' = (m_ns + k) % 8 /\ m_NRR' = nr /\ Len(msg_sent') = r + k
      BY <1>1 DEF Counted, Shifted
    <3>2. (((nr + r) % 8) + k) % 8 = (nr + (r + k)) % 8
      OBVIOUS
    <3>3. QED
      BY <2>4, <3>1, <3>2
  <2>6. ASSUME NEW i \in DOMAIN msg_sent' PROVE msg_sent'[i].ns = (nr + i - 1) % 8
    <3>1. CASE i \in 1..r /\ msg_sent'[i] = msg_sent[i + n] /\ i + n \in DOMAIN msg_sent
      <4>1. msg_sent'[i].ns = (m_NRR + (i + n) - 1) % 8
        BY <2>1, <3>1
      <4>2. i \in Nat /\ m_NRR \in 0..7 /\ n \in 0..7 /\ nr = (m_NRR + n) % 8
        BY <1>c, <1>3, <2>3, <3>1
      <4>3. (((m_NRR + n) % 8) + i - 1) % 8 = (m_NRR + (i + n) - 1) % 8
        BY <4>2, ShiftMod8
      <4>4. QED
        BY <4>1, <4>2, <4>3
    <3>2. ASSUME NEW h \in 1..k, i = r + h, msg_sent'[i] = Numbered(msg_waiting[h], h)
          PROVE  msg_sent'[i].ns = (nr + i - 1) % 8
      <4>1. msg_sent'[i].ns = (m_ns + h - 1) % 8
        BY <1>6, <3>2
      <4>2. h \in Nat /\ nr \in 0..7 /\ r \in 0..7
        <5>1. r = IF n <= Len(msg_sent) THEN Len(msg_sent) - n ELSE 0
          BY <1>1, <1>n DEF Counted
        <5>2. r \in 0..Len(msg_sent)
          BY Zenon, <1>m, <1>3, <5>1, LeftOver
        <5>3. r \in 0..7
          BY Zenon, <1>m, <5>2, AtMostLength
        <5>4. h \in Nat
          OBVIOUS
        <5>5. QED
          BY <5>3, <5>4
      <4>3. (((nr + r) % 8) + h - 1) % 8 = (nr + (h + r) - 1) % 8
        BY <4>2, ShiftMod8
      <4>4. h + r = i
        BY <3>2, <4>2
      <4>5. m_ns + h - 1 = ((nr + r) % 8) + h - 1
        BY <2>4
      <4>6. QED
        BY Zenon, <4>1, <4>3, <4>4, <4>5
    <3>3. QED
      BY <1>7, <3>1, <3>2
  <2>7. QED
    BY <1>1, <2>5, <2>6 DEF Counted
<1>10. WindowBound'
  BY <1>1 DEF Counted, Shifted, WindowBound
<1>11. NothingStranded'
  <2>1. msg_waiting' # <<>> => Len(msg_waiting') > 0
    BY <1>1, EmptySeq DEF Shifted
  <2>2. /\ Len(msg_sent') = r + k /\ Len(msg_waiting') = Len(msg_waiting) - k
        /\ k < Len(msg_waiting) => r + k = conf.ratio
    BY <1>1 DEF Counted, Shifted
  <2>3. Len(msg_waiting') > 0 => Len(msg_sent') > 0
    BY <1>2, <1>c, <2>2
  <2>4. QED
    BY <2>1, <2>3, EmptySeq DEF NothingStranded
<1>12. m_ns' \in 0..7 /\ m_NRR' \in 0..7 /\ m_repeat' \in 0..conf.repeat_max
  BY <1>1, <1>c DEF Counted
<1>13. QED
  BY <1>1, <1>4, <1>8, <1>9, <1>10, <1>11, <1>12 DEF Shifted, WindowInv, NumbersAtRest

\* What is left of a channel when a frame is taken.
LEMMA TailType ==
  ASSUME NEW S, NEW q \in Seq(S), q # <<>>
  PROVE  Tail(q) \in Seq(S)
  BY HeadTailProperties

\* Closing the connection keeps the types of the channels.
LEMMA CloseType ==
  ASSUME NEW closing, CloseIf(closing), to_rtu \in Seq(ToRTU), from_rtu \in Seq(FromRTU)
  PROVE  tcp_connected' \in BOOLEAN /\ to_rtu' \in Seq(ToRTU) /\ from_rtu' \in Seq(FromRTU)
<1>1. tcp_connected' \in BOOLEAN
  BY Zenon DEF CloseIf
<1>2. QED
  BY <1>1 DEF CloseIf

\* A RR or an information frame is a frame from the RTU.
LEMMA AckType ==
  ASSUME NEW type \in {"RR", "INFO"}, NEW nr \in 0..7, NEW f \in BOOLEAN
  PROVE  Ack(type, nr, f) \in FromRTU
  BY DEF Ack, FromRTU

\* A step that leaves the state of the window alone keeps the invariant, if it
\* keeps the types of the rest and leaves only timely transitions.
LEMMA StillQueues ==
  ASSUME TypeOK, WindowInv,
         UNCHANGED <<conf, m_protocol_state, m_ns, m_NRR, m_repeat, msg_sent, msg_waiting, next_id, in_step>>,
         pending' \subseteq m_protocolStateTransitionMap, \A t \in pending' : Timely(t)',
         tcp_connected' \in BOOLEAN, to_rtu' \in Seq(ToRTU), from_rtu' \in Seq(FromRTU),
         rtu_vr' \in 0..7, delivered' \in Seq(Nat)
  PROVE  IInv'
<1>1. TypeOK'
  BY DEF TypeOK
<1>2. WindowInv'
  BY DEF WindowInv, WindowBound, QueuedIsSendable, Sendable, NothingStranded, NumberingConsistent, NoRenumbering,
         NumbersAtRest
<1>3. QED
  BY <1>1, <1>2 DEF IInv

\* So does a step of the channels alone.
LEMMA Still ==
  ASSUME TypeOK, WindowInv, \A t \in pending : Timely(t),
         UNCHANGED <<conf, m_protocol_state, m_ns, m_NRR, m_repeat, msg_sent, msg_waiting, tcp_connected, pending,
                     rtu_vr, delivered, next_id, in_step>>,
         to_rtu' \in Seq(ToRTU), from_rtu' \in Seq(FromRTU)
  PROVE  IInv'
  BY StillQueues DEF TypeOK, Timely

\* A transition that is looked up is timely in the state it was looked up in.
LEMMA LookUpIsTimely ==
  ASSUME TypeOK, NEW e, LookUp(e), UNCHANGED m_protocol_state
  PROVE  pending' \subseteq m_protocolStateTransitionMap /\ \A t \in pending' : Timely(t)'
<1>1. ASSUME NEW t \in pending'
      PROVE  t \in m_protocolStateTransitionMap /\ t.from = m_protocol_state
  <2>1. HasTransition(m_protocol_state, e) /\ t \in TransitionsOf(m_protocol_state, e)
    BY DEF LookUp
  <2>2. QED
    BY <2>1, LookupFacts
<1>2. QED
  BY <1>1 DEF Timely

\* A transition made under the locks in the state of the protocol keeps the
\* invariant, the looked up transition of the receive thread included.
LEMMA LockedPreserves ==
  ASSUME IInv, NEW e \in {"MAX_SARM_SENT", "TO_RECV", "MAX_SEND"}, LockedTransition(e),
         UNCHANGED <<conf, pending, rtu_vr, delivered, next_id>>
  PROVE  IInv'
<1>1. PICK t \in TransitionsOf(m_protocol_state, e) : applyTransition(t) /\ CloseIf(Calls(t, "stopTCP"))
  BY DEF LockedTransition
<1>2. t \in m_protocolStateTransitionMap /\ t.from = m_protocol_state /\ t.on = e
  BY LookupFacts DEF LockedTransition
<1>3. Timely(t)
  BY <1>2 DEF Timely
<1>4. WindowInv' /\ msg_sent' \in Seq(Messages) /\ msg_waiting' \in Seq(Messages)
      /\ m_protocol_state' = t.to /\ t.to \in ProtocolState
      /\ m_ns' \in 0..7 /\ m_NRR' \in 0..7 /\ m_repeat' \in 0..conf.repeat_max /\ in_step' \in BOOLEAN
  BY <1>1, <1>2, <1>3, ApplyPreserves DEF IInv
<1>5. tcp_connected' \in BOOLEAN /\ to_rtu' \in Seq(ToRTU) /\ from_rtu' \in Seq(FromRTU)
  BY <1>1, CloseType DEF IInv, TypeOK
<1>6. TypeOK'
  BY <1>4, <1>5 DEF IInv, TypeOK
<1>7. ASSUME NEW p \in pending PROVE Timely(p)'
  <2>1. m_protocol_state # "CONNECTED" => t.to = "CONNECTION"
    BY <1>2, EntryFacts
  <2>2. QED
    BY <1>4, <2>1 DEF IInv, Timely, Low
<1>8. QED
  BY <1>4, <1>6, <1>7 DEF IInv

\* Every step keeps the invariant.
LEMMA StepPreserves ==
  ASSUME IInv, [Next]_vars
  PROVE  IInv'
<1> USE WindowAssumption
<1>t. TypeOK /\ WindowInv /\ \A t \in pending : Timely(t)
  BY DEF IInv
<1>1. ASSUME NEW kind \in Kinds, m_sendInfo(kind) PROVE IInv'
  <2>1. TypeOK' /\ WindowInv'
    BY <1>t, <1>1, SendPreserves
  <2>2. QED
    BY <1>t, <1>1, <2>1 DEF m_sendInfo, IInv, Timely
<1>2. ASSUME NEW type \in {"RR", "INFO"}, ReceiveAck(type) PROVE IInv'
  <2> DEFINE frame == Head(from_rtu)
  <2>1. from_rtu' \in Seq(FromRTU)
    BY <1>t, <1>2, HeadTailProperties DEF TypeOK, ReceiveAck, Receives
  <2>2. UNCHANGED <<conf, m_protocol_state, tcp_connected, pending, rtu_vr, delivered, next_id, in_step>>
    BY <1>2 DEF ReceiveAck, rtuVars
  <2>3. CASE Heeds(type) /\ Accepts(frame.nr, frame.f)
    <3>1. frame \in FromRTU /\ frame.type \in {"RR", "INFO"}
      BY <1>t, <1>2, HeadTailProperties DEF TypeOK, ReceiveAck, Receives
    <3>2. frame.nr \in 0..7
      BY <3>1 DEF FromRTU
    <3>3. m_NRAccepted(frame.nr) /\ m_isNRValid(frame.nr) /\ m_protocol_state # "CONNECTION"
      BY <1>2, <2>3 DEF ReceiveAck, Accepts, Heeds
    <3> HIDE DEF frame
    <3>4. /\ WindowInv'
          /\ msg_sent' \in Seq(Messages) /\ msg_waiting' \in Seq(Messages)
          /\ m_ns' \in 0..7 /\ m_NRR' \in 0..7 /\ m_repeat' \in 0..conf.repeat_max
          /\ to_rtu' \in Seq(ToRTU)
      BY <1>t, <2>2, <3>2, <3>3, AcceptPreserves
    <3>5. TypeOK'
      BY <1>t, <2>1, <2>2, <3>4 DEF TypeOK
    <3>6. QED
      BY <1>t, <2>2, <3>4, <3>5 DEF IInv, Timely
  <2>4. CASE ~(Heeds(type) /\ Accepts(frame.nr, frame.f))
    <3>1. UNCHANGED <<m_ns, m_NRR, m_repeat, msg_sent, msg_waiting, to_rtu>>
      BY <1>2, <2>4 DEF ReceiveAck, numberVars, queueVars
    <3>2. QED
      BY <1>t, <2>1, <2>2, <3>1, Still DEF TypeOK
  <2>5. QED
    BY <2>3, <2>4
<1>3. ASSUME NEW e, LookUp(e) \/ UNCHANGED pending, from_rtu' = from_rtu \/ (from_rtu # <<>> /\ from_rtu' = Tail(from_rtu)),
             UNCHANGED <<conf, m_protocol_state, numberVars, queueVars, tcp_connected, to_rtu, rtuVars, next_id, in_step>>
      PROVE  IInv'
  <2>1. from_rtu' \in Seq(FromRTU)
    BY <1>t, <1>3, TailType DEF TypeOK
  <2>2. pending' \subseteq m_protocolStateTransitionMap /\ \A t \in pending' : Timely(t)'
    <3>1. CASE LookUp(e)
      BY <1>t, <1>3, <3>1, LookUpIsTimely
    <3>2. CASE UNCHANGED pending
      BY <1>t, <1>3, <3>2 DEF TypeOK, Timely
    <3>3. QED
      BY <1>3, <3>1, <3>2
  <2>3. QED
    BY <1>t, <1>3, <2>1, <2>2, StillQueues DEF numberVars, queueVars, rtuVars, TypeOK
<1>4. CASE ReceiveUA \/ ReceiveSARM \/ ReceiveNothing
  BY <1>3, <1>4 DEF ReceiveUA, ReceiveSARM, ReceiveNothing, Receives
<1>5. CASE ApplyTransition
  <2>1. PICK t \in pending : applyTransition(t) /\ CloseIf(Calls(t, "stopTCP"))
    BY <1>5 DEF ApplyTransition
  <2>2. pending' = {} /\ UNCHANGED <<conf, rtu_vr, delivered, next_id>>
    BY <1>5 DEF ApplyTransition, rtuVars
  <2>3. t \in m_protocolStateTransitionMap /\ Timely(t)
    BY <1>t DEF TypeOK
  <2>4. WindowInv' /\ msg_sent' \in Seq(Messages) /\ msg_waiting' \in Seq(Messages)
        /\ m_protocol_state' = t.to /\ t.to \in ProtocolState
        /\ m_ns' \in 0..7 /\ m_NRR' \in 0..7 /\ m_repeat' \in 0..conf.repeat_max /\ in_step' \in BOOLEAN
    BY <1>t, <2>1, <2>2, <2>3, ApplyPreserves
  <2>5. tcp_connected' \in BOOLEAN /\ to_rtu' \in Seq(ToRTU) /\ from_rtu' \in Seq(FromRTU)
    BY <1>t, <2>1, CloseType DEF TypeOK
  <2>6. QED
    BY <1>t, <2>2, <2>4, <2>5 DEF IInv, TypeOK
<1>6. CASE Reconnect
  BY <1>t, <1>6, StillQueues DEF Reconnect, numberVars, queueVars, rtuVars, TypeOK, Timely
<1>7. CASE m_sendSARM
  <2>1. <<Bare("SARM")>> \in Seq(ToRTU)
    BY DEF Bare, ToRTU
  <2>2. to_rtu' \in Seq(ToRTU)
    BY <1>t, <1>7, <2>1, PutType DEF TypeOK, m_sendSARM
  <2>3. QED
    BY <1>t, <1>7, <2>2, Still DEF m_sendSARM, numberVars, queueVars, rtuVars, TypeOK
<1>8. ASSUME NEW e \in ConnectionEvent, ManageTimeout(e) PROVE IInv'
  BY <1>8, LockedPreserves DEF ManageTimeout, rtuVars
<1>9. CASE CheckTimer
  <2>1. UNCHANGED <<conf, pending, rtu_vr, delivered, next_id>> /\ msg_sent # <<>>
    BY <1>9 DEF CheckTimer, rtuVars
  <2>2. CASE Exhausted
    BY <1>9, <2>1, <2>2, LockedPreserves DEF CheckTimer
  <2>3. CASE ~Exhausted
    <3>1. Resend
      BY <1>9, <2>3 DEF CheckTimer
    <3>2. TypeOK' /\ WindowInv'
      BY <1>t, <2>1, <2>3, <3>1, ResendPreserves
    <3>3. QED
      BY <1>t, <2>1, <3>1, <3>2 DEF IInv, Timely, Resend
  <2>4. QED
    BY <2>2, <2>3
<1>10. CASE RTUReceive
  <2> DEFINE frame == Head(to_rtu)
  <2>1. to_rtu' \in Seq(ToRTU) /\ frame \in ToRTU
    BY <1>t, <1>10, HeadTailProperties DEF TypeOK, RTUReceive
  <2>2. UNCHANGED <<conf, m_protocol_state, m_ns, m_NRR, m_repeat, msg_sent, msg_waiting, tcp_connected, pending,
                    next_id, in_step>>
    BY <1>10 DEF RTUReceive, numberVars, queueVars
  <2>3. rtu_vr' \in 0..7 /\ delivered' \in Seq(Nat) /\ from_rtu' \in Seq(FromRTU)
    <3>1. CASE frame.type = "SARM" /\ rtu_vr' = 0 /\ from_rtu' = Put(from_rtu, <<Bare("UA")>>) /\ UNCHANGED delivered
      <4>1. <<Bare("UA")>> \in Seq(FromRTU)
        <5>1. [type |-> "UA"] \in [type : {"UA", "SARM"}]
          OBVIOUS
        <5>2. Bare("UA") \in FromRTU
          BY <5>1, Zenon DEF Bare, FromRTU
        <5>3. QED
          BY <5>2, Singleton
      <4>2. Put(from_rtu, <<Bare("UA")>>) \in Seq(FromRTU)
        BY <1>t, <4>1, PutType DEF TypeOK
      <4>3. QED
        BY <1>t, <3>1, <4>2 DEF TypeOK
    <3>2. CASE /\ frame.type = "INFO" /\ rtu_vr' = (rtu_vr + 1) % 8
               /\ from_rtu' = Put(from_rtu, <<Ack("RR", (rtu_vr + 1) % 8, frame.p)>>)
               /\ delivered' = Append(delivered, frame.id)
      <4>1. frame.id \in Nat /\ frame.p \in BOOLEAN
        BY <2>1, <3>2 DEF ToRTU
      <4>2. (rtu_vr + 1) % 8 \in 0..7
        BY <1>t DEF TypeOK
      <4>3. Ack("RR", (rtu_vr + 1) % 8, frame.p) \in FromRTU
        BY <4>1, <4>2, AckType
      <4>4. from_rtu' \in Seq(FromRTU)
        BY <1>t, <3>2, <4>3, Singleton, PutType DEF TypeOK
      <4>5. delivered' \in Seq(Nat)
        BY <1>t, <3>2, <4>1, AppendProperties DEF TypeOK
      <4>6. QED
        BY <3>2, <4>2, <4>4, <4>5
    <3>3. CASE UNCHANGED <<rtu_vr, delivered>>
               /\ from_rtu' = IF frame.p THEN Put(from_rtu, <<Ack("RR", rtu_vr, TRUE)>>) ELSE from_rtu
      <4>1. Ack("RR", rtu_vr, TRUE) \in FromRTU
        BY <1>t, AckType DEF TypeOK
      <4>2. Put(from_rtu, <<Ack("RR", rtu_vr, TRUE)>>) \in Seq(FromRTU)
        BY <1>t, <4>1, Singleton, PutType DEF TypeOK
      <4>3. QED
        BY <1>t, <3>3, <4>2 DEF TypeOK
    <3>4. QED
      BY <1>10, <3>1, <3>2, <3>3 DEF RTUReceive, rtuVars
  <2>4. QED
    BY <1>t, <2>1, <2>2, <2>3, StillQueues DEF TypeOK, Timely
<1>11. ASSUME NEW frame \in FromRTU, RTUSend(frame) PROVE IInv'
  <2>1. from_rtu' \in Seq(FromRTU)
    BY <1>t, <1>11, Singleton, PutType DEF TypeOK, RTUSend
  <2>2. QED
    BY <1>t, <1>11, <2>1, Still DEF RTUSend, numberVars, queueVars, rtuVars, TypeOK
<1>12. CASE Lose
  <2>1. to_rtu' \in Seq(ToRTU) /\ from_rtu' \in Seq(FromRTU)
    BY <1>t, <1>12, TailType DEF TypeOK, Lose
  <2>2. QED
    BY <1>t, <1>12, <2>1, Still DEF Lose, numberVars, queueVars, rtuVars
<1>13. CASE TCPLost
  <2>1. tcp_connected' \in BOOLEAN /\ to_rtu' \in Seq(ToRTU) /\ from_rtu' \in Seq(FromRTU)
    BY <1>t, <1>13, CloseType DEF TypeOK, TCPLost
  <2>2. QED
    BY <1>t, <1>13, <2>1, StillQueues DEF TCPLost, numberVars, queueVars, rtuVars, TypeOK, Timely
<1>14. CASE UNCHANGED vars
  BY <1>t, <1>14, Still DEF vars, numberVars, queueVars, rtuVars, TypeOK
<1>15. Bare("SARM") \in FromRTU /\ Ack("INFO", rtu_vr, FALSE) \in FromRTU
  BY <1>t, AckType DEF TypeOK, Bare, FromRTU
<1>16. QED
  BY <1>1, <1>2, <1>4, <1>5, <1>6, <1>7, <1>8, <1>9, <1>10, <1>11, <1>12, <1>13, <1>14, <1>15 DEF Next

\* The initial states satisfy the invariant.
LEMMA InitEstablishes == Init => IInv
<1> SUFFICES ASSUME Init PROVE IInv
  OBVIOUS
<1> USE WindowAssumption
<1>1. conf.ratio \in 1..7 /\ conf.repeat_max \in Nat /\ m_ns \in 0..7 /\ m_NRR = m_ns
  BY DEF Init
<1>2. Len(<<>>) = 0 /\ DOMAIN <<>> = {}
  BY EmptySeq
<1>3. TypeOK
  BY <1>1 DEF Init, TypeOK, ProtocolState
<1>4. WindowInv
  BY <1>1, <1>2 DEF Init, WindowInv, WindowBound, QueuedIsSendable, NothingStranded, NumberingConsistent, NumbersAtRest
<1>5. QED
  BY <1>3, <1>4 DEF IInv, Init

\* IInv holds in every state of the path.
THEOREM Invariance == Spec => []IInv
<1>1. Init => IInv
  BY InitEstablishes
<1>2. IInv /\ [Next]_vars => IInv'
  BY StepPreserves
<1>3. QED
  BY <1>1, <1>2, PTL DEF Spec

\* Every variable of the path has its type: m_ns and m_NRR stay in 0..7, and
\* m_check_timer never repeats a frame more than m_repeat_max times.
THEOREM TypeCorrectness == Spec => []TypeOK
<1>1. IInv => TypeOK
  BY DEF IInv
<1>2. QED
  BY <1>1, Invariance, PTL

\* m_sendInfo, m_NRAccepted and m_check_timer keep at most m_anticipation_ratio
\* messages in msg_sent, for every ratio from 1 to 7.
THEOREM WindowIsBounded == Spec => []WindowBound
<1>1. IInv => WindowBound
  BY DEF IInv, WindowInv
<1>2. QED
  BY <1>1, Invariance, PTL

\* Every queued message can be sent in the present state, although the receive
\* thread applies its transitions late: the loop of m_NRAccepted ends.
THEOREM QueuesAreSendable == Spec => []QueuedIsSendable
<1>1. IInv => QueuedIsSendable
  BY DEF IInv, WindowInv
<1>2. QED
  BY <1>1, Invariance, PTL

\* No message is left waiting when there is no acknowledgement to expect.
THEOREM NothingIsStranded == Spec => []NothingStranded
<1>1. IInv => NothingStranded
  BY DEF IInv, WindowInv
<1>2. QED
  BY <1>1, Invariance, PTL

\* The case distinction of m_isNRValid is the modular test in every reachable
\* state.
THEOREM NRTestIsCorrect == Spec => []NRTestIsModular
<1>1. IInv => NRTestIsModular
  BY NRTest DEF IInv, TypeOK
<1>2. QED
  BY <1>1, Invariance, PTL

\* Without renumbering, the unacknowledged messages carry the consecutive numbers
\* from m_NRR to m_ns - 1.
THEOREM NumberingIsConsistent == Spec => []NumberingConsistent
<1>1. IInv => NumberingConsistent
  BY DEF IInv, WindowInv
<1>2. QED
  BY <1>1, Invariance, PTL

---------------------------------------------------------------------------
(* What the RTU gets: every message once, in the order of m_sendInfo, and   *)
(* acknowledged only when it has it.  For settings without renumbering,     *)
(* however frames are lost, repeated and delayed.                           *)

InfoAt(i) == to_rtu[i].type = "INFO"
SarmAt(i) == to_rtu[i].type = "SARM"
AckAt(i) == from_rtu[i].type \in {"RR", "INFO"}

\* x was handed to m_sendInfo before every message that waits,
Before(x) == x < next_id /\ \A j \in DOMAIN msg_waiting : x < msg_waiting[j].id
\* and not after the last one of msg_sent.
NotAfter(x) == \A k \in DOMAIN msg_sent : k = Len(msg_sent) => x <= msg_sent[k].id

WaitingOrder ==
  /\ \A j \in DOMAIN msg_waiting : msg_waiting[j].id < next_id
  /\ \A i, j \in DOMAIN msg_waiting : i < j => msg_waiting[i].id < msg_waiting[j].id

\* msg_sent and then msg_waiting are in the order of m_sendInfo.
QueueOrder ==
  /\ WaitingOrder
  /\ \A i \in DOMAIN msg_sent : Before(msg_sent[i].id)
  /\ \A i, j \in DOMAIN msg_sent : i < j => msg_sent[i].id < msg_sent[j].id

\* What the RTU has, what is on the way to it and what waits are in that order.
FrameOrder ==
  /\ \A i \in DOMAIN to_rtu : InfoAt(i) => Before(to_rtu[i].id) /\ NotAfter(to_rtu[i].id)
  /\ \A m \in DOMAIN delivered : Before(delivered[m]) /\ NotAfter(delivered[m])
  /\ \A i, j \in DOMAIN to_rtu : InfoAt(i) /\ InfoAt(j) /\ i < j => to_rtu[i].id <= to_rtu[j].id
  /\ \A m \in DOMAIN delivered, i \in DOMAIN to_rtu : InfoAt(i) => delivered[m] <= to_rtu[i].id
  /\ \A l, m \in DOMAIN delivered : l < m => delivered[l] < delivered[m]

\* The copies of a message carry one number, and no SARM comes between them.  So
\* the RTU does not expect a copy of what it has: neither one that is on the way,
\* nor one that can still be sent.
Copies ==
  /\ \A i, j \in DOMAIN to_rtu : InfoAt(i) /\ InfoAt(j) /\ i < j /\ to_rtu[i].id = to_rtu[j].id =>
       to_rtu[i].ns = to_rtu[j].ns /\ \A s \in DOMAIN to_rtu : SarmAt(s) /\ i < s => j < s
  /\ \A i \in DOMAIN to_rtu, k \in DOMAIN msg_sent : InfoAt(i) /\ to_rtu[i].id = msg_sent[k].id =>
       to_rtu[i].ns = msg_sent[k].ns /\ \A s \in DOMAIN to_rtu : SarmAt(s) => s < i
  /\ \A m \in DOMAIN delivered, i \in DOMAIN to_rtu : InfoAt(i) /\ to_rtu[i].id = delivered[m] =>
       rtu_vr = (to_rtu[i].ns + 1) % 8 /\ \A s \in DOMAIN to_rtu : SarmAt(s) => i < s
  /\ \A m \in DOMAIN delivered, k \in DOMAIN msg_sent : k = Len(msg_sent) /\ msg_sent[k].id = delivered[m] =>
       rtu_vr = (msg_sent[k].ns + 1) % 8 /\ \A s \in DOMAIN to_rtu : ~SarmAt(s)

OrderInv == QueueOrder /\ FrameOrder /\ Copies

---------------------------------------------------------------------------
(* Queues and channels                                                      *)

\* The entries of the queues and channels.
LEMMA EntryTypes ==
  ASSUME TypeOK
  PROVE  /\ DOMAIN msg_sent = 1..Len(msg_sent) /\ Len(msg_sent) \in Nat
         /\ DOMAIN msg_waiting = 1..Len(msg_waiting) /\ Len(msg_waiting) \in Nat
         /\ DOMAIN to_rtu = 1..Len(to_rtu) /\ Len(to_rtu) \in Nat
         /\ DOMAIN delivered = 1..Len(delivered) /\ Len(delivered) \in Nat
         /\ \A i \in DOMAIN msg_sent : msg_sent[i].id \in Nat /\ msg_sent[i].ns \in 0..7
         /\ \A i \in DOMAIN msg_waiting : msg_waiting[i].id \in Nat
         /\ \A i \in DOMAIN to_rtu : InfoAt(i) => to_rtu[i].id \in Nat /\ to_rtu[i].ns \in 0..7 /\ to_rtu[i].p \in BOOLEAN
         /\ \A i \in DOMAIN to_rtu : InfoAt(i) <=> ~SarmAt(i)
         /\ \A i \in DOMAIN delivered : delivered[i] \in Nat
         /\ next_id \in Nat /\ rtu_vr \in 0..7
<1>1. /\ DOMAIN msg_sent = 1..Len(msg_sent) /\ Len(msg_sent) \in Nat
      /\ DOMAIN msg_waiting = 1..Len(msg_waiting) /\ Len(msg_waiting) \in Nat
      /\ DOMAIN to_rtu = 1..Len(to_rtu) /\ Len(to_rtu) \in Nat
      /\ DOMAIN delivered = 1..Len(delivered) /\ Len(delivered) \in Nat
  BY LenProperties DEF TypeOK
<1>2. /\ \A i \in DOMAIN msg_sent : msg_sent[i] \in Messages
      /\ \A i \in DOMAIN msg_waiting : msg_waiting[i] \in Messages
      /\ \A i \in DOMAIN to_rtu : to_rtu[i] \in ToRTU
      /\ \A i \in DOMAIN delivered : delivered[i] \in Nat
  BY <1>1, ElementOfSeq DEF TypeOK
<1>3. /\ \A i \in DOMAIN msg_sent : msg_sent[i].id \in Nat /\ msg_sent[i].ns \in 0..7
      /\ \A i \in DOMAIN msg_waiting : msg_waiting[i].id \in Nat
  BY <1>2 DEF Messages
<1>4. ASSUME NEW i \in DOMAIN to_rtu
      PROVE  /\ InfoAt(i) => to_rtu[i].id \in Nat /\ to_rtu[i].ns \in 0..7 /\ to_rtu[i].p \in BOOLEAN
             /\ InfoAt(i) <=> ~SarmAt(i)
  <2>1. to_rtu[i] \in ToRTU
    BY <1>2
  <2>2. QED
    BY <2>1 DEF ToRTU, InfoAt, SarmAt
<1>5. next_id \in Nat /\ rtu_vr \in 0..7
  BY DEF TypeOK
<1>6. QED
  BY <1>1, <1>2, <1>3, <1>4, <1>5

\* A number is not its successor modulo 8.
LEMMA NextDiffers ==
  ASSUME NEW n \in 0..7
  PROVE  (n + 1) % 8 \in 0..7 /\ n # (n + 1) % 8
  OBVIOUS

\* What is put in a channel comes after what is in it.
LEMMA PutFacts ==
  ASSUME NEW S, NEW channel \in Seq(S), NEW frames \in Seq(S), ChannelBound \in Nat
  PROVE  \A i \in DOMAIN Put(channel, frames) :
           \/ i \in DOMAIN channel /\ Put(channel, frames)[i] = channel[i]
           \/ \E h \in DOMAIN frames : i = Len(channel) + h /\ Put(channel, frames)[i] = frames[h]
<1> TAKE i \in DOMAIN Put(channel, frames)
<1> DEFINE all == channel \o frames
           n == LeastOf(Len(channel) + Len(frames), ChannelBound)
<1>1. /\ all \in Seq(S) /\ Len(all) = Len(channel) + Len(frames)
      /\ \A j \in 1..(Len(channel) + Len(frames)) :
           all[j] = IF j <= Len(channel) THEN channel[j] ELSE frames[j - Len(channel)]
  BY ConcatProperties
<1>2. /\ Len(channel) \in Nat /\ DOMAIN channel = 1..Len(channel)
      /\ Len(frames) \in Nat /\ DOMAIN frames = 1..Len(frames)
  BY LenProperties
<1>3. n \in Nat /\ n <= Len(all)
  BY <1>1, <1>2 DEF LeastOf
<1>4. CASE ~tcp_connected
  BY <1>4 DEF Put
<1>5. CASE tcp_connected
  <2>1. Put(channel, frames) = SubSeq(all, 1, n)
    BY <1>5 DEF Put
  <2> HIDE DEF all, n
  <2>2. \A j \in 1..n : all[j] \in S
    BY <1>1, <1>2, <1>3, ElementOfSeq
  <2>3. /\ SubSeq(all, 1, n) \in Seq(S)
        /\ Len(SubSeq(all, 1, n)) = IF 1 <= n THEN n - 1 + 1 ELSE 0
        /\ \A j \in 1..(n - 1 + 1) : SubSeq(all, 1, n)[j] = all[1 + j - 1]
    BY <1>3, <2>2, SubSeqProperties
  <2>4. i \in 1..n
    <3>1. DOMAIN SubSeq(all, 1, n) = 1..Len(SubSeq(all, 1, n))
      BY <2>3, LenProperties
    <3>2. QED
      BY <1>3, <2>1, <2>3, <3>1
  <2>5. Put(channel, frames)[i] = all[i] /\ i \in 1..(Len(channel) + Len(frames))
    <3>1. i \in 1..(n - 1 + 1) /\ 1 + i - 1 = i
      BY <1>3, <2>4
    <3>2. SubSeq(all, 1, n)[i] = all[i]
      BY <2>3, <3>1
    <3>3. QED
      BY <1>1, <1>2, <1>3, <2>1, <2>4, <3>2
  <2>6. CASE i <= Len(channel)
    BY <1>1, <1>2, <2>5, <2>6
  <2>7. CASE ~(i <= Len(channel))
    <3>1. i - Len(channel) \in DOMAIN frames /\ i = Len(channel) + (i - Len(channel))
      BY <1>2, <2>5, <2>7
    <3>2. Put(channel, frames)[i] = frames[i - Len(channel)]
      BY <1>1, <2>5, <2>7
    <3>3. QED
      BY <3>1, <3>2
  <2>8. QED
    BY <2>6, <2>7
<1>6. QED
  BY <1>4, <1>5

\* So does a single frame.
LEMMA PutOne ==
  ASSUME NEW S, NEW channel \in Seq(S), NEW frame \in S, ChannelBound \in Nat
  PROVE  \A i \in DOMAIN Put(channel, <<frame>>) :
           \/ i \in DOMAIN channel /\ Put(channel, <<frame>>)[i] = channel[i]
           \/ i = Len(channel) + 1 /\ Put(channel, <<frame>>)[i] = frame
<1> DEFINE frames == <<frame>>
<1>1. frames \in Seq(S) /\ DOMAIN frames = 1..1 /\ frames[1] = frame
  BY Singleton
<1> HIDE DEF frames
<1>2. \A i \in DOMAIN Put(channel, frames) :
        \/ i \in DOMAIN channel /\ Put(channel, frames)[i] = channel[i]
        \/ \E h \in DOMAIN frames : i = Len(channel) + h /\ Put(channel, frames)[i] = frames[h]
  BY <1>1, PutFacts
<1>3. \A h \in DOMAIN frames : h = 1
  BY <1>1
<1>4. QED
  BY <1>1, <1>2, <1>3 DEF frames

---------------------------------------------------------------------------
(* Order                                                                    *)

\* Taking frames from the channel and discarding the queues keeps the order, also
\* when the RTU restarts its numbers for a SARM among these frames.
LEMMA LossKeepsOrder ==
  ASSUME TypeOK, OrderInv, NEW n \in Nat,
         \A i \in DOMAIN to_rtu' : i \in Nat /\ i + n \in DOMAIN to_rtu /\ to_rtu'[i] = to_rtu[i + n],
         UNCHANGED <<msg_sent, msg_waiting>> \/ (msg_sent' = <<>> /\ msg_waiting' = <<>>),
         UNCHANGED rtu_vr \/ (\E s \in DOMAIN to_rtu : SarmAt(s) /\ s <= n),
         UNCHANGED <<delivered, next_id>>
  PROVE  OrderInv'
<1>1. /\ \A i \in DOMAIN msg_sent' : i \in DOMAIN msg_sent /\ msg_sent'[i] = msg_sent[i] /\ Len(msg_sent') = Len(msg_sent)
      /\ \A i \in DOMAIN msg_waiting' : i \in DOMAIN msg_waiting /\ msg_waiting'[i] = msg_waiting[i]
  BY EmptySeq
<1>2. \A x : (Before(x) => Before(x)') /\ (NotAfter(x) => NotAfter(x)')
  BY <1>1 DEF Before, NotAfter
<1>3. \A i \in DOMAIN to_rtu' : (InfoAt(i)' <=> InfoAt(i + n)) /\ (SarmAt(i)' <=> SarmAt(i + n))
  BY DEF InfoAt, SarmAt
<1>4. \A i, j \in DOMAIN to_rtu' : i < j <=> i + n < j + n
  OBVIOUS
<1>5. QueueOrder'
  BY <1>1, <1>2 DEF OrderInv, QueueOrder, WaitingOrder
<1>6. FrameOrder'
  BY <1>2, <1>3, <1>4 DEF OrderInv, FrameOrder
<1>7. Copies'
  <2>1. \A i \in DOMAIN to_rtu' : i \in Nat /\ \A s \in Nat : s <= n => ~(i + n < s)
    OBVIOUS
  <2>2. DOMAIN to_rtu = 1..Len(to_rtu)
    BY EntryTypes
  <2>3. QED
    BY <1>1, <1>3, <1>4, <2>1, <2>2 DEF OrderInv, Copies
<1>8. QED
  BY <1>5, <1>6, <1>7 DEF OrderInv

\* x is newer than everything that was sent.
Newer(x) ==
  /\ \A i \in DOMAIN msg_sent : msg_sent[i].id < x
  /\ \A i \in DOMAIN to_rtu : InfoAt(i) => to_rtu[i].id < x
  /\ \A m \in DOMAIN delivered : delivered[m] < x

\* Before and NotAfter in the next state, for a value of this one.
BeforeNext(x) == x < next_id' /\ \A j \in DOMAIN msg_waiting' : x < msg_waiting'[j].id
NotAfterNext(x) == \A k \in DOMAIN msg_sent' : k = Len(msg_sent') => x <= msg_sent'[k].id

\* The messages of batch are sent after the first n of msg_sent were removed; r are
\* left of msg_sent.
Sends(n, r, k, batch) ==
  /\ n \in Nat /\ r \in Nat /\ k \in Nat
  /\ Len(msg_sent') = r + k
  /\ \A i \in 1..r : i + n \in DOMAIN msg_sent /\ msg_sent'[i] = msg_sent[i + n]
  /\ r > 0 => r + n = Len(msg_sent)
  /\ \A h \in 1..k : msg_sent'[r + h] = batch[h]
  /\ \E frames \in Seq(ToRTU) :
       /\ DOMAIN frames = 1..k /\ to_rtu' = Put(to_rtu, frames)
       /\ \A h \in 1..k : frames[h].type = "INFO" /\ frames[h].id = batch[h].id /\ frames[h].ns = batch[h].ns

\* That keeps the order, if they are in order, newer than everything that was sent
\* and older than what waits.
LEMMA SendKeepsOrder ==
  ASSUME TypeOK, TypeOK', OrderInv, ChannelBound \in Nat, NEW n, NEW r, NEW k, NEW batch, Sends(n, r, k, batch),
         \A h \in 1..k : batch[h].id \in Nat /\ Newer(batch[h].id) /\ BeforeNext(batch[h].id),
         \A g, h \in 1..k : g < h => batch[g].id < batch[h].id,
         \A x \in Nat : Before(x) => BeforeNext(x), WaitingOrder', UNCHANGED <<rtu_vr, delivered>>
  PROVE  OrderInv'
<1>0. n \in Nat /\ r \in Nat /\ k \in Nat
  BY DEF Sends
<1>a. /\ DOMAIN msg_sent = 1..Len(msg_sent) /\ Len(msg_sent) \in Nat
      /\ DOMAIN to_rtu = 1..Len(to_rtu) /\ Len(to_rtu) \in Nat
      /\ \A i \in DOMAIN msg_sent : msg_sent[i].id \in Nat
      /\ \A i \in DOMAIN to_rtu : InfoAt(i) => to_rtu[i].id \in Nat
      /\ \A i \in DOMAIN to_rtu : InfoAt(i) <=> ~SarmAt(i)
      /\ \A m \in DOMAIN delivered : delivered[m] \in Nat
  BY EntryTypes
<1>b. DOMAIN msg_sent' = 1..(r + k) /\ DOMAIN to_rtu' = 1..Len(to_rtu') /\ Len(to_rtu') \in Nat
  <2>1. Len(msg_sent') = r + k
    BY DEF Sends
  <2>2. QED
    BY <2>1, LenProperties DEF TypeOK
\* the two kinds of messages of msg_sent, and of frames in the channel
<1> DEFINE Left(i) == i \in 1..r /\ i + n \in DOMAIN msg_sent /\ msg_sent'[i] = msg_sent[i + n]
           Sent(i, h) == h \in 1..k /\ i = r + h /\ msg_sent'[i] = batch[h]
           Old(i) == /\ i \in DOMAIN to_rtu /\ i <= Len(to_rtu) /\ to_rtu'[i] = to_rtu[i]
                     /\ (InfoAt(i)' <=> InfoAt(i)) /\ (SarmAt(i)' <=> SarmAt(i))
           New(i, h) == /\ h \in 1..k /\ i = Len(to_rtu) + h /\ InfoAt(i)' /\ ~SarmAt(i)'
                        /\ to_rtu'[i].id = batch[h].id /\ to_rtu'[i].ns = batch[h].ns
<1>c. \A i \in DOMAIN msg_sent' : i \in Nat /\ (Left(i) \/ \E h \in 1..k : Sent(i, h))
  <2>1. ASSUME NEW i \in 1..(r + k) PROVE i \in Nat /\ (i \in 1..r \/ \E h \in 1..k : i = r + h)
    BY <1>0, Beyond
  <2>2. \A i \in 1..r : Left(i)
    BY DEF Sends
  <2>3. \A h \in 1..k : Sent(r + h, h)
    BY DEF Sends
  <2> HIDE DEF Left, Sent
  <2>4. QED
    BY <1>b, <2>1, <2>2, <2>3
<1>d. \A i \in DOMAIN to_rtu' : i \in Nat /\ (Old(i) \/ \E h \in 1..k : New(i, h))
  <2>1. PICK frames \in Seq(ToRTU) :
          /\ DOMAIN frames = 1..k /\ to_rtu' = Put(to_rtu, frames)
          /\ \A h \in 1..k : frames[h].type = "INFO" /\ frames[h].id = batch[h].id /\ frames[h].ns = batch[h].ns
    BY DEF Sends
  <2>2. to_rtu \in Seq(ToRTU)
    BY DEF TypeOK
  <2> TAKE i \in DOMAIN to_rtu'
  <2>3. \/ i \in DOMAIN to_rtu /\ to_rtu'[i] = to_rtu[i]
        \/ \E h \in 1..k : i = Len(to_rtu) + h /\ to_rtu'[i] = frames[h]
    <3>1. \A j \in DOMAIN Put(to_rtu, frames) :
            \/ j \in DOMAIN to_rtu /\ Put(to_rtu, frames)[j] = to_rtu[j]
            \/ \E h \in DOMAIN frames : j = Len(to_rtu) + h /\ Put(to_rtu, frames)[j] = frames[h]
      BY <2>2, PutFacts
    <3>2. QED
      BY <2>1, <3>1, Zenon
  <2>4. i \in Nat
    BY <1>b
  <2>5. CASE i \in DOMAIN to_rtu /\ to_rtu'[i] = to_rtu[i]
    <3>1. i <= Len(to_rtu)
      BY <1>a, <2>5
    <3>2. QED
      BY <2>4, <2>5, <3>1 DEF InfoAt, SarmAt
  <2>6. ASSUME NEW h \in 1..k, i = Len(to_rtu) + h, to_rtu'[i] = frames[h] PROVE New(i, h)
    BY <2>1, <2>6 DEF InfoAt, SarmAt
  <2> HIDE DEF New, Old
  <2>7. QED
    BY <2>3, <2>4, <2>5, <2>6
<1>e. \A i \in DOMAIN to_rtu' : SarmAt(i)' => Old(i) /\ SarmAt(i)
  BY <1>d
<1>f. \A i \in DOMAIN to_rtu' : InfoAt(i)' => (Old(i) /\ InfoAt(i)) \/ \E h \in 1..k : New(i, h)
  BY <1>d
<1>1. QueueOrder'
  <2>1. \A i \in DOMAIN msg_sent' : BeforeNext(msg_sent'[i].id)
    BY <1>a, <1>c DEF OrderInv, QueueOrder, Sends
  <2>2. ASSUME NEW i \in DOMAIN msg_sent', NEW j \in DOMAIN msg_sent', i < j
        PROVE  msg_sent'[i].id < msg_sent'[j].id
    <3>1. CASE Left(i) /\ Left(j)
      <4>1. i + n < j + n
        BY <1>0, <1>c, <2>2
      <4>2. QED
        BY <3>1, <4>1 DEF OrderInv, QueueOrder
    <3>2. ASSUME NEW h \in 1..k, Sent(j, h), Left(i) PROVE msg_sent'[i].id < msg_sent'[j].id
      BY <3>2 DEF Newer
    <3>3. ASSUME NEW h \in 1..k, Sent(i, h), Left(j) PROVE FALSE
      BY <1>0, <1>c, <2>2, <3>3
    <3>4. ASSUME NEW g \in 1..k, NEW h \in 1..k, Sent(i, g), Sent(j, h) PROVE msg_sent'[i].id < msg_sent'[j].id
      <4>1. g < h
        BY <1>0, <2>2, <3>4
      <4>2. QED
        BY <3>4, <4>1
    <3> HIDE DEF Left, Sent
    <3>5. QED
      BY <1>c, <3>1, <3>2, <3>3, <3>4
  <2>3. QED
    BY <2>1, <2>2 DEF QueueOrder, Before, BeforeNext
\* the last message of msg_sent
<1>2. ASSUME NEW x \in Nat, NotAfter(x), \A h \in 1..k : x < batch[h].id PROVE NotAfterNext(x)
  <2> SUFFICES ASSUME NEW i \in DOMAIN msg_sent', i = r + k PROVE x <= msg_sent'[i].id
    BY DEF NotAfterNext, Sends
  <2>1. CASE Left(i)
    <3>1. i = r /\ i + n = Len(msg_sent)
      BY <1>0, <2>1 DEF Sends
    <3>2. QED
      BY <1>2, <2>1, <3>1 DEF NotAfter
  <2>2. ASSUME NEW h \in 1..k, Sent(i, h) PROVE x <= msg_sent'[i].id
    BY <1>2, <2>2
  <2> HIDE DEF Left, Sent
  <2>3. QED
    BY <1>c, <2>1, <2>2
<1>3. FrameOrder'
  <2>1. ASSUME NEW i \in DOMAIN to_rtu', InfoAt(i)'
        PROVE  BeforeNext(to_rtu'[i].id) /\ NotAfterNext(to_rtu'[i].id)
    <3>1. CASE Old(i) /\ InfoAt(i)
      <4>1. Before(to_rtu[i].id) /\ NotAfter(to_rtu[i].id) /\ to_rtu[i].id \in Nat
        BY <1>a, <3>1 DEF OrderInv, FrameOrder
      <4>2. \A h \in 1..k : to_rtu[i].id < batch[h].id
        BY <3>1 DEF Newer
      <4>3. BeforeNext(to_rtu[i].id) /\ NotAfterNext(to_rtu[i].id)
        BY <1>2, <4>1, <4>2
      <4>4. QED
        BY <3>1, <4>3
    <3>2. ASSUME NEW h \in 1..k, New(i, h) PROVE BeforeNext(to_rtu'[i].id) /\ NotAfterNext(to_rtu'[i].id)
      <4>1. batch[h].id <= batch[k].id
        <5>1. k \in 1..k /\ (h < k \/ h = k)
          BY <1>0
        <5>2. QED
          BY <5>1
      <4>2. \A j \in DOMAIN msg_sent' : j = Len(msg_sent') => msg_sent'[j] = batch[k]
        BY <1>0 DEF Sends
      <4>3. NotAfterNext(batch[h].id)
        BY <4>1, <4>2 DEF NotAfterNext
      <4>4. QED
        BY <3>2, <4>3
    <3> HIDE DEF Old, New
    <3>3. QED
      BY <1>f, <2>1, <3>1, <3>2
  <2>2. ASSUME NEW m \in DOMAIN delivered PROVE BeforeNext(delivered[m]) /\ NotAfterNext(delivered[m])
    <3>1. Before(delivered[m]) /\ NotAfter(delivered[m]) /\ delivered[m] \in Nat
      BY <1>a DEF OrderInv, FrameOrder
    <3>2. \A h \in 1..k : delivered[m] < batch[h].id
      BY DEF Newer
    <3>3. QED
      BY <1>2, <3>1, <3>2
  <2>3. ASSUME NEW i \in DOMAIN to_rtu', NEW j \in DOMAIN to_rtu', InfoAt(i)', InfoAt(j)', i < j
        PROVE  to_rtu'[i].id <= to_rtu'[j].id
    <3>1. CASE Old(i) /\ InfoAt(i) /\ Old(j) /\ InfoAt(j)
      BY <2>3, <3>1 DEF OrderInv, FrameOrder
    <3>2. ASSUME NEW h \in 1..k, New(j, h), Old(i), InfoAt(i) PROVE to_rtu'[i].id <= to_rtu'[j].id
      <4>1. to_rtu[i].id < batch[h].id /\ to_rtu[i].id \in Nat
        BY <1>a, <3>2 DEF Newer
      <4>2. QED
        BY <3>2, <4>1
    <3>3. ASSUME NEW h \in 1..k, New(i, h), Old(j) PROVE FALSE
      BY <1>a, <1>d, <2>3, <3>3
    <3>4. ASSUME NEW g \in 1..k, NEW h \in 1..k, New(i, g), New(j, h) PROVE to_rtu'[i].id <= to_rtu'[j].id
      <4>1. g < h
        BY <1>a, <2>3, <3>4
      <4>2. QED
        BY <3>4, <4>1
    <3> HIDE DEF Old, New
    <3>5. QED
      BY <1>f, <2>3, <3>1, <3>2, <3>3, <3>4
  <2>4. ASSUME NEW m \in DOMAIN delivered, NEW i \in DOMAIN to_rtu', InfoAt(i)' PROVE delivered[m] <= to_rtu'[i].id
    <3>1. CASE Old(i) /\ InfoAt(i)
      BY <3>1 DEF OrderInv, FrameOrder
    <3>2. ASSUME NEW h \in 1..k, New(i, h) PROVE delivered[m] <= to_rtu'[i].id
      <4>1. delivered[m] < batch[h].id /\ delivered[m] \in Nat
        BY <1>a DEF Newer
      <4>2. QED
        BY <3>2, <4>1
    <3> HIDE DEF Old, New
    <3>3. QED
      BY <1>f, <2>4, <3>1, <3>2
  <2> HIDE DEF Old, New
  <2>5. \A l, m \in DOMAIN delivered : l < m => delivered[l] < delivered[m]
    BY DEF OrderInv, FrameOrder
  <2>6. QED
    BY <2>1, <2>2, <2>3, <2>4, <2>5 DEF FrameOrder, Before, BeforeNext, NotAfter, NotAfterNext
\* a message that is sent is no copy of one that was sent
<1>4. ASSUME NEW i \in DOMAIN to_rtu, InfoAt(i), NEW h \in 1..k PROVE to_rtu[i].id # batch[h].id
  <2>1. to_rtu[i].id < batch[h].id /\ to_rtu[i].id \in Nat
    BY <1>a, <1>4 DEF Newer
  <2>2. QED
    BY <2>1
<1>5. ASSUME NEW m \in DOMAIN delivered, NEW h \in 1..k PROVE delivered[m] # batch[h].id
  <2>1. delivered[m] < batch[h].id /\ delivered[m] \in Nat
    BY <1>a DEF Newer
  <2>2. QED
    BY <2>1
<1>6. ASSUME NEW i \in DOMAIN msg_sent, NEW h \in 1..k PROVE msg_sent[i].id # batch[h].id
  <2>1. msg_sent[i].id < batch[h].id /\ msg_sent[i].id \in Nat
    BY <1>a DEF Newer
  <2>2. QED
    BY <2>1
<1>7. ASSUME NEW g \in 1..k, NEW h \in 1..k, batch[g].id = batch[h].id PROVE g = h
  <2>1. g < h \/ h < g \/ g = h
    OBVIOUS
  <2>2. QED
    BY <1>7, <2>1
<1>8. Copies'
  <2>1. ASSUME NEW i \in DOMAIN to_rtu', NEW j \in DOMAIN to_rtu', InfoAt(i)', InfoAt(j)', i < j,
               to_rtu'[i].id = to_rtu'[j].id
        PROVE  to_rtu'[i].ns = to_rtu'[j].ns /\ \A s \in DOMAIN to_rtu' : SarmAt(s)' /\ i < s => j < s
    <3>1. CASE Old(i) /\ InfoAt(i) /\ Old(j) /\ InfoAt(j)
      BY <1>e, <2>1, <3>1 DEF OrderInv, Copies
    <3>2. ASSUME NEW h \in 1..k, New(j, h), Old(i), InfoAt(i) PROVE FALSE
      BY <1>4, <2>1, <3>2
    <3>3. ASSUME NEW h \in 1..k, New(i, h), Old(j) PROVE FALSE
      BY <1>a, <1>d, <2>1, <3>3
    <3>4. ASSUME NEW g \in 1..k, NEW h \in 1..k, New(i, g), New(j, h) PROVE FALSE
      <4>1. g = h
        BY <1>7, <2>1, <3>4
      <4>2. QED
        BY <1>a, <2>1, <3>4, <4>1
    <3> HIDE DEF Old, New
    <3>5. QED
      BY <1>f, <2>1, <3>1, <3>2, <3>3, <3>4
  <2>2. ASSUME NEW i \in DOMAIN to_rtu', NEW j \in DOMAIN msg_sent', InfoAt(i)', to_rtu'[i].id = msg_sent'[j].id
        PROVE  to_rtu'[i].ns = msg_sent'[j].ns /\ \A s \in DOMAIN to_rtu' : SarmAt(s)' => s < i
    <3>1. ASSUME NEW h \in 1..k, New(i, h), NEW s \in DOMAIN to_rtu', SarmAt(s)' PROVE s < i
      <4>1. s <= Len(to_rtu) /\ s \in Nat
        BY <1>d, <1>e, <3>1
      <4>2. QED
        BY <1>a, <3>1, <4>1
    <3>2. ASSUME NEW h \in 1..k, New(i, h) PROVE to_rtu'[i].ns = msg_sent'[j].ns
      <4>1. ~Left(j)
        BY <1>6, <2>2, <3>2
      <4>2. ASSUME NEW g \in 1..k, Sent(j, g) PROVE to_rtu'[i].ns = msg_sent'[j].ns
        <5>1. g = h
          BY <1>7, <2>2, <3>2, <4>2
        <5>2. QED
          BY <3>2, <4>2, <5>1
      <4> HIDE DEF Left, Sent
      <4>3. QED
        BY <1>c, <4>1, <4>2
    <3>3. ASSUME Old(i), InfoAt(i)
          PROVE  to_rtu'[i].ns = msg_sent'[j].ns /\ \A s \in DOMAIN to_rtu' : SarmAt(s)' => s < i
      <4>1. \A h \in 1..k : ~Sent(j, h)
        BY <1>4, <2>2, <3>3
      <4>2. Left(j)
        BY <1>c, <4>1
      <4>3. QED
        BY <1>e, <2>2, <3>3, <4>2 DEF OrderInv, Copies
    <3> HIDE DEF Old, New
    <3>4. QED
      BY <1>f, <2>2, <3>1, <3>2, <3>3
  <2>3. ASSUME NEW m \in DOMAIN delivered, NEW i \in DOMAIN to_rtu', InfoAt(i)', to_rtu'[i].id = delivered[m]
        PROVE  rtu_vr = (to_rtu'[i].ns + 1) % 8 /\ \A s \in DOMAIN to_rtu' : SarmAt(s)' => i < s
    <3>1. Old(i) /\ InfoAt(i)
      BY <1>5, <1>f, <2>3
    <3>2. QED
      BY <1>e, <2>3, <3>1 DEF OrderInv, Copies
  <2>4. ASSUME NEW m \in DOMAIN delivered, NEW j \in DOMAIN msg_sent', j = r + k, msg_sent'[j].id = delivered[m]
        PROVE  rtu_vr = (msg_sent'[j].ns + 1) % 8 /\ \A s \in DOMAIN to_rtu' : ~SarmAt(s)'
    <3>1. \A h \in 1..k : ~Sent(j, h)
      BY <1>5, <2>4
    <3>2. Left(j)
      BY <1>c, <3>1
    <3>3. j + n = Len(msg_sent)
      <4>1. j = r
        BY <1>0, <2>4, <3>2
      <4>2. QED
        BY <1>0, <3>2, <4>1 DEF Sends
    <3>4. QED
      BY <1>e, <2>4, <3>2, <3>3 DEF OrderInv, Copies
  <2> HIDE DEF Old, New
  <2>5. Len(msg_sent') = r + k
    BY DEF Sends
  <2>6. QED
    BY <2>1, <2>2, <2>3, <2>4, <2>5 DEF Copies
<1>9. QED
  BY <1>1, <1>3, <1>8 DEF OrderInv

\* Repeating the only frame of msg_sent keeps the order.
LEMMA ResendKeepsOrder ==
  ASSUME TypeOK, OrderInv, ChannelBound \in Nat, Len(msg_sent) = 1,
         NEW frame \in ToRTU, frame.type = "INFO", frame.id = msg_sent[1].id, frame.ns = msg_sent[1].ns,
         to_rtu' = Put(to_rtu, <<frame>>),
         UNCHANGED <<msg_sent, msg_waiting, rtu_vr, delivered, next_id>>
  PROVE  OrderInv'
<1>a. /\ DOMAIN msg_sent = 1..1 /\ DOMAIN to_rtu = 1..Len(to_rtu) /\ Len(to_rtu) \in Nat
      /\ msg_sent[1].id \in Nat
      /\ \A i \in DOMAIN to_rtu : InfoAt(i) <=> ~SarmAt(i)
  BY EntryTypes
<1> DEFINE Old(i) == /\ i \in DOMAIN to_rtu /\ i < Len(to_rtu) + 1 /\ to_rtu'[i] = to_rtu[i]
                     /\ (InfoAt(i)' <=> InfoAt(i)) /\ (SarmAt(i)' <=> SarmAt(i))
           New(i) == /\ i = Len(to_rtu) + 1 /\ InfoAt(i)' /\ ~SarmAt(i)'
                     /\ to_rtu'[i].id = msg_sent[1].id /\ to_rtu'[i].ns = msg_sent[1].ns
<1>b. \A i \in DOMAIN to_rtu' : Old(i) \/ New(i)
  <2>1. to_rtu \in Seq(ToRTU)
    BY DEF TypeOK
  <2>2. \A i \in DOMAIN to_rtu' : \/ i \in DOMAIN to_rtu /\ to_rtu'[i] = to_rtu[i]
                                  \/ i = Len(to_rtu) + 1 /\ to_rtu'[i] = frame
    BY <2>1, PutOne
  <2>3. QED
    BY <1>a, <2>2 DEF InfoAt, SarmAt
<1>c. \A x : NotAfter(x) <=> x <= msg_sent[1].id
  BY <1>a DEF NotAfter
<1>d. \A x : (Before(x)' <=> Before(x)) /\ (NotAfter(x)' <=> NotAfter(x))
  BY DEF Before, NotAfter
<1>1. QueueOrder'
  BY <1>d DEF OrderInv, QueueOrder, WaitingOrder, Before
<1>2. FrameOrder'
  <2>1. \A i \in DOMAIN to_rtu' : InfoAt(i)' => Before(to_rtu'[i].id) /\ NotAfter(to_rtu'[i].id)
    BY <1>a, <1>b, <1>c DEF OrderInv, FrameOrder, QueueOrder
  <2>2. ASSUME NEW i \in DOMAIN to_rtu', NEW j \in DOMAIN to_rtu', InfoAt(i)', InfoAt(j)', i < j
        PROVE  to_rtu'[i].id <= to_rtu'[j].id
    <3>1. CASE Old(i) /\ Old(j)
      BY <2>2, <3>1 DEF OrderInv, FrameOrder
    <3>2. CASE New(j)
      BY <1>c, <2>1, <2>2, <3>2
    <3>3. CASE New(i) /\ Old(j)
      BY <1>a, <2>2, <3>3
    <3>4. QED
      BY <1>b, <3>1, <3>2, <3>3
  <2>3. \A m \in DOMAIN delivered, i \in DOMAIN to_rtu' : InfoAt(i)' => delivered[m] <= to_rtu'[i].id
    BY <1>b, <1>c DEF OrderInv, FrameOrder
  <2> HIDE DEF Old, New
  <2>4. QED
    BY <2>1, <2>2, <2>3 DEF OrderInv, FrameOrder, Before, NotAfter
<1>e. \A i \in DOMAIN to_rtu' : SarmAt(i)' => Old(i) /\ SarmAt(i)
  BY <1>b
<1>3. Copies'
  <2>1. ASSUME NEW i \in DOMAIN to_rtu', NEW j \in DOMAIN to_rtu', InfoAt(i)', InfoAt(j)', i < j,
               to_rtu'[i].id = to_rtu'[j].id
        PROVE  to_rtu'[i].ns = to_rtu'[j].ns /\ \A s \in DOMAIN to_rtu' : SarmAt(s)' /\ i < s => j < s
    <3>1. CASE Old(i) /\ Old(j)
      BY <1>e, <2>1, <3>1 DEF OrderInv, Copies
    <3>2. CASE Old(i) /\ New(j)
      <4>1. to_rtu[i].ns = msg_sent[1].ns /\ \A s \in DOMAIN to_rtu : SarmAt(s) => s < i
        BY <1>a, <2>1, <3>2 DEF OrderInv, Copies
      <4>2. QED
        BY <1>a, <1>e, <3>2, <4>1
    <3>3. CASE New(i)
      BY <1>a, <1>b, <2>1, <3>3
    <3>4. QED
      BY <1>b, <3>1, <3>2, <3>3
  <2>2. ASSUME NEW i \in DOMAIN to_rtu', NEW k \in DOMAIN msg_sent, InfoAt(i)', to_rtu'[i].id = msg_sent[k].id
        PROVE  to_rtu'[i].ns = msg_sent[k].ns /\ \A s \in DOMAIN to_rtu' : SarmAt(s)' => s < i
    <3>1. CASE Old(i)
      BY <1>e, <2>2, <3>1 DEF OrderInv, Copies
    <3>2. CASE New(i)
      BY <1>a, <1>e, <3>2
    <3>3. QED
      BY <1>b, <3>1, <3>2
  <2>3. ASSUME NEW m \in DOMAIN delivered, NEW i \in DOMAIN to_rtu', InfoAt(i)', to_rtu'[i].id = delivered[m]
        PROVE  rtu_vr = (to_rtu'[i].ns + 1) % 8 /\ \A s \in DOMAIN to_rtu' : SarmAt(s)' => i < s
    <3>1. CASE Old(i)
      BY <1>e, <2>3, <3>1 DEF OrderInv, Copies
    <3>2. CASE New(i)
      BY <1>a, <1>e, <2>3, <3>2 DEF OrderInv, Copies
    <3>3. QED
      BY <1>b, <3>1, <3>2
  <2>4. \A m \in DOMAIN delivered, k \in DOMAIN msg_sent : k = Len(msg_sent) /\ msg_sent[k].id = delivered[m] =>
          rtu_vr = (msg_sent[k].ns + 1) % 8 /\ \A s \in DOMAIN to_rtu' : ~SarmAt(s)'
    BY <1>e DEF OrderInv, Copies
  <2> HIDE DEF Old, New
  <2>5. QED
    BY <2>1, <2>2, <2>3, <2>4 DEF Copies
<1>4. QED
  BY <1>1, <1>2, <1>3 DEF OrderInv

\* Sending a SARM keeps the order: the queues are empty.
LEMMA SarmKeepsOrder ==
  ASSUME TypeOK, OrderInv, ChannelBound \in Nat, msg_sent = <<>>, msg_waiting = <<>>,
         to_rtu' = Put(to_rtu, <<Bare("SARM")>>),
         UNCHANGED <<msg_sent, msg_waiting, rtu_vr, delivered, next_id>>
  PROVE  OrderInv'
<1>a. /\ DOMAIN msg_sent = {} /\ DOMAIN msg_waiting = {}
      /\ DOMAIN to_rtu = 1..Len(to_rtu) /\ Len(to_rtu) \in Nat
      /\ \A i \in DOMAIN to_rtu : InfoAt(i) <=> ~SarmAt(i)
  BY EmptySeq, EntryTypes
<1> DEFINE Old(i) == /\ i \in DOMAIN to_rtu /\ i < Len(to_rtu) + 1 /\ to_rtu'[i] = to_rtu[i]
                     /\ (InfoAt(i)' <=> InfoAt(i)) /\ (SarmAt(i)' <=> SarmAt(i))
           New(i) == i = Len(to_rtu) + 1 /\ SarmAt(i)' /\ ~InfoAt(i)'
<1>b. \A i \in DOMAIN to_rtu' : Old(i) \/ New(i)
  <2> DEFINE frame == Bare("SARM")
  <2>1. frame \in ToRTU /\ frame.type = "SARM"
    BY DEF Bare, ToRTU
  <2>2. to_rtu' = Put(to_rtu, <<frame>>)
    OBVIOUS
  <2> HIDE DEF frame
  <2>3. to_rtu \in Seq(ToRTU)
    BY DEF TypeOK
  <2>4. \A i \in DOMAIN to_rtu' : \/ i \in DOMAIN to_rtu /\ to_rtu'[i] = to_rtu[i]
                                  \/ i = Len(to_rtu) + 1 /\ to_rtu'[i] = frame
    BY <2>1, <2>2, <2>3, PutOne
  <2>5. QED
    BY <1>a, <2>1, <2>4 DEF InfoAt, SarmAt
<1>c. \A i \in DOMAIN to_rtu' : InfoAt(i)' => Old(i) /\ InfoAt(i)
  BY <1>b
<1>1. QueueOrder' /\ FrameOrder'
  BY <1>a, <1>c DEF OrderInv, QueueOrder, WaitingOrder, FrameOrder, Before, NotAfter
<1>d. ASSUME NEW i \in DOMAIN to_rtu', InfoAt(i)', NEW s \in DOMAIN to_rtu', SarmAt(s)'
      PROVE  i < s \/ (SarmAt(s) /\ s \in DOMAIN to_rtu)
  <2>1. CASE Old(s)
    BY <1>d, <2>1
  <2>2. CASE New(s)
    BY <1>a, <1>c, <1>d, <2>2
  <2>3. QED
    BY <1>b, <2>1, <2>2
<1>2. Copies'
  BY <1>a, <1>c, <1>d DEF OrderInv, Copies
<1>3. QED
  BY <1>1, <1>2 DEF OrderInv

\* The RTU accepts the frame it expects: it is newer than everything it has, and
\* its copies are not expected any more.
LEMMA DeliveryKeepsOrder ==
  ASSUME TypeOK, OrderInv, to_rtu # <<>>, InfoAt(1), to_rtu[1].ns = rtu_vr,
         to_rtu' = Tail(to_rtu), rtu_vr' = (rtu_vr + 1) % 8, delivered' = Append(delivered, to_rtu[1].id),
         UNCHANGED <<msg_sent, msg_waiting, next_id>>
  PROVE  OrderInv'
<1> DEFINE x == to_rtu[1].id
<1>a. /\ DOMAIN msg_sent = 1..Len(msg_sent) /\ \A i \in DOMAIN msg_sent : msg_sent[i].id \in Nat
      /\ DOMAIN to_rtu = 1..Len(to_rtu) /\ Len(to_rtu) \in Nat
      /\ \A i \in DOMAIN to_rtu : InfoAt(i) => to_rtu[i].id \in Nat
      /\ DOMAIN delivered = 1..Len(delivered) /\ Len(delivered) \in Nat
      /\ \A m \in DOMAIN delivered : delivered[m] \in Nat
      /\ rtu_vr \in 0..7
  BY EntryTypes
<1>b. 1 \in DOMAIN to_rtu /\ x \in Nat
  <2>1. Len(to_rtu) # 0
    BY EmptySeq DEF TypeOK
  <2>2. 1 \in DOMAIN to_rtu
    BY <1>a, <2>1
  <2>3. QED
    BY <1>a, <2>2
<1>c. \A i \in DOMAIN to_rtu' : /\ i \in Nat /\ i + 1 \in DOMAIN to_rtu /\ 1 < i + 1 /\ to_rtu'[i] = to_rtu[i + 1]
                                /\ (InfoAt(i)' <=> InfoAt(i + 1)) /\ (SarmAt(i)' <=> SarmAt(i + 1))
  <2>1. /\ Len(to_rtu') = Len(to_rtu) - 1 /\ DOMAIN to_rtu' = 1..Len(to_rtu')
        /\ \A i \in 1..Len(to_rtu') : to_rtu'[i] = to_rtu[i + 1]
    BY HeadTailProperties, LenProperties DEF TypeOK
  <2>2. QED
    BY <1>a, <2>1 DEF InfoAt, SarmAt
<1>d. \A i, j \in DOMAIN to_rtu' : i < j <=> i + 1 < j + 1
  BY <1>c
<1>e. \A m \in DOMAIN delivered' : \/ m \in DOMAIN delivered /\ m < Len(delivered) + 1 /\ delivered'[m] = delivered[m]
                                   \/ m = Len(delivered) + 1 /\ delivered'[m] = x
  <2>1. /\ delivered' \in Seq(Nat) /\ Len(delivered') = Len(delivered) + 1
        /\ \A m \in 1..Len(delivered) : delivered'[m] = delivered[m]
        /\ delivered'[Len(delivered) + 1] = x
    BY <1>b, AppendProperties DEF TypeOK
  <2>2. DOMAIN delivered' = 1..(Len(delivered) + 1)
    BY <2>1, LenProperties
  <2> HIDE DEF x
  <2>3. QED
    BY <1>a, <2>1, <2>2
\* the copies of this frame, and what the RTU has already
<1>1. ASSUME NEW i \in DOMAIN to_rtu, 1 < i, InfoAt(i)
      PROVE  /\ x <= to_rtu[i].id
             /\ to_rtu[i].id = x => to_rtu[i].ns = rtu_vr /\ \A s \in DOMAIN to_rtu : SarmAt(s) /\ 1 < s => i < s
  BY <1>b, <1>1 DEF OrderInv, FrameOrder, Copies
<1>2. ASSUME NEW m \in DOMAIN delivered PROVE delivered[m] < x
  <2>1. delivered[m] <= x
    BY <1>b DEF OrderInv, FrameOrder
  <2>2. delivered[m] = x => rtu_vr = (rtu_vr + 1) % 8
    BY <1>b DEF OrderInv, Copies
  <2>3. rtu_vr # (rtu_vr + 1) % 8
    BY <1>a, NextDiffers
  <2>4. QED
    BY <1>a, <1>b, <2>1, <2>2, <2>3
<1>3. Before(x) /\ NotAfter(x)
  BY <1>b DEF OrderInv, FrameOrder
<1>4. \A k \in DOMAIN msg_sent : msg_sent[k].id = x =>
        msg_sent[k].ns = rtu_vr /\ \A s \in DOMAIN to_rtu : SarmAt(s) => s < 1
  BY <1>b DEF OrderInv, Copies
<1>5. \A y : (Before(y)' <=> Before(y)) /\ (NotAfter(y)' <=> NotAfter(y))
  BY DEF Before, NotAfter
<1> HIDE DEF x
<1>6. QueueOrder'
  BY DEF OrderInv, QueueOrder, WaitingOrder, Before
<1>7. FrameOrder'
  <2>1. \A i \in DOMAIN to_rtu' : InfoAt(i)' => Before(to_rtu'[i].id) /\ NotAfter(to_rtu'[i].id)
    BY <1>c DEF OrderInv, FrameOrder
  <2>2. \A m \in DOMAIN delivered' : Before(delivered'[m]) /\ NotAfter(delivered'[m])
    BY <1>3, <1>e DEF OrderInv, FrameOrder
  <2>3. \A i, j \in DOMAIN to_rtu' : InfoAt(i)' /\ InfoAt(j)' /\ i < j => to_rtu'[i].id <= to_rtu'[j].id
    BY <1>c, <1>d DEF OrderInv, FrameOrder
  <2>4. \A m \in DOMAIN delivered', i \in DOMAIN to_rtu' : InfoAt(i)' => delivered'[m] <= to_rtu'[i].id
    BY <1>1, <1>c, <1>e DEF OrderInv, FrameOrder
  <2>5. \A l, m \in DOMAIN delivered' : l < m => delivered'[l] < delivered'[m]
    BY <1>2, <1>a, <1>e DEF OrderInv, FrameOrder
  <2>6. QED
    BY <2>1, <2>2, <2>3, <2>4, <2>5 DEF FrameOrder, Before, NotAfter
<1>8. Copies'
  <2>1. \A i, j \in DOMAIN to_rtu' : InfoAt(i)' /\ InfoAt(j)' /\ i < j /\ to_rtu'[i].id = to_rtu'[j].id =>
          to_rtu'[i].ns = to_rtu'[j].ns /\ \A s \in DOMAIN to_rtu' : SarmAt(s)' /\ i < s => j < s
    BY <1>c, <1>d DEF OrderInv, Copies
  <2>2. \A i \in DOMAIN to_rtu', k \in DOMAIN msg_sent : InfoAt(i)' /\ to_rtu'[i].id = msg_sent[k].id =>
          to_rtu'[i].ns = msg_sent[k].ns /\ \A s \in DOMAIN to_rtu' : SarmAt(s)' => s < i
    BY <1>c, <1>d DEF OrderInv, Copies
  <2>3. ASSUME NEW m \in DOMAIN delivered', NEW i \in DOMAIN to_rtu', InfoAt(i)', to_rtu'[i].id = delivered'[m]
        PROVE  rtu_vr' = (to_rtu'[i].ns + 1) % 8 /\ \A s \in DOMAIN to_rtu' : SarmAt(s)' => i < s
    <3>1. delivered'[m] = x
      <4>1. x <= to_rtu'[i].id
        BY <1>1, <1>c, <2>3
      <4>2. CASE m \in DOMAIN delivered /\ delivered'[m] = delivered[m]
        BY <1>2, <1>a, <1>b, <2>3, <4>1, <4>2
      <4>3. QED
        BY <1>e, <4>2
    <3>2. to_rtu'[i].ns = rtu_vr /\ \A s \in DOMAIN to_rtu : SarmAt(s) /\ 1 < s => i + 1 < s
      BY <1>1, <1>c, <2>3, <3>1
    <3>3. QED
      BY <1>c, <1>d, <3>2
  <2>4. ASSUME NEW m \in DOMAIN delivered', NEW k \in DOMAIN msg_sent, k = Len(msg_sent), msg_sent[k].id = delivered'[m]
        PROVE  rtu_vr' = (msg_sent[k].ns + 1) % 8 /\ \A s \in DOMAIN to_rtu' : ~SarmAt(s)'
    <3>1. delivered'[m] = x
      <4>1. x <= msg_sent[k].id
        BY <1>3, <2>4 DEF NotAfter
      <4>2. CASE m \in DOMAIN delivered /\ delivered'[m] = delivered[m]
        BY <1>2, <1>a, <1>b, <2>4, <4>1, <4>2
      <4>3. QED
        BY <1>e, <4>2
    <3>2. msg_sent[k].ns = rtu_vr /\ \A s \in DOMAIN to_rtu : ~SarmAt(s)
      <4>1. \A s \in DOMAIN to_rtu : ~(s < 1)
        BY <1>a
      <4>2. QED
        BY <1>4, <2>4, <3>1, <4>1
    <3>3. QED
      BY <1>c, <3>2
  <2>5. QED
    <3> DEFINE P(m, i) == rtu_vr' = (to_rtu'[i].ns + 1) % 8 /\ \A s \in DOMAIN to_rtu' : SarmAt(s)' => i < s
               Q(m, k) == rtu_vr' = (msg_sent'[k].ns + 1) % 8 /\ \A s \in DOMAIN to_rtu' : ~SarmAt(s)'
    <3>1. \A m \in DOMAIN delivered', i \in DOMAIN to_rtu' : InfoAt(i)' /\ to_rtu'[i].id = delivered'[m] => P(m, i)
      BY <2>3
    <3>2. \A m \in DOMAIN delivered', k \in DOMAIN msg_sent' : k = Len(msg_sent') /\ msg_sent'[k].id = delivered'[m] => Q(m, k)
      BY <2>4
    <3>3. QED
      BY SMTT(30), <2>1, <2>2, <3>1, <3>2 DEF Copies
<1>9. QED
  BY <1>6, <1>7, <1>8 DEF OrderInv


---------------------------------------------------------------------------
(* Sending new and waiting messages                                         *)

\* Without renumbering, a message waits only while the window is full.
WaitingMeansFull == msg_waiting # <<>> => Len(msg_sent) >= conf.ratio

\* m_NRAccepted sends the oldest waiting messages, in their order.
LEMMA AcceptKeepsOrder ==
  ASSUME TypeOK, TypeOK', WindowBound, OrderInv, NEW nr \in 0..7, m_NRAccepted(nr),
         UNCHANGED <<rtu_vr, delivered, next_id>>
  PROVE  OrderInv'
<1> USE WindowAssumption
<1> DEFINE n == Acknowledged(nr)
<1>1. PICK r \in Nat, k \in Nat, frames \in Seq(ToRTU) :
        Counted(nr, r, k) /\ Shifted(n, r, k) /\ FramesOf(k, frames)
  BY AcceptEffect
<1>2. n \in Nat /\ (r > 0 => r + n = Len(msg_sent)) /\ Len(msg_sent) \in Nat
  <2>1. n \in Nat
    BY DEF Acknowledged, TypeOK
  <2>2. Len(msg_sent) \in Nat /\ r = IF n <= Len(msg_sent) THEN Len(msg_sent) - n ELSE 0
    BY <1>1, LenProperties DEF Counted, TypeOK
  <2> HIDE DEF n
  <2>3. QED
    BY <2>1, <2>2
<1> HIDE DEF n
<1> DEFINE batch == [h \in 1..k |-> Numbered(msg_waiting[h], h)]
<1>3. /\ DOMAIN msg_waiting = 1..Len(msg_waiting) /\ Len(msg_waiting) \in Nat
      /\ \A j \in DOMAIN msg_waiting : msg_waiting[j].id \in Nat
  BY EntryTypes
<1>4. \A h \in 1..k : h \in DOMAIN msg_waiting /\ batch[h].id = msg_waiting[h].id
  BY <1>1 DEF Shifted, Numbered
<1>5. Sends(n, r, k, batch)
  <2>1. \A h \in 1..k : frames[h].type = "INFO" /\ frames[h].id = batch[h].id /\ frames[h].ns = batch[h].ns
    BY <1>1 DEF FramesOf, INFO
  <2>2. /\ Len(msg_sent') = r + k
        /\ \A i \in 1..r : i + n \in DOMAIN msg_sent /\ msg_sent'[i] = msg_sent[i + n]
        /\ \A h \in 1..k : msg_sent'[r + h] = batch[h]
    BY <1>1 DEF Shifted
  <2>3. DOMAIN frames = 1..k /\ to_rtu' = Put(to_rtu, frames)
    BY <1>1 DEF FramesOf
  <2> HIDE DEF batch
  <2>4. QED
    BY <1>2, <2>1, <2>2, <2>3 DEF Sends
<1> HIDE DEF batch
\* the messages that still wait
<1>6. \A j \in DOMAIN msg_waiting' : j \in Nat /\ 0 < j /\ k + j \in DOMAIN msg_waiting /\ msg_waiting'[j] = msg_waiting[k + j]
  <2>1. /\ Len(msg_waiting') = Len(msg_waiting) - k /\ msg_waiting' \in Seq(Messages)
        /\ \A j \in 1..(Len(msg_waiting) - k) : k + j \in DOMAIN msg_waiting /\ msg_waiting'[j] = msg_waiting[k + j]
    BY <1>1 DEF Shifted
  <2>2. DOMAIN msg_waiting' = 1..(Len(msg_waiting) - k)
    BY <2>1, LenProperties
  <2>3. QED
    BY <1>3, <2>1, <2>2
<1>7. ASSUME NEW h \in 1..k
      PROVE  batch[h].id \in Nat /\ Newer(batch[h].id) /\ BeforeNext(batch[h].id)
  <2>1. h \in DOMAIN msg_waiting /\ batch[h].id = msg_waiting[h].id /\ msg_waiting[h].id \in Nat
    BY <1>3, <1>4
  <2>2. Newer(msg_waiting[h].id)
    BY <2>1 DEF OrderInv, QueueOrder, FrameOrder, Before, Newer
  <2>3. ASSUME NEW j \in DOMAIN msg_waiting' PROVE msg_waiting[h].id < msg_waiting'[j].id
    <3>1. h < k + j /\ k + j \in DOMAIN msg_waiting /\ msg_waiting'[j] = msg_waiting[k + j]
      BY <1>6
    <3>2. QED
      BY <2>1, <3>1 DEF OrderInv, QueueOrder, WaitingOrder
  <2>4. msg_waiting[h].id < next_id
    BY <2>1 DEF OrderInv, QueueOrder, WaitingOrder
  <2>5. QED
    BY <2>1, <2>2, <2>3, <2>4 DEF BeforeNext
<1>8. ASSUME NEW g \in 1..k, NEW h \in 1..k, g < h PROVE batch[g].id < batch[h].id
  BY <1>4, <1>8 DEF OrderInv, QueueOrder, WaitingOrder
<1>9. \A x \in Nat : Before(x) => BeforeNext(x)
  BY <1>6 DEF Before, BeforeNext
<1>10. WaitingOrder'
  <2>1. \A j \in DOMAIN msg_waiting' : msg_waiting'[j].id < next_id
    BY <1>6 DEF OrderInv, QueueOrder, WaitingOrder
  <2>2. ASSUME NEW i \in DOMAIN msg_waiting', NEW j \in DOMAIN msg_waiting', i < j
        PROVE  msg_waiting'[i].id < msg_waiting'[j].id
    <3>1. k + i < k + j
      BY <1>6, <2>2
    <3>2. QED
      BY <1>6, <3>1 DEF OrderInv, QueueOrder, WaitingOrder
  <2>3. QED
    BY <2>1, <2>2 DEF WaitingOrder
<1>11. QED
  BY <1>5, <1>7, <1>8, <1>9, <1>10, SendKeepsOrder

\* A new message is the newest one: it is sent only when none waits.
LEMMA NewMessageKeepsOrder ==
  ASSUME TypeOK, TypeOK', WaitingMeansFull, OrderInv, NEW kind \in Kinds, m_sendInfo(kind)
  PROVE  OrderInv'
<1> USE WindowAssumption
<1> DEFINE message == [id |-> next_id, kind |-> kind, ns |-> 0]
           numbered == Numbered(message, 1)
<1>a. /\ DOMAIN msg_sent = 1..Len(msg_sent) /\ Len(msg_sent) \in Nat
      /\ DOMAIN msg_waiting = 1..Len(msg_waiting) /\ Len(msg_waiting) \in Nat
      /\ next_id \in Nat
  BY EntryTypes
<1>b. next_id' = next_id + 1 /\ UNCHANGED <<rtu_vr, delivered, conf>>
  BY DEF m_sendInfo, rtuVars
<1>c. message \in Messages /\ message.id = next_id
  BY <1>a, NewMessage
<1>d. numbered \in Messages /\ numbered.id = next_id
  <2>1. numbered.id = next_id
    BY DEF Numbered
  <2> HIDE DEF message
  <2>2. QED
    BY <1>c, <2>1, NumberedFacts DEF TypeOK
<1>e. Newer(next_id)
  BY DEF OrderInv, QueueOrder, FrameOrder, Before, Newer
<1>f. IF WindowOpen(msg_sent)
        THEN msg_sent' = Append(msg_sent, numbered) /\ to_rtu' = Put(to_rtu, <<INFO(numbered, FALSE)>>) /\ UNCHANGED msg_waiting
        ELSE msg_waiting' = Append(msg_waiting, message) /\ UNCHANGED <<msg_sent, to_rtu>>
  BY DEF m_sendInfo
<1> HIDE DEF numbered
<1>1. CASE WindowOpen(msg_sent)
  <2> DEFINE batch == <<numbered>>
             frame == INFO(numbered, FALSE)
             frames == <<frame>>
  <2>1. msg_waiting = <<>> /\ msg_waiting' = <<>> /\ DOMAIN msg_waiting' = {}
    <3>1. ~(Len(msg_sent) >= conf.ratio)
      <4>1. conf.ratio \in 1..7
        BY DEF TypeOK
      <4>2. QED
        BY <1>1, <1>a, <4>1 DEF WindowOpen
    <3>2. msg_waiting = <<>>
      BY <3>1 DEF WaitingMeansFull
    <3>3. QED
      BY <1>1, <1>f, <3>2, EmptySeq
  <2>2. frame \in ToRTU /\ frame.type = "INFO" /\ frame.id = numbered.id /\ frame.ns = numbered.ns
    BY <1>d, InfoType DEF INFO
  <2> HIDE DEF frame
  <2>3. batch \in Seq(Messages) /\ DOMAIN batch = 1..1 /\ batch[1] = numbered
    BY <1>d, Singleton
  <2>4. frames \in Seq(ToRTU) /\ DOMAIN frames = 1..1 /\ frames[1] = frame
    BY <2>2, Singleton
  <2>5. to_rtu' = Put(to_rtu, frames)
    BY <1>1, <1>f DEF frame
  <2>6. /\ Len(msg_sent') = Len(msg_sent) + 1
        /\ \A i \in 1..Len(msg_sent) : msg_sent'[i] = msg_sent[i]
        /\ msg_sent'[Len(msg_sent) + 1] = numbered
    <3>1. msg_sent \in Seq(Messages) /\ msg_sent' = Append(msg_sent, numbered)
      BY <1>1, <1>f DEF TypeOK
    <3>2. QED
      BY <1>d, <3>1, AppendProperties
  <2> HIDE DEF batch, frames
  <2>7. Sends(0, Len(msg_sent), 1, batch)
    <3>1. \A i \in 1..Len(msg_sent) : i + 0 \in DOMAIN msg_sent /\ msg_sent'[i] = msg_sent[i + 0]
      BY <1>a, <2>6
    <3>2. \A h \in 1..1 : msg_sent'[Len(msg_sent) + h] = batch[h]
      BY <2>3, <2>6
    <3>3. \A h \in 1..1 : frames[h].type = "INFO" /\ frames[h].id = batch[h].id /\ frames[h].ns = batch[h].ns
      BY <2>2, <2>3, <2>4
    <3>4. QED
      BY <1>a, <2>4, <2>5, <2>6, <3>1, <3>2, <3>3 DEF Sends
  <2>8. \A h \in 1..1 : batch[h].id \in Nat /\ Newer(batch[h].id) /\ BeforeNext(batch[h].id)
    BY <1>a, <1>b, <1>d, <1>e, <2>1, <2>3 DEF BeforeNext
  <2>9. \A x \in Nat : Before(x) => BeforeNext(x)
    <3> SUFFICES ASSUME NEW x \in Nat, x < next_id PROVE x < next_id + 1
      BY <1>b, <2>1 DEF Before, BeforeNext
    <3>1. QED
      BY <1>a
  <2>10. WaitingOrder'
    BY <2>1 DEF WaitingOrder
  <2>11. \A g, h \in 1..1 : g < h => batch[g].id < batch[h].id
    OBVIOUS
  <2>12. QED
    BY <1>b, <2>7, <2>8, <2>9, <2>10, <2>11, SendKeepsOrder
<1>2. CASE ~WindowOpen(msg_sent)
  <2>1. UNCHANGED <<msg_sent, to_rtu>>
    BY <1>2, <1>f
  <2>2. \A j \in DOMAIN msg_waiting' :
          \/ j \in DOMAIN msg_waiting /\ j < Len(msg_waiting) + 1 /\ msg_waiting'[j] = msg_waiting[j]
          \/ j = Len(msg_waiting) + 1 /\ msg_waiting'[j] = message
    <3> HIDE DEF message
    <3>1. msg_waiting \in Seq(Messages) /\ msg_waiting' = Append(msg_waiting, message)
      BY <1>2, <1>f DEF TypeOK
    <3>2. /\ msg_waiting' \in Seq(Messages) /\ Len(msg_waiting') = Len(msg_waiting) + 1
          /\ \A j \in 1..Len(msg_waiting) : msg_waiting'[j] = msg_waiting[j]
          /\ msg_waiting'[Len(msg_waiting) + 1] = message
      BY <1>c, <3>1, AppendProperties
    <3>3. DOMAIN msg_waiting' = 1..(Len(msg_waiting) + 1)
      BY <3>2, LenProperties
    <3>4. QED
      BY <1>a, <3>2, <3>3
  <2> HIDE DEF message
  <2>3. \A x \in Nat : (Before(x) => BeforeNext(x)) /\ (NotAfter(x) => NotAfterNext(x))
    BY <1>a, <1>b, <1>c, <2>1, <2>2 DEF Before, BeforeNext, NotAfter, NotAfterNext
  <2>4. /\ \A i \in DOMAIN msg_sent : msg_sent[i].id \in Nat
        /\ \A i \in DOMAIN to_rtu : InfoAt(i) => to_rtu[i].id \in Nat
        /\ \A m \in DOMAIN delivered : delivered[m] \in Nat
        /\ \A j \in DOMAIN msg_waiting : msg_waiting[j].id \in Nat
    BY EntryTypes
  <2>5. WaitingOrder'
    <3>1. \A j \in DOMAIN msg_waiting' : msg_waiting'[j].id < next_id'
      BY <1>a, <1>b, <1>c, <2>2, <2>4 DEF OrderInv, QueueOrder, WaitingOrder
    <3>2. \A i, j \in DOMAIN msg_waiting' : i < j => msg_waiting'[i].id < msg_waiting'[j].id
      BY <1>a, <1>c, <2>2 DEF OrderInv, QueueOrder, WaitingOrder
    <3>3. QED
      BY <3>1, <3>2 DEF WaitingOrder
  <2>6. QueueOrder'
    <3>1. \A i \in DOMAIN msg_sent : BeforeNext(msg_sent[i].id)
      BY <2>3, <2>4 DEF OrderInv, QueueOrder
    <3>2. QED
      BY <2>1, <2>5, <3>1 DEF OrderInv, QueueOrder, Before, BeforeNext
  <2>7. FrameOrder'
    <3>1. \A i \in DOMAIN to_rtu : InfoAt(i) => BeforeNext(to_rtu[i].id) /\ NotAfterNext(to_rtu[i].id)
      BY <2>3, <2>4 DEF OrderInv, FrameOrder
    <3>2. \A m \in DOMAIN delivered : BeforeNext(delivered[m]) /\ NotAfterNext(delivered[m])
      BY <2>3, <2>4 DEF OrderInv, FrameOrder
    <3>3. QED
      BY <1>b, <2>1, <3>1, <3>2 DEF OrderInv, FrameOrder, Before, BeforeNext, NotAfter, NotAfterNext, InfoAt
  <2>8. Copies'
    BY <1>b, <2>1 DEF OrderInv, Copies, InfoAt, SarmAt
  <2>9. QED
    BY <2>6, <2>7, <2>8 DEF OrderInv
<1>3. QED
  BY <1>1, <1>2

---------------------------------------------------------------------------
(* Every step                                                               *)

\* A step that hands the RTU nothing more: a part of the channel is left, and the
\* queues are kept or emptied.
Loses ==
  /\ to_rtu' = to_rtu \/ to_rtu' = <<>> \/ (to_rtu # <<>> /\ to_rtu' = Tail(to_rtu))
  /\ UNCHANGED <<msg_sent, msg_waiting>> \/ (msg_sent' = <<>> /\ msg_waiting' = <<>>)
  /\ UNCHANGED <<rtu_vr, delivered, next_id>>

\* What a step can do to the queues, the channel to the RTU and the RTU.
StepKind ==
  \/ \E kind \in Kinds : m_sendInfo(kind)
  \/ \E nr \in 0..7 : m_NRAccepted(nr) /\ UNCHANGED <<rtu_vr, delivered, next_id>>
  \/ CheckTimer /\ ~Exhausted
  \/ m_sendSARM
  \/ RTUReceive
  \/ Loses

\* A transition only loses.
LEMMA TransitionLoses ==
  ASSUME NEW t, applyTransition(t), CloseIf(Calls(t, "stopTCP")), UNCHANGED <<rtu_vr, delivered, next_id>>
  PROVE  Loses
  BY DEF Loses, applyTransition, CloseIf

\* Every step is of one of these kinds, and the settings stay.
LEMMA StepKinds ==
  ASSUME IInv, [Next]_vars
  PROVE  StepKind /\ UNCHANGED conf
<1>1. ASSUME NEW kind \in Kinds, m_sendInfo(kind) PROVE StepKind /\ UNCHANGED conf
  BY <1>1 DEF StepKind, m_sendInfo
<1>2. ASSUME NEW type \in {"RR", "INFO"}, ReceiveAck(type) PROVE StepKind /\ UNCHANGED conf
  <2> DEFINE frame == Head(from_rtu)
  <2>1. UNCHANGED <<rtu_vr, delivered, next_id, conf>>
    BY <1>2 DEF ReceiveAck, rtuVars
  <2>2. CASE Heeds(type) /\ Accepts(frame.nr, frame.f)
    <3>1. frame \in FromRTU /\ frame.type \in {"RR", "INFO"}
      BY <1>2, HeadTailProperties DEF IInv, TypeOK, ReceiveAck, Receives
    <3>2. frame.nr \in 0..7
      BY <3>1 DEF FromRTU
    <3>3. m_NRAccepted(frame.nr)
      BY <1>2, <2>2 DEF ReceiveAck
    <3> HIDE DEF frame
    <3>4. QED
      BY <2>1, <3>2, <3>3 DEF StepKind
  <2>3. CASE ~(Heeds(type) /\ Accepts(frame.nr, frame.f))
    <3>1. UNCHANGED <<msg_sent, msg_waiting, to_rtu>>
      BY <1>2, <2>3 DEF ReceiveAck, queueVars
    <3>2. QED
      BY <2>1, <3>1 DEF StepKind, Loses
  <2>4. QED
    BY <2>2, <2>3
<1>3. CASE \/ ReceiveUA \/ ReceiveSARM \/ ReceiveNothing \/ Reconnect \/ Lose \/ TCPLost \/ (UNCHANGED vars)
           \/ RTUSend(Bare("SARM")) \/ RTUSend(Ack("INFO", rtu_vr, FALSE))
  BY <1>3 DEF ReceiveUA, ReceiveSARM, ReceiveNothing, Reconnect, Lose, TCPLost, RTUSend, CloseIf, vars, queueVars,
              rtuVars, StepKind, Loses
<1>4. CASE ApplyTransition
  BY <1>4, TransitionLoses DEF ApplyTransition, rtuVars, StepKind
<1>5. ASSUME NEW e, LockedTransition(e), UNCHANGED <<conf, rtu_vr, delivered, next_id>>
      PROVE  StepKind /\ UNCHANGED conf
  BY <1>5, TransitionLoses DEF LockedTransition, StepKind
<1>6. ASSUME NEW e \in ConnectionEvent, ManageTimeout(e) PROVE StepKind /\ UNCHANGED conf
  BY <1>5, <1>6 DEF ManageTimeout, rtuVars
<1>7. CASE CheckTimer
  <2>1. UNCHANGED <<conf, rtu_vr, delivered, next_id>>
    BY <1>7 DEF CheckTimer, rtuVars
  <2>2. QED
    BY <1>5, <1>7, <2>1 DEF CheckTimer, StepKind
<1>8. CASE m_sendSARM \/ RTUReceive
  BY <1>8 DEF m_sendSARM, RTUReceive, StepKind
<1>9. QED
  BY <1>1, <1>2, <1>3, <1>4, <1>6, <1>7, <1>8 DEF Next

\* The retry finds a window of one message when it does not renumber.
LEMMA ResendIsAlone ==
  ASSUME IInv, NoRenumbering, CheckTimer, ~Exhausted
  PROVE  conf.ratio = 1 /\ Len(msg_sent) = 1 /\ UNCHANGED <<msg_sent, msg_waiting>> /\ Resend
<1> USE WindowAssumption
<1>1. Resend /\ msg_sent # <<>>
  BY DEF CheckTimer
<1>2. conf.ratio = 1
  <2>1. conf.repeat_max \in Nat /\ m_repeat \in 0..conf.repeat_max
    BY DEF IInv, TypeOK
  <2>2. conf.repeat_max # 0
    BY <2>1 DEF Exhausted
  <2>3. QED
    BY <2>2 DEF NoRenumbering
<1>3. Len(msg_sent) = 1
  <2>1. Len(msg_sent) \in Nat /\ Len(msg_sent) <= 1
    BY <1>2, LenProperties DEF IInv, TypeOK, WindowInv, WindowBound
  <2>2. msg_sent \in Seq(Messages)
    BY DEF IInv, TypeOK
  <2>3. Len(msg_sent) # 0
    BY <1>1, <2>2, EmptySeq
  <2>4. \A l \in Nat : l <= 1 /\ l # 0 => l = 1
    OBVIOUS
  <2>5. QED
    BY <2>1, <2>3, <2>4, Zenon
<1>4. UNCHANGED msg_sent
  <2>1. msg_sent \in Seq(Messages) /\ msg_sent' = <<Head(msg_sent)>>
    BY <1>1 DEF Resend, IInv, TypeOK
  <2>2. QED
    BY <1>3, <2>1
<1>5. UNCHANGED msg_waiting
  <2>1. msg_sent \in Seq(Messages) /\ msg_waiting \in Seq(Messages) /\ msg_waiting' = Tail(msg_sent) \o msg_waiting
    BY <1>1 DEF Resend, IInv, TypeOK
  <2>2. Tail(msg_sent) \in Seq(Messages) /\ Len(Tail(msg_sent)) = 0
    BY <1>1, <1>3, <2>1, HeadTailProperties
  <2> DEFINE rest == Tail(msg_sent)
  <2>3. rest \in Seq(Messages) /\ Len(rest) = 0 /\ msg_waiting' = rest \o msg_waiting
    BY <2>1, <2>2
  <2> HIDE DEF rest
  <2>4. rest = <<>>
    BY <2>3, EmptySeq
  <2>5. QED
    BY <2>1, <2>3, <2>4
<1>6. QED
  BY <1>1, <1>2, <1>3, <1>4, <1>5

\* Messages wait only while the window is full.
LEMMA FullPreserved ==
  ASSUME IInv, NoRenumbering, WaitingMeansFull, [Next]_vars
  PROVE  WaitingMeansFull'
<1> USE WindowAssumption
<1>1. TypeOK /\ conf.ratio \in 1..7 /\ UNCHANGED conf
  BY StepKinds DEF IInv, TypeOK
<1>2. ASSUME NEW kind \in Kinds, m_sendInfo(kind) PROVE WaitingMeansFull'
  <2>1. Len(msg_sent) \in Nat
    BY <1>1, EntryTypes
  <2>2. CASE WindowOpen(msg_sent)
    <3>1. msg_waiting = <<>>
      BY <1>1, <2>1, <2>2 DEF WindowOpen, WaitingMeansFull
    <3>2. QED
      BY <1>2, <2>2, <3>1 DEF m_sendInfo, WaitingMeansFull
  <2>3. CASE ~WindowOpen(msg_sent)
    <3>1. UNCHANGED <<msg_sent, conf>>
      BY <1>2, <2>3 DEF m_sendInfo
    <3>2. QED
      BY <1>1, <2>1, <2>3, <3>1 DEF WindowOpen, WaitingMeansFull
  <2>4. QED
    BY <2>2, <2>3
<1>3. ASSUME NEW nr \in 0..7, m_NRAccepted(nr) PROVE WaitingMeansFull'
  <2>1. PICK r \in Nat, k \in Nat, frames \in Seq(ToRTU) :
          Counted(nr, r, k) /\ Shifted(Acknowledged(nr), r, k) /\ FramesOf(k, frames)
    BY <1>1, <1>3, AcceptEffect DEF IInv, WindowInv
  <2>2. /\ msg_waiting' \in Seq(Messages) /\ Len(msg_waiting') = Len(msg_waiting) - k /\ Len(msg_sent') = r + k
        /\ k <= Len(msg_waiting) /\ (k < Len(msg_waiting) => r + k = conf.ratio) /\ Len(msg_waiting) \in Nat
    BY <1>1, <2>1, EntryTypes DEF Shifted, Counted
  <2>3. msg_waiting' # <<>> => Len(msg_waiting') # 0
    BY <2>2, EmptySeq
  <2>4. Len(msg_waiting') # 0 => Len(msg_sent') = conf.ratio
    BY <2>2
  <2>5. QED
    BY <1>1, <2>3, <2>4 DEF WaitingMeansFull
<1>4. CASE CheckTimer /\ ~Exhausted
  BY <1>1, <1>4, ResendIsAlone DEF WaitingMeansFull
<1>5. CASE m_sendSARM \/ RTUReceive \/ Loses
  BY <1>1, <1>5 DEF m_sendSARM, RTUReceive, Loses, queueVars, WaitingMeansFull
<1>6. QED
  BY <1>2, <1>3, <1>4, <1>5, StepKinds DEF StepKind

\* The order is kept by every step.
LEMMA OrderPreserved ==
  ASSUME IInv, NoRenumbering, WaitingMeansFull, OrderInv, [Next]_vars
  PROVE  OrderInv'
<1> USE WindowAssumption
<1>1. TypeOK /\ TypeOK'
  BY StepPreserves DEF IInv
<1>2. ASSUME NEW kind \in Kinds, m_sendInfo(kind) PROVE OrderInv'
  BY <1>1, <1>2, NewMessageKeepsOrder
<1>3. ASSUME NEW nr \in 0..7, m_NRAccepted(nr), UNCHANGED <<rtu_vr, delivered, next_id>> PROVE OrderInv'
  BY <1>1, <1>3, AcceptKeepsOrder DEF IInv, WindowInv
<1>4. CASE CheckTimer /\ ~Exhausted
  <2> DEFINE frame == INFO(Head(msg_sent), TRUE)
  <2>1. Len(msg_sent) = 1 /\ Resend /\ UNCHANGED <<msg_sent, msg_waiting>>
    BY <1>4, ResendIsAlone
  <2>2. Head(msg_sent) = msg_sent[1] /\ msg_sent[1] \in Messages
    <3>1. msg_sent \in Seq(Messages) /\ 1 \in 1..Len(msg_sent)
      BY <1>1, <2>1 DEF TypeOK
    <3>2. QED
      BY <3>1, ElementOfSeq
  <2>3. frame \in ToRTU /\ frame.type = "INFO" /\ frame.id = msg_sent[1].id /\ frame.ns = msg_sent[1].ns
    BY <2>2, InfoType DEF INFO
  <2>4. to_rtu' = Put(to_rtu, <<frame>>) /\ UNCHANGED <<rtu_vr, delivered, next_id>>
    BY <1>4, <2>1 DEF Resend, CheckTimer, rtuVars
  <2> HIDE DEF frame
  <2>5. QED
    BY <1>1, <2>1, <2>3, <2>4, ResendKeepsOrder
<1>5. CASE m_sendSARM
  <2>1. msg_sent = <<>> /\ msg_waiting = <<>>
    BY <1>1, <1>5, LowIsEmpty DEF m_sendSARM, Low, IInv, WindowInv
  <2>2. QED
    BY <1>1, <1>5, <2>1, SarmKeepsOrder DEF m_sendSARM, queueVars, rtuVars
\* taking the first frame
<1>6. ASSUME to_rtu # <<>>, to_rtu' = Tail(to_rtu)
      PROVE  1 \in DOMAIN to_rtu /\ \A i \in DOMAIN to_rtu' : i \in Nat /\ i + 1 \in DOMAIN to_rtu /\ to_rtu'[i] = to_rtu[i + 1]
  <2>1. to_rtu \in Seq(ToRTU) /\ DOMAIN to_rtu = 1..Len(to_rtu) /\ Len(to_rtu) \in Nat
    BY <1>1, EntryTypes DEF TypeOK
  <2>2. /\ Len(to_rtu') = Len(to_rtu) - 1 /\ to_rtu' \in Seq(ToRTU)
        /\ \A i \in 1..Len(to_rtu') : to_rtu'[i] = to_rtu[i + 1]
    BY <1>6, <2>1, HeadTailProperties
  <2>3. DOMAIN to_rtu' = 1..Len(to_rtu')
    BY <2>2, LenProperties
  <2>4. Len(to_rtu) # 0
    BY <1>6, <2>1, EmptySeq
  <2>5. QED
    BY <2>1, <2>2, <2>3, <2>4
<1>7. CASE RTUReceive
  <2>1. to_rtu # <<>> /\ to_rtu' = Tail(to_rtu) /\ UNCHANGED <<msg_sent, msg_waiting, next_id>>
    BY <1>7 DEF RTUReceive, queueVars
  <2>2. Head(to_rtu) = to_rtu[1]
    BY <1>1, <2>1, HeadTailProperties DEF TypeOK
  <2>3. CASE to_rtu[1].type = "SARM" /\ UNCHANGED delivered
    <3>1. SarmAt(1) /\ 1 \in DOMAIN to_rtu
      BY <1>6, <2>1, <2>3 DEF SarmAt
    <3>2. QED
      BY <1>1, <1>6, <2>1, <2>3, <3>1, LossKeepsOrder
  <2>4. CASE /\ to_rtu[1].type = "INFO" /\ to_rtu[1].ns = rtu_vr /\ rtu_vr' = (rtu_vr + 1) % 8
             /\ delivered' = Append(delivered, to_rtu[1].id)
    BY <1>1, <2>1, <2>4, DeliveryKeepsOrder DEF InfoAt
  <2>5. CASE UNCHANGED <<rtu_vr, delivered>>
    BY <1>1, <1>6, <2>1, <2>5, LossKeepsOrder
  <2>6. QED
    BY <1>7, <2>2, <2>3, <2>4, <2>5 DEF RTUReceive, rtuVars
<1>8. CASE Loses
  <2>1. CASE to_rtu' = to_rtu
    <3>1. \A i \in DOMAIN to_rtu' : i \in Nat /\ i + 0 \in DOMAIN to_rtu /\ to_rtu'[i] = to_rtu[i + 0]
      BY <1>1, <2>1, EntryTypes
    <3>2. QED
      BY <1>1, <1>8, <3>1, LossKeepsOrder DEF Loses
  <2>2. CASE to_rtu' = <<>>
    <3>1. DOMAIN to_rtu' = {}
      BY <2>2, EmptySeq
    <3>2. QED
      BY <1>1, <1>8, <3>1, LossKeepsOrder DEF Loses
  <2>3. CASE to_rtu # <<>> /\ to_rtu' = Tail(to_rtu)
    BY <1>1, <1>6, <1>8, <2>3, LossKeepsOrder DEF Loses
  <2>4. QED
    BY <1>8, <2>1, <2>2, <2>3 DEF Loses
<1>9. QED
  BY <1>2, <1>3, <1>4, <1>5, <1>7, <1>8, StepKinds DEF StepKind

---------------------------------------------------------------------------
(* The first theorem                                                        *)

\* The invariant of the deliveries.
DeliveryInv == NoRenumbering => OrderInv /\ WaitingMeansFull

\* It holds in every state.
THEOREM DeliveryInvariance == Spec => []DeliveryInv
<1>1. Init => DeliveryInv
  <2> SUFFICES ASSUME Init PROVE OrderInv /\ WaitingMeansFull
    BY DEF DeliveryInv
  <2>1. DOMAIN <<>> = {}
    BY EmptySeq
  <2>2. DOMAIN msg_sent = {} /\ DOMAIN msg_waiting = {} /\ DOMAIN to_rtu = {} /\ DOMAIN delivered = {} /\ msg_waiting = <<>>
    BY <2>1 DEF Init
  <2>3. QED
    BY <2>2 DEF OrderInv, QueueOrder, WaitingOrder, FrameOrder, Copies, WaitingMeansFull
<1>2. IInv /\ DeliveryInv /\ [Next]_vars => DeliveryInv'
  <2> SUFFICES ASSUME IInv, DeliveryInv, [Next]_vars, NoRenumbering' PROVE OrderInv' /\ WaitingMeansFull'
    BY DEF DeliveryInv
  <2>1. NoRenumbering
    BY StepKinds DEF NoRenumbering
  <2>2. QED
    BY <2>1, OrderPreserved, FullPreserved DEF DeliveryInv
<1>3. QED
  BY <1>1, <1>2, Invariance, PTL DEF Spec

\* The RTU gets no message twice, and gets them in the order of m_sendInfo, as
\* long as the retry does not renumber.
THEOREM MessagesAreDeliveredOnceInOrder == Spec => []DeliveredOnceInOrder
<1>1. DeliveryInv => DeliveredOnceInOrder
  BY DEF DeliveryInv, OrderInv, FrameOrder, DeliveredOnceInOrder
<1>2. QED
  BY <1>1, DeliveryInvariance, PTL

---------------------------------------------------------------------------
(* Acknowledgements: the invariant                                          *)

High == {"CONNECTED", "OUTPUT_CONNECTED"}

\* How far a number is ahead of another one, and of the last acknowledged one.
Ahead(x, a) == (x - a) % 8
Distance(x) == Ahead(x, m_NRR)
Got(id) == \E m \in DOMAIN delivered : delivered[m] = id
\* In the next state, for a message of this one.
GotNext(id) == \E m \in DOMAIN delivered' : delivered'[m] = id

\* The RTU expects a number of the window, and has got the messages before it.
WindowGot ==
  /\ Distance(rtu_vr) <= Len(msg_sent)
  /\ \A i \in DOMAIN msg_sent : i <= Distance(rtu_vr) => Got(msg_sent[i].id)

\* The acknowledgements on their way do not go beyond it, and do not go back.
AcksOrdered ==
  /\ \A i \in DOMAIN from_rtu : AckAt(i) => Distance(from_rtu[i].nr) <= Distance(rtu_vr)
  /\ \A i, j \in DOMAIN from_rtu : AckAt(i) /\ AckAt(j) /\ i < j =>
       Distance(from_rtu[i].nr) <= Distance(from_rtu[j].nr)

\* A frame on its way that the RTU has not got carries the number of its message
\* in the window.
FrameInWindow(i) ==
  /\ Distance(rtu_vr) <= Distance(to_rtu[i].ns)
  /\ \E k \in DOMAIN msg_sent : k = Distance(to_rtu[i].ns) + 1 /\ msg_sent[k].id = to_rtu[i].id
FramesCurrent == \A i \in DOMAIN to_rtu : InfoAt(i) => Got(to_rtu[i].id) \/ FrameInWindow(i)

\* A SARM on its way is older than every frame of the window and restarts nothing.
SarmsHarmless ==
  \A s \in DOMAIN to_rtu : SarmAt(s) =>
    rtu_vr = 0 /\ m_NRR = 0 /\ \A i \in DOMAIN to_rtu : InfoAt(i) => s < i

StepFacts == WindowGot /\ AcksOrdered /\ FramesCurrent /\ SarmsHarmless

---------------------------------------------------------------------------
(* Distances                                                                *)

\* The distance of a number.
LEMMA DistanceType ==
  ASSUME NEW a \in 0..7, NEW x \in 0..7
  PROVE  Ahead(x, a) \in 0..7 /\ Ahead(a, a) = 0
  BY DEF Ahead

\* The next number is one further.
LEMMA DistanceAdvance ==
  ASSUME NEW a \in 0..7, NEW x \in 0..7, Ahead(x, a) <= 6
  PROVE  ((x + 1) % 8) \in 0..7 /\ Ahead((x + 1) % 8, a) = Ahead(x, a) + 1
  BY DEF Ahead

\* Counted from b instead of a, a number beyond b is nearer.
LEMMA DistanceRebase ==
  ASSUME NEW a \in 0..7, NEW b \in 0..7, NEW x \in 0..7, Ahead(b, a) <= Ahead(x, a)
  PROVE  Ahead(x, b) = Ahead(x, a) - Ahead(b, a)
  BY DEF Ahead

\* The entries of the channel from the RTU, and the distances of what is in the
\* channels.
LEMMA DistanceFacts ==
  ASSUME TypeOK
  PROVE  /\ DOMAIN from_rtu = 1..Len(from_rtu) /\ Len(from_rtu) \in Nat
         /\ \A i \in DOMAIN from_rtu : AckAt(i) => from_rtu[i].nr \in 0..7 /\ Distance(from_rtu[i].nr) \in 0..7
         /\ \A i \in DOMAIN to_rtu : InfoAt(i) => Distance(to_rtu[i].ns) \in 0..7
         /\ Distance(rtu_vr) \in 0..7
<1>1. DOMAIN from_rtu = 1..Len(from_rtu) /\ Len(from_rtu) \in Nat
  BY LenProperties DEF TypeOK
<1>2. m_NRR \in 0..7 /\ rtu_vr \in 0..7
  BY DEF TypeOK
<1>3. ASSUME NEW i \in DOMAIN from_rtu, AckAt(i) PROVE from_rtu[i].nr \in 0..7 /\ Distance(from_rtu[i].nr) \in 0..7
  <2>1. from_rtu[i] \in FromRTU
    BY <1>1, ElementOfSeq DEF TypeOK
  <2>2. from_rtu[i].nr \in 0..7
    BY <1>3, <2>1 DEF FromRTU, AckAt
  <2>3. QED
    BY <1>2, <2>2, DistanceType DEF Distance
<1>4. ASSUME NEW i \in DOMAIN to_rtu, InfoAt(i) PROVE Distance(to_rtu[i].ns) \in 0..7
  <2>1. to_rtu[i].ns \in 0..7
    BY <1>4, EntryTypes
  <2>2. QED
    BY <1>2, <2>1, DistanceType DEF Distance
<1>5. QED
  BY <1>1, <1>2, <1>3, <1>4, DistanceType DEF Distance

---------------------------------------------------------------------------
(* Acknowledgements: steps                                                  *)

\* What is left of the channel from the RTU after p frames were taken, or with one
\* frame added that acknowledges all that the RTU has.
Answers(p) ==
  \A i \in DOMAIN from_rtu' :
    \/ i \in Nat /\ i + p \in DOMAIN from_rtu /\ from_rtu'[i] = from_rtu[i + p]
    \/ p = 0 /\ i = Len(from_rtu) + 1 /\ (AckAt(i)' => from_rtu'[i].nr = rtu_vr')

\* The acknowledgements stay in order when the RTU goes on, or stays.
LEMMA AnswersKeepOrder ==
  ASSUME TypeOK, TypeOK', AcksOrdered, NEW p \in Nat, Answers(p), UNCHANGED m_NRR,
         Distance(rtu_vr) <= Distance(rtu_vr')
  PROVE  AcksOrdered'
<1> DEFINE Old(i) == /\ i \in Nat /\ i + p \in DOMAIN from_rtu /\ from_rtu'[i] = from_rtu[i + p]
                     /\ (AckAt(i)' <=> AckAt(i + p))
           New(i) == p = 0 /\ i = Len(from_rtu) + 1 /\ (AckAt(i)' => from_rtu'[i].nr = rtu_vr')
<1>1. \A i \in DOMAIN from_rtu' : Old(i) \/ New(i)
  BY DEF Answers, AckAt
<1>2. /\ DOMAIN from_rtu = 1..Len(from_rtu) /\ Len(from_rtu) \in Nat
      /\ \A i \in DOMAIN from_rtu : AckAt(i) => Distance(from_rtu[i].nr) \in 0..7
      /\ Distance(rtu_vr) \in 0..7
  BY DistanceFacts
<1>3. Distance(rtu_vr') \in 0..7
  <2>1. m_NRR \in 0..7 /\ rtu_vr' \in 0..7
    BY DEF TypeOK
  <2>2. QED
    BY <2>1, DistanceType DEF Distance
<1>4. \A i \in DOMAIN from_rtu' : AckAt(i)' => Distance(from_rtu'[i].nr) <= Distance(rtu_vr')
  <2> SUFFICES ASSUME NEW i \in DOMAIN from_rtu', AckAt(i)' PROVE Distance(from_rtu'[i].nr) <= Distance(rtu_vr')
    OBVIOUS
  <2>1. CASE Old(i)
    <3>1. Distance(from_rtu[i + p].nr) <= Distance(rtu_vr) /\ Distance(from_rtu[i + p].nr) \in 0..7
      BY <1>2, <2>1 DEF AcksOrdered
    <3>2. QED
      BY <1>2, <1>3, <2>1, <3>1
  <2>2. CASE New(i)
    BY <1>3, <2>2
  <2>3. QED
    BY <1>1, <2>1, <2>2
<1>5. ASSUME NEW i \in DOMAIN from_rtu', NEW j \in DOMAIN from_rtu', AckAt(i)', AckAt(j)', i < j
      PROVE  Distance(from_rtu'[i].nr) <= Distance(from_rtu'[j].nr)
  <2>1. CASE Old(i) /\ Old(j)
    <3>1. i + p < j + p
      BY <1>5, <2>1
    <3>2. QED
      BY <1>5, <2>1, <3>1 DEF AcksOrdered
  <2>2. CASE New(j)
    BY <1>4, <1>5, <2>2
  <2>3. CASE New(i) /\ Old(j)
    BY <1>2, <1>5, <2>3
  <2>4. QED
    BY <1>1, <2>1, <2>2, <2>3
<1>6. QED
  BY <1>4, <1>5 DEF AcksOrdered, Distance

\* Losing frames and repeating the last acknowledgement keeps the facts.
LEMMA LossKeepsStep ==
  ASSUME TypeOK, TypeOK', StepFacts, NEW n \in Nat, NEW p \in Nat,
         \A i \in DOMAIN to_rtu' : i \in Nat /\ i + n \in DOMAIN to_rtu /\ to_rtu'[i] = to_rtu[i + n],
         Answers(p), UNCHANGED <<m_NRR, msg_sent, rtu_vr, delivered>>
  PROVE  StepFacts'
<1>1. \A i \in DOMAIN to_rtu' : (InfoAt(i)' <=> InfoAt(i + n)) /\ (SarmAt(i)' <=> SarmAt(i + n))
  BY DEF InfoAt, SarmAt
<1>2. \A i, j \in DOMAIN to_rtu' : i < j <=> i + n < j + n
  OBVIOUS
<1>3. WindowGot'
  BY DEF StepFacts, WindowGot, Distance, Got
<1>4. AcksOrdered'
  <2>1. Distance(rtu_vr) <= Distance(rtu_vr')
    BY DistanceFacts
  <2>2. QED
    BY <2>1, AnswersKeepOrder DEF StepFacts
<1>5. FramesCurrent'
  BY <1>1 DEF StepFacts, FramesCurrent, FrameInWindow, Distance, Got
<1>6. SarmsHarmless'
  BY <1>1, <1>2 DEF StepFacts, SarmsHarmless
<1>7. QED
  BY <1>3, <1>4, <1>5, <1>6 DEF StepFacts

\* The RTU accepts a frame: it is the first message of the window that it has not
\* got.
LEMMA DeliveryKeepsStep ==
  ASSUME TypeOK, TypeOK', OrderInv, WindowBound, conf.ratio \in 1..7, StepFacts, to_rtu # <<>>, InfoAt(1),
         to_rtu[1].ns = rtu_vr, to_rtu' = Tail(to_rtu), rtu_vr' = (rtu_vr + 1) % 8,
         delivered' = Append(delivered, to_rtu[1].id), Answers(0), UNCHANGED <<m_NRR, msg_sent>>
  PROVE  StepFacts'
<1> DEFINE x == to_rtu[1].id
           d == Distance(rtu_vr)
<1>a. /\ DOMAIN msg_sent = 1..Len(msg_sent) /\ Len(msg_sent) \in Nat
      /\ DOMAIN to_rtu = 1..Len(to_rtu) /\ Len(to_rtu) \in Nat
      /\ DOMAIN delivered = 1..Len(delivered) /\ Len(delivered) \in Nat
      /\ rtu_vr \in 0..7 /\ m_NRR \in 0..7
  BY EntryTypes DEF TypeOK
<1>b. 1 \in DOMAIN to_rtu /\ x \in Nat
  <2>1. Len(to_rtu) # 0
    BY EmptySeq DEF TypeOK
  <2>2. 1 \in DOMAIN to_rtu
    BY <1>a, <2>1
  <2>3. QED
    BY <2>2, EntryTypes
<1>c. \A i \in DOMAIN to_rtu' : /\ i \in Nat /\ i + 1 \in DOMAIN to_rtu /\ 1 < i + 1 /\ to_rtu'[i] = to_rtu[i + 1]
                                /\ (InfoAt(i)' <=> InfoAt(i + 1)) /\ (SarmAt(i)' <=> SarmAt(i + 1))
  <2>1. /\ Len(to_rtu') = Len(to_rtu) - 1 /\ DOMAIN to_rtu' = 1..Len(to_rtu')
        /\ \A i \in 1..Len(to_rtu') : to_rtu'[i] = to_rtu[i + 1]
    BY HeadTailProperties, LenProperties DEF TypeOK
  <2>2. QED
    BY <1>a, <2>1 DEF InfoAt, SarmAt
<1>d. d \in 0..7 /\ \A i \in DOMAIN to_rtu : InfoAt(i) => Distance(to_rtu[i].ns) \in 0..7
  BY DistanceFacts
<1>e. \A id : Got(id) \/ id = x => GotNext(id)
  <2>1. /\ delivered' \in Seq(Nat) /\ Len(delivered') = Len(delivered) + 1
        /\ \A m \in 1..Len(delivered) : delivered'[m] = delivered[m]
        /\ delivered'[Len(delivered) + 1] = x
    BY <1>b, AppendProperties DEF TypeOK
  <2>2. DOMAIN delivered' = 1..(Len(delivered) + 1)
    BY <2>1, LenProperties
  <2> HIDE DEF x
  <2>3. Len(delivered) + 1 \in DOMAIN delivered' /\ \A m \in DOMAIN delivered : m \in DOMAIN delivered' /\ delivered'[m] = delivered[m]
    BY <1>a, <2>1, <2>2
  <2>4. ASSUME NEW id, Got(id) PROVE GotNext(id)
    BY <2>3, <2>4 DEF Got, GotNext
  <2>5. GotNext(x)
    BY <2>1, <2>3 DEF GotNext
  <2>6. QED
    BY <2>4, <2>5
\* it is not a copy of a frame the RTU has got
<1>1. ~Got(x)
  <2>1. ASSUME NEW m \in DOMAIN delivered, delivered[m] = x PROVE FALSE
    <3>1. rtu_vr = (rtu_vr + 1) % 8
      BY <1>b, <2>1 DEF OrderInv, Copies
    <3>2. QED
      BY <1>a, <3>1, NextDiffers
  <2>2. QED
    BY <2>1 DEF Got
<1>2. d + 1 \in DOMAIN msg_sent /\ msg_sent[d + 1].id = x
  BY <1>1, <1>b DEF StepFacts, FramesCurrent, FrameInWindow
<1>3. d <= 6 /\ rtu_vr' \in 0..7 /\ Distance(rtu_vr') = d + 1
  <2>1. d + 1 <= Len(msg_sent) /\ Len(msg_sent) <= conf.ratio
    BY <1>2, <1>a DEF WindowBound
  <2>2. d <= 6
    BY <1>a, <1>d, <2>1
  <2>3. QED
    BY <1>a, <2>2, DistanceAdvance DEF Distance
<1> HIDE DEF x, d
<1>4. WindowGot'
  <2>1. \A i \in DOMAIN msg_sent : i <= d + 1 => i <= d \/ i = d + 1
    BY <1>a, <1>d
  <2>2. \A i \in DOMAIN msg_sent : i <= d => Got(msg_sent[i].id)
    BY DEF StepFacts, WindowGot, d
  <2>3. \A i \in DOMAIN msg_sent : i <= d + 1 => GotNext(msg_sent[i].id)
    BY <1>2, <1>e, <2>1, <2>2
  <2>4. d + 1 <= Len(msg_sent)
    BY <1>a, <1>2
  <2>5. QED
    BY <1>3, <2>3, <2>4 DEF WindowGot, Distance, Got, GotNext
<1>5. AcksOrdered'
  <2>1. Distance(rtu_vr) <= Distance(rtu_vr')
    BY <1>3, <1>d DEF d
  <2>2. QED
    BY <2>1, AnswersKeepOrder DEF StepFacts
<1>6. FramesCurrent'
  <2> SUFFICES ASSUME NEW i \in DOMAIN to_rtu', InfoAt(i)', ~GotNext(to_rtu'[i].id)
               PROVE  FrameInWindow(i)'
    BY DEF FramesCurrent, Got, GotNext
  <2>1. /\ i + 1 \in DOMAIN to_rtu /\ InfoAt(i + 1) /\ to_rtu'[i] = to_rtu[i + 1]
        /\ ~Got(to_rtu[i + 1].id) /\ to_rtu[i + 1].id # x
    BY <1>c, <1>e
  <2>2. d <= Distance(to_rtu[i + 1].ns) /\ FrameInWindow(i + 1)
    BY <2>1 DEF StepFacts, FramesCurrent, FrameInWindow, d
  <2>3. Distance(to_rtu[i + 1].ns) # d
    BY <1>2, <2>1, <2>2 DEF FrameInWindow
  <2>4. d + 1 <= Distance(to_rtu[i + 1].ns)
    BY SMTT(30), <1>d, <2>1, <2>2, <2>3
  <2>5. QED
    BY <1>3, <2>1, <2>2, <2>4 DEF FrameInWindow, Distance
<1>7. SarmsHarmless'
  <2>1. ASSUME NEW s \in DOMAIN to_rtu, SarmAt(s) PROVE FALSE
    <3>1. s < 1
      BY <1>b, <2>1 DEF StepFacts, SarmsHarmless
    <3>2. QED
      BY <1>a, <3>1
  <2>2. QED
    BY <1>c, <2>1 DEF SarmsHarmless
<1>8. QED
  BY <1>4, <1>5, <1>6, <1>7 DEF StepFacts

\* An information frame of the window is sent, be it for a new message or once more.
LEMMA FrameKeepsStep ==
  ASSUME TypeOK, TypeOK', StepFacts,
         NEW frame \in ToRTU, frame.type = "INFO", to_rtu' = Put(to_rtu, <<frame>>),
         \A i \in DOMAIN msg_sent : i \in DOMAIN msg_sent' /\ msg_sent'[i] = msg_sent[i],
         Got(frame.id) \/ /\ Distance(rtu_vr) <= Distance(frame.ns)
                          /\ \E k \in DOMAIN msg_sent' : k = Distance(frame.ns) + 1 /\ msg_sent'[k].id = frame.id,
         UNCHANGED <<m_NRR, rtu_vr, delivered, from_rtu>>
  PROVE  StepFacts'
<1> USE WindowAssumption
<1>a. /\ DOMAIN msg_sent = 1..Len(msg_sent) /\ Len(msg_sent) \in Nat
      /\ DOMAIN msg_sent' = 1..Len(msg_sent') /\ Len(msg_sent') \in Nat
      /\ DOMAIN to_rtu = 1..Len(to_rtu) /\ Len(to_rtu) \in Nat
      /\ \A i \in DOMAIN to_rtu : InfoAt(i) <=> ~SarmAt(i)
  BY EntryTypes, LenProperties DEF TypeOK
<1>b. Distance(rtu_vr) \in 0..7
  BY DistanceFacts
<1> DEFINE Old(i) == /\ i \in DOMAIN to_rtu /\ i < Len(to_rtu) + 1 /\ to_rtu'[i] = to_rtu[i]
                     /\ (InfoAt(i)' <=> InfoAt(i)) /\ (SarmAt(i)' <=> SarmAt(i))
           New(i) == i = Len(to_rtu) + 1 /\ to_rtu'[i] = frame /\ InfoAt(i)' /\ ~SarmAt(i)'
<1>c. \A i \in DOMAIN to_rtu' : Old(i) \/ New(i)
  <2>1. to_rtu \in Seq(ToRTU)
    BY DEF TypeOK
  <2>2. \A i \in DOMAIN to_rtu' : \/ i \in DOMAIN to_rtu /\ to_rtu'[i] = to_rtu[i]
                                  \/ i = Len(to_rtu) + 1 /\ to_rtu'[i] = frame
    BY <2>1, PutOne
  <2>3. QED
    BY <1>a, <2>2 DEF InfoAt, SarmAt
<1>d. Len(msg_sent) <= Len(msg_sent')
  <2>1. CASE Len(msg_sent) = 0
    BY <1>a, <2>1
  <2>2. CASE Len(msg_sent) # 0
    <3>1. Len(msg_sent) \in DOMAIN msg_sent
      BY <1>a, <2>2
    <3>2. Len(msg_sent) \in DOMAIN msg_sent'
      BY <3>1
    <3>3. QED
      BY <1>a, <3>2
  <2>3. QED
    BY <2>1, <2>2
<1>1. WindowGot'
  <2>1. Distance(rtu_vr) <= Len(msg_sent')
    BY <1>a, <1>b, <1>d DEF StepFacts, WindowGot
  <2>2. ASSUME NEW i \in DOMAIN msg_sent', i <= Distance(rtu_vr) PROVE Got(msg_sent'[i].id)
    <3>1. i \in DOMAIN msg_sent
      BY <1>a, <1>b, <2>2 DEF StepFacts, WindowGot
    <3>2. QED
      BY <2>2, <3>1 DEF StepFacts, WindowGot
  <2>3. QED
    BY <2>1, <2>2 DEF WindowGot, Distance, Got
<1>2. AcksOrdered'
  BY DEF StepFacts, AcksOrdered, AckAt, Distance
<1>3. FramesCurrent'
  <2> SUFFICES ASSUME NEW i \in DOMAIN to_rtu', InfoAt(i)', ~Got(to_rtu'[i].id)
               PROVE  /\ Distance(rtu_vr) <= Distance(to_rtu'[i].ns)
                      /\ \E k \in DOMAIN msg_sent' : k = Distance(to_rtu'[i].ns) + 1 /\ msg_sent'[k].id = to_rtu'[i].id
    BY DEF FramesCurrent, FrameInWindow, Distance, Got
  <2>1. CASE Old(i)
    BY <2>1 DEF StepFacts, FramesCurrent, FrameInWindow
  <2>2. CASE New(i)
    BY <2>2
  <2>3. QED
    BY <1>c, <2>1, <2>2
<1>4. SarmsHarmless'
  <2> SUFFICES ASSUME NEW s \in DOMAIN to_rtu', SarmAt(s)'
               PROVE  rtu_vr = 0 /\ m_NRR = 0 /\ \A i \in DOMAIN to_rtu' : InfoAt(i)' => s < i
    BY DEF SarmsHarmless
  <2>1. Old(s) /\ SarmAt(s)
    BY <1>c
  <2>2. rtu_vr = 0 /\ m_NRR = 0 /\ \A i \in DOMAIN to_rtu : InfoAt(i) => s < i
    BY <2>1 DEF StepFacts, SarmsHarmless
  <2>3. ASSUME NEW i \in DOMAIN to_rtu', InfoAt(i)' PROVE s < i
    <3>1. CASE Old(i)
      BY <2>2, <2>3, <3>1
    <3>2. CASE New(i)
      BY <2>1, <3>2
    <3>3. QED
      BY <1>c, <3>1, <3>2
  <2>4. QED
    BY <2>2, <2>3
<1>5. QED
  BY <1>1, <1>2, <1>3, <1>4 DEF StepFacts

\* Different numbers are apart.
LEMMA DistanceApart ==
  ASSUME NEW a \in 0..7, NEW b \in 0..7, a # b
  PROVE  Ahead(b, a) # 0
  BY DEF Ahead

\* A window of l messages from the number a on ends before the number s.  Counted
\* from a number b of the window, s + j is as far as that many messages.
SentAfter(a, b, l, j, s) ==
  Ahead(b, a) <= l /\ l - Ahead(b, a) + j <= 7 /\ s = (a + l) % 8 =>
    Ahead((s + j) % 8, b) = l - Ahead(b, a) + j

\* That is how numbers are counted modulo 8.
LEMMA DistanceSent ==
  ASSUME NEW a \in 0..7, NEW b \in 0..7, NEW l \in 0..7, NEW j \in Nat, NEW s \in 0..7
  PROVE  SentAfter(a, b, l, j, s)
  BY DEF Ahead, SentAfter

\* The sizes of the window when n of its l messages leave, k come in, and the RTU
\* has got d of the l.
LEMMA WindowSizes ==
  ASSUME NEW n \in 0..7, n # 0, NEW d \in 0..7, NEW l \in Nat, n <= d, d <= l,
         NEW r \in Nat, NEW k \in Nat, r = l - n, NEW ratio \in 1..7, l <= ratio, r + k <= ratio
  PROVE  n \in 1..7 /\ l \in 0..7 /\ r + k <= 7
  OBVIOUS

\* The place g of a message of the window that the RTU, which has got d messages,
\* has not got, when n of the l messages leave.
Places(n, d, l, r, e, g) ==
  n <= d /\ r = l - n /\ d <= e /\ g = e + 1 /\ g \in 1..l =>
    n <= e /\ g - n \in 1..r /\ (g - n) + n = g /\ g - n = (e - n) + 1 /\ d - n <= e - n

\* It stays a place of the window.
LEMMA WindowPlace ==
  ASSUME NEW n \in 1..7, NEW d \in 0..7, NEW l \in 0..7, NEW r \in Nat, NEW e \in 0..7, NEW g \in Nat
  PROVE  Places(n, d, l, r, e, g)
  BY DEF Places

\* Counting from n further keeps the order.
LEMMA OrderOfDistances ==
  \A n, x, y \in 0..7 : x <= y => x - n <= y - n
  OBVIOUS

\* m_NRAccepted removes messages that the RTU has got, and the facts hold for the
\* rest of the window.
LEMMA AcceptKeepsStep ==
  ASSUME TypeOK, TypeOK', StepFacts, WindowBound, conf.ratio \in 1..7, m_ns = (m_NRR + Len(msg_sent)) % 8,
         NEW nr \in 0..7, nr # m_NRR, from_rtu # <<>>, AckAt(1), from_rtu[1].nr = nr, from_rtu' = Tail(from_rtu),
         m_NRAccepted(nr), UNCHANGED <<rtu_vr, delivered>>
  PROVE  StepFacts' /\ ~FalseAck
<1> USE WindowAssumption
<1> DEFINE n == Acknowledged(nr)
           l == Len(msg_sent)
           d == Distance(rtu_vr)
           Next7(x) == Ahead(x, nr)
<1>a. /\ DOMAIN msg_sent = 1..l /\ l \in Nat /\ l <= conf.ratio
      /\ DOMAIN to_rtu = 1..Len(to_rtu) /\ Len(to_rtu) \in Nat
      /\ DOMAIN from_rtu = 1..Len(from_rtu) /\ Len(from_rtu) \in Nat
      /\ m_NRR \in 0..7 /\ rtu_vr \in 0..7 /\ d \in 0..7
      /\ \A i \in DOMAIN to_rtu : InfoAt(i) <=> ~SarmAt(i)
      /\ \A i \in DOMAIN to_rtu : InfoAt(i) => to_rtu[i].ns \in 0..7 /\ Distance(to_rtu[i].ns) \in 0..7
      /\ \A i \in DOMAIN from_rtu : AckAt(i) => from_rtu[i].nr \in 0..7 /\ Distance(from_rtu[i].nr) \in 0..7
  BY EntryTypes, DistanceFacts DEF TypeOK, WindowBound
<1>b. PICK r \in Nat, k \in Nat, frames \in Seq(ToRTU) :
        Counted(nr, r, k) /\ Shifted(n, r, k) /\ FramesOf(k, frames)
  BY AcceptEffect
<1>c. n = Distance(nr) /\ n \in 0..7 /\ n # 0
  BY <1>a, DistanceType, DistanceApart DEF Acknowledged, Distance, Ahead
<1>d. n <= d /\ d <= l
  <2>1. Len(from_rtu) # 0
    BY EmptySeq DEF TypeOK
  <2>2. 1 \in DOMAIN from_rtu
    BY <1>a, <2>1
  <2>3. QED
    BY <1>c, <2>2 DEF StepFacts, AcksOrdered, WindowGot
<1>e. r = l - n
  <2>1. r = IF n <= l THEN l - n ELSE 0
    BY <1>b DEF Counted
  <2> HIDE DEF n, l, d
  <2>2. n <= l
    BY <1>a, <1>c, <1>d
  <2>3. QED
    BY <2>1, <2>2
<1>f. \A x \in 0..7 : n <= Distance(x) => Next7(x) = Distance(x) - n
  <2> SUFFICES ASSUME NEW x \in 0..7, n <= Distance(x) PROVE Ahead(x, nr) = Distance(x) - n
    OBVIOUS
  <2>1. n = Ahead(nr, m_NRR) /\ Distance(x) = Ahead(x, m_NRR) /\ m_NRR \in 0..7
    BY <1>a, <1>c DEF Distance
  <2>2. Ahead(nr, m_NRR) <= Ahead(x, m_NRR)
    BY <2>1, Zenon
  <2>3. Ahead(x, nr) = Ahead(x, m_NRR) - Ahead(nr, m_NRR)
    BY <2>1, <2>2, DistanceRebase
  <2>4. QED
    BY <2>1, <2>3, Zenon
<1>g. \A i \in DOMAIN from_rtu' : /\ i \in Nat /\ i + 1 \in DOMAIN from_rtu /\ 1 < i + 1 /\ from_rtu'[i] = from_rtu[i + 1]
                                  /\ (AckAt(i)' <=> AckAt(i + 1))
  <2>1. /\ Len(from_rtu') = Len(from_rtu) - 1 /\ DOMAIN from_rtu' = 1..Len(from_rtu')
        /\ \A i \in 1..Len(from_rtu') : from_rtu'[i] = from_rtu[i + 1]
    BY HeadTailProperties, LenProperties DEF TypeOK
  <2>2. QED
    BY <1>a, <2>1 DEF AckAt
<1>h. m_NRR' = nr /\ \A x : Next7(x) = Ahead(x, m_NRR')
  BY <1>b DEF Counted
<1>i. /\ DOMAIN msg_sent' = 1..(r + k)
      /\ \A i \in 1..r : i + n \in DOMAIN msg_sent /\ msg_sent'[i] = msg_sent[i + n]
  <2>1. /\ Len(msg_sent') = r + k
        /\ \A i \in 1..r : i + n \in DOMAIN msg_sent /\ msg_sent'[i] = msg_sent[i + n]
    BY <1>b DEF Shifted
  <2>2. QED
    BY <2>1, LenProperties DEF TypeOK
<1>z. /\ n \in 1..7 /\ d \in 0..7 /\ l \in 0..7 /\ n <= d /\ d <= l
      /\ r \in Nat /\ k \in Nat /\ r = l - n /\ r + k <= 7 /\ Len(msg_sent') = r + k
  <2>1. r + k <= conf.ratio
    BY <1>b DEF Counted
  <2>2. Len(msg_sent') = r + k
    BY <1>b DEF Shifted
  <2>3. l \in Nat /\ l <= conf.ratio /\ d \in 0..7
    BY <1>a
  <2>4. conf.ratio \in 1..7 /\ n \in 0..7 /\ n # 0 /\ n <= d /\ d <= l /\ r = l - n /\ r \in Nat /\ k \in Nat
    BY <1>b, <1>c, <1>d, <1>e, Zenon
  <2> HIDE DEF n, l, d
  <2>5. n \in 1..7 /\ l \in 0..7 /\ r + k <= 7
    BY <2>1, <2>3, <2>4, WindowSizes
  <2>6. QED
    BY <2>2, <2>3, <2>4, <2>5, Zenon
<1> HIDE DEF n, l, d, Next7
<1>y. \A x \in 1..l : x <= n => x <= d
  BY <1>z
<1>1. Next7(rtu_vr) = d - n
  BY <1>a, <1>d, <1>f DEF d
<1>2. WindowGot'
  <2>1. Next7(rtu_vr) <= Len(msg_sent')
    BY <1>z, <1>1
  <2>2. ASSUME NEW i \in DOMAIN msg_sent', i <= Next7(rtu_vr) PROVE Got(msg_sent'[i].id)
    <3>1. i \in 1..r /\ i + n <= d
      <4>1. i \in 1..(r + k) /\ i <= d - n
        BY <1>i, <1>1, <2>2
      <4>2. QED
        BY <1>z, <4>1
    <3>2. Got(msg_sent[i + n].id)
      BY <1>i, <3>1 DEF StepFacts, WindowGot, d
    <3>3. QED
      BY <1>i, <3>1, <3>2
  <2>3. QED
    BY <1>h, <2>1, <2>2 DEF WindowGot, Distance, Got
<1>3. AcksOrdered'
  <2>0. 1 \in DOMAIN from_rtu
    <3>1. Len(from_rtu) # 0
      BY EmptySeq DEF TypeOK
    <3>2. QED
      BY <1>a, <3>1
  <2>1. ASSUME NEW i \in DOMAIN from_rtu', AckAt(i)'
        PROVE  /\ Next7(from_rtu'[i].nr) = Distance(from_rtu[i + 1].nr) - n
               /\ Distance(from_rtu[i + 1].nr) <= d
               /\ Distance(from_rtu[i + 1].nr) \in 0..7
    <3>1. i + 1 \in DOMAIN from_rtu /\ AckAt(i + 1) /\ 1 < i + 1 /\ from_rtu'[i] = from_rtu[i + 1]
      BY <1>g, <2>1
    <3>2. n <= Distance(from_rtu[i + 1].nr)
      BY <1>c, <2>0, <3>1 DEF StepFacts, AcksOrdered
    <3>3. from_rtu[i + 1].nr \in 0..7 /\ Distance(from_rtu[i + 1].nr) \in 0..7 /\ Distance(from_rtu[i + 1].nr) <= d
      BY <1>a, <3>1 DEF StepFacts, AcksOrdered, d
    <3> DEFINE y == from_rtu[i + 1].nr
    <3>4. Next7(y) = Distance(y) - n
      <4> HIDE DEF y
      <4>1. y \in 0..7 /\ n <= Distance(y)
        BY <3>2, <3>3 DEF y
      <4>2. QED
        BY <1>f, <4>1
    <3>5. from_rtu'[i].nr = y
      BY <3>1
    <3>6. QED
      BY <3>3, <3>4, <3>5, Zenon
  <2>2. ASSUME NEW i \in DOMAIN from_rtu', AckAt(i)' PROVE Next7(from_rtu'[i].nr) <= Next7(rtu_vr)
    <3>1. \A x \in 0..7 : x <= d => x - n <= d - n
      BY <1>a, <1>c, OrderOfDistances, Zenon
    <3>2. QED
      BY <1>1, <2>1, <2>2, <3>1
  <2>3. ASSUME NEW i \in DOMAIN from_rtu', NEW j \in DOMAIN from_rtu', AckAt(i)', AckAt(j)', i < j
        PROVE  Next7(from_rtu'[i].nr) <= Next7(from_rtu'[j].nr)
    <3>1. i + 1 \in DOMAIN from_rtu /\ j + 1 \in DOMAIN from_rtu /\ AckAt(i + 1) /\ AckAt(j + 1) /\ i + 1 < j + 1
      BY <1>g, <2>3
    <3>2. Distance(from_rtu[i + 1].nr) <= Distance(from_rtu[j + 1].nr)
      BY <3>1 DEF StepFacts, AcksOrdered
    <3>3. \A x, y \in 0..7 : x <= y => x - n <= y - n
      BY <1>c, OrderOfDistances, Zenon
    <3>4. QED
      BY <2>1, <2>3, <3>2, <3>3
  <2>4. QED
    BY <1>h, <2>2, <2>3 DEF AcksOrdered, Distance
\* the frames in the channel
<1> DEFINE Old(i) == /\ i \in DOMAIN to_rtu /\ i <= Len(to_rtu) /\ to_rtu'[i] = to_rtu[i]
                     /\ (InfoAt(i)' <=> InfoAt(i)) /\ (SarmAt(i)' <=> SarmAt(i))
           New(i, h) == /\ h \in 1..k /\ i = Len(to_rtu) + h /\ ~SarmAt(i)'
                        /\ to_rtu'[i] = INFO(Numbered(msg_waiting[h], h), FALSE)
<1>4. \A i \in DOMAIN to_rtu' : Old(i) \/ \E h \in 1..k : New(i, h)
  <2>1. /\ DOMAIN frames = 1..k /\ to_rtu' = Put(to_rtu, frames)
        /\ \A h \in 1..k : frames[h] = INFO(Numbered(msg_waiting[h], h), FALSE)
    BY <1>b DEF FramesOf
  <2>2. to_rtu \in Seq(ToRTU)
    BY DEF TypeOK
  <2> TAKE i \in DOMAIN to_rtu'
  <2>3. \/ i \in DOMAIN to_rtu /\ to_rtu'[i] = to_rtu[i]
        \/ \E h \in 1..k : i = Len(to_rtu) + h /\ to_rtu'[i] = frames[h]
    <3>1. \A j \in DOMAIN Put(to_rtu, frames) :
            \/ j \in DOMAIN to_rtu /\ Put(to_rtu, frames)[j] = to_rtu[j]
            \/ \E h \in DOMAIN frames : j = Len(to_rtu) + h /\ Put(to_rtu, frames)[j] = frames[h]
      BY <2>2, PutFacts
    <3>2. QED
      BY <2>1, <3>1, Zenon
  <2>4. CASE i \in DOMAIN to_rtu /\ to_rtu'[i] = to_rtu[i]
    <3>1. i <= Len(to_rtu)
      BY <1>a, <2>4
    <3>2. QED
      BY <2>4, <3>1 DEF InfoAt, SarmAt
  <2>5. ASSUME NEW h \in 1..k, i = Len(to_rtu) + h, to_rtu'[i] = frames[h] PROVE New(i, h)
    BY <2>1, <2>5 DEF SarmAt, INFO
  <2> HIDE DEF New, Old
  <2>6. QED
    BY <2>3, <2>4, <2>5
<1>5. FramesCurrent'
  <2> SUFFICES ASSUME NEW i \in DOMAIN to_rtu', InfoAt(i)', ~Got(to_rtu'[i].id)
               PROVE  /\ Next7(rtu_vr) <= Next7(to_rtu'[i].ns)
                      /\ \E g \in DOMAIN msg_sent' : g = Next7(to_rtu'[i].ns) + 1 /\ msg_sent'[g].id = to_rtu'[i].id
    BY <1>h DEF FramesCurrent, FrameInWindow, Distance, Got
  <2>1. CASE Old(i)
    <3>1. /\ i \in DOMAIN to_rtu /\ InfoAt(i) /\ to_rtu'[i] = to_rtu[i] /\ ~Got(to_rtu[i].id)
          /\ to_rtu[i].ns \in 0..7 /\ Distance(to_rtu[i].ns) \in 0..7
      BY <1>a, <2>1
    <3>2. PICK g \in DOMAIN msg_sent : g = Distance(to_rtu[i].ns) + 1 /\ msg_sent[g].id = to_rtu[i].id
      BY <3>1 DEF StepFacts, FramesCurrent, FrameInWindow
    <3>3. d <= Distance(to_rtu[i].ns)
      BY <3>1 DEF StepFacts, FramesCurrent, FrameInWindow, d
    <3> DEFINE e == Distance(to_rtu[i].ns)
    <3>4. e \in 0..7 /\ d <= e /\ g = e + 1 /\ g \in 1..l
      BY <1>a, <3>1, <3>2, <3>3 DEF l
    <3>5. n <= e => Next7(to_rtu[i].ns) = e - n
      BY <1>f, <3>1
    <3> HIDE DEF e
    <3>6. n <= e /\ g - n \in 1..r /\ (g - n) + n = g /\ g - n = (e - n) + 1 /\ d - n <= e - n
      <4>1. g \in Nat
        BY <3>4
      <4>2. Places(n, d, l, r, e, g)
        BY <1>z, <3>4, <4>1, WindowPlace
      <4>3. QED
        BY <1>z, <3>4, <4>2, Zenon DEF Places
    <3>7. g - n \in DOMAIN msg_sent' /\ msg_sent'[g - n] = msg_sent[g]
      <4>1. \A j \in 1..r : j \in 1..(r + k)
        BY <1>z
      <4>2. QED
        BY <1>i, <3>6, <4>1
    <3>8. QED
      BY <1>1, <3>1, <3>2, <3>5, <3>6, <3>7
  <2>2. ASSUME NEW h \in 1..k, New(i, h)
        PROVE  /\ Next7(rtu_vr) <= Next7(to_rtu'[i].ns)
               /\ \E g \in DOMAIN msg_sent' : g = Next7(to_rtu'[i].ns) + 1 /\ msg_sent'[g].id = to_rtu'[i].id
    <3>1. to_rtu'[i].ns = (m_ns + h - 1) % 8 /\ to_rtu'[i].id = msg_waiting[h].id
      BY <2>2 DEF INFO, Numbered
    <3>2. msg_sent'[r + h].id = msg_waiting[h].id /\ r + h \in DOMAIN msg_sent'
      <4>1. msg_sent'[r + h] = Numbered(msg_waiting[h], h)
        BY <1>b DEF Shifted
      <4>2. QED
        BY <1>i, <4>1 DEF Numbered
    <3>3. h \in Nat /\ h - 1 \in Nat /\ n <= l /\ l - n + (h - 1) <= 7 /\ l - n + (h - 1) = r + h - 1
      BY <1>z
    <3>4. Next7(to_rtu'[i].ns) = r + h - 1
      <4>1. m_ns = (m_NRR + l) % 8 /\ Ahead(nr, m_NRR) = n /\ m_NRR \in 0..7 /\ nr \in 0..7 /\ m_ns \in 0..7
        BY <1>a, <1>c DEF l, Distance, TypeOK
      <4>2. PICK j \in Nat : j = h - 1
        BY <3>3
      <4>3. l \in 0..7 /\ n <= l /\ l - n + j <= 7 /\ l - n + j = r + h - 1 /\ m_ns + h - 1 = m_ns + j
        BY <1>z, <3>3, <4>1, <4>2
      <4>4. Ahead(nr, m_NRR) <= l /\ l - Ahead(nr, m_NRR) + j <= 7
        BY <4>1, <4>3, Zenon
      <4>5. SentAfter(m_NRR, nr, l, j, m_ns)
        BY <4>1, <4>3, DistanceSent
      <4>6. QED
        BY <3>1, <4>1, <4>3, <4>4, <4>5 DEF Next7, SentAfter
    <3>5. d - n <= r + h - 1 /\ r + h = (r + h - 1) + 1
      BY <1>z, <3>3
    <3>6. QED
      BY <1>1, <3>1, <3>2, <3>4, <3>5
  <2> HIDE DEF Old, New
  <2>3. QED
    BY <1>4, <2>1, <2>2
<1>6. SarmsHarmless'
  <2>1. ASSUME NEW s \in DOMAIN to_rtu, SarmAt(s) PROVE FALSE
    <3>1. rtu_vr = 0 /\ m_NRR = 0
      BY <2>1 DEF StepFacts, SarmsHarmless
    <3>2. d = 0
      BY <3>1, DistanceType DEF d, Distance
    <3>3. QED
      BY <1>z, <3>2
  <2>2. QED
    BY <1>4, <2>1 DEF SarmsHarmless
<1>7. ~FalseAck
  <2>1. ASSUME NEW i \in DOMAIN msg_sent PROVE Got(msg_sent[i].id) \/ \E j \in DOMAIN msg_sent' : msg_sent'[j].id = msg_sent[i].id
    <3>1. CASE i <= n
      <4>1. i \in 1..l
        BY <1>a
      <4>3. i <= d
        BY <1>y, <3>1, <4>1
      <4>4. QED
        BY <4>3 DEF StepFacts, WindowGot, d
    <3>2. CASE ~(i <= n)
      <4>1. i \in 1..l
        BY <1>a
      <4>2. i - n \in 1..r /\ (i - n) + n = i /\ i - n \in 1..(r + k)
        BY SMTT(30), <1>z, <3>2, <4>1
      <4>3. QED
        BY <1>i, <4>2
    <3>3. QED
      BY <3>1, <3>2
  <2>2. QED
    BY <2>1 DEF FalseAck, Ids, Got
<1>8. QED
  BY <1>2, <1>3, <1>5, <1>6, <1>7 DEF StepFacts

---------------------------------------------------------------------------
(* Acknowledgements: every step                                             *)

\* While both ends count from the same UA, the facts hold.
StepInv == in_step /\ m_protocol_state \in High => StepFacts

\* In state CONNECTION they do not.
RestInv == m_protocol_state = "CONNECTION" => ~in_step

\* The receive thread holds what it can have looked up.
PendingInv == \A t \in pending : t.on \in {"RECEIVED_UA", "RECEIVED_SARM", "TCP_CNX_LOST"}

AckInv == StepInv /\ RestInv /\ PendingInv

\* The part of the channel to the RTU that is left after n frames.
Left(n) == \A i \in DOMAIN to_rtu' : i \in Nat /\ i + n \in DOMAIN to_rtu /\ to_rtu'[i] = to_rtu[i + n]

\* Channels that stay, are emptied or lose their first frame.
LEMMA ChannelLosses ==
  ASSUME TypeOK
  PROVE  /\ UNCHANGED to_rtu \/ to_rtu' = <<>> => Left(0)
         /\ to_rtu # <<>> /\ to_rtu' = Tail(to_rtu) => Left(1) /\ 1 \in DOMAIN to_rtu /\ Head(to_rtu) = to_rtu[1]
         /\ UNCHANGED from_rtu \/ from_rtu' = <<>> => Answers(0)
         /\ from_rtu # <<>> /\ from_rtu' = Tail(from_rtu) =>
              Answers(1) /\ 1 \in DOMAIN from_rtu /\ Head(from_rtu) = from_rtu[1]
<1>1. /\ to_rtu \in Seq(ToRTU) /\ DOMAIN to_rtu = 1..Len(to_rtu) /\ Len(to_rtu) \in Nat
      /\ from_rtu \in Seq(FromRTU) /\ DOMAIN from_rtu = 1..Len(from_rtu) /\ Len(from_rtu) \in Nat
  BY LenProperties DEF TypeOK
<1>2. DOMAIN <<>> = {}
  BY EmptySeq
<1>3. ASSUME NEW S, NEW q \in Seq(S), q # <<>>
      PROVE  /\ 1 \in DOMAIN q /\ Head(q) = q[1]
             /\ \A i \in DOMAIN Tail(q) : i \in Nat /\ i + 1 \in DOMAIN q /\ Tail(q)[i] = q[i + 1]
  <2>1. Len(q) \in Nat /\ DOMAIN q = 1..Len(q) /\ Len(q) # 0
    BY <1>3, LenProperties, EmptySeq
  <2>2. /\ Tail(q) \in Seq(S) /\ Len(Tail(q)) = Len(q) - 1 /\ Head(q) = q[1]
        /\ \A i \in 1..Len(Tail(q)) : Tail(q)[i] = q[i + 1]
    BY <1>3, HeadTailProperties
  <2>3. DOMAIN Tail(q) = 1..Len(Tail(q))
    BY <2>2, LenProperties
  <2>4. QED
    BY <2>1, <2>2, <2>3
<1>5. UNCHANGED to_rtu \/ to_rtu' = <<>> => Left(0)
  BY <1>1, <1>2 DEF Left
<1>6. to_rtu # <<>> /\ to_rtu' = Tail(to_rtu) => Left(1) /\ 1 \in DOMAIN to_rtu /\ Head(to_rtu) = to_rtu[1]
  BY <1>1, <1>3 DEF Left
<1>7. UNCHANGED from_rtu \/ from_rtu' = <<>> => Answers(0)
  BY <1>1, <1>2 DEF Answers
<1>8. from_rtu # <<>> /\ from_rtu' = Tail(from_rtu) =>
        Answers(1) /\ 1 \in DOMAIN from_rtu /\ Head(from_rtu) = from_rtu[1]
  BY <1>1, <1>3 DEF Answers
<1>9. QED
  BY <1>5, <1>6, <1>7, <1>8

\* The RTU answers.
LEMMA ChannelAnswer ==
  ASSUME TypeOK, NEW frame \in FromRTU, from_rtu' = Put(from_rtu, <<frame>>),
         frame.type \in {"RR", "INFO"} => frame.nr = rtu_vr'
  PROVE  Answers(0)
<1> USE WindowAssumption
<1>1. from_rtu \in Seq(FromRTU) /\ DOMAIN from_rtu = 1..Len(from_rtu) /\ Len(from_rtu) \in Nat
  BY LenProperties DEF TypeOK
<1>2. \A i \in DOMAIN from_rtu' : \/ i \in DOMAIN from_rtu /\ from_rtu'[i] = from_rtu[i]
                                  \/ i = Len(from_rtu) + 1 /\ from_rtu'[i] = frame
  BY <1>1, PutOne
<1>3. QED
  BY <1>1, <1>2 DEF Answers, AckAt

\* Neither the numbers nor the queues nor the RTU change.
LEMMA LossesKeepStep ==
  ASSUME TypeOK, TypeOK', StepFacts, Left(0) \/ Left(1), Answers(0) \/ Answers(1),
         UNCHANGED <<m_NRR, msg_sent, rtu_vr, delivered>>
  PROVE  StepFacts'
<1>1. ASSUME NEW n \in Nat, NEW p \in Nat, Left(n), Answers(p) PROVE StepFacts'
  BY <1>1, LossKeepsStep DEF Left
<1>2. 0 \in Nat /\ 1 \in Nat
  OBVIOUS
<1>3. QED
  BY <1>1, <1>2

\* A new message, numbered when the window is open.
LEMMA NewMessageKeepsStep ==
  ASSUME IInv, TypeOK', NoRenumbering, m_protocol_state \in High, StepFacts, NEW kind \in Kinds, m_sendInfo(kind)
  PROVE  StepFacts'
<1> USE WindowAssumption
<1> DEFINE message == [id |-> next_id, kind |-> kind, ns |-> 0]
           numbered == Numbered(message, 1)
           l == Len(msg_sent)
<1>1. TypeOK /\ UNCHANGED <<m_NRR, rtu_vr, delivered, from_rtu>>
  BY DEF m_sendInfo, rtuVars, IInv
<1>2. CASE WindowOpen(msg_sent)
  <2> DEFINE frame == INFO(numbered, FALSE)
  <2>1. msg_sent' = Append(msg_sent, numbered) /\ to_rtu' = Put(to_rtu, <<frame>>)
    BY <1>2 DEF m_sendInfo
  <2>2. message \in Messages
    BY <1>1, NewMessage DEF TypeOK
  <2> HIDE DEF message
  <2>3. numbered \in Messages /\ numbered.ns = (m_ns + 1 - 1) % 8
    BY <1>1, <2>2, NumberedFacts DEF TypeOK
  <2> HIDE DEF numbered
  <2>4. frame \in ToRTU /\ frame.type = "INFO" /\ frame.id = numbered.id /\ frame.ns = numbered.ns
    BY <2>3, InfoType DEF INFO
  <2>5. m_ns = (m_NRR + l) % 8 /\ m_ns \in 0..7 /\ m_NRR \in 0..7 /\ l \in 0..7
    <3>1. m_ns = (m_NRR + l) % 8 /\ m_ns \in 0..7 /\ m_NRR \in 0..7
      BY DEF IInv, WindowInv, NumberingConsistent, High, TypeOK
    <3>2. l \in Nat /\ l <= conf.ratio /\ conf.ratio \in 1..7
      BY LenProperties DEF IInv, WindowInv, WindowBound, TypeOK
    <3> HIDE DEF l
    <3>3. QED
      BY <3>1, <3>2, AtMostSeven
  <2>6. /\ msg_sent' \in Seq(Messages) /\ Len(msg_sent') = l + 1
        /\ \A i \in 1..l : msg_sent'[i] = msg_sent[i]
        /\ msg_sent'[l + 1] = numbered
    <3>1. msg_sent \in Seq(Messages)
      BY <1>1 DEF TypeOK
    <3>2. QED
      BY <2>1, <2>3, <3>1, AppendProperties
  <2>7. DOMAIN msg_sent = 1..l /\ DOMAIN msg_sent' = 1..(l + 1)
    BY <1>1, <2>6, LenProperties DEF TypeOK
  <2> HIDE DEF l, frame
  <2>8. Distance(frame.ns) = l
    <3>1. \A n \in 0..7 : (n + 1 - 1) % 8 = n
      OBVIOUS
    <3>2. frame.ns = m_ns
      BY <2>3, <2>4, <2>5, <3>1
    <3>3. Ahead((m_NRR + l) % 8, m_NRR) = l
      BY <2>5, DistanceMod8 DEF Ahead
    <3>4. QED
      BY <2>5, <3>2, <3>3, Zenon DEF Distance
  <2>9. \A i \in DOMAIN msg_sent : i \in DOMAIN msg_sent' /\ msg_sent'[i] = msg_sent[i]
    BY <2>5, <2>6, <2>7
  <2>10. l + 1 \in DOMAIN msg_sent' /\ msg_sent'[l + 1].id = frame.id
    BY <2>4, <2>5, <2>6, <2>7
  <2>11. Distance(rtu_vr) <= l
    BY DEF StepFacts, WindowGot, l
  <2>12. QED
    BY <1>1, <2>1, <2>4, <2>8, <2>9, <2>10, <2>11, FrameKeepsStep
<1>3. CASE ~WindowOpen(msg_sent)
  <2>1. UNCHANGED <<msg_sent, to_rtu>>
    BY <1>3 DEF m_sendInfo
  <2>2. QED
    BY <1>1, <2>1, ChannelLosses, LossesKeepStep
<1>4. QED
  BY <1>2, <1>3

\* The retry repeats the only frame of the window.
LEMMA ResendKeepsStep ==
  ASSUME IInv, TypeOK', NoRenumbering, m_protocol_state \in High, StepFacts, CheckTimer, ~Exhausted
  PROVE  StepFacts'
<1> USE WindowAssumption
<1> DEFINE frame == INFO(Head(msg_sent), TRUE)
<1>1. TypeOK /\ Len(msg_sent) = 1 /\ Resend /\ UNCHANGED msg_sent
  BY ResendIsAlone DEF IInv
<1>2. Head(msg_sent) = msg_sent[1] /\ msg_sent[1] \in Messages /\ DOMAIN msg_sent = 1..1
  <2>1. msg_sent \in Seq(Messages) /\ 1 \in 1..Len(msg_sent)
    BY <1>1 DEF TypeOK
  <2>2. QED
    BY <1>1, <2>1, ElementOfSeq, LenProperties
<1>3. frame \in ToRTU /\ frame.type = "INFO" /\ frame.id = msg_sent[1].id /\ frame.ns = msg_sent[1].ns
  BY <1>2, InfoType DEF INFO
<1>4. to_rtu' = Put(to_rtu, <<frame>>) /\ UNCHANGED <<m_NRR, rtu_vr, delivered, from_rtu>>
  BY <1>1 DEF Resend, CheckTimer, rtuVars
<1> HIDE DEF frame
<1>5. Distance(frame.ns) = 0
  <2>1. msg_sent[1].ns = (m_NRR + 1 - 1) % 8 /\ m_NRR \in 0..7
    BY <1>2 DEF IInv, WindowInv, NumberingConsistent, High, TypeOK
  <2>2. \A n \in 0..7 : (n + 1 - 1) % 8 = n
    OBVIOUS
  <2>3. msg_sent[1].ns = m_NRR
    BY <2>1, <2>2
  <2>4. QED
    BY <1>3, <2>1, <2>3, DistanceType DEF Distance
<1>6. Distance(rtu_vr) \in 0..7
  BY <1>1, DistanceFacts
<1>7. 1 \in DOMAIN msg_sent' /\ 1 \in DOMAIN msg_sent
  BY <1>1, <1>2
<1>8. Got(frame.id) \/ /\ Distance(rtu_vr) <= Distance(frame.ns)
                       /\ \E k \in DOMAIN msg_sent' : k = Distance(frame.ns) + 1 /\ msg_sent'[k].id = frame.id
  <2>1. CASE 1 <= Distance(rtu_vr)
    BY <1>3, <1>7, <2>1 DEF StepFacts, WindowGot
  <2>2. CASE ~(1 <= Distance(rtu_vr))
    BY <1>1, <1>3, <1>5, <1>6, <1>7, <2>2
  <2>3. QED
    BY <2>1, <2>2
<1>9. QED
  BY <1>1, <1>3, <1>4, <1>8, FrameKeepsStep

\* An acknowledgement or another information frame is received.
LEMMA AckKeepsStep ==
  ASSUME IInv, TypeOK', NoRenumbering, m_protocol_state \in High, StepFacts,
         NEW type \in {"RR", "INFO"}, ReceiveAck(type)
  PROVE  StepFacts' /\ ~FalseAck
<1> USE WindowAssumption
<1>1. TypeOK /\ from_rtu # <<>> /\ from_rtu' = Tail(from_rtu) /\ UNCHANGED <<rtu_vr, delivered>>
  BY DEF IInv, ReceiveAck, Receives, rtuVars
<1>2. Answers(1) /\ 1 \in DOMAIN from_rtu /\ Head(from_rtu) = from_rtu[1]
  BY <1>1, ChannelLosses
<1>3. AckAt(1) /\ from_rtu[1].nr \in 0..7
  <2>1. AckAt(1)
    BY <1>2 DEF ReceiveAck, Receives, AckAt
  <2>2. QED
    BY <1>1, <1>2, <2>1, DistanceFacts
<1> DEFINE nr == from_rtu[1].nr
<1>4. CASE Heeds(type) /\ Accepts(Head(from_rtu).nr, Head(from_rtu).f)
  <2>1. m_NRAccepted(nr) /\ nr # m_NRR
    BY <1>2, <1>4 DEF ReceiveAck, Accepts
  <2>2. WindowBound /\ conf.ratio \in 1..7 /\ m_ns = (m_NRR + Len(msg_sent)) % 8
    BY DEF IInv, WindowInv, NumberingConsistent, High, TypeOK
  <2>3. QED
    BY <1>1, <1>3, <2>1, <2>2, AcceptKeepsStep
<1>5. CASE ~(Heeds(type) /\ Accepts(Head(from_rtu).nr, Head(from_rtu).f))
  <2>1. UNCHANGED <<m_NRR, msg_sent, to_rtu>>
    BY <1>5 DEF ReceiveAck, numberVars, queueVars
  <2>2. QED
    BY <1>1, <1>2, <2>1, ChannelLosses, LossesKeepStep DEF FalseAck
<1>6. QED
  BY <1>4, <1>5

\* The RTU takes a frame.
LEMMA RTUKeepsStep ==
  ASSUME IInv, TypeOK', OrderInv, StepFacts, RTUReceive
  PROVE  StepFacts'
<1> USE WindowAssumption
<1>1. TypeOK /\ to_rtu # <<>> /\ to_rtu' = Tail(to_rtu) /\ UNCHANGED <<m_NRR, msg_sent>>
  BY DEF IInv, RTUReceive, numberVars, queueVars
<1>2. Left(1) /\ 1 \in DOMAIN to_rtu /\ Head(to_rtu) = to_rtu[1]
  BY <1>1, ChannelLosses
<1>3. /\ Bare("UA") \in FromRTU /\ Bare("UA").type = "UA"
      /\ \A n \in 0..7, f \in BOOLEAN : /\ Ack("RR", n, f) \in FromRTU
                                        /\ Ack("RR", n, f).nr = n
  BY DEF Bare, Ack, FromRTU
<1>4. rtu_vr \in 0..7 /\ (rtu_vr + 1) % 8 \in 0..7
  BY <1>1, NextDiffers DEF TypeOK
<1>5. InfoAt(1) => to_rtu[1].p \in BOOLEAN
  BY <1>1, <1>2, EntryTypes
<1>6. CASE to_rtu[1].type = "SARM" /\ rtu_vr' = 0 /\ from_rtu' = Put(from_rtu, <<Bare("UA")>>) /\ UNCHANGED delivered
  <2>1. UNCHANGED rtu_vr
    BY <1>2, <1>6 DEF StepFacts, SarmsHarmless, SarmAt
  <2>2. Answers(0)
    BY <1>1, <1>3, <1>6, ChannelAnswer
  <2>3. QED
    BY <1>1, <1>2, <1>6, <2>1, <2>2, LossesKeepStep
<1>7. CASE /\ to_rtu[1].type = "INFO" /\ to_rtu[1].ns = rtu_vr /\ rtu_vr' = (rtu_vr + 1) % 8
           /\ from_rtu' = Put(from_rtu, <<Ack("RR", (rtu_vr + 1) % 8, to_rtu[1].p)>>)
           /\ delivered' = Append(delivered, to_rtu[1].id)
  <2>1. InfoAt(1)
    BY <1>7 DEF InfoAt
  <2>2. Answers(0)
    <3> DEFINE frame == Ack("RR", rtu_vr', to_rtu[1].p)
    <3>1. frame \in FromRTU /\ frame.nr = rtu_vr' /\ from_rtu' = Put(from_rtu, <<frame>>)
      BY <1>3, <1>4, <1>5, <1>7, <2>1
    <3> HIDE DEF frame
    <3>2. QED
      BY <1>1, <3>1, ChannelAnswer
  <2>3. WindowBound /\ conf.ratio \in 1..7
    BY DEF IInv, WindowInv, TypeOK
  <2>4. QED
    BY <1>1, <1>7, <2>1, <2>2, <2>3, DeliveryKeepsStep
<1>8. CASE /\ to_rtu[1].type = "INFO" /\ UNCHANGED <<rtu_vr, delivered>>
           /\ from_rtu' = IF to_rtu[1].p THEN Put(from_rtu, <<Ack("RR", rtu_vr, TRUE)>>) ELSE from_rtu
  <2>1. CASE to_rtu[1].p
    <3> DEFINE frame == Ack("RR", rtu_vr, TRUE)
    <3>1. frame \in FromRTU /\ frame.nr = rtu_vr' /\ from_rtu' = Put(from_rtu, <<frame>>)
      BY <1>3, <1>4, <1>8, <2>1
    <3> HIDE DEF frame
    <3>2. Answers(0)
      BY <1>1, <3>1, ChannelAnswer
    <3>3. QED
      BY <1>1, <1>2, <1>8, <3>2, LossesKeepStep
  <2>2. CASE ~to_rtu[1].p
    BY <1>1, <1>2, <1>8, <2>2, ChannelLosses, LossesKeepStep
  <2>3. QED
    BY <2>1, <2>2
<1>9. QED
  BY <1>2, <1>6, <1>7, <1>8 DEF RTUReceive, rtuVars

\* What the entries of the table do to the numbers and to the channels.
LEMMA AckEntryFacts ==
  ASSUME NEW t \in m_protocolStateTransitionMap
  PROVE  /\ t.on = "RECEIVED_UA" => t.from \in Low /\ t.to \in High /\ ResetsOutput(t)
         /\ t.on \in {"RECEIVED_SARM", "TCP_CNX_LOST"} /\ t.from = "CONNECTED" => t.to \in Low
         /\ t.from \in High => t.to # t.from
         /\ t.to \in Low \/ t.to \in High
  BY DEF m_protocolStateTransitionMap, Entry, Low, High, ResetsOutput, Calls

\* Both ends restart their numbers: nothing of the old numbering is left.
LEMMA RestartFacts ==
  ASSUME TypeOK, RTUInStep, Left(0), Answers(0), UNCHANGED <<rtu_vr, delivered>>,
         m_NRR' = 0, msg_sent' = <<>>, \A i \in DOMAIN from_rtu' : i \in DOMAIN from_rtu /\ from_rtu'[i] = from_rtu[i]
  PROVE  StepFacts'
<1>1. rtu_vr' = 0 /\ Distance(rtu_vr)' = 0
  BY DistanceType DEF RTUInStep, Distance
<1>2. \A i \in DOMAIN to_rtu' : ~InfoAt(i)'
  BY DEF RTUInStep, Left, InfoAt
<1>3. \A i \in DOMAIN from_rtu' : ~AckAt(i)'
  BY DEF RTUInStep, AckAt
<1>4. DOMAIN msg_sent' = {} /\ Len(msg_sent') = 0
  BY EmptySeq
<1>5. WindowGot'
  BY <1>1, <1>4 DEF WindowGot
<1>6. AcksOrdered' /\ FramesCurrent' /\ SarmsHarmless'
  BY <1>1, <1>2, <1>3 DEF AcksOrdered, FramesCurrent, SarmsHarmless
<1>7. QED
  BY <1>5, <1>6 DEF StepFacts

\* A transition applied in time keeps the invariant of the acknowledgements, and
\* what it removes from msg_sent it does not acknowledge.
LEMMA TransitionKeepsStep ==
  ASSUME IInv, TypeOK', StepInv, RestInv, NEW t \in m_protocolStateTransitionMap, Timely(t),
         t.from = m_protocol_state \/ t.on \in {"RECEIVED_UA", "RECEIVED_SARM", "TCP_CNX_LOST"},
         applyTransition(t), CloseIf(Calls(t, "stopTCP")), UNCHANGED <<rtu_vr, delivered>>
  PROVE  StepInv' /\ RestInv' /\ ~FalseAck
<1>1. /\ t.to = "CONNECTION" => ResetsOutput(t)
      /\ t.from \in Low /\ t.to \notin Low => ResetsOutput(t)
      /\ t.from = "CONNECTED" /\ t.to = "OUTPUT_CONNECTED" => ResetsOutput(t)
      /\ t.from = "OUTPUT_CONNECTED" => t.to = "CONNECTION" \/ t.to = "CONNECTED"
      /\ t.from = "OUTPUT_CONNECTED" /\ t.to = "CONNECTED" => ~Discards(t)
      /\ t.from = "CONNECTED" => t.to # "CONNECTED"
      /\ t.from \in ProtocolState
  BY EntryFacts
<1>2. /\ t.on = "RECEIVED_UA" => t.from \in Low /\ t.to \in High /\ ResetsOutput(t)
      /\ t.on \in {"RECEIVED_SARM", "TCP_CNX_LOST"} /\ t.from = "CONNECTED" => t.to \in Low
      /\ t.from \in High => t.to # t.from
      /\ t.to \in Low \/ t.to \in High
  BY AckEntryFacts
<1>3. m_protocol_state \in Low => msg_sent = <<>>
  BY LowIsEmpty DEF IInv, WindowInv
<1>4. /\ m_protocol_state' = t.to
      /\ in_step' = IF t.on = "RECEIVED_UA" THEN RTUInStep ELSE in_step /\ ~ResetsOutput(t)
      /\ ResetsOutput(t) => m_NRR' = 0
      /\ ~ResetsOutput(t) => UNCHANGED m_NRR
      /\ msg_sent' = IF Discards(t) THEN <<>> ELSE msg_sent
  BY DEF applyTransition
<1>5. (UNCHANGED to_rtu \/ to_rtu' = <<>>) /\ (UNCHANGED from_rtu \/ from_rtu' = <<>>)
  BY DEF CloseIf
<1>6. Left(0) /\ Answers(0) /\ \A i \in DOMAIN from_rtu' : i \in DOMAIN from_rtu /\ from_rtu'[i] = from_rtu[i]
  BY <1>5, ChannelLosses, EmptySeq DEF IInv
<1>7. StepInv'
  <2> SUFFICES ASSUME in_step', t.to \in High PROVE StepFacts'
    BY <1>4 DEF StepInv
  <2>1. CASE t.on = "RECEIVED_UA"
    <3>1. m_NRR' = 0 /\ RTUInStep
      BY <1>2, <1>4, <2>1
    <3>2. msg_sent' = <<>>
      BY <1>2, <1>3, <1>4, <2>1 DEF Timely
    <3>3. QED
      BY <1>6, <3>1, <3>2, RestartFacts DEF IInv
  <2>2. CASE t.on # "RECEIVED_UA"
    <3>1. in_step /\ ~ResetsOutput(t)
      BY <1>4, <2>2
    <3>2. t.from = "OUTPUT_CONNECTED" /\ t.to = "CONNECTED"
      BY <1>1, <3>1 DEF High, Low, ProtocolState
    <3>3. m_protocol_state = "OUTPUT_CONNECTED"
      BY <3>1, <3>2 DEF Timely, RestInv
    <3>4. StepFacts
      BY <3>1, <3>3 DEF StepInv, High
    <3>5. UNCHANGED <<m_NRR, msg_sent>>
      BY <1>1, <1>4, <3>1, <3>2
    <3>6. QED
      BY <1>6, <3>4, <3>5, LossesKeepStep DEF IInv
  <2>3. QED
    BY <2>1, <2>2
<1>8. RestInv'
  BY <1>1, <1>2, <1>4 DEF RestInv, High
<1>9. ~FalseAck
  <2> SUFFICES ASSUME FalseAck PROVE FALSE
    OBVIOUS
  <2>1. t.to = m_protocol_state /\ msg_sent # <<>>
    BY <1>4, EmptySeq DEF FalseAck, Ids
  <2>2. m_protocol_state \in High
    BY <1>2, <1>3, <2>1
  <2>3. t.from # m_protocol_state
    BY <1>2, <2>1, <2>2
  <2>4. t.from \notin Low
    BY <2>2 DEF Timely, High, Low
  <2>5. t.from = "CONNECTED" \/ t.from = "OUTPUT_CONNECTED"
    BY <1>1, <2>4 DEF Low, ProtocolState
  <2>6. t.from # "OUTPUT_CONNECTED"
    BY <2>2, <2>3 DEF Timely, High
  <2>7. t.to \in Low
    BY <1>2, <2>3, <2>5, <2>6 DEF Low
  <2>8. QED
    BY <2>1, <2>2, <2>7 DEF High, Low
<1>10. QED
  BY <1>7, <1>8, <1>9

\* A transition of the state the path is in is applied in time.
LEMMA PresentIsTimely ==
  ASSUME NEW t, t.from = m_protocol_state
  PROVE  Timely(t)
  BY DEF Timely

\* No step breaks the invariant, and none acknowledges a message the RTU has not got.
LEMMA AckPreserved ==
  ASSUME IInv, NoRenumbering, OrderInv, AckInv, [Next]_vars
  PROVE  AckInv' /\ (in_step => ~FalseAck)
<1> USE DEF AckInv
<1>1. TypeOK /\ TypeOK'
  BY StepPreserves DEF IInv
<1>2. ASSUME UNCHANGED <<m_protocol_state, in_step, pending>>, m_protocol_state \in High /\ StepFacts => StepFacts' /\ ~FalseAck,
             m_protocol_state \in Low => ~FalseAck
      PROVE  AckInv' /\ (in_step => ~FalseAck)
  <2>1. m_protocol_state \in High \/ m_protocol_state \in Low
    BY <1>1 DEF TypeOK, ProtocolState, High, Low
  <2>2. QED
    BY <1>2, <2>1 DEF StepInv, RestInv, PendingInv
<1>3. m_protocol_state \in Low => ~FalseAck
  <2>1. m_protocol_state \in Low => msg_sent = <<>>
    BY <1>1, LowIsEmpty DEF IInv, WindowInv
  <2>2. msg_sent = <<>> => ~FalseAck
    BY EmptySeq DEF FalseAck, Ids
  <2>3. QED
    BY <2>1, <2>2
<1>4. UNCHANGED m_NRR => ~FalseAck
  BY DEF FalseAck
\* the numbers, the queues and the RTU stay; the receive thread may look up an event
<1>5. ASSUME Left(0) \/ Left(1), Answers(0) \/ Answers(1),
             UNCHANGED <<m_protocol_state, in_step, m_NRR, msg_sent, rtu_vr, delivered>>,
             \/ UNCHANGED pending
             \/ \E e \in {"RECEIVED_UA", "RECEIVED_SARM", "TCP_CNX_LOST"} : LookUp(e)
      PROVE  AckInv' /\ (in_step => ~FalseAck)
  <2>1. StepInv' /\ RestInv'
    BY <1>1, <1>5, LossesKeepStep DEF StepInv, RestInv
  <2>2. PendingInv'
    <3>1. CASE UNCHANGED pending
      BY <3>1 DEF PendingInv
    <3>2. ASSUME NEW e \in {"RECEIVED_UA", "RECEIVED_SARM", "TCP_CNX_LOST"}, LookUp(e) PROVE PendingInv'
      <4>1. \A t \in pending' : t.on = e
        BY <3>2, LookupFacts DEF LookUp
      <4>2. QED
        BY <4>1 DEF PendingInv
    <3>3. QED
      BY <1>5, <3>1, <3>2
  <2>3. QED
    BY <1>4, <1>5, <2>1, <2>2
<1>6. ASSUME NEW kind \in Kinds, m_sendInfo(kind) PROVE AckInv' /\ (in_step => ~FalseAck)
  <2>1. UNCHANGED <<m_protocol_state, in_step, pending, m_NRR>>
    BY <1>6 DEF m_sendInfo
  <2>2. QED
    BY <1>1, <1>2, <1>3, <1>4, <1>6, <2>1, NewMessageKeepsStep
<1>7. ASSUME NEW type \in {"RR", "INFO"}, ReceiveAck(type) PROVE AckInv' /\ (in_step => ~FalseAck)
  <2>1. UNCHANGED <<m_protocol_state, in_step, pending>>
    BY <1>7 DEF ReceiveAck
  <2>2. QED
    BY <1>1, <1>2, <1>3, <1>7, <2>1, AckKeepsStep
<1>8. CASE ReceiveUA \/ ReceiveSARM
  <2>1. /\ from_rtu # <<>> /\ from_rtu' = Tail(from_rtu)
        /\ UNCHANGED <<to_rtu, m_protocol_state, in_step, m_NRR, msg_sent, rtu_vr, delivered>>
        /\ UNCHANGED pending \/ \E e \in {"RECEIVED_UA", "RECEIVED_SARM", "TCP_CNX_LOST"} : LookUp(e)
    BY <1>8 DEF ReceiveUA, ReceiveSARM, Receives, numberVars, queueVars, rtuVars
  <2>2. QED
    BY <1>1, <1>5, <2>1, ChannelLosses
<1>9. CASE ReceiveNothing \/ Reconnect \/ UNCHANGED vars
  <2>1. /\ UNCHANGED <<to_rtu, from_rtu, m_protocol_state, in_step, m_NRR, msg_sent, rtu_vr, delivered>>
        /\ UNCHANGED pending \/ \E e \in {"RECEIVED_UA", "RECEIVED_SARM", "TCP_CNX_LOST"} : LookUp(e)
    BY <1>9 DEF ReceiveNothing, Reconnect, vars, numberVars, queueVars, rtuVars
  <2>2. QED
    BY <1>1, <1>5, <2>1, ChannelLosses
<1>10. CASE Lose \/ TCPLost
  <2>1. /\ UNCHANGED to_rtu \/ to_rtu' = <<>> \/ (to_rtu # <<>> /\ to_rtu' = Tail(to_rtu))
        /\ UNCHANGED from_rtu \/ from_rtu' = <<>> \/ (from_rtu # <<>> /\ from_rtu' = Tail(from_rtu))
        /\ UNCHANGED <<m_protocol_state, in_step, pending, m_NRR, msg_sent, rtu_vr, delivered>>
    BY <1>10 DEF Lose, TCPLost, CloseIf, numberVars, queueVars, rtuVars
  <2>2. QED
    BY <1>1, <1>5, <2>1, ChannelLosses
<1>11. CASE RTUSend(Bare("SARM")) \/ RTUSend(Ack("INFO", rtu_vr, FALSE))
  <2>1. UNCHANGED <<to_rtu, m_protocol_state, in_step, pending, m_NRR, msg_sent, rtu_vr, delivered>>
    BY <1>11 DEF RTUSend, numberVars, queueVars, rtuVars
  <2>2. ASSUME NEW frame \in FromRTU, RTUSend(frame), frame.type \in {"RR", "INFO"} => frame.nr = rtu_vr
        PROVE  Answers(0)
    <3>1. from_rtu' = Put(from_rtu, <<frame>>)
      BY <2>2 DEF RTUSend
    <3>2. QED
      BY <1>1, <2>1, <2>2, <3>1, ChannelAnswer
  <2>3. /\ Bare("SARM") \in FromRTU /\ Bare("SARM").type = "SARM"
        /\ Ack("INFO", rtu_vr, FALSE) \in FromRTU /\ Ack("INFO", rtu_vr, FALSE).nr = rtu_vr
    BY <1>1 DEF Bare, Ack, FromRTU, TypeOK
  <2>4. Answers(0)
    BY <1>11, <2>2, <2>3
  <2>5. QED
    BY <1>1, <1>5, <2>1, <2>4, ChannelLosses
<1>12. CASE RTUReceive
  <2>1. UNCHANGED <<m_protocol_state, in_step, pending, m_NRR>>
    BY <1>12 DEF RTUReceive, numberVars
  <2>2. QED
    BY <1>1, <1>2, <1>3, <1>4, <1>12, <2>1, RTUKeepsStep
<1>13. CASE m_sendSARM
  <2>1. UNCHANGED <<m_protocol_state, in_step, pending, m_NRR>> /\ m_protocol_state \notin High
    BY <1>13 DEF m_sendSARM, numberVars, High
  <2>2. QED
    BY <1>2, <1>3, <1>4, <2>1
<1>14. CASE CheckTimer /\ ~Exhausted
  <2>1. UNCHANGED <<m_protocol_state, in_step, pending, m_NRR>>
    BY <1>14 DEF CheckTimer, Resend
  <2>2. QED
    BY <1>1, <1>2, <1>3, <1>4, <1>14, <2>1, ResendKeepsStep
\* the transitions
<1>15. CASE ApplyTransition
  <2>1. PICK t \in pending : applyTransition(t) /\ CloseIf(Calls(t, "stopTCP"))
    BY <1>15 DEF ApplyTransition
  <2>2. t \in m_protocolStateTransitionMap /\ Timely(t) /\ t.on \in {"RECEIVED_UA", "RECEIVED_SARM", "TCP_CNX_LOST"}
    BY DEF IInv, TypeOK, PendingInv
  <2>3. UNCHANGED <<rtu_vr, delivered>> /\ PendingInv'
    BY <1>15 DEF ApplyTransition, rtuVars, PendingInv
  <2>4. QED
    BY <1>1, <2>1, <2>2, <2>3, TransitionKeepsStep
<1>16. ASSUME NEW e, LockedTransition(e), UNCHANGED <<rtu_vr, delivered, pending>>
       PROVE  AckInv' /\ (in_step => ~FalseAck)
  <2>1. PICK t \in TransitionsOf(m_protocol_state, e) : applyTransition(t) /\ CloseIf(Calls(t, "stopTCP"))
    BY <1>16 DEF LockedTransition
  <2>2. t \in m_protocolStateTransitionMap /\ t.from = m_protocol_state
    BY <1>16, <2>1, LookupFacts DEF LockedTransition
  <2>3. Timely(t)
    BY <2>2, PresentIsTimely
  <2>4. PendingInv'
    BY <1>16 DEF PendingInv
  <2>5. QED
    BY <1>1, <1>16, <2>1, <2>2, <2>3, <2>4, TransitionKeepsStep
<1>17. ASSUME NEW e \in ConnectionEvent, ManageTimeout(e) PROVE AckInv' /\ (in_step => ~FalseAck)
  BY <1>16, <1>17 DEF ManageTimeout, rtuVars
<1>18. CASE CheckTimer /\ Exhausted
  <2>1. LockedTransition("MAX_SEND") /\ UNCHANGED <<rtu_vr, delivered, pending>>
    BY <1>18 DEF CheckTimer, rtuVars
  <2>2. QED
    BY <1>16, <2>1
<1>19. QED
  BY <1>6, <1>7, <1>8, <1>9, <1>10, <1>11, <1>12, <1>13, <1>14, <1>15, <1>17, <1>18 DEF Next

---------------------------------------------------------------------------
(* The second theorem                                                       *)

\* The invariant of the deliveries and of the acknowledgements.
AllInv == IInv /\ DeliveryInv /\ (NoRenumbering => AckInv)

\* It holds in every state.
THEOREM AckInvariance == Spec => []AllInv
<1> USE WindowAssumption
<1>1. Init => (NoRenumbering => AckInv)
  <2> SUFFICES ASSUME Init PROVE AckInv
    OBVIOUS
  <2>1. DOMAIN <<>> = {} /\ Len(<<>>) = 0
    BY EmptySeq
  <2>2. /\ DOMAIN msg_sent = {} /\ Len(msg_sent) = 0 /\ DOMAIN to_rtu = {} /\ DOMAIN from_rtu = {}
        /\ pending = {} /\ m_protocol_state = "CONNECTED" /\ rtu_vr = m_NRR /\ m_NRR \in 0..7
    BY <2>1 DEF Init
  <2>3. Distance(rtu_vr) = 0
    BY <2>2, DistanceType DEF Distance
  <2>4. StepFacts
    BY <2>2, <2>3 DEF StepFacts, WindowGot, AcksOrdered, FramesCurrent, SarmsHarmless
  <2>5. QED
    BY <2>2, <2>4 DEF AckInv, StepInv, RestInv, PendingInv
<1>2. AllInv /\ [Next]_vars => (NoRenumbering => AckInv)'
  <2> SUFFICES ASSUME AllInv, [Next]_vars, NoRenumbering' PROVE AckInv'
    OBVIOUS
  <2>1. NoRenumbering
    BY StepKinds DEF NoRenumbering, AllInv
  <2>2. QED
    BY <2>1, AckPreserved DEF AllInv, DeliveryInv
<1>3. QED
  BY <1>1, <1>2, Invariance, DeliveryInvariance, PTL DEF Spec, AllInv

\* As long as both ends count from the same UA and the retry does not renumber, a
\* message that is removed from msg_sent by an acknowledgement has reached the RTU.
THEOREM AcknowledgedMessagesWereDelivered == Spec => AckedInStep
<1>1. AllInv /\ [Next]_vars => [in_step /\ NoRenumbering => ~FalseAck]_vars
  BY AckPreserved DEF AllInv, DeliveryInv
<1>2. QED
  BY <1>1, AckInvariance, PTL DEF Spec, AckedInStep
=============================================================================
