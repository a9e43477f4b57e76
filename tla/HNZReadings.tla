---------------------------- MODULE HNZReadings ----------------------------
(***************************************************************************)
(* From the configuration to the readings: what HNZ::m_handle_message      *)
(* tells Fledge of the messages of the RTU (src/hnz.cpp), with the tables  *)
(* that HNZConfiguration imports.  It looks up each address of a message,  *)
(* passes over those without a label, decodes value and validity, records  *)
(* the addresses received for a general interrogation and recognises its   *)
(* end.  Dates are the subject of HNZTime, the status and the repetition   *)
(* of a GI that of GeneralInterrogation.                                   *)
(*                                                                         *)
(* A message is its type and the octets data[1], data[2]... of the code.   *)
(* The RTU is external: points is what it states with a message, in the    *)
(* encoding of the protocol.                                               *)
(***************************************************************************)
EXTENDS HNZConfiguration

CONSTANTS
  Stacks, Datas,   \* documents protocol_stack and exchanged_data
  InitialStack, InitialData,
  TSAddresses,     \* AD0 of the TSCG frames of the RTU, in their order
  TSStates,        \* states of 16 TS: functions from 0..15 to [value, valid]
  TMStates,        \* values of 4 TM
  TMAddresses,     \* first addresses of TM messages
  Orders,          \* acknowledged commands: [typeid, address, value, valid]
  ReceivedBound    \* on the addresses that outlive a reconfiguration

NoTM == 99999  \* a TM that is not valid

Types == {"TM", "TS", "TC", "TVC"}
TSState == [value : 0..1, valid : 0..1]

\* Values of a field: nothing, something wrong, or what its type allows
Field(type) == {Absent, Wrong} \cup type
Pairs == Nat \X Nat

StackTypes(stack) ==
  stack = Wrong \/ stack.application = Wrong
    \/ /\ stack.application.remote_station_addr \in Field(Nat)
       /\ \A f \in Fields : stack.application[f] \in Field(IF f \in PairFields THEN Pairs ELSE Nat)

ProtocolTypes(protocol) == protocol.typeid \in Field(STRING) /\ protocol.address \in Field(Nat)

DatapointTypes(datapoint) ==
  /\ datapoint.label \in Field(STRING)
  /\ Present(datapoint.protocols) =>
       /\ datapoint.protocols \in Seq(ToSet(datapoint.protocols))
       /\ \A protocol \in ToSet(datapoint.protocols) : ProtocolTypes(protocol)

DataTypes(document) ==
  document # Wrong /\ Present(document.datapoints) =>
    /\ document.datapoints \in Seq(ToSet(document.datapoints))
    /\ \A datapoint \in ToSet(document.datapoints) : datapoint = Wrong \/ DatapointTypes(datapoint)

ASSUME DocumentsAssumption ==
  /\ Absent \notin Types
  /\ InitialStack \in Stacks /\ \A stack \in Stacks : StackTypes(stack)
  /\ InitialData \in Datas /\ \A document \in Datas : DataTypes(document)

\* The address of a TC is an octet and a digit in three bits.
TCAddresses == {10 * ad0 + digit : ad0 \in 0..255, digit \in 0..7}

\* A TSCG holds 16 TS from AD0 and AD0 + 1; those of a GI come in the order of
\* their addresses and have none in common.
ASSUME StationAssumption ==
  /\ TSAddresses \in Seq(0..254)
  /\ \A i, j \in DOMAIN TSAddresses : i < j => TSAddresses[i] + 2 <= TSAddresses[j]
  /\ TSStates \subseteq [0..15 -> TSState]
  /\ TMAddresses \subseteq 0..255
  /\ \A order \in Orders :
       \/ order \in [typeid : {"TC"}, address : TCAddresses, value : 0..3, valid : 0..1]
       \/ order \in [typeid : {"TVC"}, address : 0..31, value : -127..127, valid : 0..1]
  /\ ReceivedBound \in Nat

VARIABLES
  conf,
  stack, data,              \* history: the documents that were imported
  coming,                   \* the message on its way, {} or {message}
  m_gi_addresses_received,
  readings,                 \* readings of the last message
  points,                   \* history: what the RTU stated with it
  gi_left,                  \* TSCG frames that the RTU has still to send
  gi_state                  \* none, asked or completed (checkGICompleted(true))

giVars == <<m_gi_addresses_received, gi_left, gi_state>>
configVars == <<conf, stack, data>>
vars == <<configVars, coming, readings, points, giVars>>

Bit(octet, k) == (octet \div 2^k) % 2

---------------------------------------------------------------------------
(* Decoding: the entries of a message, without those that have no label     *)

Entry(typeid, address, value, valid) ==
  [typeid |-> typeid, address |-> address, value |-> value, valid |-> valid]

\* -(value ^ 0xFF)
OnesComplement(octet) == IF Bit(octet, 7) = 1 THEN octet - 255 ELSE octet

\* m_handleTM4; valid = 1 means that the value is not valid, here and below
TM4Entries(d) ==
  {LET octet == d[2 + i]
   IN Entry("TM", d[1] + i, OnesComplement(octet), IF octet = 255 THEN 1 ELSE 0) : i \in 0..3}

TM8Entries(d) == {Entry("TM", d[1] + i, d[2 + i], Bit(d[6], i)) : i \in 0..3}

TM16Value(low, high) == LET v == high * 256 + low IN IF Bit(v, 15) = 1 THEN v - 65536 ELSE v

TM16Entries(d) ==
  {Entry("TM", d[1] + 2 * i, TM16Value(d[2 + 2 * i], d[3 + 2 * i]), Bit(d[6], 2 * i)) : i \in 0..1}

\* m_handleTMN
TMNEntries(d) == IF Bit(d[6], 7) = 1 THEN TM8Entries(d) ELSE TM16Entries(d)

\* Bug: the second group of eight continues the addresses of the first.
TSCGAddressContinued(ad0, i) == ad0 * 10 + i

\* stoi of the digits of AD0, or AD0 + 1, followed by the digit of the bit
TSCGAddress(ad0, i) == (ad0 + (i \div 8)) * 10 + (i % 8)

\* m_handleTSCG, dep = 2 * (3 - i % 4)
TSCGEntry(d, i) ==
  LET octet == d[2 + (i \div 4)]
      dep == 2 * (3 - (i % 4))
  IN Entry("TS", TSCGAddress(d[1], i), Bit(octet, dep), Bit(octet, dep + 1))

TSCGEntries(d) == {TSCGEntry(d, i) : i \in 0..15}

\* Bug: V is shifted but not masked.
TSCEUnmasked(d) == {Entry("TS", d[1] * 10 + (d[2] \div 32), Bit(d[2], 3), d[2] \div 16)}

\* m_handleTSCE
TSCEEntries(d) == {Entry("TS", d[1] * 10 + (d[2] \div 32), Bit(d[2], 3), Bit(d[2], 4))}

\* m_handleATC
ATCEntries(d) ==
  {Entry("TC", d[1] * 10 + (d[2] \div 32), (d[2] \div 8) % 4, IF d[2] % 8 = 1 THEN 0 ELSE 1)}

\* m_handleATVC
ATVCEntries(d) ==
  {LET value == d[2] % 128
   IN Entry("TVC", d[1] % 32, IF Bit(d[3], 7) = 1 THEN -value ELSE value, Bit(d[1], 6))}

\* The switch of m_handle_message
Entries(message) ==
  CASE message.type = "TM4" -> TM4Entries(message.data)
    [] message.type = "TMN" -> TMNEntries(message.data)
    [] message.type = "TSCE" -> TSCEEntries(message.data)
    [] message.type = "TSCG" -> TSCGEntries(message.data)
    [] message.type = "TC ACK" -> ATCEntries(message.data)
    [] message.type = "TVC ACK" -> ATVCEntries(message.data)

Label(entry) == getLabel(conf, entry.typeid, entry.address)

\* m_prepare_reading
Readings(entries) == {[label |-> Label(e), entry |-> e] : e \in {e \in entries : Label(e) # NoLabel}}

---------------------------------------------------------------------------
(* m_handle_message                                                         *)

\* received[n] is what the first n turns of the loop of m_handleTSCG add
AddressesReceived(d) ==
  LET HasLabel(i) == getLabel(conf, "TS", TSCGAddress(d[1], i)) # NoLabel
      received[n \in 0..16] ==
        IF n = 0 THEN <<>>
        ELSE IF HasLabel(n - 1) THEN Append(received[n - 1], TSCGAddress(d[1], n - 1)) ELSE received[n - 1]
  IN received[16]

\* Bug: the end is recognised by the number of addresses instead of the last one.
EndsByNumber(received) == received # <<>> /\ Len(received) = getNumberCG(conf)

\* The last expected TS is received, even if others are missing
EndsGI(received) == received # <<>> /\ Last(received) = getLastTSAddress(conf)

\* m_handle_message of the messages but TSCG
HandleMessage ==
  /\ \E message \in coming :
       /\ message.type # "TSCG"
       /\ readings' = Readings(Entries(message))
       /\ points' = message.points
  /\ coming' = {}
  /\ UNCHANGED <<configVars, m_gi_addresses_received>>

\* A TSCE with the trigger value of its address starts a GI
Triggers(message) ==
  /\ message.type = "TSCE"
  /\ \E e \in TSCEEntries(message.data) :
       Label(e) # NoLabel /\ isTsAddressCgTriggering(conf, e.address) = e.value

StartGI == gi_state' = "asked" /\ gi_left' = TSAddresses

HandleOther ==
  /\ HandleMessage
  /\ IF gi_state # "asked" /\ \E message \in coming : Triggers(message)
       THEN StartGI
       ELSE UNCHANGED <<gi_left, gi_state>>

\* TSCG, and the test that follows the readings: checkGICompleted(true) ends in
\* resetGIQueue
HandleTSCG ==
  /\ \E message \in coming :
       /\ message.type = "TSCG"
       /\ readings' = Readings(Entries(message))
       /\ points' = message.points
       /\ LET received == m_gi_addresses_received \o AddressesReceived(message.data)
          IN IF EndsGI(received)
               THEN gi_state' = "completed" /\ m_gi_addresses_received' = <<>>
               ELSE m_gi_addresses_received' = received /\ UNCHANGED gi_state
  /\ coming' = {}
  /\ UNCHANGED <<configVars, gi_left>>

\* sendGeneralInterrogation, by any of its callers, when no GI runs
AskGI ==
  /\ is_complete(conf)
  /\ gi_state # "asked"
  /\ StartGI
  /\ readings' = {} /\ points' = {}
  /\ UNCHANGED <<configVars, coming, m_gi_addresses_received>>

\* setJsonConfig: a new HNZConf; the addresses received are kept
Imported == {[stack |-> s, data |-> d, conf |-> HNZConf(s, d)] : s \in Stacks, d \in Datas}

Reconfigure(imported) ==
  /\ Len(m_gi_addresses_received) <= ReceivedBound
  /\ stack' = imported.stack /\ data' = imported.data
  /\ conf' = imported.conf
  /\ coming' = {} /\ readings' = {} /\ points' = {}
  /\ gi_left' = <<>> /\ gi_state' = "none"
  /\ UNCHANGED m_gi_addresses_received

---------------------------------------------------------------------------
(* External: the messages of the RTU                                        *)

Message(type, d, stated) == [type |-> type, data |-> d, points |-> stated]

Sends(message) ==
  /\ is_complete(conf)
  /\ coming = {}
  /\ coming' = {message}
  /\ readings' = {} /\ points' = {}
  /\ UNCHANGED <<configVars, m_gi_addresses_received, gi_state>>

TSPoint(ad0, i, ts) == Entry("TS", IF i < 8 THEN 10 * ad0 + i ELSE 10 * (ad0 + 1) + i - 8, ts.value, ts.valid)

\* Four TS in an octet, V before E, the first TS in the highest bits
TSOctet(ts, k) ==
  LET pair(i) == 2 * ts[i].valid + ts[i].value
  IN 64 * pair(k) + 16 * pair(k + 1) + 4 * pair(k + 2) + pair(k + 3)

TSCG(ad0, ts) ==
  Message("TSCG", <<ad0, TSOctet(ts, 0), TSOctet(ts, 4), TSOctet(ts, 8), TSOctet(ts, 12)>>,
          {TSPoint(ad0, i, ts[i]) : i \in 0..15})

RTUSendTSCG(ts) ==
  /\ gi_left # <<>>
  /\ gi_left' = Tail(gi_left)
  /\ Sends(TSCG(Head(gi_left), ts))

\* A change of the TS number i of a TSCG frame
RTUSendTSCE(ad0, i, ts) ==
  LET point == TSPoint(ad0, i, ts)
  IN /\ Sends(Message("TSCE", <<point.address \div 10,
                                32 * (point.address % 10) + 16 * ts.valid + 8 * ts.value, 0, 0>>, {point}))
     /\ UNCHANGED gi_left

\* A TM that is not valid is 0
Invalid(value) == IF value = NoTM THEN 1 ELSE 0
TMNValue(value) == IF value = NoTM THEN 0 ELSE value
TMPoint(address, value) == Entry("TM", address, TMNValue(value), Invalid(value))
TMPoints(adr, tm) == {TMPoint(adr + i - 1, tm[i]) : i \in 1..4}

\* TMA: -127..127, ones' complement, all bits set when invalid
TMAOctet(value) == IF value = NoTM THEN 255 ELSE IF value < 0 THEN 255 + value ELSE value

TM4(adr, tm) ==
  Message("TM4", <<adr, TMAOctet(tm[1]), TMAOctet(tm[2]), TMAOctet(tm[3]), TMAOctet(tm[4])>>, TMPoints(adr, tm))

\* TM8: 0..255
TM8(adr, tm) ==
  Message("TMN", <<adr, TMNValue(tm[1]), TMNValue(tm[2]), TMNValue(tm[3]), TMNValue(tm[4]),
                   128 + Invalid(tm[1]) + 2 * Invalid(tm[2]) + 4 * Invalid(tm[3]) + 8 * Invalid(tm[4])>>,
          TMPoints(adr, tm))

\* TM16: the low octet first, in two's complement
Int16 == -(2^15)..(2^15 - 1)
TM16Low(value) == TMNValue(value) % 256
TM16High(value) == (TMNValue(value) \div 256) % 256

TM16(adr, tm) ==
  Message("TMN", <<adr, TM16Low(tm[1]), TM16High(tm[1]), TM16Low(tm[2]), TM16High(tm[2]),
                   Invalid(tm[1]) + 4 * Invalid(tm[2])>>,
          {TMPoint(adr + 2 * i - 2, tm[i]) : i \in 1..2})

TMIn(tm, S) == \A i \in 1..4 : tm[i] = NoTM \/ tm[i] \in S

RTUSendTM(adr, tm) ==
  /\ \/ TMIn(tm, -127..127) /\ Sends(TM4(adr, tm))
     \/ TMIn(tm, 0..255) /\ Sends(TM8(adr, tm))
     \/ TMIn(tm, Int16) /\ Sends(TM16(adr, tm))
  /\ UNCHANGED gi_left

\* The RTU answers a command
Acknowledgement(order) ==
  IF order.typeid = "TC"
    THEN Message("TC ACK", <<order.address \div 10,
                             32 * (order.address % 10) + 8 * order.value + (IF order.valid = 0 THEN 1 ELSE 2)>>, {order})
    ELSE Message("TVC ACK", <<64 * order.valid + order.address,
                              IF order.value < 0 THEN -order.value ELSE order.value,
                              IF order.value < 0 THEN 128 ELSE 0>>, {order})

RTUAcknowledges(order) == Sends(Acknowledgement(order)) /\ UNCHANGED gi_left

---------------------------------------------------------------------------
Init ==
  /\ stack = InitialStack /\ data = InitialData
  /\ conf = HNZConf(InitialStack, InitialData)
  /\ coming = {}
  /\ m_gi_addresses_received = <<>>
  /\ readings = {} /\ points = {}
  /\ gi_left = <<>>
  /\ gi_state = "none"

Next ==
  \/ HandleOther \/ HandleTSCG \/ AskGI
  \/ \E imported \in Imported : Reconfigure(imported)
  \/ \E ts \in TSStates : RTUSendTSCG(ts)
  \/ \E ad0 \in ToSet(TSAddresses), i \in 0..15 : \E state \in {ts[i] : ts \in TSStates} : RTUSendTSCE(ad0, i, state)
  \/ \E adr \in TMAddresses, tm \in TMStates : RTUSendTM(adr, tm)
  \/ \E order \in Orders : RTUAcknowledges(order)

Spec == Init /\ [][Next]_vars

---------------------------------------------------------------------------
(* Properties                                                               *)

Octets == Seq(0..255)
AllEntries == [typeid : Types, address : Nat, value : Int, valid : 0..1]

\* Every variable has its type: the messages are made of octets.
TypeOK ==
  /\ DOMAIN conf = DOMAIN NewConf
  /\ stack \in Stacks /\ data \in Datas
  /\ \A message \in coming : message.data \in Octets /\ message.points \subseteq AllEntries
  /\ m_gi_addresses_received \in Seq(Nat)
  /\ readings \subseteq [label : STRING, entry : AllEntries]
  /\ points \subseteq AllEntries
  /\ gi_left \in Seq(0..254)
  /\ gi_state \in {"none", "asked", "completed"}

\* The label that exchanged_data gives to an address: that of its last mention
Mentions(datapoint, typeid, address) ==
  \E i \in DOMAIN datapoint.protocols :
    LET protocol == datapoint.protocols[i]
    IN protocol.name = "hnzip" /\ protocol.typeid = typeid /\ protocol.address = address

ConfiguredLabel(typeid, address) ==
  LET mentions == {k \in DOMAIN data.datapoints : Mentions(data.datapoints[k], typeid, address)}
  IN IF mentions = {} THEN NoLabel ELSE data.datapoints[Max(mentions)].label

\* Through import, look-up and decoding, Fledge is told exactly what the RTU
\* stated, under the label of the configuration: each configured point of the
\* message once, with its value, its sign and its validity, and no other.
ReadingsAreRight ==
  readings = {[label |-> ConfiguredLabel(p.typeid, p.address), entry |-> p] :
                p \in {p \in points : ConfiguredLabel(p.typeid, p.address) # NoLabel}}

\* The frames carry the address of the station.  An address that is not on six
\* bits loses its highest ones in the octets that HNZPath makes of it.
FramesNameStation ==
  {m_address_PA(conf) \div 4, m_address_ARP(conf) \div 4} = {conf.remote_station_addr}

\* Message of m_importApplicationLayer: an address that "is not on 6 bits" is
\* refused, so that the frames name the station.  64 is not.
AddressIsOnSixBits == is_complete(conf) => FramesNameStation

\* The plugin runs only with a configuration in which every field of the
\* application layer has the value of its document, or its default: one field
\* that is refused is not forgotten because the others are accepted.  Of the
\* addresses that the frames cannot carry only 64 gets through.
CompleteIsAsConfigured ==
  is_complete(conf) =>
    /\ conf.remote_station_addr = stack.application.remote_station_addr
    /\ FramesNameStation \/ conf.remote_station_addr = 64
    /\ \A f \in Fields :
         LET value == stack.application[f]
         IN value # Wrong /\ conf.application[f] = IF value = Absent THEN ApplicationDefaults[f] ELSE value
    /\ conf.application["gi_schedule"] \in ((0..23) \X (0..59)) \cup {<<99, 99>>}

ConfiguredTS == {key[2] : key \in {key \in DOMAIN conf.msg_list : key[1] = "TS" /\ conf.msg_list[key] # NoLabel}}
FrameAddresses(ad0) == ((10 * ad0)..(10 * ad0 + 7)) \cup ((10 * ad0 + 10)..(10 * ad0 + 17))
ExpectedOf(ad0) == ConfiguredTS \cap FrameAddresses(ad0)

\* TSCG of the GI that are not handled yet
Outstanding == ToSet(gi_left) \cup {message.data[1] : message \in {m \in coming : m.type = "TSCG"}}

LastIsReceived == \A ad0 \in Outstanding : ExpectedOf(ad0) = {}

\* The highest address of the configuration is that of a TS of the RTU.
HighestIsTS ==
  \E ad0 \in ToSet(TSAddresses) : \E top \in ExpectedOf(ad0) : \A key \in DOMAIN conf.msg_list : key[2] <= top

\* A GI is not taken as ended before the TSCG with the last configured TS is
\* handled, whatever other messages come in between.
EndHasLastTS == gi_state = "completed" => LastIsReceived

\* The addresses of an interrupted GI outlive a reconfiguration.  They do no
\* harm as long as the first TSCG holds a configured TS.
FirstFrameIsConfigured ==
  \A s \in Stacks, d \in Datas :
    is_complete(HNZConf(s, d)) =>
      \E i \in 0..15 : getLabel(HNZConf(s, d), "TS", TSCGAddress(TSAddresses[1], i)) # NoLabel

\* A GI that holds the last configured TS is taken as ended with it, if the
\* highest address of the configuration is that of a TS.  getLastTSAddress counts
\* the addresses of TM and commands too: with a higher one no end is recognised.
EndIsRecognised == HighestIsTS /\ gi_state = "asked" => ~LastIsReceived

\* A GI ends with the message that holds the last configured TS: never before
\* and never after.
GIEndsAtLastTS == EndHasLastTS /\ EndIsRecognised
=============================================================================
