------------------------- MODULE HNZConfiguration -------------------------
(***************************************************************************)
(* HNZConf: the import of the two JSON documents of the configuration      *)
(* (protocol_stack, then exchanged_data) and the tables that the handling  *)
(* of the messages reads (src/hnzconf.cpp).                                *)
(*                                                                         *)
(* A document is a record of its fields.  A field may be Absent, or Wrong: *)
(* not of the required type or form.  A document that is not parsed or     *)
(* that lacks its root object is Wrong.  The version, ports and pivot      *)
(* types, of which only the presence counts, are left out, and so are      *)
(* elements that are not objects, and the station in m_msg_list, the same  *)
(* for all entries.                                                        *)
(***************************************************************************)
EXTENDS Integers, SequencesExt

CONSTANTS Absent, Wrong

Present(value) == value \notin {Absent, Wrong}

\* m_retrieve without and with a default, when the field held old
Retrieved(value, old) == IF Present(value) THEN value ELSE old
RetrievedOr(value, default, old) == IF value = Absent THEN default ELSE Retrieved(value, old)

ApplicationDefaults ==
  [inacc_timeout |-> 180, max_sarm |-> 30, repeat_path_A |-> 3, repeat_path_B |-> 3, repeat_timeout |-> 3000,
   anticipation_ratio |-> 3, gi_repeat_count |-> 3, gi_time |-> 255, c_ack_time |-> 10,
   cmd_recv_timeout |-> 100000, bulle_time |-> 10, test_msg_send |-> <<19, 4>>, test_msg_receive |-> <<19, 4>>,
   gi_schedule |-> <<99, 99>>]

Fields == DOMAIN ApplicationDefaults
PairFields == {"test_msg_send", "test_msg_receive", "gi_schedule"}
NewFields == [f \in Fields |-> IF f \in PairFields THEN <<0, 0>> ELSE 0]

MaxPaths == 2

NoLabel == ""

\* HNZConf()
NewConf ==
  [remote_station_addr |-> 0, application |-> NewFields, paths_ip |-> <<>>, use_utc |-> FALSE,
   connx_status |-> "", msg_list |-> <<>>, lastTSAddr |-> 0, cgTriggering |-> <<>>,
   config_is_complete |-> FALSE, exchange_data_is_complete |-> FALSE]

---------------------------------------------------------------------------
(* importConfigJson                                                         *)

\* m_importTransportLayer: an array of one or two addresses, or no array
TransportIsComplete(connections) ==
  Present(connections) => Len(connections) \in 1..MaxPaths /\ \A i \in DOMAIN connections : Present(connections[i])

ImportedAddresses(connections) ==
  IF Present(connections) /\ Len(connections) \in 1..MaxPaths
    THEN [i \in DOMAIN connections |-> Retrieved(connections[i], "")]
    ELSE <<>>

ScheduleIsCorrect(schedule) ==
  schedule \in {Absent, <<99, 99>>} \/ (Present(schedule) /\ schedule[1] \in 0..23 /\ schedule[2] \in 0..59)

\* Bug: the result of the last field replaces that of the others.
ApplicationIsLast(application) == application.bulle_time # Wrong

\* m_importApplicationLayer: one wrong field makes the whole incomplete
ApplicationIsComplete(application) ==
  /\ Present(application.remote_station_addr)
  /\ Retrieved(application.remote_station_addr, 0) <= 64
  /\ \A f \in Fields : application[f] # Wrong
  /\ ScheduleIsCorrect(application.gi_schedule)

importConfigJson(stack) ==
  IF stack = Wrong THEN NewConf
  ELSE LET app == stack.application
       IN [NewConf EXCEPT
             !.config_is_complete =
                /\ Present(stack.name)
                /\ stack.transport # Wrong /\ TransportIsComplete(stack.connections)
                /\ app # Wrong /\ ApplicationIsComplete(app),
             !.paths_ip = IF stack.transport = Wrong THEN <<>> ELSE ImportedAddresses(stack.connections),
             !.remote_station_addr = IF app = Wrong THEN 0 ELSE Retrieved(app.remote_station_addr, 0),
             !.application =
                [f \in Fields |-> IF app = Wrong \/ (f = "gi_schedule" /\ ~ScheduleIsCorrect(app[f]))
                                   THEN NewFields[f]
                                   ELSE RetrievedOr(app[f], ApplicationDefaults[f], NewFields[f])],
             !.use_utc = app # Wrong /\ RetrievedOr(app.modulo_use_utc, FALSE, FALSE),
             !.connx_status = Retrieved(stack.south_asset, "")]

---------------------------------------------------------------------------
(* importExchangedDataJson                                                  *)

\* m_retrieve and stoul; a wrong address is stored as 0
ImportedAddress(protocol) == Retrieved(protocol.address, 0)
Key(protocol) == <<RetrievedOr(protocol.typeid, "", ""), ImportedAddress(protocol)>>

\* The protocols of the other services are passed over
HNZProtocols(datapoint) == {protocol \in ToSet(datapoint.protocols) : protocol.name = "hnzip"}

DatapointIsComplete(datapoint) ==
  /\ Present(datapoint.label)
  /\ \A protocol \in ToSet(datapoint.protocols) : Present(protocol.name)
  /\ \A protocol \in HNZProtocols(datapoint) : Present(protocol.address) /\ protocol.typeid # Wrong

\* A table with the entries of new, and those of old for all other keys
Over(new, old) == [key \in DOMAIN new \cup DOMAIN old |-> IF key \in DOMAIN new THEN new[key] ELSE old[key]]

\* m_importDatapoint: its label goes to all its keys, in the place of an older
\* one, its trigger value to all its addresses but those that have one
m_importDatapoint(conf, datapoint) ==
  IF datapoint = Wrong \/ ~Present(datapoint.protocols)
    THEN [conf EXCEPT !.exchange_data_is_complete = FALSE]
    ELSE LET protocols == HNZProtocols(datapoint)
             addresses == {ImportedAddress(protocol) : protocol \in protocols}
             label == Retrieved(datapoint.label, NoLabel)
             trigger == Retrieved(datapoint.trigger_south_gi, -1)
         IN [conf EXCEPT
               !.exchange_data_is_complete = @ /\ DatapointIsComplete(datapoint),
               !.msg_list = Over([key \in {Key(protocol) : protocol \in protocols} |-> label], @),
               !.lastTSAddr = Max({@} \cup addresses),
               !.cgTriggering = IF trigger = -1 THEN @ ELSE Over(@, [address \in addresses |-> trigger])]

\* imported[n] is what the loop has made of the first n datapoints
importExchangedDataJson(conf, data) ==
  IF data = Wrong \/ ~Present(data.datapoints) THEN conf
  ELSE LET imported[n \in 0..Len(data.datapoints)] ==
             IF n = 0 THEN [conf EXCEPT !.exchange_data_is_complete = Present(data.name)]
             ELSE m_importDatapoint(imported[n - 1], data.datapoints[n])
       IN imported[Len(data.datapoints)]

\* The constructor and HNZ::setJsonConfig
HNZConf(stack, data) == importExchangedDataJson(importConfigJson(stack), data)

---------------------------------------------------------------------------
(* Readings of the tables                                                   *)

is_complete(conf) == conf.config_is_complete /\ conf.exchange_data_is_complete

getLabel(conf, msg_code, msg_address) ==
  LET key == <<msg_code, msg_address>>
  IN IF key \in DOMAIN conf.msg_list THEN conf.msg_list[key] ELSE NoLabel

getNumberCG(conf) == Cardinality({key \in DOMAIN conf.msg_list : key[1] = "TS"})

getLastTSAddress(conf) == conf.lastTSAddr

\* HNZPath(): the two address octets of the frames it sends, the station on six
\* bits before two others, as unsigned char
m_address_PA(conf) == (4 * conf.remote_station_addr + 1) % 256
m_address_ARP(conf) == (4 * conf.remote_station_addr + 3) % 256

\* The address is that of any type of message, and the first value is kept
isTsAddressCgTriggering(conf, address) ==
  IF address \in DOMAIN conf.cgTriggering THEN conf.cgTriggering[address] ELSE -1
=============================================================================
