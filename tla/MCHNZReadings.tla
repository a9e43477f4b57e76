--------------------------- MODULE MCHNZReadings ---------------------------
(* HNZReadings for TLC: documents with one wrong field at most, two TSCG     *)
(* frames with patterns that tell every TS from its neighbours.             *)
EXTENDS HNZReadings

Stack ==
  [name |-> "iec", transport |-> "object", connections |-> <<"127.0.0.1", "127.0.0.2">>, south_asset |-> "STATUS",
   application |-> [f \in Fields \cup {"remote_station_addr", "modulo_use_utc"} |->
                      CASE f = "remote_station_addr" -> 1
                        [] f = "gi_schedule" -> <<23, 59>>
                        [] f = "max_sarm" -> 5
                        [] OTHER -> Absent]]

With(field, value) == [Stack EXCEPT !.application[field] = value]

OneFieldWrong == {With(f, Wrong) : f \in Fields \cup {"remote_station_addr"}}
OtherStacks ==
  {Wrong, With("remote_station_addr", Absent), With("remote_station_addr", 65), With("remote_station_addr", 64),
   With("gi_schedule", <<24, 0>>), With("gi_schedule", <<99, 99>>),
   [Stack EXCEPT !.application = Wrong], [Stack EXCEPT !.connections = <<>>], [Stack EXCEPT !.name = Absent]}
AllStacks == {Stack} \cup OneFieldWrong \cup OtherStacks

Protocol(name, typeid, address) == [name |-> name, typeid |-> typeid, address |-> address]
Datapoint(label, typeid, address) ==
  [label |-> label, trigger_south_gi |-> Absent, protocols |-> <<Protocol("hnzip", typeid, address)>>]

Datapoints ==
  <<Datapoint("TS1", "TS", 511), Datapoint("TS2", "TS", 527), Datapoint("TS3", "TS", 540),
    Datapoint("TM1", "TM", 20), Datapoint("TM2", "TM", 21), Datapoint("TM3", "TM", 22),
    Datapoint("TC1", "TC", 142), Datapoint("TVC1", "TVC", 31)>>

Data == [name |-> "SAMPLE", datapoints |-> Datapoints]

\* The second TS starts a GI; TS3 has moved to the address of TS1; another
\* service knows the last TM under the address 600
Other ==
  [Data EXCEPT !.datapoints[2].trigger_south_gi = 1,
               !.datapoints[3].protocols[1].address = 511,
               !.datapoints[6].protocols = <<Protocol("iec104", "M_ME_NA_1", 600), Protocol("hnzip", "TM", 23)>>]

\* A TM address above those of the TS
HighTM == [Data EXCEPT !.datapoints[6].protocols[1].address = 577]

Bad == {[Data EXCEPT !.datapoints[1].label = Absent], [Data EXCEPT !.datapoints[2].protocols[1].address = Wrong]}

AllDatas == {Data, Other, HighTM} \cup Bad

TSCGFrames == <<51, 53>>

State(value, valid) == [value |-> value, valid |-> valid]
Patterns ==
  {[i \in 0..15 |-> IF i = k THEN State(1, 0) ELSE IF i > k THEN State(0, 1) ELSE State(0, 0)] : k \in 0..15}

TMPatterns == {<<0, 5, 127, 1>>, <<-1, -127, NoTM, 100>>, <<255, 0, 128, NoTM>>, <<-32768, 32767, NoTM, 300>>}

AllOrders ==
  {Entry("TC", address, value, valid) : address \in {142, 7}, value \in {1, 2}, valid \in 0..1}
    \cup {Entry("TVC", 31, value, valid) : value \in {-127, 0, 42}, valid \in 0..1}
=============================================================================
