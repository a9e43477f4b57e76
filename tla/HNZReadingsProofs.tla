------------------------- MODULE HNZReadingsProofs -------------------------
(***************************************************************************)
(* Proofs about HNZReadings, for any documents, any addresses and states   *)
(* of the RTU and any bound.                                               *)
(***************************************************************************)
EXTENDS HNZReadings, SequenceTheorems, FiniteSetTheorems, TLAPS

---------------------------------------------------------------------------
(* Naturals                                                                 *)

\* A non-empty set of naturals has a least element.
LEMMA LeastElement ==
  ASSUME NEW T \in SUBSET Nat, T # {}
  PROVE  \E x \in T : \A y \in T : x <= y
<1> DEFINE R == {ss \in Nat \X Nat : ss[1] < ss[2]}
<1>1. IsWellFoundedOn(R, Nat)
  BY NatLessThanWellFounded DEF OpToRel
<1>2. \A x, y \in Nat : <<y, x>> \in R <=> y < x
  OBVIOUS
<1> HIDE DEF R
<1>3. \E x \in T : \A y \in T : ~(<<y, x>> \in R)
  <2>1. T \subseteq Nat
    OBVIOUS
  <2>2. QED
    BY <1>1, <2>1, WFMin, Zenon
<1>4. ASSUME NEW x \in T, NEW y \in T, ~(<<y, x>> \in R) PROVE x <= y
  <2>1. x \in Nat /\ y \in Nat /\ ~(y < x)
    BY <1>2, <1>4
  <2>2. QED
    BY <2>1
<1>5. QED
  BY <1>3, <1>4

\* Induction up to N: H is the set of the numbers that have the property.
LEMMA UpTo ==
  ASSUME NEW N \in Nat, NEW H \in SUBSET Nat, 0 \in H,
         \A n \in 0..(N - 1) : n \in H => n + 1 \in H
  PROVE  \A n \in 0..N : n \in H
<1> DEFINE Rest == {n \in 0..N : n \notin H}
<1>1. SUFFICES ASSUME Rest # {} PROVE FALSE
  OBVIOUS
<1>2. PICK m \in Rest : \A n \in Rest : m <= n
  <2>1. Rest \in SUBSET Nat
    OBVIOUS
  <2> HIDE DEF Rest
  <2>2. QED
    BY <1>1, <2>1, LeastElement
<1>3. m \in Nat /\ m # 0 /\ m <= N /\ m \notin H
  OBVIOUS
<1>4. m - 1 \in 0..(N - 1) /\ m - 1 \in H
  BY <1>2, <1>3
<1>5. (m - 1) + 1 \in H
  BY <1>4
<1>6. QED
  BY <1>3, <1>5

---------------------------------------------------------------------------
(* The import of exchanged_data                                             *)

\* What the loop of importExchangedDataJson has after n datapoints, given what
\* it had before the last one
Turn(f, n, conf0, document) ==
  IF n = 0 THEN [conf0 EXCEPT !.exchange_data_is_complete = Present(document.name)]
  ELSE m_importDatapoint(f[n - 1], document.datapoints[n])

\* The loop of importExchangedDataJson computes a value after each datapoint.
LEMMA ImportIsDefined ==
  ASSUME NEW conf0, NEW document, document # Wrong, Present(document.datapoints),
         Len(document.datapoints) \in Nat
  PROVE  \E f : /\ f = [n \in 0..Len(document.datapoints) |-> Turn(f, n, conf0, document)]
                /\ importExchangedDataJson(conf0, document) = f[Len(document.datapoints)]
<1> DEFINE N == Len(document.datapoints)
           L(f, n) == Turn(f, n, conf0, document)
           F == CHOOSE f : f = [n \in 0..N |-> L(f, n)]
           H == {m \in Nat : \E f : f = [n \in 0..m |-> L(f, n)]}
<1>1. N \in Nat
  OBVIOUS
<1>2. \A f, g : L(f, 0) = L(g, 0)
  BY DEF Turn
<1>3. \A f, g, n : n # 0 /\ f[n - 1] = g[n - 1] => L(f, n) = L(g, n)
  BY Zenon DEF Turn
<1>4. importExchangedDataJson(conf0, document) = F[N]
  BY Zenon DEF importExchangedDataJson, Turn
<1> HIDE DEF N, L
<1>5. 0 \in H
  <2> DEFINE g == [n \in 0..0 |-> L(<<>>, n)]
  <2>1. g = [n \in 0..0 |-> L(g, n)]
    BY <1>2
  <2>2. QED
    BY <2>1
<1>6. ASSUME NEW m \in 0..(N - 1), m \in H PROVE m + 1 \in H
  <2>1. PICK f : f = [n \in 0..m |-> L(f, n)]
    BY <1>6
  <2> DEFINE g == [n \in 0..(m + 1) |-> IF n = m + 1 THEN L(f, n) ELSE f[n]]
  <2>2. m \in Nat /\ m + 1 \in Nat
    BY <1>1
  <2>3. \A n \in 0..m : f[n] = L(f, n)
    BY <2>1
  <2>4. ASSUME NEW n \in 0..(m + 1) PROVE g[n] = L(g, n)
    <3>1. n # 0 => n - 1 \in 0..m /\ g[n - 1] = f[n - 1]
      BY <2>2
    <3>2. L(f, n) = L(g, n)
      BY <1>2, <1>3, <3>1
    <3>3. n # m + 1 => n \in 0..m
      BY <2>2
    <3>4. g[n] = IF n = m + 1 THEN L(f, n) ELSE f[n]
      OBVIOUS
    <3>5. QED
      BY <2>3, <3>2, <3>3, <3>4
  <2>5. g = [n \in 0..(m + 1) |-> L(g, n)]
    BY <2>4
  <2>6. QED
    BY <2>2, <2>5
<1>7. N \in H
  <2>1. H \in SUBSET Nat
    OBVIOUS
  <2> HIDE DEF H
  <2>2. \A n \in 0..N : n \in H
    BY <1>1, <1>5, <1>6, <2>1, UpTo
  <2>3. QED
    BY <1>1, <2>2
<1>8. F = [n \in 0..N |-> L(F, n)]
  <2>1. \E f : f = [n \in 0..N |-> L(f, n)]
    BY <1>7
  <2>2. QED
    BY <2>1, Zenon
<1>9. QED
  BY <1>4, <1>8 DEF N, L

\* A bounded, non-empty set of naturals has a maximum.
LEMMA MaxIsGreatest ==
  ASSUME NEW S \in SUBSET Nat, S # {}, NEW b \in Nat, \A x \in S : x <= b
  PROVE  Max(S) \in S /\ \A x \in S : x <= Max(S)
<1> DEFINE U == {u \in Nat : \A x \in S : x <= u}
<1>1. PICK m \in U : \A u \in U : m <= u
  <2>1. U \in SUBSET Nat /\ b \in U
    OBVIOUS
  <2> HIDE DEF U
  <2>2. QED
    BY <2>1, LeastElement
<1>2. m \in S
  <2>1. SUFFICES ASSUME m \notin S PROVE FALSE
    OBVIOUS
  <2>2. \A x \in S : x \in Nat /\ x <= m /\ x # m
    BY <2>1
  <2>3. m \in Nat /\ m # 0
    <3>1. PICK x \in S : TRUE
      OBVIOUS
    <3>2. QED
      BY <2>2, <3>1
  <2>4. m - 1 \in U
    BY <2>2, <2>3
  <2>5. QED
    BY <1>1, <2>3, <2>4
<1>3. \E x \in S : \A y \in S : x >= y
  BY <1>2
<1>4. QED
  BY <1>3 DEF Max

Keys(datapoint) == {Key(protocol) : protocol \in HNZProtocols(datapoint)}
Addresses(datapoint) == {ImportedAddress(protocol) : protocol \in HNZProtocols(datapoint)}

Importable(datapoint) ==
  datapoint # Wrong /\ Present(datapoint.protocols) /\ DatapointIsComplete(datapoint)

LEMMA AddressTypes ==
  ASSUME NEW datapoint, Importable(datapoint), DatapointTypes(datapoint)
  PROVE  /\ Addresses(datapoint) \subseteq Nat
         /\ \E b \in Nat : \A a \in Addresses(datapoint) : a <= b
<1> DEFINE s == datapoint.protocols
           N == Len(s)
           Bounded(m) == \E b \in Nat : \A i \in 1..m : s[i] \in HNZProtocols(datapoint) => ImportedAddress(s[i]) <= b
           H == {m \in Nat : m <= N => Bounded(m)}
<1>1. N \in Nat /\ DOMAIN s = 1..N /\ \A p \in ToSet(s) : ProtocolTypes(p)
  BY LenProperties DEF DatapointTypes, Importable
<1>2. \A p \in HNZProtocols(datapoint) : ImportedAddress(p) \in Nat
  BY <1>1 DEF HNZProtocols, ImportedAddress, Importable, DatapointIsComplete, ProtocolTypes, Field, Present, Retrieved
<1>3. \A p \in HNZProtocols(datapoint) : \E i \in 1..N : p = s[i]
  BY <1>1 DEF HNZProtocols, ToSet
<1> HIDE DEF N, s
<1>4. 0 \in H
  OBVIOUS
<1>5. ASSUME NEW m \in 0..(N - 1), m \in H PROVE m + 1 \in H
  <2>1. m \in Nat /\ m <= N
    BY <1>1
  <2>2. PICK b \in Nat : \A i \in 1..m : s[i] \in HNZProtocols(datapoint) => ImportedAddress(s[i]) <= b
    BY <1>5, <2>1
  <2>3. CASE s[m + 1] \in HNZProtocols(datapoint)
    <3> DEFINE a == ImportedAddress(s[m + 1])
               c == IF a <= b THEN b ELSE a
    <3>1. a \in Nat
      BY <1>2, <2>3
    <3>2. c \in Nat /\ b <= c /\ a <= c
      BY <3>1
    <3>3. ASSUME NEW i \in 1..(m + 1), s[i] \in HNZProtocols(datapoint) PROVE ImportedAddress(s[i]) <= c
      <4>1. CASE i = m + 1
        BY <3>2, <4>1
      <4>2. CASE i # m + 1
        <5>1. i \in 1..m
          BY <2>1, <4>2
        <5>2. ImportedAddress(s[i]) <= b /\ ImportedAddress(s[i]) \in Nat
          BY <1>2, <2>2, <3>3, <5>1
        <5> HIDE DEF c, a
        <5>3. QED
          BY <3>2, <5>2
      <4>3. QED
        BY <4>1, <4>2
    <3> HIDE DEF c
    <3>4. QED
      BY <2>1, <3>2, <3>3
  <2>4. CASE s[m + 1] \notin HNZProtocols(datapoint)
    <3>1. \A i \in 1..(m + 1) : s[i] \in HNZProtocols(datapoint) => i \in 1..m
      BY <2>1, <2>4
    <3>2. QED
      BY <2>1, <2>2, <3>1
  <2>5. QED
    BY <2>3, <2>4
<1>6. N \in H
  <2>1. H \in SUBSET Nat
    OBVIOUS
  <2> HIDE DEF H
  <2>2. \A n \in 0..N : n \in H
    BY <1>1, <1>4, <1>5, <2>1, UpTo
  <2>3. QED
    BY <1>1, <2>2
<1>7. PICK b \in Nat : \A i \in 1..N : s[i] \in HNZProtocols(datapoint) => ImportedAddress(s[i]) <= b
  BY <1>1, <1>6
<1>8. \A a \in Addresses(datapoint) : a \in Nat /\ a <= b
  BY <1>2, <1>3, <1>7 DEF Addresses
<1>9. QED
  BY <1>8


LEMMA MaxIs ==
  ASSUME NEW S \in SUBSET Nat, NEW k \in S, \A x \in S : x <= k
  PROVE  Max(S) = k
<1>1. k \in Nat /\ S # {}
  OBVIOUS
<1>2. Max(S) \in S /\ \A x \in S : x <= Max(S)
  BY <1>1, MaxIsGreatest
<1>3. Max(S) \in Nat /\ Max(S) <= k /\ k <= Max(S)
  BY <1>2
<1>4. QED
  BY <1>1, <1>3

\* The tables tell what the first n datapoints say, the last one that names a
\* key giving its label, if all of them could be imported.
Tables(c, document, n) ==
  /\ \A k \in 1..n : Importable(document.datapoints[k])
  /\ DOMAIN c.msg_list = UNION {Keys(document.datapoints[k]) : k \in 1..n}
  /\ \A key \in DOMAIN c.msg_list :
       \E k \in 1..n : /\ key \in Keys(document.datapoints[k])
                       /\ c.msg_list[key] = document.datapoints[k].label
                       /\ \A m \in 1..n : key \in Keys(document.datapoints[m]) => m <= k
  /\ c.lastTSAddr \in Nat /\ \A key \in DOMAIN c.msg_list : key[2] \in 0..c.lastTSAddr
  /\ c.lastTSAddr = 0 \/ \E key \in DOMAIN c.msg_list : key[2] = c.lastTSAddr

\* The import of exchanged_data leaves the rest of the configuration alone.
SameStack(c, conf0) ==
  /\ DOMAIN c = DOMAIN NewConf
  /\ c.config_is_complete = conf0.config_is_complete
  /\ c.application = conf0.application
  /\ c.remote_station_addr = conf0.remote_station_addr

\* What m_importDatapoint makes of the tables
LEMMA DatapointFacts ==
  ASSUME NEW c, DOMAIN c = DOMAIN NewConf, NEW datapoint
  PROVE  LET d == m_importDatapoint(c, datapoint)
         IN /\ SameStack(d, c)
            /\ d.exchange_data_is_complete => c.exchange_data_is_complete /\ Importable(datapoint)
            /\ Importable(datapoint) =>
                 /\ d.msg_list = Over([key \in Keys(datapoint) |-> datapoint.label], c.msg_list)
                 /\ d.lastTSAddr = Max({c.lastTSAddr} \cup Addresses(datapoint))
<1> DEFINE d == m_importDatapoint(c, datapoint)
<1>1. CASE datapoint = Wrong \/ ~Present(datapoint.protocols)
  <2>1. d = [c EXCEPT !.exchange_data_is_complete = FALSE]
    BY <1>1 DEF m_importDatapoint
  <2>2. SameStack(d, c) /\ d.exchange_data_is_complete = FALSE
    BY <2>1 DEF SameStack, NewConf
  <2>3. ~Importable(datapoint)
    BY <1>1 DEF Importable
  <2>4. QED
    BY <2>2, <2>3
<1>2. CASE ~(datapoint = Wrong \/ ~Present(datapoint.protocols))
  <2> DEFINE table == Over([key \in Keys(datapoint) |-> Retrieved(datapoint.label, NoLabel)], c.msg_list)
             last == Max({c.lastTSAddr} \cup Addresses(datapoint))
             done == c.exchange_data_is_complete /\ DatapointIsComplete(datapoint)
  <2>1. PICK t : d = [c EXCEPT !.exchange_data_is_complete = done, !.msg_list = table, !.lastTSAddr = last,
                               !.cgTriggering = t]
    BY <1>2 DEF m_importDatapoint, Keys, Addresses
  <2> HIDE DEF d, table, last, done
  <2>2. /\ SameStack(d, c)
        /\ d.exchange_data_is_complete = done /\ d.msg_list = table /\ d.lastTSAddr = last
    BY <2>1 DEF SameStack, NewConf
  <2>3. done => c.exchange_data_is_complete /\ Importable(datapoint)
    BY <1>2 DEF done, Importable
  <2>4. Importable(datapoint) => Retrieved(datapoint.label, NoLabel) = datapoint.label
    BY DEF Importable, DatapointIsComplete, Retrieved
  <2>5. QED
    BY <2>2, <2>3, <2>4 DEF table, last, d
<1>3. QED
  BY <1>1, <1>2

\* One more datapoint keeps the tables right.
LEMMA TablesGrow ==
  ASSUME NEW document, NEW c, NEW d, NEW n \in Nat,
         Tables(c, document, n),
         LET datapoint == document.datapoints[n + 1]
         IN /\ Importable(datapoint) /\ DatapointTypes(datapoint)
            /\ d.msg_list = Over([key \in Keys(datapoint) |-> datapoint.label], c.msg_list)
            /\ d.lastTSAddr = Max({c.lastTSAddr} \cup Addresses(datapoint))
  PROVE  Tables(d, document, n + 1)
<1> DEFINE D(k) == document.datapoints[k]
           new == D(n + 1)
           S == {c.lastTSAddr} \cup Addresses(new)
<1>1. /\ Importable(new) /\ DatapointTypes(new)
      /\ d.msg_list = Over([key \in Keys(new) |-> new.label], c.msg_list)
      /\ d.lastTSAddr = Max(S)
  OBVIOUS
<1>2. /\ \A k \in 1..n : Importable(D(k))
      /\ DOMAIN c.msg_list = UNION {Keys(D(k)) : k \in 1..n}
      /\ \A key \in DOMAIN c.msg_list :
           \E k \in 1..n : /\ key \in Keys(D(k))
                           /\ c.msg_list[key] = D(k).label
                           /\ \A m \in 1..n : key \in Keys(D(m)) => m <= k
      /\ c.lastTSAddr \in Nat /\ \A key \in DOMAIN c.msg_list : key[2] \in 0..c.lastTSAddr
      /\ c.lastTSAddr = 0 \/ \E key \in DOMAIN c.msg_list : key[2] = c.lastTSAddr
  BY DEF Tables
<1>3. DOMAIN d.msg_list = Keys(new) \cup DOMAIN c.msg_list
      /\ \A key \in DOMAIN d.msg_list :
           d.msg_list[key] = IF key \in Keys(new) THEN new.label ELSE c.msg_list[key]
  BY <1>1 DEF Over
<1>4. d.lastTSAddr \in S /\ \A a \in S : a \in Nat /\ a <= d.lastTSAddr
  <2>1. PICK b \in Nat : \A a \in Addresses(new) : a \in Nat /\ a <= b
    BY <1>1, AddressTypes
  <2> DEFINE bound == b + c.lastTSAddr
  <2>2. bound \in Nat /\ c.lastTSAddr <= bound /\ \A a \in Addresses(new) : a \in Nat /\ a <= bound
    <3>1. c.lastTSAddr \in Nat
      BY <1>2
    <3> HIDE DEF new
    <3>2. QED
      BY <2>1, <3>1
  <2>3. S \in SUBSET Nat /\ S # {} /\ \A a \in S : a <= bound
    BY <1>2, <2>2, Zenon
  <2> HIDE DEF S, bound
  <2>4. QED
    BY <1>1, <2>2, <2>3, MaxIsGreatest
<1>5. /\ \A key \in Keys(new) : key[2] \in Addresses(new)
      /\ \A a \in Addresses(new) : \E key \in Keys(new) : key[2] = a
  <2>1. \A p : Key(p)[2] = ImportedAddress(p)
    BY DEF Key
  <2>2. QED
    BY <2>1 DEF Keys, Addresses
<1>6. \A k : k \in 1..(n + 1) <=> k \in 1..n \/ k = n + 1
  OBVIOUS
<1> HIDE DEF D, new, S
<1>7. \A k \in 1..(n + 1) : Importable(D(k))
  BY <1>1, <1>2, <1>6 DEF new
<1>8. DOMAIN d.msg_list = UNION {Keys(D(k)) : k \in 1..(n + 1)}
  <2>1. \A key : key \in DOMAIN d.msg_list <=> \E k \in 1..(n + 1) : key \in Keys(D(k))
    BY <1>2, <1>3, <1>6 DEF new
  <2>2. QED
    BY <2>1
<1>9. ASSUME NEW key \in DOMAIN d.msg_list
      PROVE  \E k \in 1..(n + 1) : /\ key \in Keys(D(k))
                                   /\ d.msg_list[key] = D(k).label
                                   /\ \A m \in 1..(n + 1) : key \in Keys(D(m)) => m <= k
  <2>1. CASE key \in Keys(new)
    BY <1>3, <2>1 DEF new
  <2>2. CASE key \notin Keys(new)
    <3>1. PICK k \in 1..n : /\ key \in Keys(D(k))
                            /\ c.msg_list[key] = D(k).label
                            /\ \A m \in 1..n : key \in Keys(D(m)) => m <= k
      BY <1>2, <1>3, <2>2
    <3>2. d.msg_list[key] = D(k).label
      BY <1>3, <2>2, <3>1
    <3>3. \A m \in 1..(n + 1) : key \in Keys(D(m)) => m <= k
      BY <1>6, <2>2, <3>1 DEF new
    <3>4. QED
      BY <1>6, <3>1, <3>2, <3>3
  <2>3. QED
    BY <2>1, <2>2
<1>10. d.lastTSAddr \in Nat /\ \A key \in DOMAIN d.msg_list : key[2] \in 0..d.lastTSAddr
  <2>1. d.lastTSAddr \in Nat /\ c.lastTSAddr <= d.lastTSAddr /\ \A a \in Addresses(new) : a \in 0..d.lastTSAddr
    <3>0. d.lastTSAddr \in Nat
      BY <1>4
    <3>1. ASSUME NEW a \in S PROVE a \in 0..d.lastTSAddr
      <4>1. a \in Nat /\ a <= d.lastTSAddr
        BY <1>4
      <4>2. QED
        BY <3>0, <4>1
    <3>2. c.lastTSAddr \in S /\ Addresses(new) \subseteq S
      BY DEF S
    <3>3. c.lastTSAddr \in 0..d.lastTSAddr /\ \A a \in Addresses(new) : a \in 0..d.lastTSAddr
      BY <3>1, <3>2
    <3>4. QED
      BY <3>0, <3>3
  <2>2. \A key \in Keys(new) : key[2] \in 0..d.lastTSAddr
    BY <1>5, <2>1
  <2>3. ASSUME NEW key \in DOMAIN c.msg_list PROVE key[2] \in 0..d.lastTSAddr
    <3>1. key[2] \in 0..c.lastTSAddr
      BY <1>2
    <3>2. QED
      BY <1>2, <2>1, <3>1
  <2>4. QED
    BY <1>3, <2>1, <2>2, <2>3
<1>11. d.lastTSAddr = 0 \/ \E key \in DOMAIN d.msg_list : key[2] = d.lastTSAddr
  BY <1>2, <1>3, <1>4, <1>5 DEF S
<1>12. QED
  BY <1>7, <1>8, <1>9, <1>10, <1>11 DEF Tables, D

\* After the loop the tables tell what all datapoints say.
LEMMA ImportFacts ==
  ASSUME NEW conf0, DOMAIN conf0 = DOMAIN NewConf, conf0.exchange_data_is_complete = FALSE,
         NEW document, DataTypes(document)
  PROVE  LET c == importExchangedDataJson(conf0, document)
         IN /\ SameStack(c, conf0)
            /\ c.exchange_data_is_complete =>
                 /\ document # Wrong /\ Present(document.datapoints)
                 /\ conf0.msg_list = <<>> /\ conf0.lastTSAddr = 0 => Tables(c, document, Len(document.datapoints))
<1> DEFINE D == document.datapoints
           N == Len(D)
           Empty == conf0.msg_list = <<>> /\ conf0.lastTSAddr = 0
<1>1. CASE document = Wrong \/ ~Present(D)
  <2>1. importExchangedDataJson(conf0, document) = conf0
    BY <1>1 DEF importExchangedDataJson
  <2>2. QED
    BY <2>1 DEF SameStack
<1>2. CASE ~(document = Wrong \/ ~Present(D))
  <2>1. /\ N \in Nat /\ DOMAIN D = 1..N
        /\ \A k \in 1..N : D[k] = Wrong \/ DatapointTypes(D[k])
    BY <1>2, LenProperties DEF DataTypes, ToSet
  <2>2. PICK f : /\ f = [n \in 0..N |-> Turn(f, n, conf0, document)]
                 /\ importExchangedDataJson(conf0, document) = f[N]
    BY <1>2, <2>1, ImportIsDefined
  <2> DEFINE Good(n) == /\ SameStack(f[n], conf0)
                        /\ f[n].exchange_data_is_complete /\ Empty => Tables(f[n], document, n)
             H == {n \in Nat : n <= N => Good(n)}
  <2>3. 0 \in H
    <3>1. f[0] = [conf0 EXCEPT !.exchange_data_is_complete = Present(document.name)]
      BY <2>1, <2>2 DEF Turn
    <3>2. SameStack(f[0], conf0) /\ f[0].msg_list = conf0.msg_list /\ f[0].lastTSAddr = conf0.lastTSAddr
      BY <3>1 DEF SameStack, NewConf
    <3>3. Empty => Tables(f[0], document, 0)
      BY <3>2 DEF Tables
    <3>4. QED
      BY <3>2, <3>3
  <2>4. ASSUME NEW n \in 0..(N - 1), n \in H PROVE n + 1 \in H
    <3>1. n \in Nat /\ n + 1 \in 0..N /\ n + 1 \in 1..N /\ n + 1 # 0 /\ (n + 1) - 1 = n
      BY <2>1
    <3>2. Good(n)
      BY <2>1, <2>4
    <3>3. f[n + 1] = m_importDatapoint(f[n], D[n + 1])
      BY <2>2, <3>1 DEF Turn
    <3>4. DOMAIN f[n] = DOMAIN NewConf
      BY <3>2 DEF SameStack
    <3> HIDE DEF N, D
    <3>5. /\ SameStack(f[n + 1], f[n])
          /\ f[n + 1].exchange_data_is_complete => f[n].exchange_data_is_complete /\ Importable(D[n + 1])
          /\ Importable(D[n + 1]) =>
               /\ f[n + 1].msg_list = Over([key \in Keys(D[n + 1]) |-> D[n + 1].label], f[n].msg_list)
               /\ f[n + 1].lastTSAddr = Max({f[n].lastTSAddr} \cup Addresses(D[n + 1]))
      BY <3>3, <3>4, DatapointFacts
    <3>6. SameStack(f[n + 1], conf0)
      BY <3>2, <3>5 DEF SameStack
    <3>7. ASSUME f[n + 1].exchange_data_is_complete, Empty PROVE Tables(f[n + 1], document, n + 1)
      <4>1. Importable(D[n + 1]) /\ DatapointTypes(D[n + 1])
        BY <2>1, <3>1, <3>5, <3>7 DEF Importable
      <4>2. Tables(f[n], document, n)
        BY <3>2, <3>5, <3>7
      <4>3. QED
        BY <3>1, <3>5, <4>1, <4>2, TablesGrow, Zenon DEF D
    <3>8. QED
      BY <3>1, <3>6, <3>7
  <2>5. N \in H
    <3>1. H \in SUBSET Nat
      OBVIOUS
    <3> HIDE DEF H
    <3>2. \A n \in 0..N : n \in H
      BY <2>1, <2>3, <2>4, <3>1, UpTo
    <3>3. QED
      BY <2>1, <3>2
  <2>6. QED
    BY <1>2, <2>1, <2>2, <2>5
<1>3. QED
  BY <1>1, <1>2

\* The label of a datapoint that could be imported is found by its keys.
LEMMA MentionsAreKeys ==
  ASSUME NEW datapoint, Importable(datapoint), NEW typeid \in Types, NEW address
  PROVE  Mentions(datapoint, typeid, address) <=> <<typeid, address>> \in Keys(datapoint)
<1> DEFINE P == HNZProtocols(datapoint)
<1>1. Mentions(datapoint, typeid, address) <=> \E p \in P : p.typeid = typeid /\ p.address = address
  BY DEF Mentions, HNZProtocols, ToSet
<1>2. ASSUME NEW p \in P
      PROVE  p.typeid = typeid /\ p.address = address <=> <<typeid, address>> = Key(p)
  <2>1. Present(p.address) /\ p.typeid # Wrong
    BY DEF Importable, DatapointIsComplete
  <2>2. ImportedAddress(p) = p.address
    BY <2>1 DEF ImportedAddress, Retrieved
  <2>3. typeid = RetrievedOr(p.typeid, "", "") <=> p.typeid = typeid
    BY <2>1, DocumentsAssumption DEF DocumentsAssumption, Types, RetrievedOr, Retrieved, Present
  <2>4. QED
    BY <2>2, <2>3 DEF Key
<1> HIDE DEF P
<1>3. <<typeid, address>> \in Keys(datapoint) <=> \E p \in P : <<typeid, address>> = Key(p)
  BY DEF Keys, P
<1>4. QED
  BY <1>1, <1>2, <1>3

---------------------------------------------------------------------------
(* The configuration in use                                                 *)

\* The configuration is that of documents whose fields have their types.
ConfInv == stack \in Stacks /\ data \in Datas /\ conf = HNZConf(stack, data)

LEMMA StackFacts ==
  ASSUME NEW s
  PROVE  LET c == importConfigJson(s)
         IN /\ DOMAIN c = DOMAIN NewConf
            /\ c.exchange_data_is_complete = FALSE /\ c.msg_list = <<>> /\ c.lastTSAddr = 0
  BY DEF importConfigJson, NewConf

\* What the configuration in use has from its documents
LEMMA ConfFacts ==
  ASSUME ConfInv
  PROVE  /\ SameStack(conf, importConfigJson(stack))
         /\ is_complete(conf) => /\ data # Wrong /\ Present(data.datapoints)
                                 /\ Tables(conf, data, Len(data.datapoints))
<1>1. DataTypes(data)
  BY DocumentsAssumption DEF DocumentsAssumption, ConfInv
<1> DEFINE c0 == importConfigJson(stack)
<1>2. DOMAIN c0 = DOMAIN NewConf /\ c0.exchange_data_is_complete = FALSE /\ c0.msg_list = <<>> /\ c0.lastTSAddr = 0
  BY StackFacts, Zenon
<1>3. conf = importExchangedDataJson(c0, data)
  BY DEF ConfInv, HNZConf
<1> HIDE DEF c0
<1>4. /\ SameStack(conf, c0)
      /\ conf.exchange_data_is_complete =>
           /\ data # Wrong /\ Present(data.datapoints)
           /\ c0.msg_list = <<>> /\ c0.lastTSAddr = 0 => Tables(conf, data, Len(data.datapoints))
  BY <1>1, <1>2, <1>3, ImportFacts
<1>5. QED
  BY <1>2, <1>4 DEF c0, is_complete

\* A look-up finds the label that the document gives to the address.
LEMMA LabelsAreConfigured ==
  ASSUME ConfInv, is_complete(conf), NEW typeid \in Types, NEW address
  PROVE  getLabel(conf, typeid, address) = ConfiguredLabel(typeid, address)
<1> DEFINE D == data.datapoints
           N == Len(D)
           key == <<typeid, address>>
           mentions == {k \in DOMAIN D : Mentions(D[k], typeid, address)}
<1>1. /\ data # Wrong /\ Present(D) /\ Tables(conf, data, N)
      /\ DataTypes(data)
  BY ConfFacts, DocumentsAssumption DEF DocumentsAssumption, ConfInv
<1>2. N \in Nat /\ DOMAIN D = 1..N
  BY <1>1, LenProperties DEF DataTypes
<1>3. \A k \in 1..N : Importable(D[k])
  BY <1>1 DEF Tables
<1>4. mentions = {k \in 1..N : key \in Keys(D[k])}
  BY <1>2, <1>3, MentionsAreKeys
<1>5. CASE key \in DOMAIN conf.msg_list
  <2>1. PICK k \in 1..N : /\ key \in Keys(D[k])
                          /\ conf.msg_list[key] = D[k].label
                          /\ \A m \in 1..N : key \in Keys(D[m]) => m <= k
    BY <1>1, <1>5 DEF Tables
  <2>2. k \in mentions /\ \A m \in mentions : m <= k
    BY <1>4, <2>1
  <2>3. mentions \in SUBSET Nat
    BY <1>2
  <2> HIDE DEF mentions
  <2>4. Max(mentions) = k
    BY <2>2, <2>3, MaxIs
  <2>5. mentions # {}
    BY <2>2
  <2>6. QED
    BY <1>5, <2>1, <2>4, <2>5 DEF getLabel, ConfiguredLabel, mentions
<1>6. CASE key \notin DOMAIN conf.msg_list
  <2>1. \A k \in 1..N : key \notin Keys(D[k])
    BY <1>1, <1>6 DEF Tables
  <2>2. mentions = {}
    BY <1>4, <2>1
  <2>3. QED
    BY <1>6, <2>2 DEF getLabel, ConfiguredLabel
<1>7. QED
  BY <1>5, <1>6

\* The labels of a complete configuration are strings.
LEMMA LabelTypes ==
  ASSUME ConfInv, is_complete(conf), NEW typeid, NEW address, getLabel(conf, typeid, address) # NoLabel
  PROVE  getLabel(conf, typeid, address) \in STRING
<1> DEFINE D == data.datapoints
           key == <<typeid, address>>
<1>1. /\ data # Wrong /\ Present(D) /\ Tables(conf, data, Len(D))
      /\ DataTypes(data)
  BY ConfFacts, DocumentsAssumption DEF DocumentsAssumption, ConfInv
<1>2. DOMAIN D = 1..Len(D) /\ \A k \in DOMAIN D : D[k] = Wrong \/ DatapointTypes(D[k])
  BY <1>1, LenProperties DEF DataTypes, ToSet
<1>3. CASE key \in DOMAIN conf.msg_list
  <2>1. PICK k \in 1..Len(D) : conf.msg_list[key] = D[k].label
    BY <1>1, <1>3 DEF Tables
  <2>2. Importable(D[k])
    BY <1>1 DEF Tables
  <2>3. D[k].label \in STRING
    BY <1>2, <2>2 DEF Importable, DatapointIsComplete, DatapointTypes, Field, Present
  <2>4. QED
    BY <1>3, <2>1, <2>3 DEF getLabel
<1>4. CASE key \notin DOMAIN conf.msg_list
  BY <1>4 DEF getLabel
<1>5. QED
  BY <1>3, <1>4

LEMMA CompleteConfigurations ==
  ASSUME ConfInv
  PROVE  CompleteIsAsConfigured
<1> SUFFICES ASSUME is_complete(conf)
             PROVE  /\ conf.remote_station_addr = stack.application.remote_station_addr
                    /\ FramesNameStation \/ conf.remote_station_addr = 64
                    /\ \A f \in Fields :
                         LET value == stack.application[f]
                         IN value # Wrong /\ conf.application[f] = IF value = Absent THEN ApplicationDefaults[f] ELSE value
                    /\ conf.application["gi_schedule"] \in ((0..23) \X (0..59)) \cup {<<99, 99>>}
  BY DEF CompleteIsAsConfigured
<1> DEFINE app == stack.application
           c0 == importConfigJson(stack)
<1>1. StackTypes(stack)
  BY DocumentsAssumption DEF DocumentsAssumption, ConfInv
<1>2. /\ c0.config_is_complete
      /\ conf.application = c0.application
      /\ conf.remote_station_addr = c0.remote_station_addr
  BY ConfFacts DEF SameStack, is_complete
<1>3. stack # Wrong
  BY <1>2 DEF importConfigJson, NewConf
<1>4. /\ c0.config_is_complete => app # Wrong /\ ApplicationIsComplete(app)
      /\ c0.remote_station_addr = IF app = Wrong THEN 0 ELSE Retrieved(app.remote_station_addr, 0)
      /\ c0.application = [f \in Fields |->
                             IF app = Wrong \/ (f = "gi_schedule" /\ ~ScheduleIsCorrect(app[f])) THEN NewFields[f]
                             ELSE RetrievedOr(app[f], ApplicationDefaults[f], NewFields[f])]
  BY <1>3 DEF importConfigJson, NewConf
<1>5. /\ app # Wrong /\ ApplicationIsComplete(app)
      /\ app.remote_station_addr \in Field(Nat)
      /\ app.gi_schedule \in Field(Pairs)
  <2>1. "gi_schedule" \in Fields /\ "gi_schedule" \in PairFields
    BY DEF Fields, ApplicationDefaults, PairFields
  <2>2. app # Wrong /\ ApplicationIsComplete(app)
    BY <1>2, <1>4
  <2>3. app.remote_station_addr \in Field(Nat) /\ app["gi_schedule"] \in Field(Pairs)
    BY <1>1, <1>3, <2>1, <2>2 DEF StackTypes
  <2>4. QED
    BY <2>2, <2>3
<1> HIDE DEF c0
<1>6. conf.remote_station_addr = app.remote_station_addr /\ conf.remote_station_addr \in 0..64
  BY <1>2, <1>4, <1>5 DEF ApplicationIsComplete, Present, Field, Retrieved
<1>7. FramesNameStation \/ conf.remote_station_addr = 64
  <2>1. CASE conf.remote_station_addr \in 0..63
    <3>1. \A a \in 0..63 : ((4 * a + 1) % 256) \div 4 = a /\ ((4 * a + 3) % 256) \div 4 = a
      OBVIOUS
    <3>2. QED
      BY <2>1, <3>1 DEF FramesNameStation, m_address_PA, m_address_ARP
  <2>2. QED
    BY <1>6, <2>1
<1>8. \A f \in Fields : app[f] # Wrong
                        /\ conf.application[f] = IF app[f] = Absent THEN ApplicationDefaults[f] ELSE app[f]
  BY <1>2, <1>4, <1>5 DEF ApplicationIsComplete, RetrievedOr, Retrieved, Present
<1>9. conf.application["gi_schedule"] \in ((0..23) \X (0..59)) \cup {<<99, 99>>}
  <2>1. "gi_schedule" \in Fields /\ ApplicationDefaults["gi_schedule"] = <<99, 99>>
    BY DEF Fields, ApplicationDefaults
  <2>2. conf.application["gi_schedule"] = IF app.gi_schedule = Absent THEN <<99, 99>> ELSE app.gi_schedule
    BY <1>8, <2>1
  <2>3. ScheduleIsCorrect(app.gi_schedule)
    BY <1>5 DEF ApplicationIsComplete
  <2>4. QED
    BY <1>5, <2>2, <2>3 DEF ScheduleIsCorrect, Present, Field, Pairs
<1>10. QED
  BY <1>6, <1>7, <1>8, <1>9

---------------------------------------------------------------------------
(* Decoding: what is read of a message is what the RTU stated with it        *)

\* The four TS of an octet
LEMMA OctetBits ==
  ASSUME NEW e0 \in 0..1, NEW e1 \in 0..1, NEW e2 \in 0..1, NEW e3 \in 0..1,
         NEW v0 \in 0..1, NEW v1 \in 0..1, NEW v2 \in 0..1, NEW v3 \in 0..1
  PROVE  LET o == 64 * (2 * v0 + e0) + 16 * (2 * v1 + e1) + 4 * (2 * v2 + e2) + (2 * v3 + e3)
         IN /\ o \in 0..255
            /\ Bit(o, 6) = e0 /\ Bit(o, 4) = e1 /\ Bit(o, 2) = e2 /\ Bit(o, 0) = e3
            /\ Bit(o, 7) = v0 /\ Bit(o, 5) = v1 /\ Bit(o, 3) = v2 /\ Bit(o, 1) = v3
<1>1. 2^0 = 1 /\ 2^1 = 2 /\ 2^2 = 4 /\ 2^3 = 8 /\ 2^4 = 16 /\ 2^5 = 32 /\ 2^6 = 64 /\ 2^7 = 128
  OBVIOUS
<1> DEFINE o == 64 * (2 * v0 + e0) + 16 * (2 * v1 + e1) + 4 * (2 * v2 + e2) + (2 * v3 + e3)
<1>2. o \in 0..255
  OBVIOUS
<1>3. (o \div 64) % 2 = e0
  OBVIOUS
<1>4. (o \div 16) % 2 = e1
  OBVIOUS
<1>5. (o \div 4) % 2 = e2
  OBVIOUS
<1>6. (o \div 1) % 2 = e3
  OBVIOUS
<1>7. (o \div 128) % 2 = v0
  OBVIOUS
<1>8. (o \div 32) % 2 = v1
  OBVIOUS
<1>9. (o \div 8) % 2 = v2
  OBVIOUS
<1>10. (o \div 2) % 2 = v3
  OBVIOUS
<1> HIDE DEF o
<1>11. QED
  BY <1>1, <1>2, <1>3, <1>4, <1>5, <1>6, <1>7, <1>8, <1>9, <1>10 DEF o, Bit

Decodes(message) ==
  /\ message.data \in Octets
  /\ message.points \subseteq AllEntries
  /\ Entries(message) = message.points

\* The octet of a TS and its place in the octet
LEMMA Quarters ==
  ASSUME NEW i \in 0..15
  PROVE  \E q \in {0, 4, 8, 12}, j \in 0..3 :
           /\ i = q + j /\ i % 4 = j
           /\ \/ q = 0 /\ 2 + (i \div 4) = 2
              \/ q = 4 /\ 2 + (i \div 4) = 3
              \/ q = 8 /\ 2 + (i \div 4) = 4
              \/ q = 12 /\ 2 + (i \div 4) = 5
<1>0. i \in Int
  OBVIOUS
<1>1. \/ i \in {0, 1, 2, 3} /\ i % 4 = i /\ i \div 4 = 0
      \/ i \in {4, 5, 6, 7} /\ i % 4 = i - 4 /\ i \div 4 = 1
      \/ i \in {8, 9, 10, 11} /\ i % 4 = i - 8 /\ i \div 4 = 2
      \/ i \in {12, 13, 14, 15} /\ i % 4 = i - 12 /\ i \div 4 = 3
  OBVIOUS
<1> QED
  BY <1>0, <1>1

\* A TSCG
LEMMA TSCGIsDecoded ==
  ASSUME NEW ad0 \in 0..254, NEW ts \in [0..15 -> TSState]
  PROVE  Decodes(TSCG(ad0, ts))
<1> DEFINE E(k) == ts[k].value
           V(k) == ts[k].valid
           O(k) == TSOctet(ts, k)
           d == <<ad0, O(0), O(4), O(8), O(12)>>
           m == TSCG(ad0, ts)
<1>1. \A k \in 0..15 : ts[k] \in TSState /\ E(k) \in 0..1 /\ V(k) \in 0..1
  BY DEF TSState
<1>2. ASSUME NEW k \in {0, 4, 8, 12}
      PROVE  /\ O(k) \in 0..255
             /\ Bit(O(k), 6) = E(k) /\ Bit(O(k), 4) = E(k + 1) /\ Bit(O(k), 2) = E(k + 2) /\ Bit(O(k), 0) = E(k + 3)
             /\ Bit(O(k), 7) = V(k) /\ Bit(O(k), 5) = V(k + 1) /\ Bit(O(k), 3) = V(k + 2) /\ Bit(O(k), 1) = V(k + 3)
  <2>1. k \in 0..15 /\ k + 1 \in 0..15 /\ k + 2 \in 0..15 /\ k + 3 \in 0..15
    OBVIOUS
  <2>2. /\ E(k) \in 0..1 /\ E(k + 1) \in 0..1 /\ E(k + 2) \in 0..1 /\ E(k + 3) \in 0..1
        /\ V(k) \in 0..1 /\ V(k + 1) \in 0..1 /\ V(k + 2) \in 0..1 /\ V(k + 3) \in 0..1
    BY <1>1, <2>1
  <2>3. O(k) = 64 * (2 * V(k) + E(k)) + 16 * (2 * V(k + 1) + E(k + 1)) + 4 * (2 * V(k + 2) + E(k + 2))
                 + (2 * V(k + 3) + E(k + 3))
    BY DEF TSOctet
  <2> HIDE DEF E, V, O
  <2>4. QED
    BY <2>2, <2>3, OctetBits
<1> HIDE DEF O
<1>3. m.type = "TSCG" /\ m.data = d /\ m.points = {TSPoint(ad0, i, ts[i]) : i \in 0..15}
  BY DEF TSCG, Message, O
<1>4. ad0 \in 0..255 /\ O(0) \in 0..255 /\ O(4) \in 0..255 /\ O(8) \in 0..255 /\ O(12) \in 0..255
  BY <1>2
<1>5. d \in Octets
  BY <1>4 DEF Octets
<1>6. d[1] = ad0 /\ d[2] = O(0) /\ d[3] = O(4) /\ d[4] = O(8) /\ d[5] = O(12)
  OBVIOUS
<1> HIDE DEF d, m, E, V
<1>7. ASSUME NEW i \in 0..15
      PROVE  Bit(d[2 + (i \div 4)], 2 * (3 - (i % 4))) = E(i) /\ Bit(d[2 + (i \div 4)], 2 * (3 - (i % 4)) + 1) = V(i)
  <2>1. PICK q \in {0, 4, 8, 12}, j \in 0..3 :
          /\ i = q + j /\ i % 4 = j
          /\ \/ q = 0 /\ 2 + (i \div 4) = 2
             \/ q = 4 /\ 2 + (i \div 4) = 3
             \/ q = 8 /\ 2 + (i \div 4) = 4
             \/ q = 12 /\ 2 + (i \div 4) = 5
    BY Quarters
  <2>2. d[2 + (i \div 4)] = O(q)
    BY <1>6, <2>1
  <2>3. Bit(O(q), 2 * (3 - j)) = E(q + j) /\ Bit(O(q), 2 * (3 - j) + 1) = V(q + j)
    <3>1. \/ j = 0 /\ 2 * (3 - j) = 6 /\ 2 * (3 - j) + 1 = 7 /\ q + j = q
          \/ j = 1 /\ 2 * (3 - j) = 4 /\ 2 * (3 - j) + 1 = 5
          \/ j = 2 /\ 2 * (3 - j) = 2 /\ 2 * (3 - j) + 1 = 3
          \/ j = 3 /\ 2 * (3 - j) = 0 /\ 2 * (3 - j) + 1 = 1
      OBVIOUS
    <3>2. QED
      BY <1>2, <3>1
  <2>4. QED
    BY <2>1, <2>2, <2>3
<1>8. ASSUME NEW i \in 0..15 PROVE TSCGAddress(ad0, i) = IF i < 8 THEN 10 * ad0 + i ELSE 10 * (ad0 + 1) + i - 8
  <2>1. i < 8 => i \div 8 = 0 /\ i % 8 = i
    OBVIOUS
  <2>2. ~(i < 8) => i \div 8 = 1 /\ i % 8 = i - 8
    OBVIOUS
  <2>3. QED
    BY <2>1, <2>2 DEF TSCGAddress
<1>9. ASSUME NEW i \in 0..15 PROVE TSCGEntry(d, i) = TSPoint(ad0, i, ts[i])
  BY <1>6, <1>7, <1>8 DEF TSCGEntry, TSPoint, E, V
<1>10. TSCGEntries(d) = m.points
  BY <1>3, <1>9 DEF TSCGEntries
<1>11. Entries(m) = m.points
  BY <1>3, <1>10 DEF Entries
<1>12. ASSUME NEW i \in 0..15 PROVE TSPoint(ad0, i, ts[i]) \in AllEntries
  <2>1. E(i) \in 0..1 /\ V(i) \in 0..1
    BY <1>1 DEF E, V
  <2>2. (IF i < 8 THEN 10 * ad0 + i ELSE 10 * (ad0 + 1) + i - 8) \in Nat
    OBVIOUS
  <2>3. QED
    BY <2>1, <2>2 DEF TSPoint, Entry, AllEntries, Types, E, V
<1>13. m.points \subseteq AllEntries
  BY <1>3, <1>12
<1>14. QED
  BY <1>3, <1>5, <1>11, <1>13 DEF Decodes, m

LEMMA EntryTypes ==
  ASSUME NEW typeid \in Types, NEW a \in Nat, NEW v \in Int, NEW w \in 0..1
  PROVE  Entry(typeid, a, v, w) \in AllEntries
  BY DEF Entry, AllEntries

\* The second octet of a TSCE
LEMMA TSCEOctet ==
  ASSUME NEW u \in 0..7, NEW v \in 0..1, NEW e \in 0..1
  PROVE  LET o == 32 * u + 16 * v + 8 * e
         IN o \in 0..255 /\ o \div 32 = u /\ Bit(o, 4) = v /\ Bit(o, 3) = e
<1> DEFINE o == 32 * u + 16 * v + 8 * e
<1>1. o \in 0..255
  OBVIOUS
<1>2. o \div 32 = u
  OBVIOUS
<1>3. (o \div 16) % 2 = v
  OBVIOUS
<1>4. (o \div 8) % 2 = e
  OBVIOUS
<1>5. 2^3 = 8 /\ 2^4 = 16
  OBVIOUS
<1> HIDE DEF o
<1>6. QED
  BY <1>1, <1>2, <1>3, <1>4, <1>5 DEF o, Bit

\* The second octet of the acknowledgement of a TC
LEMMA TCOctet ==
  ASSUME NEW u \in 0..7, NEW v \in 0..3, NEW c \in 1..2
  PROVE  LET o == 32 * u + 8 * v + c
         IN o \in 0..255 /\ o \div 32 = u /\ (o \div 8) % 4 = v /\ o % 8 = c
<1> DEFINE o == 32 * u + 8 * v + c
<1>1. o \in 0..255
  OBVIOUS
<1>2. o \div 32 = u
  OBVIOUS
<1>3. (o \div 8) % 4 = v
  OBVIOUS
<1>4. o % 8 = c
  OBVIOUS
<1>5. QED
  BY <1>1, <1>2, <1>3, <1>4

\* A TSCE of the TS number i of a TSCG frame
LEMMA TSCEIsDecoded ==
  ASSUME NEW ad0 \in 0..254, NEW i \in 0..15, NEW ts \in TSState
  PROVE  LET point == TSPoint(ad0, i, ts)
         IN Decodes(Message("TSCE", <<point.address \div 10,
                                      32 * (point.address % 10) + 16 * ts.valid + 8 * ts.value, 0, 0>>, {point}))
<1> DEFINE point == TSPoint(ad0, i, ts)
           a == point.address
           d == <<a \div 10, 32 * (a % 10) + 16 * ts.valid + 8 * ts.value, 0, 0>>
           m == Message("TSCE", d, {point})
<1>1. ts.value \in 0..1 /\ ts.valid \in 0..1
  BY DEF TSState
<1>2. point = Entry("TS", a, ts.value, ts.valid) /\ a = IF i < 8 THEN 10 * ad0 + i ELSE 10 * (ad0 + 1) + i - 8
  BY DEF TSPoint, Entry
<1>3. PICK t \in 0..255, u \in 0..7 : a = 10 * t + u
  <2>1. i < 8 => ad0 \in 0..255 /\ i \in 0..7
    OBVIOUS
  <2>2. ~(i < 8) => ad0 + 1 \in 0..255 /\ i - 8 \in 0..7 /\ 10 * (ad0 + 1) + i - 8 = 10 * (ad0 + 1) + (i - 8)
    OBVIOUS
  <2> HIDE DEF a
  <2>3. QED
    BY <1>2, <2>1, <2>2
<1> HIDE DEF a, point
<1>4. a \in Nat /\ a \div 10 = t /\ a % 10 = u
  BY <1>3
<1> DEFINE o == 32 * u + 16 * ts.valid + 8 * ts.value
<1>5. d[1] = t /\ d[2] = o /\ d = <<t, o, 0, 0>>
  BY <1>4
<1>6. o \in 0..255 /\ o \div 32 = u /\ Bit(o, 4) = ts.valid /\ Bit(o, 3) = ts.value
  BY <1>1, TSCEOctet
<1> HIDE DEF o
<1>7. <<t, o, 0, 0>> \in Octets
  BY <1>6 DEF Octets
<1>8. d \in Octets
  BY <1>5, <1>7
<1>9. m.type = "TSCE" /\ m.data = d /\ m.points = {point}
  BY DEF Message
<1> HIDE DEF d, m
<1>10. d[1] * 10 + (d[2] \div 32) = a
  BY <1>3, <1>5, <1>6
<1>11. TSCEEntries(d) = {point}
  BY <1>2, <1>5, <1>6, <1>10 DEF TSCEEntries
<1>12. Entries(m) = m.points
  BY <1>9, <1>11 DEF Entries
<1>13. point \in AllEntries
  BY <1>1, <1>2, <1>4 DEF Entry, AllEntries, Types
<1>14. QED
  BY <1>8, <1>9, <1>12, <1>13 DEF Decodes, m, d, a, point

\* The acknowledgement of a TC
LEMMA TCIsDecoded ==
  ASSUME NEW order, NEW t \in 0..255, NEW u \in 0..7, NEW v \in 0..3, NEW w \in 0..1,
         order = Entry("TC", 10 * t + u, v, w)
  PROVE  Decodes(Acknowledgement(order))
<1> DEFINE a == 10 * t + u
<1>1. a \in Nat /\ a \div 10 = t /\ a % 10 = u
  OBVIOUS
<1> HIDE DEF a
<1> DEFINE c == IF w = 0 THEN 1 ELSE 2
           o == 32 * u + 8 * v + c
           d == <<t, o>>
           m == Acknowledgement(order)
<1>2. order.typeid = "TC" /\ order.address = a /\ order.value = v /\ order.valid = w
  BY DEF Entry, a
<1>3. m.type = "TC ACK" /\ m.data = d /\ m.points = {order}
  BY <1>1, <1>2 DEF Acknowledgement, Message
<1>4. c \in 1..2 /\ (IF c = 1 THEN 0 ELSE 1) = w
  OBVIOUS
<1> HIDE DEF c
<1>5. o \in 0..255 /\ o \div 32 = u /\ (o \div 8) % 4 = v /\ o % 8 = c
  BY <1>4, TCOctet
<1> HIDE DEF o
<1>6. d \in Octets /\ d[1] = t /\ d[2] = o
  BY <1>5 DEF Octets
<1> HIDE DEF d, m
<1>7. Entry("TC", d[1] * 10 + (d[2] \div 32), (d[2] \div 8) % 4, IF d[2] % 8 = 1 THEN 0 ELSE 1) = order
  <2>1. d[1] * 10 + (d[2] \div 32) = a
    BY <1>5, <1>6 DEF a
  <2>2. (d[2] \div 8) % 4 = v
    BY <1>5, <1>6
  <2>3. (IF d[2] % 8 = 1 THEN 0 ELSE 1) = w
    BY <1>4, <1>5, <1>6
  <2>4. QED
    BY <2>1, <2>2, <2>3, Zenon DEF a
<1>8. Entries(m) = m.points
  BY <1>3, <1>7 DEF Entries, ATCEntries
<1>9. 10 * t + u \in Nat /\ v \in Int /\ "TC" \in Types
  BY DEF Types
<1>10. order \in AllEntries
  BY <1>9, EntryTypes, Zenon
<1>11. QED
  BY <1>3, <1>6, <1>8, <1>10 DEF Decodes, m

\* The acknowledgement of a TVC
LEMMA TVCIsDecoded ==
  ASSUME NEW order \in [typeid : {"TVC"}, address : 0..31, value : -127..127, valid : 0..1]
  PROVE  Decodes(Acknowledgement(order))
<1> DEFINE a == order.address
           v == order.value
           w == order.valid
           o1 == 64 * w + a
           o2 == IF v < 0 THEN -v ELSE v
           o3 == IF v < 0 THEN 128 ELSE 0
           d == <<o1, o2, o3>>
           m == Acknowledgement(order)
<1>1. order = Entry("TVC", a, v, w) /\ order.typeid = "TVC" /\ a \in 0..31 /\ v \in -127..127 /\ w \in 0..1
  BY DEF Entry
<1>2. m.type = "TVC ACK" /\ m.data = d /\ m.points = {order}
  BY <1>1 DEF Acknowledgement, Message
<1> HIDE DEF a, v, w
<1>3. o1 \in 0..255 /\ o1 % 32 = a /\ (o1 \div 64) % 2 = w
  BY <1>1
<1>4. o2 \in 0..127 /\ o2 % 128 = o2
  BY <1>1
<1>5. o3 \in 0..255 /\ ((o3 \div 128) % 2 = 1 <=> v < 0)
  OBVIOUS
<1>6. v = IF v < 0 THEN -o2 ELSE o2
  BY <1>1
<1> HIDE DEF o1, o2, o3
<1>7. Bit(o1, 6) = w /\ (Bit(o3, 7) = 1 <=> v < 0)
  <2>1. 2^6 = 64 /\ 2^7 = 128
    OBVIOUS
  <2>2. QED
    BY <1>3, <1>5, <2>1 DEF Bit
<1>8. d \in Octets /\ d[1] = o1 /\ d[2] = o2 /\ d[3] = o3
  BY <1>3, <1>4, <1>5 DEF Octets
<1> HIDE DEF d, m
<1>9. ATVCEntries(d) = {order}
  BY <1>1, <1>3, <1>4, <1>6, <1>7, <1>8 DEF ATVCEntries
<1>10. Entries(m) = m.points
  BY <1>2, <1>9 DEF Entries
<1>11. order \in AllEntries
  BY <1>1 DEF Entry, AllEntries, Types
<1>12. QED
  BY <1>2, <1>8, <1>10, <1>11 DEF Decodes, m

\* An octet of a TMA
LEMMA TMAOctets ==
  ASSUME NEW value, value = NoTM \/ value \in -127..127
  PROVE  LET o == TMAOctet(value)
         IN /\ o \in 0..255
            /\ OnesComplement(o) = TMNValue(value)
            /\ (IF o = 255 THEN 1 ELSE 0) = Invalid(value)
<1> DEFINE o == TMAOctet(value)
<1>1. 2^7 = 128
  OBVIOUS
<1>2. CASE value = NoTM
  <2>1. o = 255 /\ TMNValue(value) = 0 /\ Invalid(value) = 1
    BY <1>2 DEF TMAOctet, TMNValue, Invalid
  <2>2. Bit(255, 7) = 1
    BY <1>1 DEF Bit
  <2>3. QED
    BY <2>1, <2>2 DEF OnesComplement
<1>3. CASE value \in -127..127 /\ value # NoTM
  <2>1. TMNValue(value) = value /\ Invalid(value) = 0
    BY <1>3 DEF TMNValue, Invalid
  <2>2. CASE value < 0
    <3>1. o = 255 + value /\ o \in 128..254
      BY <1>3, <2>2 DEF TMAOctet
    <3>2. Bit(o, 7) = 1
      BY <1>1, <3>1 DEF Bit
    <3>3. QED
      BY <1>3, <2>1, <3>1, <3>2 DEF OnesComplement
  <2>3. CASE ~(value < 0)
    <3>1. o = value /\ o \in 0..127
      BY <1>3, <2>3 DEF TMAOctet
    <3>2. Bit(o, 7) = 0
      BY <1>1, <3>1 DEF Bit
    <3>3. QED
      BY <2>1, <3>1, <3>2 DEF OnesComplement
  <2>4. QED
    BY <2>2, <2>3
<1>4. QED
  BY <1>2, <1>3

\* The points of a TM message
LEMMA TMPointTypes ==
  ASSUME NEW address \in Nat, NEW value, TMNValue(value) \in Int
  PROVE  TMPoint(address, value) \in AllEntries
<1>1. Invalid(value) \in 0..1 /\ "TM" \in Types
  BY DEF Invalid, Types
<1>2. QED
  BY <1>1, EntryTypes DEF TMPoint

\* TM number i of a message is TMPoint(adr + i - 1, tm[i]).
LEMMA TMPointsByPlace ==
  ASSUME NEW adr \in 0..255, NEW tm
  PROVE  TMPoints(adr, tm) = {TMPoint(adr + i, tm[i + 1]) : i \in 0..3}
<1>1. ASSUME NEW i \in 1..4 PROVE i - 1 \in 0..3 /\ adr + i - 1 = adr + (i - 1) /\ (i - 1) + 1 = i
  OBVIOUS
<1>2. ASSUME NEW i \in 0..3 PROVE i + 1 \in 1..4 /\ adr + (i + 1) - 1 = adr + i
  OBVIOUS
<1>3. \A x : x \in TMPoints(adr, tm) <=> x \in {TMPoint(adr + i, tm[i + 1]) : i \in 0..3}
  BY <1>1, <1>2 DEF TMPoints
<1>4. QED
  BY <1>3

\* A TM4
LEMMA TM4IsDecoded ==
  ASSUME NEW adr \in 0..255, NEW tm, TMIn(tm, -127..127)
  PROVE  Decodes(TM4(adr, tm))
<1> DEFINE O(i) == TMAOctet(tm[i])
           d == <<adr, O(1), O(2), O(3), O(4)>>
           m == TM4(adr, tm)
<1>1. \A i \in 1..4 : /\ O(i) \in 0..255
                      /\ OnesComplement(O(i)) = TMNValue(tm[i])
                      /\ (IF O(i) = 255 THEN 1 ELSE 0) = Invalid(tm[i])
  BY TMAOctets DEF TMIn
<1> HIDE DEF O
<1>2. m.type = "TM4" /\ m.data = d /\ m.points = TMPoints(adr, tm)
  BY DEF TM4, Message, O
<1>3. O(1) \in 0..255 /\ O(2) \in 0..255 /\ O(3) \in 0..255 /\ O(4) \in 0..255
  BY <1>1
<1>4. d \in Octets
  BY <1>3 DEF Octets
<1>5. d[1] = adr /\ d[2] = O(1) /\ d[3] = O(2) /\ d[4] = O(3) /\ d[5] = O(4)
  OBVIOUS
<1> HIDE DEF d, m
<1>6. ASSUME NEW i \in 0..3
      PROVE  Entry("TM", d[1] + i, OnesComplement(d[2 + i]), IF d[2 + i] = 255 THEN 1 ELSE 0)
               = TMPoint(adr + i, tm[i + 1])
  <2>1. d[2 + i] = O(i + 1) /\ i + 1 \in 1..4
    BY <1>5
  <2>2. QED
    BY <1>1, <1>5, <2>1 DEF TMPoint
<1>7. TM4Entries(d) = TMPoints(adr, tm)
  <2>1. TMPoints(adr, tm) = {TMPoint(adr + i, tm[i + 1]) : i \in 0..3}
    BY TMPointsByPlace
  <2>2. \A x : x \in TM4Entries(d) <=> x \in {TMPoint(adr + i, tm[i + 1]) : i \in 0..3}
    BY <1>6 DEF TM4Entries
  <2>3. QED
    BY <2>1, <2>2
<1>8. Entries(m) = m.points
  BY <1>2, <1>7 DEF Entries
<1>9. ASSUME NEW i \in 0..3 PROVE TMPoint(adr + i, tm[i + 1]) \in AllEntries
  <2>1. i + 1 \in 1..4 /\ adr + i \in Nat
    OBVIOUS
  <2>2. TMNValue(tm[i + 1]) \in Int
    BY <2>1 DEF TMIn, TMNValue
  <2>3. QED
    BY <2>1, <2>2, TMPointTypes
<1>10. m.points \subseteq AllEntries
  <2>1. m.points = {TMPoint(adr + i, tm[i + 1]) : i \in 0..3}
    BY <1>2, TMPointsByPlace
  <2>2. QED
    BY <1>9, <2>1
<1>11. QED
  BY <1>2, <1>4, <1>8, <1>10 DEF Decodes, m

\* The octet of the validities of a TM8
LEMMA TM8Octet ==
  ASSUME NEW i1 \in 0..1, NEW i2 \in 0..1, NEW i3 \in 0..1, NEW i4 \in 0..1
  PROVE  LET o == 128 + i1 + 2 * i2 + 4 * i3 + 8 * i4
         IN /\ o \in 0..255 /\ Bit(o, 7) = 1
            /\ Bit(o, 0) = i1 /\ Bit(o, 1) = i2 /\ Bit(o, 2) = i3 /\ Bit(o, 3) = i4
<1> DEFINE o == 128 + i1 + 2 * i2 + 4 * i3 + 8 * i4
<1>1. o \in 0..255
  OBVIOUS
<1>2. (o \div 128) % 2 = 1
  OBVIOUS
<1>3. (o \div 1) % 2 = i1
  OBVIOUS
<1>4. (o \div 2) % 2 = i2
  OBVIOUS
<1>5. (o \div 4) % 2 = i3
  OBVIOUS
<1>6. (o \div 8) % 2 = i4
  OBVIOUS
<1>7. 2^0 = 1 /\ 2^1 = 2 /\ 2^2 = 4 /\ 2^3 = 8 /\ 2^7 = 128
  OBVIOUS
<1> HIDE DEF o
<1>8. QED
  BY <1>1, <1>2, <1>3, <1>4, <1>5, <1>6, <1>7 DEF o, Bit

\* A TM8
LEMMA TM8IsDecoded ==
  ASSUME NEW adr \in 0..255, NEW tm, TMIn(tm, 0..255)
  PROVE  Decodes(TM8(adr, tm))
<1> DEFINE O(i) == TMNValue(tm[i])
           I(i) == Invalid(tm[i])
           q == 128 + I(1) + 2 * I(2) + 4 * I(3) + 8 * I(4)
           d == <<adr, O(1), O(2), O(3), O(4), q>>
           m == TM8(adr, tm)
<1>1. \A i \in 1..4 : O(i) \in 0..255 /\ I(i) \in 0..1
  BY DEF TMIn, TMNValue, Invalid
<1>2. m.type = "TMN" /\ m.data = d /\ m.points = TMPoints(adr, tm)
  BY DEF TM8, Message
<1> HIDE DEF O, I
<1>3. /\ O(1) \in 0..255 /\ O(2) \in 0..255 /\ O(3) \in 0..255 /\ O(4) \in 0..255
      /\ I(1) \in 0..1 /\ I(2) \in 0..1 /\ I(3) \in 0..1 /\ I(4) \in 0..1
  BY <1>1
<1>4. /\ q \in 0..255 /\ Bit(q, 7) = 1
      /\ Bit(q, 0) = I(1) /\ Bit(q, 1) = I(2) /\ Bit(q, 2) = I(3) /\ Bit(q, 3) = I(4)
  BY <1>3, TM8Octet
<1> HIDE DEF q
<1>5. d \in Octets
  BY <1>3, <1>4 DEF Octets
<1>6. d[1] = adr /\ d[2] = O(1) /\ d[3] = O(2) /\ d[4] = O(3) /\ d[5] = O(4) /\ d[6] = q
  OBVIOUS
<1> HIDE DEF d, m
<1>7. ASSUME NEW i \in 0..3
      PROVE  Entry("TM", d[1] + i, d[2 + i], Bit(d[6], i)) = TMPoint(adr + i, tm[i + 1])
  <2>1. d[2 + i] = O(i + 1) /\ Bit(d[6], i) = I(i + 1)
    BY <1>4, <1>6
  <2>2. QED
    BY <1>6, <2>1 DEF TMPoint, O, I
<1>8. TM8Entries(d) = TMPoints(adr, tm)
  <2>1. TMPoints(adr, tm) = {TMPoint(adr + i, tm[i + 1]) : i \in 0..3}
    BY TMPointsByPlace
  <2>2. \A x : x \in TM8Entries(d) <=> x \in {TMPoint(adr + i, tm[i + 1]) : i \in 0..3}
    BY <1>7 DEF TM8Entries
  <2>3. QED
    BY <2>1, <2>2
<1>9. Entries(m) = m.points
  BY <1>2, <1>4, <1>6, <1>8 DEF Entries, TMNEntries
<1>10. ASSUME NEW i \in 0..3 PROVE TMPoint(adr + i, tm[i + 1]) \in AllEntries
  <2>1. i + 1 \in 1..4 /\ adr + i \in Nat
    OBVIOUS
  <2>2. TMNValue(tm[i + 1]) \in Int
    BY <1>1, <2>1 DEF O
  <2>3. QED
    BY <2>1, <2>2, TMPointTypes
<1>11. m.points \subseteq AllEntries
  <2>1. m.points = {TMPoint(adr + i, tm[i + 1]) : i \in 0..3}
    BY <1>2, TMPointsByPlace
  <2>2. QED
    BY <1>10, <2>1
<1>12. QED
  BY <1>2, <1>5, <1>9, <1>11 DEF Decodes, m

LEMMA Int16Bounds ==
  ASSUME NEW x \in Int16
  PROVE  x \in Int /\ x >= -32768 /\ x <= 32767
<1> DEFINE low == -(2^15)
           high == 2^15 - 1
<1>1. 2^15 = 32768
  OBVIOUS
<1>2. low \in Int /\ high \in Int
  BY <1>1
<1>3. x \in low..high
  BY Zenon DEF Int16
<1> HIDE DEF low, high
<1>4. x \in Int /\ x >= low /\ x <= high
  BY <1>2, <1>3
<1>5. QED
  BY <1>1, <1>4 DEF low, high

\* A number of 16 bits in two's complement, by its two octets
LEMMA TwosComplement ==
  ASSUME NEW x \in Int, x >= -32768, x <= 32767
  PROVE  LET low == x % 256
             high == (x \div 256) % 256
         IN low \in 0..255 /\ high \in 0..255 /\ TM16Value(low, high) = x
<1>1. x \in Int
  OBVIOUS
<1>2. PICK p \in Int, r \in 0..255 : p = x \div 256 /\ r = x % 256 /\ x = 256 * p + r
  BY <1>1
<1>3. p \in -128..127
  BY <1>2
<1> DEFINE h == p % 256
           y == h * 256 + r
<1>4. /\ p < 0 => h = p + 256 /\ h \in 128..255
      /\ ~(p < 0) => h = p /\ h \in 0..127
  BY <1>3
<1>5. h \in 0..255
  BY <1>3, <1>4
<1> HIDE DEF h
<1>6. (y \div 32768) % 2 = IF h < 128 THEN 0 ELSE 1
  BY <1>5
<1>7. 2^15 = 32768
  OBVIOUS
<1> HIDE DEF y
<1>8. Bit(y, 15) = IF h < 128 THEN 0 ELSE 1
  BY <1>6, <1>7 DEF Bit
<1>9. TM16Value(r, h) = IF Bit(y, 15) = 1 THEN y - 65536 ELSE y
  BY DEF TM16Value, y
<1>10. TM16Value(r, h) = x
  <2>1. CASE p < 0
    <3>1. Bit(y, 15) = 1 /\ y = 256 * p + 65536 + r
      BY <1>3, <1>4, <1>8, <2>1 DEF y
    <3>2. QED
      BY <1>2, <1>9, <3>1
  <2>2. CASE ~(p < 0)
    <3>1. Bit(y, 15) = 0 /\ y = 256 * p + r
      BY <1>3, <1>4, <1>8, <2>2 DEF y
    <3>2. QED
      BY <1>2, <1>9, <3>1
  <2>3. QED
    BY <2>1, <2>2
<1>11. QED
  BY <1>2, <1>5, <1>10 DEF h

\* The two octets of a TM16
LEMMA TM16Octets ==
  ASSUME NEW value, value = NoTM \/ value \in Int16
  PROVE  /\ TM16Low(value) \in 0..255 /\ TM16High(value) \in 0..255
         /\ TM16Value(TM16Low(value), TM16High(value)) = TMNValue(value)
         /\ TMNValue(value) \in Int
<1> DEFINE x == TMNValue(value)
<1>1. x \in Int /\ x >= -32768 /\ x <= 32767
  <2>1. CASE value = NoTM
    BY <2>1 DEF TMNValue
  <2>2. CASE value \in Int16 /\ value # NoTM
    BY <2>2, Int16Bounds DEF TMNValue
  <2>3. QED
    BY <2>1, <2>2
<1> HIDE DEF x
<1>2. /\ x % 256 \in 0..255 /\ (x \div 256) % 256 \in 0..255
      /\ TM16Value(x % 256, (x \div 256) % 256) = x
  BY <1>1, TwosComplement
<1>3. QED
  BY <1>1, <1>2 DEF TM16Low, TM16High, x

\* The octet of the validities of a TM16
LEMMA TM16Octet ==
  ASSUME NEW i1 \in 0..1, NEW i2 \in 0..1
  PROVE  LET o == i1 + 4 * i2
         IN o \in 0..255 /\ Bit(o, 7) = 0 /\ Bit(o, 0) = i1 /\ Bit(o, 2) = i2
<1> DEFINE o == i1 + 4 * i2
<1>1. o \in 0..255
  OBVIOUS
<1>2. (o \div 128) % 2 = 0
  OBVIOUS
<1>3. (o \div 1) % 2 = i1
  OBVIOUS
<1>4. (o \div 4) % 2 = i2
  OBVIOUS
<1>5. 2^0 = 1 /\ 2^2 = 4 /\ 2^7 = 128
  OBVIOUS
<1> HIDE DEF o
<1>6. QED
  BY <1>1, <1>2, <1>3, <1>4, <1>5 DEF o, Bit

\* A TM16
LEMMA TM16IsDecoded ==
  ASSUME NEW adr \in 0..255, NEW tm, TMIn(tm, Int16)
  PROVE  Decodes(TM16(adr, tm))
<1> DEFINE L(i) == TM16Low(tm[i])
           H(i) == TM16High(tm[i])
           I(i) == Invalid(tm[i])
           q == I(1) + 4 * I(2)
           d == <<adr, L(1), H(1), L(2), H(2), q>>
           m == TM16(adr, tm)
<1>1. \A i \in 1..2 : /\ L(i) \in 0..255 /\ H(i) \in 0..255 /\ I(i) \in 0..1
                      /\ TM16Value(L(i), H(i)) = TMNValue(tm[i]) /\ TMNValue(tm[i]) \in Int
  <2>1. \A i \in 1..2 : tm[i] = NoTM \/ tm[i] \in Int16
    BY DEF TMIn
  <2>2. \A i : I(i) \in 0..1
    BY DEF Invalid
  <2>3. QED
    BY <2>1, <2>2, TM16Octets
<1>2. m.type = "TMN" /\ m.data = d /\ m.points = {TMPoint(adr + 2 * i - 2, tm[i]) : i \in 1..2}
  BY DEF TM16, Message
<1> HIDE DEF L, H, I
<1>3. /\ L(1) \in 0..255 /\ H(1) \in 0..255 /\ L(2) \in 0..255 /\ H(2) \in 0..255
      /\ I(1) \in 0..1 /\ I(2) \in 0..1
  BY <1>1
<1>4. q \in 0..255 /\ Bit(q, 7) = 0 /\ Bit(q, 0) = I(1) /\ Bit(q, 2) = I(2)
  BY <1>3, TM16Octet
<1> HIDE DEF q
<1>5. d \in Octets
  BY <1>3, <1>4 DEF Octets
<1>6. d[1] = adr /\ d[2] = L(1) /\ d[3] = H(1) /\ d[4] = L(2) /\ d[5] = H(2) /\ d[6] = q
  OBVIOUS
<1> HIDE DEF d, m
<1> DEFINE Read(i) == Entry("TM", d[1] + 2 * i, TM16Value(d[2 + 2 * i], d[3 + 2 * i]), Bit(d[6], 2 * i))
           Stated(i) == TMPoint(adr + 2 * i - 2, tm[i])
<1>7. Read(0) = TMPoint(adr, tm[1]) /\ Read(1) = TMPoint(adr + 2, tm[2])
  BY <1>1, <1>4, <1>6 DEF TMPoint, I
<1>8. Stated(1) = TMPoint(adr, tm[1]) /\ Stated(2) = TMPoint(adr + 2, tm[2])
  <2>1. adr + 2 * 1 - 2 = adr /\ adr + 2 * 2 - 2 = adr + 2
    OBVIOUS
  <2>2. QED
    BY <2>1
<1> HIDE DEF Read, Stated
<1>9. {Read(i) : i \in 0..1} = {Read(0), Read(1)} /\ {Stated(i) : i \in 1..2} = {Stated(1), Stated(2)}
  OBVIOUS
<1>10. TM16Entries(d) = m.points
  BY <1>2, <1>7, <1>8, <1>9 DEF TM16Entries, Read, Stated
<1>11. Entries(m) = m.points
  BY <1>2, <1>4, <1>6, <1>10 DEF Entries, TMNEntries
<1>12. TMPoint(adr, tm[1]) \in AllEntries /\ TMPoint(adr + 2, tm[2]) \in AllEntries
  <2>1. adr \in Nat /\ adr + 2 \in Nat /\ TMNValue(tm[1]) \in Int /\ TMNValue(tm[2]) \in Int
    BY <1>1
  <2>2. QED
    BY <2>1, TMPointTypes
<1>13. m.points \subseteq AllEntries
  BY <1>2, <1>8, <1>9, <1>12 DEF Stated
<1>14. QED
  BY <1>2, <1>5, <1>11, <1>13 DEF Decodes, m

---------------------------------------------------------------------------
(* The addresses that a TSCG adds to those received                         *)

HasLabel(ad0, i) == getLabel(conf, "TS", TSCGAddress(ad0, i)) # NoLabel

\* One turn of the loop of m_handleTSCG
Received(f, n, d) ==
  IF n = 0 THEN <<>>
  ELSE IF HasLabel(d[1], n - 1) THEN Append(f[n - 1], TSCGAddress(d[1], n - 1)) ELSE f[n - 1]

\* The loop of m_handleTSCG computes a value after each bit.
LEMMA ReceivedIsDefined ==
  ASSUME NEW d
  PROVE  \E f : f = [n \in 0..16 |-> Received(f, n, d)] /\ AddressesReceived(d) = f[16]
<1> DEFINE L(f, n) == Received(f, n, d)
           F == CHOOSE f : f = [n \in 0..16 |-> L(f, n)]
           H == {m \in Nat : \E f : f = [n \in 0..m |-> L(f, n)]}
<1>1. \A f, g : L(f, 0) = L(g, 0)
  BY DEF Received
<1>2. \A f, g, n : n # 0 /\ f[n - 1] = g[n - 1] => L(f, n) = L(g, n)
  BY Zenon DEF Received
<1>3. AddressesReceived(d) = F[16]
  BY Zenon DEF AddressesReceived, Received, HasLabel
<1> HIDE DEF L
<1>4. 0 \in H
  <2> DEFINE g == [n \in 0..0 |-> L(<<>>, n)]
  <2>1. g = [n \in 0..0 |-> L(g, n)]
    BY <1>1
  <2>2. QED
    BY <2>1
<1>5. ASSUME NEW m \in 0..15, m \in H PROVE m + 1 \in H
  <2>1. PICK f : f = [n \in 0..m |-> L(f, n)]
    BY <1>5
  <2> DEFINE g == [n \in 0..(m + 1) |-> IF n = m + 1 THEN L(f, n) ELSE f[n]]
  <2>2. m \in Nat /\ m + 1 \in Nat
    OBVIOUS
  <2>3. \A n \in 0..m : f[n] = L(f, n)
    BY <2>1
  <2>4. ASSUME NEW n \in 0..(m + 1) PROVE g[n] = L(g, n)
    <3>1. n # 0 => n - 1 \in 0..m /\ g[n - 1] = f[n - 1]
      BY <2>2
    <3>2. L(f, n) = L(g, n)
      BY <1>1, <1>2, <3>1
    <3>3. n # m + 1 => n \in 0..m
      BY <2>2
    <3>4. g[n] = IF n = m + 1 THEN L(f, n) ELSE f[n]
      OBVIOUS
    <3>5. QED
      BY <2>3, <3>2, <3>3, <3>4
  <2>5. g = [n \in 0..(m + 1) |-> L(g, n)]
    BY <2>4
  <2>6. QED
    BY <2>2, <2>5
<1>6. 16 \in H
  <2>1. H \in SUBSET Nat
    OBVIOUS
  <2> HIDE DEF H
  <2>2. \A n \in 0..(16 - 1) : n \in H => n + 1 \in H
    BY <1>5
  <2>3. \A n \in 0..16 : n \in H
    BY <1>4, <2>1, <2>2, UpTo
  <2>4. QED
    BY <2>3
<1>7. F = [n \in 0..16 |-> L(F, n)]
  <2>1. \E f : f = [n \in 0..16 |-> L(f, n)]
    BY <1>6
  <2>2. QED
    BY <2>1, Zenon
<1>8. QED
  BY <1>3, <1>7 DEF L

\* A sequence of the labelled addresses among the first n, the highest at last
IsReceived(r, n, ad0) ==
  /\ r \in Seq(Nat)
  /\ r = <<>> => \A i \in 0..(n - 1) : ~HasLabel(ad0, i)
  /\ r # <<>> => \E i \in 0..(n - 1) : /\ HasLabel(ad0, i) /\ Last(r) = TSCGAddress(ad0, i)
                                       /\ \A j \in 0..(n - 1) : HasLabel(ad0, j) => j <= i

LEMMA LastOfAppend ==
  ASSUME NEW S, NEW s \in Seq(S), NEW x \in S
  PROVE  Append(s, x) \in Seq(S) /\ Append(s, x) # <<>> /\ Last(Append(s, x)) = x
  BY DEF Last

LEMMA AddressTypesOfTSCG ==
  ASSUME NEW ad0 \in Nat, NEW i \in 0..15
  PROVE  TSCGAddress(ad0, i) \in Nat
<1>1. i \div 8 \in 0..1 /\ i % 8 \in 0..7
  OBVIOUS
<1>2. QED
  BY <1>1 DEF TSCGAddress

\* A TSCG adds its labelled addresses, the highest at last.
LEMMA ReceivedFacts ==
  ASSUME NEW d, d[1] \in Nat
  PROVE  IsReceived(AddressesReceived(d), 16, d[1])
<1> DEFINE ad0 == d[1]
<1>1. PICK f : f = [n \in 0..16 |-> Received(f, n, d)] /\ AddressesReceived(d) = f[16]
  BY ReceivedIsDefined
<1> DEFINE H == {n \in Nat : n <= 16 => IsReceived(f[n], n, ad0)}
<1>2. 0 \in H
  <2>1. f[0] = <<>>
    BY <1>1 DEF Received
  <2>2. <<>> \in Seq(Nat) /\ \A i : i \notin 0..(0 - 1)
    OBVIOUS
  <2>3. IsReceived(f[0], 0, ad0)
    BY <2>1, <2>2, Zenon DEF IsReceived
  <2>4. QED
    BY <2>3
<1>3. ASSUME NEW n \in 0..15, n \in H PROVE n + 1 \in H
  <2>1. n \in Nat /\ n + 1 \in 0..16 /\ n + 1 # 0 /\ (n + 1) - 1 = n
    OBVIOUS
  <2>2. IsReceived(f[n], n, ad0)
    BY <1>3
  <2>3. f[n + 1] = IF HasLabel(ad0, n) THEN Append(f[n], TSCGAddress(ad0, n)) ELSE f[n]
    <3>1. f[n + 1] = Received(f, n + 1, d)
      BY <1>1, <2>1
    <3>2. QED
      BY <2>1, <3>1 DEF Received
  <2>4. \A i : i \in 0..((n + 1) - 1) <=> i \in 0..(n - 1) \/ i = n
    BY <2>1
  <2> HIDE DEF ad0
  <2>5. CASE HasLabel(ad0, n)
    <3>1. TSCGAddress(ad0, n) \in Nat
      BY AddressTypesOfTSCG DEF ad0
    <3>2. f[n + 1] \in Seq(Nat) /\ f[n + 1] # <<>> /\ Last(f[n + 1]) = TSCGAddress(ad0, n)
      BY <2>2, <2>3, <2>5, <3>1, LastOfAppend DEF IsReceived
    <3>3. \A j \in 0..((n + 1) - 1) : j <= n
      OBVIOUS
    <3>4. IsReceived(f[n + 1], n + 1, ad0)
      BY <2>4, <2>5, <3>2, <3>3 DEF IsReceived
    <3>5. QED
      BY <2>1, <3>4
  <2>6. CASE ~HasLabel(ad0, n)
    <3>1. f[n + 1] = f[n]
      BY <2>3, <2>6
    <3>2. IsReceived(f[n + 1], n + 1, ad0)
      BY <2>2, <2>4, <2>6, <3>1, Zenon DEF IsReceived
    <3>3. QED
      BY <2>1, <3>2
  <2>7. QED
    BY <2>5, <2>6
<1>4. 16 \in H
  <2>1. H \in SUBSET Nat
    OBVIOUS
  <2> HIDE DEF H
  <2>2. \A n \in 0..(16 - 1) : n \in H => n + 1 \in H
    BY <1>3
  <2>3. \A n \in 0..16 : n \in H
    BY <1>2, <2>1, <2>2, UpTo
  <2>4. QED
    BY <2>3
<1>5. QED
  BY <1>1, <1>4

---------------------------------------------------------------------------
(* The addresses of a frame                                                 *)

LEMMA TSCGAddresses ==
  ASSUME NEW ad0 \in Nat, NEW i \in 0..15
  PROVE  TSCGAddress(ad0, i) = IF i < 8 THEN 10 * ad0 + i ELSE 10 * ad0 + 10 + (i - 8)
<1>1. i < 8 => i \div 8 = 0 /\ i % 8 = i
  OBVIOUS
<1>2. ~(i < 8) => i \div 8 = 1 /\ i % 8 = i - 8
  OBVIOUS
<1>3. QED
  BY <1>1, <1>2 DEF TSCGAddress

\* The addresses of the loop are those of the frame, in increasing order.
LEMMA FrameOfTSCG ==
  ASSUME NEW ad0 \in Nat
  PROVE  /\ \A i \in 0..15 : TSCGAddress(ad0, i) \in FrameAddresses(ad0)
         /\ \A a \in FrameAddresses(ad0) : \E i \in 0..15 : a = TSCGAddress(ad0, i)
         /\ \A i, j \in 0..15 : i <= j => TSCGAddress(ad0, i) <= TSCGAddress(ad0, j)
<1>1. ASSUME NEW i \in 0..15 PROVE TSCGAddress(ad0, i) \in FrameAddresses(ad0)
  <2>1. CASE i < 8
    <3>1. TSCGAddress(ad0, i) = 10 * ad0 + i
      BY <2>1, TSCGAddresses
    <3>2. 10 * ad0 + i \in (10 * ad0)..(10 * ad0 + 7)
      BY <2>1
    <3>3. QED
      BY <3>1, <3>2 DEF FrameAddresses
  <2>2. CASE ~(i < 8)
    <3>1. TSCGAddress(ad0, i) = 10 * ad0 + 10 + (i - 8)
      BY <2>2, TSCGAddresses
    <3>2. 10 * ad0 + 10 + (i - 8) \in (10 * ad0 + 10)..(10 * ad0 + 17)
      BY <2>2
    <3>3. QED
      BY <3>1, <3>2 DEF FrameAddresses
  <2>3. QED
    BY <2>1, <2>2
<1>2. ASSUME NEW a \in FrameAddresses(ad0) PROVE \E i \in 0..15 : a = TSCGAddress(ad0, i)
  <2>1. CASE a \in (10 * ad0)..(10 * ad0 + 7)
    <3>1. a - 10 * ad0 \in 0..15 /\ a - 10 * ad0 < 8 /\ a = 10 * ad0 + (a - 10 * ad0)
      BY <2>1
    <3>2. QED
      BY <3>1, TSCGAddresses
  <2>2. CASE a \in (10 * ad0 + 10)..(10 * ad0 + 17)
    <3> DEFINE i == a - 10 * ad0 - 2
    <3>1. i \in 0..15 /\ ~(i < 8) /\ a = 10 * ad0 + 10 + (i - 8)
      BY <2>2
    <3> HIDE DEF i
    <3>2. a = TSCGAddress(ad0, i)
      BY <3>1, TSCGAddresses
    <3>3. QED
      BY <3>1, <3>2
  <2>3. QED
    BY <2>1, <2>2 DEF FrameAddresses
<1>3. ASSUME NEW i \in 0..15, NEW j \in 0..15, i <= j PROVE TSCGAddress(ad0, i) <= TSCGAddress(ad0, j)
  <2>1. /\ TSCGAddress(ad0, i) = IF i < 8 THEN 10 * ad0 + i ELSE 10 * ad0 + 10 + (i - 8)
        /\ TSCGAddress(ad0, j) = IF j < 8 THEN 10 * ad0 + j ELSE 10 * ad0 + 10 + (j - 8)
    BY TSCGAddresses
  <2>2. (IF i < 8 THEN 10 * ad0 + i ELSE 10 * ad0 + 10 + (i - 8))
          <= (IF j < 8 THEN 10 * ad0 + j ELSE 10 * ad0 + 10 + (j - 8))
    BY <1>3
  <2>3. QED
    BY <2>1, <2>2
<1>4. QED
  BY <1>1, <1>2, <1>3

\* What the tables hold: pairs, whose numbers do not exceed lastTSAddr
LEMMA KeyFacts ==
  ASSUME ConfInv, is_complete(conf)
  PROVE  /\ conf.lastTSAddr \in Nat
         /\ \A key \in DOMAIN conf.msg_list : /\ key = <<key[1], key[2]>>
                                              /\ key[2] \in Nat /\ key[2] <= conf.lastTSAddr
         /\ conf.lastTSAddr = 0 \/ \E key \in DOMAIN conf.msg_list : key[2] = conf.lastTSAddr
<1>1. Tables(conf, data, Len(data.datapoints))
  BY ConfFacts
<1>2. \A datapoint : \A key \in Keys(datapoint) : key = <<key[1], key[2]>>
  <2>1. \A p : Key(p) = <<Key(p)[1], Key(p)[2]>>
    BY DEF Key
  <2>2. QED
    BY <2>1 DEF Keys
<1>3. \A key \in DOMAIN conf.msg_list : key = <<key[1], key[2]>>
  BY <1>1, <1>2 DEF Tables
<1>4. /\ conf.lastTSAddr \in Nat /\ \A key \in DOMAIN conf.msg_list : key[2] \in 0..conf.lastTSAddr
      /\ conf.lastTSAddr = 0 \/ \E key \in DOMAIN conf.msg_list : key[2] = conf.lastTSAddr
  BY <1>1 DEF Tables
<1>5. \A key \in DOMAIN conf.msg_list : key[2] \in Nat /\ key[2] <= conf.lastTSAddr
  BY <1>4
<1>6. QED
  BY <1>3, <1>4, <1>5

\* The expected addresses of a frame are those that the loop finds labelled.
LEMMA ExpectedAreLabelled ==
  ASSUME ConfInv, is_complete(conf), NEW ad0 \in Nat
  PROVE  ExpectedOf(ad0) = {TSCGAddress(ad0, i) : i \in {i \in 0..15 : HasLabel(ad0, i)}}
<1>1. \A a : a \in ConfiguredTS <=> <<"TS", a>> \in DOMAIN conf.msg_list /\ conf.msg_list[<<"TS", a>>] # NoLabel
  BY KeyFacts DEF ConfiguredTS
<1>2. \A a : a \in ConfiguredTS <=> getLabel(conf, "TS", a) # NoLabel
  BY <1>1 DEF getLabel
<1>3. \A a : a \in ExpectedOf(ad0) <=> a \in ConfiguredTS /\ \E i \in 0..15 : a = TSCGAddress(ad0, i)
  BY FrameOfTSCG DEF ExpectedOf
<1>4. \A a : a \in ExpectedOf(ad0) <=> \E i \in {i \in 0..15 : HasLabel(ad0, i)} : a = TSCGAddress(ad0, i)
  BY <1>2, <1>3 DEF HasLabel
<1>5. QED
  BY <1>4

\* A TSCG ends with its highest expected address the addresses received.
LEMMA ReceivedAreExpected ==
  ASSUME ConfInv, is_complete(conf), NEW d, d[1] \in Nat
  PROVE  LET r == AddressesReceived(d)
         IN /\ r \in Seq(Nat)
            /\ r = <<>> => ExpectedOf(d[1]) = {}
            /\ r # <<>> => Last(r) \in ExpectedOf(d[1]) /\ \A a \in ExpectedOf(d[1]) : a <= Last(r)
<1> DEFINE r == AddressesReceived(d)
           ad0 == d[1]
<1>1. IsReceived(r, 16, ad0)
  BY ReceivedFacts
<1>2. ExpectedOf(ad0) = {TSCGAddress(ad0, i) : i \in {i \in 0..15 : HasLabel(ad0, i)}}
  BY ExpectedAreLabelled
<1>3. 0..(16 - 1) = 0..15
  OBVIOUS
<1> HIDE DEF r
<1>4. /\ r \in Seq(Nat)
      /\ r = <<>> => \A i \in 0..15 : ~HasLabel(ad0, i)
      /\ r # <<>> => \E i \in 0..15 : /\ HasLabel(ad0, i) /\ Last(r) = TSCGAddress(ad0, i)
                                      /\ \A j \in 0..15 : HasLabel(ad0, j) => j <= i
  BY <1>1, <1>3, Zenon DEF IsReceived
<1>5. r = <<>> => ExpectedOf(ad0) = {}
  BY <1>2, <1>4
<1>6. ASSUME r # <<>> PROVE Last(r) \in ExpectedOf(ad0) /\ \A a \in ExpectedOf(ad0) : a <= Last(r)
  <2>1. PICK i \in 0..15 : /\ HasLabel(ad0, i) /\ Last(r) = TSCGAddress(ad0, i)
                           /\ \A j \in 0..15 : HasLabel(ad0, j) => j <= i
    BY <1>4, <1>6
  <2>2. Last(r) \in ExpectedOf(ad0)
    BY <1>2, <2>1
  <2>3. ASSUME NEW a \in ExpectedOf(ad0) PROVE a <= Last(r)
    <3>1. PICK j \in 0..15 : HasLabel(ad0, j) /\ a = TSCGAddress(ad0, j)
      BY <1>2
    <3>2. j <= i
      BY <2>1, <3>1
    <3>3. QED
      BY <2>1, <3>1, <3>2, FrameOfTSCG
  <2>4. QED
    BY <2>2, <2>3
<1>7. QED
  BY <1>4, <1>5, <1>6 DEF r

---------------------------------------------------------------------------
(* The readings                                                             *)

\* What holds of the variables in every state: the configuration is that of the
\* documents, a message on its way is decoded to what the RTU stated, and there
\* is none, and no GI, without a complete configuration; the readings are the
\* points of the last message under the labels of the tables.
BaseInv ==
  /\ ConfInv
  /\ \A m \in coming : Decodes(m) /\ (m.type = "TSCG" => m.data[1] \in 0..254)
  /\ \A m, n \in coming : m = n
  /\ coming # {} \/ points # {} \/ gi_state # "none" => is_complete(conf)
  /\ points \subseteq AllEntries
  /\ readings = Readings(points)
  /\ m_gi_addresses_received \in Seq(Nat)
  /\ gi_left \in Seq(0..254)
  /\ gi_state \in {"none", "asked", "completed"}

LEMMA StationFacts ==
  /\ TSAddresses \in Seq(0..254) /\ Len(TSAddresses) \in Nat
  /\ \A i \in 1..Len(TSAddresses) : TSAddresses[i] \in 0..254
  /\ \A i, j \in 1..Len(TSAddresses) : i < j => TSAddresses[i] + 2 <= TSAddresses[j]
<1>1. /\ TSAddresses \in Seq(0..254)
      /\ \A i, j \in DOMAIN TSAddresses : i < j => TSAddresses[i] + 2 <= TSAddresses[j]
  BY StationAssumption DEF StationAssumption
<1>2. QED
  BY <1>1, LenProperties, ElementOfSeq

\* An acknowledged command is read as the order was.
LEMMA OrdersAreDecoded ==
  ASSUME NEW order \in Orders
  PROVE  Decodes(Acknowledgement(order)) /\ Acknowledgement(order).type # "TSCG"
<1>1. \/ order \in [typeid : {"TC"}, address : TCAddresses, value : 0..3, valid : 0..1]
      \/ order \in [typeid : {"TVC"}, address : 0..31, value : -127..127, valid : 0..1]
  BY StationAssumption DEF StationAssumption
<1>2. Acknowledgement(order).type # "TSCG"
  BY DEF Acknowledgement, Message
<1>3. CASE order \in [typeid : {"TC"}, address : TCAddresses, value : 0..3, valid : 0..1]
  <2>1. /\ order = Entry("TC", order.address, order.value, order.valid)
        /\ order.address \in TCAddresses /\ order.value \in 0..3 /\ order.valid \in 0..1
    BY <1>3 DEF Entry
  <2>2. PICK t \in 0..255, u \in 0..7 : order.address = 10 * t + u
    BY <2>1 DEF TCAddresses
  <2>3. order = Entry("TC", 10 * t + u, order.value, order.valid)
    BY <2>1, <2>2
  <2>4. QED
    BY <1>2, <2>1, <2>3, TCIsDecoded
<1>4. CASE order \in [typeid : {"TVC"}, address : 0..31, value : -127..127, valid : 0..1]
  BY <1>2, <1>4, TVCIsDecoded
<1>5. QED
  BY <1>1, <1>3, <1>4

\* A message that is decoded right keeps the invariant when it is sent.
LEMMA SendKeepsBase ==
  ASSUME BaseInv, NEW m, Sends(m), Decodes(m), m.type = "TSCG" => m.data[1] \in 0..254,
         gi_left' \in Seq(0..254)
  PROVE  BaseInv'
<1>1. /\ is_complete(conf) /\ coming' = {m} /\ readings' = {} /\ points' = {}
      /\ UNCHANGED <<conf, stack, data, m_gi_addresses_received, gi_state>>
  BY DEF Sends, configVars
<1>2. ConfInv'
  BY <1>1 DEF BaseInv, ConfInv
<1>3. readings' = Readings(points)'
  BY <1>1 DEF Readings
<1>4. is_complete(conf)'
  BY <1>1
<1>5. QED
  BY <1>1, <1>2, <1>3, <1>4 DEF BaseInv

\* The same of a message that is handled
LEMMA HandleKeepsBase ==
  ASSUME BaseInv, NEW m \in coming, readings' = Readings(Entries(m)), points' = m.points, coming' = {},
         UNCHANGED configVars, m_gi_addresses_received' \in Seq(Nat), gi_left' \in Seq(0..254),
         gi_state' \in {"none", "asked", "completed"}
  PROVE  BaseInv'
<1>1. Decodes(m) /\ is_complete(conf)
  BY DEF BaseInv
<1>2. conf' = conf /\ stack' = stack /\ data' = data
  BY DEF configVars
<1>3. ConfInv'
  BY <1>2 DEF BaseInv, ConfInv
<1>4. readings' = Readings(points)' /\ points' \subseteq AllEntries
  BY <1>1, <1>2 DEF Decodes, Readings, Label
<1>5. is_complete(conf)'
  BY <1>1, <1>2
<1>6. QED
  BY <1>3, <1>4, <1>5 DEF BaseInv

LEMMA BaseInit == Init => BaseInv
<1> SUFFICES ASSUME Init PROVE BaseInv
  OBVIOUS
<1>1. ConfInv
  BY DocumentsAssumption DEF DocumentsAssumption, Init, ConfInv
<1>2. readings = Readings(points)
  BY DEF Init, Readings
<1>3. <<>> \in Seq(Nat) /\ <<>> \in Seq(0..254)
  OBVIOUS
<1>4. QED
  BY <1>1, <1>2, <1>3 DEF Init, BaseInv

LEMMA BaseStep == BaseInv /\ [Next]_vars => BaseInv'
<1> SUFFICES ASSUME BaseInv, [Next]_vars PROVE BaseInv'
  OBVIOUS
<1>0. /\ TSAddresses \in Seq(0..254)
      /\ TSStates \subseteq [0..15 -> TSState]
      /\ TMAddresses \subseteq 0..255
  BY StationAssumption DEF StationAssumption
<1>1. gi_left \in Seq(0..254) /\ m_gi_addresses_received \in Seq(Nat) /\ gi_state \in {"none", "asked", "completed"}
  BY DEF BaseInv
<1>2. CASE HandleOther
  <2>1. PICK m \in coming : readings' = Readings(Entries(m)) /\ points' = m.points
    BY <1>2 DEF HandleOther, HandleMessage
  <2>2. coming' = {} /\ UNCHANGED configVars /\ m_gi_addresses_received' \in Seq(Nat)
    BY <1>1, <1>2 DEF HandleOther, HandleMessage
  <2>3. gi_left' \in Seq(0..254) /\ gi_state' \in {"none", "asked", "completed"}
    BY <1>0, <1>1, <1>2 DEF HandleOther, StartGI
  <2>4. QED
    BY <2>1, <2>2, <2>3, HandleKeepsBase
<1>3. CASE HandleTSCG
  <2>1. PICK m \in coming :
          /\ m.type = "TSCG"
          /\ readings' = Readings(Entries(m)) /\ points' = m.points
          /\ LET received == m_gi_addresses_received \o AddressesReceived(m.data)
             IN IF EndsGI(received)
                  THEN gi_state' = "completed" /\ m_gi_addresses_received' = <<>>
                  ELSE m_gi_addresses_received' = received /\ UNCHANGED gi_state
    BY <1>3 DEF HandleTSCG
  <2>2. m.data[1] \in Nat /\ is_complete(conf) /\ ConfInv
    <3>1. m.data[1] \in 0..254 /\ is_complete(conf) /\ ConfInv
      BY <2>1 DEF BaseInv
    <3>2. QED
      BY <3>1
  <2>3. AddressesReceived(m.data) \in Seq(Nat)
    BY <2>2, ReceivedAreExpected
  <2>4. m_gi_addresses_received' \in Seq(Nat)
    <3>1. <<>> \in Seq(Nat)
      OBVIOUS
    <3>2. m_gi_addresses_received \o AddressesReceived(m.data) \in Seq(Nat)
      BY <1>1, <2>3, ConcatProperties
    <3>3. QED
      BY <2>1, <3>1, <3>2
  <2>5. gi_state' \in {"none", "asked", "completed"} /\ coming' = {} /\ UNCHANGED configVars /\ gi_left' \in Seq(0..254)
    BY <1>1, <1>3, <2>1 DEF HandleTSCG
  <2>6. QED
    BY <2>1, <2>4, <2>5, HandleKeepsBase
<1>4. CASE AskGI
  <2>1. /\ is_complete(conf) /\ gi_state' = "asked" /\ gi_left' = TSAddresses /\ readings' = {} /\ points' = {}
        /\ UNCHANGED <<conf, stack, data, coming, m_gi_addresses_received>>
    BY <1>4 DEF AskGI, StartGI, configVars
  <2>2. ConfInv' /\ is_complete(conf)'
    BY <2>1 DEF BaseInv, ConfInv
  <2>3. readings' = Readings(points)'
    BY <2>1 DEF Readings
  <2>4. QED
    BY <1>0, <2>1, <2>2, <2>3 DEF BaseInv
<1>5. ASSUME NEW imported \in Imported, Reconfigure(imported) PROVE BaseInv'
  <2>1. /\ coming' = {} /\ readings' = {} /\ points' = {} /\ gi_left' = <<>> /\ gi_state' = "none"
        /\ m_gi_addresses_received' = m_gi_addresses_received
    BY <1>5 DEF Reconfigure
  <2>2. ConfInv'
    BY <1>5 DEF Reconfigure, Imported, ConfInv
  <2>3. readings' = Readings(points)'
    BY <2>1 DEF Readings
  <2>4. <<>> \in Seq(0..254)
    OBVIOUS
  <2>5. QED
    BY <1>1, <2>1, <2>2, <2>3, <2>4 DEF BaseInv
<1>6. ASSUME NEW ts \in TSStates, RTUSendTSCG(ts) PROVE BaseInv'
  <2>1. gi_left # <<>> /\ gi_left' = Tail(gi_left) /\ Sends(TSCG(Head(gi_left), ts))
    BY <1>6 DEF RTUSendTSCG
  <2>2. Head(gi_left) \in 0..254 /\ gi_left' \in Seq(0..254)
    BY <1>1, <2>1, HeadTailProperties
  <2>3. Decodes(TSCG(Head(gi_left), ts))
    BY <1>0, <2>2, TSCGIsDecoded
  <2>4. TSCG(Head(gi_left), ts).data[1] = Head(gi_left)
    BY DEF TSCG, Message
  <2>5. QED
    BY <2>1, <2>2, <2>3, <2>4, SendKeepsBase
<1>7. ASSUME NEW ad0 \in ToSet(TSAddresses), NEW i \in 0..15, NEW state \in {ts[i] : ts \in TSStates},
             RTUSendTSCE(ad0, i, state)
      PROVE  BaseInv'
  <2> DEFINE point == TSPoint(ad0, i, state)
             m == Message("TSCE", <<point.address \div 10,
                                    32 * (point.address % 10) + 16 * state.valid + 8 * state.value, 0, 0>>, {point})
  <2>1. ad0 \in 0..254 /\ state \in TSState
    <3>1. PICK k \in 1..Len(TSAddresses) : ad0 = TSAddresses[k]
      BY <1>0, LenProperties DEF ToSet
    <3>2. PICK ts \in [0..15 -> TSState] : state = ts[i]
      BY <1>0
    <3>3. state \in TSState
      BY <3>2
    <3>4. ad0 \in 0..254
      BY <3>1, StationFacts
    <3>5. QED
      BY <3>3, <3>4
  <2>2. Decodes(m)
    BY <2>1, TSCEIsDecoded
  <2>3. Sends(m) /\ gi_left' = gi_left
    BY <1>7 DEF RTUSendTSCE
  <2>4. m.type # "TSCG"
    BY DEF Message
  <2> HIDE DEF m
  <2>5. QED
    BY <1>1, <2>2, <2>3, <2>4, SendKeepsBase
<1>8. ASSUME NEW adr \in TMAddresses, NEW tm \in TMStates, RTUSendTM(adr, tm) PROVE BaseInv'
  <2>1. adr \in 0..255 /\ gi_left' = gi_left
    BY <1>0, <1>8 DEF RTUSendTM
  <2>2. PICK m : Sends(m) /\ Decodes(m) /\ m.type # "TSCG"
    <3>1. TM4(adr, tm).type # "TSCG" /\ TM8(adr, tm).type # "TSCG" /\ TM16(adr, tm).type # "TSCG"
      BY DEF TM4, TM8, TM16, Message
    <3>2. CASE TMIn(tm, -127..127) /\ Sends(TM4(adr, tm))
      BY <2>1, <3>1, <3>2, TM4IsDecoded
    <3>3. CASE TMIn(tm, 0..255) /\ Sends(TM8(adr, tm))
      BY <2>1, <3>1, <3>3, TM8IsDecoded
    <3>4. CASE TMIn(tm, Int16) /\ Sends(TM16(adr, tm))
      BY <2>1, <3>1, <3>4, TM16IsDecoded
    <3>5. QED
      BY <1>8, <3>2, <3>3, <3>4 DEF RTUSendTM
  <2>3. QED
    BY <1>1, <2>1, <2>2, SendKeepsBase
<1>9. ASSUME NEW order \in Orders, RTUAcknowledges(order) PROVE BaseInv'
  <2>1. Sends(Acknowledgement(order)) /\ gi_left' = gi_left
    BY <1>9 DEF RTUAcknowledges
  <2>2. QED
    BY <1>1, <2>1, OrdersAreDecoded, SendKeepsBase
<1>10. CASE UNCHANGED vars
  <2>1. UNCHANGED <<conf, stack, data, coming, readings, points, m_gi_addresses_received, gi_left, gi_state>>
    BY <1>10 DEF vars, configVars, giVars
  <2>2. ConfInv' /\ readings' = Readings(points)'
    BY <2>1 DEF BaseInv, ConfInv, Readings, Label
  <2>3. QED
    BY <2>1, <2>2 DEF BaseInv
<1>11. QED
  BY <1>2, <1>3, <1>4, <1>5, <1>6, <1>7, <1>8, <1>9, <1>10 DEF Next

LEMMA BaseInvariant == Spec => []BaseInv
  BY BaseInit, BaseStep, PTL DEF Spec

\* Under the tables of a complete configuration the labels are those of the
\* documents.
LEMMA BaseReadings == BaseInv => ReadingsAreRight
<1> SUFFICES ASSUME BaseInv PROVE ReadingsAreRight
  OBVIOUS
<1>1. readings = {[label |-> Label(e), entry |-> e] : e \in {e \in points : Label(e) # NoLabel}}
  BY DEF BaseInv, Readings
<1>2. ASSUME NEW e \in points PROVE Label(e) = ConfiguredLabel(e.typeid, e.address)
  <2>1. ConfInv /\ is_complete(conf) /\ e \in AllEntries
    BY DEF BaseInv
  <2>2. e.typeid \in Types
    BY <2>1 DEF AllEntries
  <2>3. QED
    BY <2>1, <2>2, LabelsAreConfigured DEF Label
<1>3. {e \in points : Label(e) # NoLabel} = {p \in points : ConfiguredLabel(p.typeid, p.address) # NoLabel}
  BY <1>2
<1> DEFINE Told == {p \in points : ConfiguredLabel(p.typeid, p.address) # NoLabel}
<1>4. \A x : x \in readings <=> x \in {[label |-> ConfiguredLabel(p.typeid, p.address), entry |-> p] : p \in Told}
  BY <1>1, <1>2, <1>3
<1>5. QED
  BY <1>4 DEF ReadingsAreRight

LEMMA BaseTypes == BaseInv => TypeOK
<1> SUFFICES ASSUME BaseInv PROVE TypeOK
  OBVIOUS
<1>1. DOMAIN conf = DOMAIN NewConf /\ stack \in Stacks /\ data \in Datas
  BY ConfFacts DEF BaseInv, SameStack, ConfInv
<1>2. \A m \in coming : m.data \in Octets /\ m.points \subseteq AllEntries
  BY DEF BaseInv, Decodes
<1>3. readings \subseteq [label : STRING, entry : AllEntries]
  <2>1. readings = {[label |-> Label(e), entry |-> e] : e \in {e \in points : Label(e) # NoLabel}}
    BY DEF BaseInv, Readings
  <2>2. ASSUME NEW e \in points, Label(e) # NoLabel PROVE Label(e) \in STRING /\ e \in AllEntries
    <3>1. ConfInv /\ is_complete(conf) /\ e \in AllEntries
      BY DEF BaseInv
    <3>2. QED
      BY <2>2, <3>1, LabelTypes DEF Label
  <2>3. QED
    BY <2>1, <2>2
<1>4. QED
  BY <1>1, <1>2, <1>3 DEF TypeOK, BaseInv

\* For any documents, frames, states and orders every variable has its type, and
\* the messages are made of octets.
THEOREM ReadingsTypeCorrectness == Spec => []TypeOK
  BY BaseInvariant, BaseTypes, PTL

\* Fledge is told exactly what the RTU stated, under the labels of the imported
\* document: for any documents, look-up after import finds the label of the last
\* mention, and each encoding of m_handle_message is decoded without loss.
THEOREM ReadingsCorrectness == Spec => []ReadingsAreRight
  BY BaseInvariant, BaseReadings, PTL

\* A complete configuration has in every field the value of its document or the
\* default, for any documents, and a station that its frames can name, or 64.
THEOREM ConfigurationCorrectness == Spec => []CompleteIsAsConfigured
<1>1. BaseInv => CompleteIsAsConfigured
  BY CompleteConfigurations DEF BaseInv
<1>2. QED
  BY <1>1, BaseInvariant, PTL

---------------------------------------------------------------------------
(* The end of a general interrogation                                       *)

\* TSCG of the GI that were sent
Sent == Len(TSAddresses) - Len(gi_left)

TSCGComing == \E m \in coming : m.type = "TSCG"

\* The message is the last TSCG that was sent, or one of an earlier GI, of which
\* nothing is expected.
InOrder(m) ==
  \/ Sent >= 1 /\ m.data[1] = TSAddresses[Sent]
  \/ gi_state = "asked" /\ Sent = 0 /\ m_gi_addresses_received = <<>> /\ ExpectedOf(m.data[1]) = {}

\* The addresses received end with the last one only while they are those of an
\* earlier configuration and the first TSCG, which hides them, is not handled.
GIInv ==
  /\ Len(gi_left) <= Len(TSAddresses) /\ \A i \in 1..Len(gi_left) : gi_left[i] = TSAddresses[Sent + i]
  /\ gi_state = "none" => gi_left = <<>> /\ ~TSCGComing
  /\ gi_state = "completed" => m_gi_addresses_received = <<>>
  /\ \A m \in coming : m.type = "TSCG" => InOrder(m)
  /\ gi_state = "asked" /\ EndsGI(m_gi_addresses_received) =>
       (Sent = 0 /\ ~TSCGComing) \/ (Sent = 1 /\ TSCGComing)
  /\ EndHasLastTS

\* The TSCG that holds the last address is not handled while a GI runs.
AskedInv ==
  gi_state = "asked" =>
    \A ad0 \in ToSet(TSAddresses) : getLastTSAddress(conf) \in ExpectedOf(ad0) => ad0 \in Outstanding

\* The last of two parts joined
LEMMA LastOfConcat ==
  ASSUME NEW s \in Seq(Nat), NEW r \in Seq(Nat)
  PROVE  /\ r # <<>> => s \o r # <<>> /\ Last(s \o r) = Last(r)
         /\ r = <<>> => s \o r = s
<1>1. ASSUME r # <<>> PROVE s \o r # <<>> /\ Last(s \o r) = Last(r)
  <2>1. Len(s) \in Nat /\ Len(r) \in Nat /\ Len(r) # 0 /\ Len(s \o r) = Len(s) + Len(r)
    BY <1>1, LenProperties, EmptySeq, ConcatProperties
  <2>2. (s \o r)[Len(s) + Len(r)] = r[Len(r)]
    BY <2>1, ConcatProperties
  <2>3. s \o r # <<>>
    BY <2>1
  <2>4. QED
    BY <2>1, <2>2, <2>3 DEF Last
<1>2. ASSUME r = <<>> PROVE s \o r = s
  BY <1>2, ConcatEmptySeq
<1>3. QED
  BY <1>1, <1>2

\* Nothing is expected of the frames above the last address.
LEMMA LastFrame ==
  ASSUME ConfInv, is_complete(conf), NEW ad0 \in Nat, NEW ad1 \in Nat, ad0 + 2 <= ad1,
         getLastTSAddress(conf) \in ExpectedOf(ad0)
  PROVE  ExpectedOf(ad1) = {}
<1> DEFINE last == conf.lastTSAddr
<1>1. last \in Nat /\ \A a \in ConfiguredTS : a \in Nat /\ a <= last
  BY KeyFacts DEF ConfiguredTS
<1>2. last \in FrameAddresses(ad0)
  BY DEF ExpectedOf, getLastTSAddress
<1>3. last <= 10 * ad0 + 17
  BY <1>1, <1>2 DEF FrameAddresses
<1>4. \A a \in FrameAddresses(ad1) : a \in Nat => a > last
  BY <1>1, <1>3 DEF FrameAddresses
<1>5. \A a \in ConfiguredTS : a \notin FrameAddresses(ad1)
  <2>1. ASSUME NEW a \in ConfiguredTS, a \in FrameAddresses(ad1) PROVE FALSE
    <3>1. a \in Nat /\ a <= last /\ a > last
      BY <1>1, <1>4, <2>1
    <3>2. QED
      BY <1>1, <3>1
  <2>2. QED
    BY <2>1
<1>6. QED
  BY <1>5 DEF ExpectedOf

\* The first frame of a complete configuration adds addresses.
LEMMA FirstFrameAdds ==
  ASSUME FirstFrameIsConfigured, ConfInv, is_complete(conf), NEW d, d[1] = TSAddresses[1], d[1] \in Nat
  PROVE  AddressesReceived(d) # <<>>
<1>1. \E i \in 0..15 : HasLabel(d[1], i)
  <2>1. stack \in Stacks /\ data \in Datas /\ conf = HNZConf(stack, data)
    BY DEF ConfInv
  <2>2. is_complete(HNZConf(stack, data)) =>
          \E i \in 0..15 : getLabel(HNZConf(stack, data), "TS", TSCGAddress(TSAddresses[1], i)) # NoLabel
    BY <2>1, Zenon DEF FirstFrameIsConfigured
  <2>3. \E i \in 0..15 : getLabel(conf, "TS", TSCGAddress(TSAddresses[1], i)) # NoLabel
    BY <2>1, <2>2
  <2>4. QED
    BY <2>3 DEF HasLabel
<1>2. ExpectedOf(d[1]) # {}
  <2>1. PICK i \in 0..15 : HasLabel(d[1], i)
    BY <1>1
  <2>2. TSCGAddress(d[1], i) \in ExpectedOf(d[1])
    BY <2>1, ExpectedAreLabelled
  <2>3. QED
    BY <2>2
<1>3. QED
  BY <1>2, ReceivedAreExpected

---------------------------------------------------------------------------
(* What each step does to the messages of the GI                            *)

\* A step that leaves the configuration, the GI and its messages alone
LEMMA GIUnchanged ==
  ASSUME UNCHANGED <<conf, gi_left, gi_state, m_gi_addresses_received>>,
         \A m : m.type = "TSCG" => (m \in coming' <=> m \in coming)
  PROVE  (GIInv => GIInv') /\ (AskedInv => AskedInv')
<1>1. Sent' = Sent /\ (TSCGComing' <=> TSCGComing) /\ EndsGI(m_gi_addresses_received)' = EndsGI(m_gi_addresses_received)
  BY DEF Sent, TSCGComing, EndsGI, getLastTSAddress
<1>2. \A ad0 : ExpectedOf(ad0)' = ExpectedOf(ad0)
  BY DEF ExpectedOf, ConfiguredTS
<1>3. \A m : m.type = "TSCG" => (m \in coming' <=> m \in coming)
  OBVIOUS
<1>4. Outstanding' = Outstanding
  BY <1>3 DEF Outstanding
<1>5. \A m : InOrder(m)' <=> InOrder(m)
  BY <1>1, <1>2 DEF InOrder
<1>6. EndHasLastTS => EndHasLastTS'
  BY <1>2, <1>4 DEF EndHasLastTS, LastIsReceived
<1>7. GIInv => GIInv'
  BY <1>1, <1>3, <1>5, <1>6 DEF GIInv
<1>8. AskedInv => AskedInv'
  BY <1>2, <1>4 DEF AskedInv, getLastTSAddress
<1>9. QED
  BY <1>7, <1>8

\* The messages of the RTU but TSCG
LEMMA OtherSent ==
  ASSUME NEW m, Sends(m), m.type # "TSCG", gi_left' = gi_left
  PROVE  (GIInv => GIInv') /\ (AskedInv => AskedInv')
<1>1. UNCHANGED <<conf, gi_left, gi_state, m_gi_addresses_received>>
  BY DEF Sends, configVars
<1>2. coming = {} /\ coming' = {m}
  BY DEF Sends
<1>3. QED
  BY <1>1, <1>2, GIUnchanged

\* A GI starts.
LEMMA GIStarts ==
  ASSUME gi_state # "asked", StartGI, UNCHANGED <<conf, m_gi_addresses_received>>, coming' \subseteq coming
  PROVE  (BaseInv /\ GIInv => GIInv') /\ AskedInv'
<1>1. gi_left' = TSAddresses /\ gi_state' = "asked" /\ conf' = conf /\ m_gi_addresses_received' = m_gi_addresses_received
  BY DEF StartGI
<1>2. Sent' = 0
  BY <1>1, StationFacts DEF Sent
<1>3. \A ad0 : ExpectedOf(ad0)' = ExpectedOf(ad0)
  BY <1>1 DEF ExpectedOf, ConfiguredTS
<1>4. AskedInv'
  BY <1>1 DEF AskedInv, Outstanding
<1>5. ASSUME BaseInv, GIInv PROVE GIInv'
  <2>1. \A m \in coming : m.type = "TSCG" =>
          gi_state = "completed" /\ m_gi_addresses_received = <<>> /\ ExpectedOf(m.data[1]) = {}
    <3>1. ASSUME NEW m \in coming, m.type = "TSCG"
          PROVE  gi_state = "completed" /\ m_gi_addresses_received = <<>> /\ ExpectedOf(m.data[1]) = {}
      <4>1. gi_state = "completed" /\ m_gi_addresses_received = <<>>
        BY <1>5, <3>1 DEF BaseInv, GIInv, TSCGComing
      <4>2. m.data[1] \in Outstanding
        BY <3>1 DEF Outstanding
      <4>3. QED
        BY <1>5, <4>1, <4>2 DEF GIInv, EndHasLastTS, LastIsReceived
    <3>2. QED
      BY <3>1
  <2>2. \A m \in coming' : m.type = "TSCG" => InOrder(m)'
    BY <1>1, <1>2, <1>3, <2>1 DEF InOrder
  <2>3. EndsGI(m_gi_addresses_received)' => ~TSCGComing'
    BY <1>1, <2>1 DEF TSCGComing, EndsGI
  <2>4. /\ Len(gi_left') <= Len(TSAddresses)
        /\ \A i \in 1..Len(gi_left') : gi_left'[i] = TSAddresses[Sent' + i]
    BY <1>1, <1>2, StationFacts
  <2>5. QED
    BY <1>1, <1>2, <2>2, <2>3, <2>4 DEF GIInv, EndHasLastTS
<1>6. QED
  BY <1>4, <1>5

\* A TSCG is sent.
LEMMA GISends ==
  ASSUME BaseInv, NEW ts, RTUSendTSCG(ts)
  PROVE  (GIInv => GIInv') /\ (AskedInv => AskedInv')
<1>0. PICK m : m = TSCG(Head(gi_left), ts)
  OBVIOUS
<1>1. gi_left # <<>> /\ gi_left' = Tail(gi_left) /\ Sends(m)
  BY <1>0 DEF RTUSendTSCG
<1>2. m.type = "TSCG" /\ m.data[1] = Head(gi_left)
  BY <1>0 DEF TSCG, Message
<1>3. /\ coming = {} /\ coming' = {m}
      /\ UNCHANGED <<conf, gi_state, m_gi_addresses_received>>
  BY <1>1 DEF Sends, configVars
<1>4. /\ gi_left \in Seq(0..254) /\ Len(gi_left) \in Nat /\ Len(gi_left) # 0
      /\ Len(gi_left') = Len(gi_left) - 1 /\ Head(gi_left) = gi_left[1]
      /\ \A i \in 1..Len(gi_left') : gi_left'[i] = gi_left[i + 1]
  <2>1. gi_left \in Seq(0..254)
    BY DEF BaseInv
  <2>2. QED
    BY <1>1, <2>1, HeadTailProperties, LenProperties, EmptySeq
<1>5. \A ad0 : ExpectedOf(ad0)' = ExpectedOf(ad0)
  BY <1>3 DEF ExpectedOf, ConfiguredTS
<1>6. Outstanding' = Outstanding
  <2>1. ToSet(gi_left) = {gi_left[i] : i \in 1..Len(gi_left)} /\ ToSet(gi_left') = {gi_left'[i] : i \in 1..Len(gi_left')}
    <3>1. DOMAIN gi_left = 1..Len(gi_left) /\ DOMAIN gi_left' = 1..Len(gi_left')
      BY <1>1, <1>4, HeadTailProperties, LenProperties
    <3>2. QED
      BY <3>1 DEF ToSet
  <2>2. \A i \in 1..Len(gi_left) : i # 1 => i - 1 \in 1..Len(gi_left') /\ (i - 1) + 1 = i
    BY <1>4
  <2>3. \A i \in 1..Len(gi_left') : i + 1 \in 1..Len(gi_left)
    BY <1>4
  <2>4. \A x : x \in ToSet(gi_left) <=> x = Head(gi_left) \/ x \in ToSet(gi_left')
    <3>1. ASSUME NEW i \in 1..Len(gi_left) PROVE gi_left[i] = Head(gi_left) \/ gi_left[i] \in ToSet(gi_left')
      <4>1. i # 1 => gi_left'[i - 1] = gi_left[i]
        BY <1>4, <2>2
      <4>2. QED
        BY <1>4, <2>1, <2>2, <4>1
    <3>2. Head(gi_left) \in ToSet(gi_left)
      <4>1. 1 \in 1..Len(gi_left)
        BY <1>4
      <4>2. QED
        BY <1>4, <2>1, <4>1
    <3>3. ASSUME NEW i \in 1..Len(gi_left') PROVE gi_left'[i] \in ToSet(gi_left)
      BY <1>4, <2>1, <2>3
    <3>4. QED
      BY <2>1, <3>1, <3>2, <3>3
  <2>5. QED
    BY <1>2, <1>3, <2>4 DEF Outstanding
<1>7. AskedInv => AskedInv'
  BY <1>3, <1>5, <1>6 DEF AskedInv, getLastTSAddress
<1>8. ASSUME GIInv PROVE GIInv'
  <2>1. Len(gi_left) <= Len(TSAddresses) /\ \A i \in 1..Len(gi_left) : gi_left[i] = TSAddresses[Sent + i]
    BY <1>8 DEF GIInv
  <2>2. Sent \in Nat /\ Sent' = Sent + 1
    BY <1>4, <2>1, StationFacts DEF Sent
  <2>3. \A i \in 1..Len(gi_left') : gi_left'[i] = TSAddresses[Sent' + i]
    <3>1. ASSUME NEW i \in 1..Len(gi_left') PROVE gi_left'[i] = TSAddresses[Sent' + i]
      <4>1. i + 1 \in 1..Len(gi_left) /\ Sent + (i + 1) = Sent' + i
        BY <1>4, <2>2
      <4>2. QED
        BY <1>4, <2>1, <4>1
    <3>2. QED
      BY <3>1
  <2>4. InOrder(m)'
    <3>1. 1 \in 1..Len(gi_left) /\ Sent' >= 1
      BY <1>4, <2>2
    <3>2. m.data[1] = TSAddresses[Sent']
      BY <1>2, <1>4, <2>1, <2>2, <3>1
    <3>3. QED
      BY <3>1, <3>2 DEF InOrder
  <2>5. gi_state # "none" /\ TSCGComing' /\ ~TSCGComing
    BY <1>1, <1>2, <1>3, <1>8 DEF GIInv, TSCGComing
  <2>6. gi_state = "asked" /\ EndsGI(m_gi_addresses_received)' => Sent' = 1
    <3>1. EndsGI(m_gi_addresses_received)' = EndsGI(m_gi_addresses_received)
      BY <1>3 DEF EndsGI, getLastTSAddress
    <3>2. QED
      BY <1>8, <2>2, <2>5, <3>1 DEF GIInv
  <2>7. EndHasLastTS'
    BY <1>3, <1>5, <1>6, <1>8 DEF GIInv, EndHasLastTS, LastIsReceived
  <2>8. Len(gi_left') <= Len(TSAddresses)
    BY <1>4, <2>1, StationFacts
  <2>9. gi_state' = "completed" => m_gi_addresses_received' = <<>>
    BY <1>3, <1>8 DEF GIInv
  <2>10. QED
    BY <1>3, <2>3, <2>4, <2>5, <2>6, <2>7, <2>8, <2>9 DEF GIInv
<1>9. QED
  BY <1>7, <1>8

\* A TSCG is handled: the GI ends with it, or goes on.
LEMMA TSCGHandled ==
  ASSUME BaseInv, HandleTSCG
  PROVE  \E m \in coming :
           LET r == AddressesReceived(m.data)
               received == m_gi_addresses_received \o r
           IN /\ m.type = "TSCG" /\ m.data[1] \in Nat
              /\ Outstanding = Outstanding' \cup {m.data[1]} /\ Outstanding' = ToSet(gi_left)
              /\ r \in Seq(Nat)
              /\ r = <<>> => received = m_gi_addresses_received /\ ExpectedOf(m.data[1]) = {}
              /\ r # <<>> => /\ received # <<>> /\ Last(received) \in ExpectedOf(m.data[1])
                             /\ \A a \in ExpectedOf(m.data[1]) : a <= Last(received)
              /\ IF EndsGI(received)
                   THEN gi_state' = "completed" /\ m_gi_addresses_received' = <<>>
                   ELSE m_gi_addresses_received' = received /\ gi_state' = gi_state
<1>1. PICK m \in coming :
        /\ m.type = "TSCG"
        /\ LET received == m_gi_addresses_received \o AddressesReceived(m.data)
           IN IF EndsGI(received)
                THEN gi_state' = "completed" /\ m_gi_addresses_received' = <<>>
                ELSE m_gi_addresses_received' = received /\ UNCHANGED gi_state
  BY DEF HandleTSCG
<1> DEFINE r == AddressesReceived(m.data)
           received == m_gi_addresses_received \o r
<1>2. /\ ConfInv /\ is_complete(conf) /\ m.data[1] \in 0..254 /\ coming = {m}
      /\ m_gi_addresses_received \in Seq(Nat)
  <2>1. ConfInv /\ is_complete(conf) /\ m_gi_addresses_received \in Seq(Nat)
    BY <1>1 DEF BaseInv
  <2>2. m.data[1] \in 0..254
    BY <1>1 DEF BaseInv
  <2>3. coming = {m}
    <3>1. \A n \in coming : n = m
      BY DEF BaseInv
    <3>2. QED
      BY <3>1
  <2>4. QED
    BY <2>1, <2>2, <2>3
<1>3. m.data[1] \in Nat
  <2>1. m.data[1] \in 0..254
    BY <1>2
  <2>2. \A n \in 0..254 : n \in Nat
    OBVIOUS
  <2>3. QED
    BY <2>1, <2>2
<1>4. Outstanding' = ToSet(gi_left)
  BY DEF HandleTSCG, Outstanding
<1>5. Outstanding = Outstanding' \cup {m.data[1]}
  BY <1>1, <1>2, <1>4 DEF Outstanding
<1>6. /\ r \in Seq(Nat)
      /\ r = <<>> => ExpectedOf(m.data[1]) = {}
      /\ r # <<>> => Last(r) \in ExpectedOf(m.data[1]) /\ \A a \in ExpectedOf(m.data[1]) : a <= Last(r)
  BY <1>2, <1>3, ReceivedAreExpected
<1> HIDE DEF r
<1>7. /\ r = <<>> => received = m_gi_addresses_received
      /\ r # <<>> => received # <<>> /\ Last(received) = Last(r)
  BY <1>2, <1>6, LastOfConcat
<1>8. IF EndsGI(received)
        THEN gi_state' = "completed" /\ m_gi_addresses_received' = <<>>
        ELSE m_gi_addresses_received' = received /\ gi_state' = gi_state
  BY <1>1 DEF r
<1> HIDE DEF received
<1>9. /\ r = <<>> => received = m_gi_addresses_received /\ ExpectedOf(m.data[1]) = {}
      /\ r # <<>> => /\ received # <<>> /\ Last(received) \in ExpectedOf(m.data[1])
                     /\ \A a \in ExpectedOf(m.data[1]) : a <= Last(received)
  BY <1>6, <1>7
<1>10. QED
  BY <1>1, <1>3, <1>4, <1>5, <1>6, <1>8, <1>9 DEF r, received

\* The TSCG that holds the last address ends the GI.
LEMMA HandleKeepsAsked ==
  ASSUME BaseInv, AskedInv, HandleTSCG
  PROVE  AskedInv'
<1> DEFINE last == getLastTSAddress(conf)
<1> SUFFICES ASSUME gi_state' = "asked",
                    NEW ad0 \in ToSet(TSAddresses), last' \in ExpectedOf(ad0)'
             PROVE  ad0 \in Outstanding'
  BY DEF AskedInv
<1>1. PICK m \in coming :
         LET r == AddressesReceived(m.data)
             received == m_gi_addresses_received \o r
         IN /\ m.type = "TSCG"
            /\ Outstanding = Outstanding' \cup {m.data[1]}
            /\ r = <<>> => ExpectedOf(m.data[1]) = {}
            /\ r # <<>> => /\ received # <<>> /\ Last(received) \in ExpectedOf(m.data[1])
                           /\ \A a \in ExpectedOf(m.data[1]) : a <= Last(received)
            /\ IF EndsGI(received) THEN gi_state' = "completed" ELSE gi_state' = gi_state
  BY TSCGHandled, Zenon
<1> DEFINE received == m_gi_addresses_received \o AddressesReceived(m.data)
<1>2. ~EndsGI(received) /\ gi_state = "asked"
  BY <1>1
<1>3. last \in ExpectedOf(ad0)
  BY DEF HandleTSCG, configVars, ExpectedOf, ConfiguredTS, getLastTSAddress
<1>4. ad0 \in Outstanding
  BY <1>2, <1>3 DEF AskedInv
<1>5. ad0 # m.data[1]
  <2>1. SUFFICES ASSUME ad0 = m.data[1] PROVE FALSE
    OBVIOUS
  <2>2. /\ received # <<>> /\ Last(received) \in ExpectedOf(ad0)
        /\ \A a \in ExpectedOf(ad0) : a <= Last(received)
    BY <1>1, <1>3, <2>1
  <2>3. last \in Nat /\ \A a \in ConfiguredTS : a \in Nat /\ a <= last
    BY <1>2, KeyFacts DEF BaseInv, ConfiguredTS, getLastTSAddress
  <2>4. Last(received) \in Nat /\ Last(received) <= last /\ last <= Last(received)
    BY <1>3, <2>2, <2>3 DEF ExpectedOf
  <2>5. Last(received) = last
    BY <2>3, <2>4
  <2>6. QED
    BY <1>2, <2>2, <2>5 DEF EndsGI
<1>6. QED
  BY <1>1, <1>4, <1>5

\* A GI ends with no frame left of which something is expected.
LEMMA HandleKeepsGI ==
  ASSUME FirstFrameIsConfigured, BaseInv, GIInv, HandleTSCG
  PROVE  GIInv'
<1> DEFINE last == getLastTSAddress(conf)
<1>1. PICK m \in coming :
         LET r == AddressesReceived(m.data)
             received == m_gi_addresses_received \o r
         IN /\ m.type = "TSCG" /\ m.data[1] \in Nat
            /\ Outstanding = Outstanding' \cup {m.data[1]} /\ Outstanding' = ToSet(gi_left)
            /\ r = <<>> => received = m_gi_addresses_received /\ ExpectedOf(m.data[1]) = {}
            /\ r # <<>> => received # <<>> /\ Last(received) \in ExpectedOf(m.data[1])
            /\ IF EndsGI(received)
                 THEN gi_state' = "completed" /\ m_gi_addresses_received' = <<>>
                 ELSE m_gi_addresses_received' = received /\ gi_state' = gi_state
  BY TSCGHandled, Zenon
<1> DEFINE r == AddressesReceived(m.data)
           received == m_gi_addresses_received \o r
<1> HIDE DEF r, received
<1>2. /\ m.type = "TSCG" /\ m.data[1] \in Nat
      /\ Outstanding = Outstanding' \cup {m.data[1]} /\ Outstanding' = ToSet(gi_left)
      /\ r = <<>> => received = m_gi_addresses_received /\ ExpectedOf(m.data[1]) = {}
      /\ r # <<>> => received # <<>> /\ Last(received) \in ExpectedOf(m.data[1])
      /\ IF EndsGI(received)
           THEN gi_state' = "completed" /\ m_gi_addresses_received' = <<>>
           ELSE m_gi_addresses_received' = received /\ gi_state' = gi_state
  BY <1>1, Zenon DEF r, received
<1>3. coming' = {} /\ gi_left' = gi_left /\ conf' = conf
  BY DEF HandleTSCG, configVars
<1>4. /\ ConfInv /\ is_complete(conf)
      /\ InOrder(m) /\ TSCGComing /\ gi_state \in {"asked", "completed"}
  BY <1>2 DEF BaseInv, GIInv, TSCGComing
<1>5. Sent' = Sent /\ ~TSCGComing' /\ \A ad0 : ExpectedOf(ad0)' = ExpectedOf(ad0)
  BY <1>3 DEF Sent, TSCGComing, ExpectedOf, ConfiguredTS
<1>6. /\ Len(gi_left') <= Len(TSAddresses)
      /\ \A i \in 1..Len(gi_left') : gi_left'[i] = TSAddresses[Sent' + i]
  BY <1>3, <1>5 DEF GIInv
<1>7. CASE EndsGI(received)
  <2>1. gi_state' = "completed" /\ m_gi_addresses_received' = <<>>
    BY <1>2, <1>7
  <2>2. r # <<>>
    <3>1. SUFFICES ASSUME r = <<>> PROVE FALSE
      OBVIOUS
    <3>2. EndsGI(m_gi_addresses_received) /\ m_gi_addresses_received # <<>>
      BY <1>2, <1>7, <3>1 DEF EndsGI
    <3>3. gi_state = "asked"
      BY <1>4, <3>2 DEF GIInv
    <3>4. Sent = 1
      BY <1>4, <3>2, <3>3 DEF GIInv
    <3>5. m.data[1] = TSAddresses[1]
      BY <1>4, <3>4 DEF InOrder
    <3>6. QED
      BY <1>2, <1>4, <3>1, <3>5, FirstFrameAdds DEF r
  <2>3. last \in ExpectedOf(m.data[1])
    BY <1>2, <1>7, <2>2 DEF EndsGI
  <2>4. Sent >= 1 /\ m.data[1] = TSAddresses[Sent]
    BY <1>4, <2>3 DEF InOrder
  <2>5. ASSUME NEW ad0 \in ToSet(gi_left) PROVE ExpectedOf(ad0) = {}
    <3>1. gi_left \in Seq(0..254) /\ Len(gi_left) \in Nat /\ DOMAIN gi_left = 1..Len(gi_left)
      BY LenProperties DEF BaseInv
    <3>2. PICK i \in 1..Len(gi_left) : ad0 = gi_left[i]
      BY <3>1 DEF ToSet
    <3>3. Len(gi_left) <= Len(TSAddresses) /\ ad0 = TSAddresses[Sent + i]
      BY <3>2 DEF GIInv
    <3>4. Sent \in 1..Len(TSAddresses) /\ Sent + i \in 1..Len(TSAddresses) /\ Sent < Sent + i
      BY <2>4, <3>1, <3>3, StationFacts DEF Sent
    <3>5. TSAddresses[Sent] + 2 <= TSAddresses[Sent + i] /\ TSAddresses[Sent + i] \in 0..254
      BY <3>4, StationFacts
    <3>6. ad0 \in Nat /\ m.data[1] + 2 <= ad0
      <4>1. ad0 \in 0..254 /\ m.data[1] + 2 <= ad0
        BY <2>4, <3>3, <3>5
      <4>2. \A n \in 0..254 : n \in Nat
        OBVIOUS
      <4>3. QED
        BY <4>1, <4>2
    <3>7. QED
      BY <1>2, <1>4, <2>3, <3>6, LastFrame
  <2>6. EndHasLastTS'
    BY <1>2, <1>5, <2>5 DEF EndHasLastTS, LastIsReceived
  <2>7. QED
    BY <1>3, <1>5, <1>6, <2>1, <2>6 DEF GIInv
<1>8. CASE ~EndsGI(received)
  <2>1. m_gi_addresses_received' = received /\ gi_state' = gi_state
    BY <1>2, <1>8
  <2>2. ~EndsGI(m_gi_addresses_received)'
    BY <1>3, <1>8, <2>1 DEF EndsGI, getLastTSAddress
  <2>3. EndHasLastTS'
    BY <1>2, <1>5, <2>1 DEF GIInv, EndHasLastTS, LastIsReceived
  <2>4. gi_state = "completed" => m_gi_addresses_received' = <<>>
    <3>1. ASSUME gi_state = "completed" PROVE m_gi_addresses_received' = <<>>
      <4>1. m_gi_addresses_received = <<>>
        BY <3>1 DEF GIInv
      <4>2. ExpectedOf(m.data[1]) = {}
        BY <1>2, <3>1 DEF GIInv, EndHasLastTS, LastIsReceived
      <4>3. r = <<>>
        BY <1>2, <4>2
      <4>4. QED
        BY <1>2, <2>1, <4>1, <4>3
    <3>2. QED
      BY <3>1
  <2>5. QED
    BY <1>3, <1>4, <1>5, <1>6, <2>1, <2>2, <2>3, <2>4 DEF GIInv
<1>9. QED
  BY <1>7, <1>8

LEMMA GIInit == Init => GIInv /\ AskedInv
<1> SUFFICES ASSUME Init PROVE GIInv /\ AskedInv
  OBVIOUS
<1>1. gi_left = <<>> /\ gi_state = "none" /\ coming = {}
  BY DEF Init
<1>2. Len(<<>>) = 0 /\ 0 <= Len(TSAddresses) /\ \A i : i \notin 1..0
  BY StationFacts
<1>3. QED
  BY <1>1, <1>2 DEF GIInv, AskedInv, TSCGComing, EndHasLastTS

\* The steps that do not depend on the first frame
LEMMA GIStepBut ==
  ASSUME BaseInv, [Next]_vars, ~HandleTSCG
  PROVE  (GIInv => GIInv') /\ (AskedInv => AskedInv')
<1>1. CASE HandleOther
  <2>1. PICK m \in coming : m.type # "TSCG"
    BY <1>1 DEF HandleOther, HandleMessage
  <2>2. coming' = {} /\ UNCHANGED <<conf, m_gi_addresses_received>>
    BY <1>1 DEF HandleOther, HandleMessage, configVars
  <2>3. \A n \in coming : n.type # "TSCG"
    BY <2>1 DEF BaseInv
  <2>4. CASE gi_state # "asked" /\ StartGI
    BY <2>2, <2>4, GIStarts
  <2>5. CASE UNCHANGED <<gi_left, gi_state>>
    BY <2>2, <2>3, <2>5, GIUnchanged
  <2>6. QED
    BY <1>1, <2>4, <2>5 DEF HandleOther
<1>2. CASE AskGI
  <2>1. gi_state # "asked" /\ StartGI /\ UNCHANGED <<conf, m_gi_addresses_received>> /\ coming' \subseteq coming
    BY <1>2 DEF AskGI, configVars
  <2>2. QED
    BY <2>1, GIStarts
<1>3. ASSUME NEW imported \in Imported, Reconfigure(imported) PROVE GIInv' /\ AskedInv'
  <2>1. coming' = {} /\ gi_left' = <<>> /\ gi_state' = "none"
    BY <1>3 DEF Reconfigure
  <2>2. Len(<<>>) = 0 /\ 0 <= Len(TSAddresses) /\ \A i : i \notin 1..0
    BY StationFacts
  <2>3. QED
    BY <2>1, <2>2 DEF GIInv, AskedInv, TSCGComing, EndHasLastTS
<1>4. ASSUME NEW ts \in TSStates, RTUSendTSCG(ts) PROVE (GIInv => GIInv') /\ (AskedInv => AskedInv')
  BY <1>4, GISends
<1>5. ASSUME NEW ad0 \in ToSet(TSAddresses), NEW i \in 0..15, NEW state \in {ts[i] : ts \in TSStates},
             RTUSendTSCE(ad0, i, state)
      PROVE  (GIInv => GIInv') /\ (AskedInv => AskedInv')
  <2>1. PICK m : Sends(m) /\ m.type # "TSCG" /\ gi_left' = gi_left
    BY <1>5 DEF RTUSendTSCE, Message
  <2>2. QED
    BY <2>1, OtherSent
<1>6. ASSUME NEW adr \in TMAddresses, NEW tm \in TMStates, RTUSendTM(adr, tm)
      PROVE  (GIInv => GIInv') /\ (AskedInv => AskedInv')
  <2>1. TM4(adr, tm).type # "TSCG" /\ TM8(adr, tm).type # "TSCG" /\ TM16(adr, tm).type # "TSCG"
    BY DEF TM4, TM8, TM16, Message
  <2>2. PICK m : Sends(m) /\ m.type # "TSCG" /\ gi_left' = gi_left
    BY <1>6, <2>1 DEF RTUSendTM
  <2>3. QED
    BY <2>2, OtherSent
<1>7. ASSUME NEW order \in Orders, RTUAcknowledges(order) PROVE (GIInv => GIInv') /\ (AskedInv => AskedInv')
  <2>1. Sends(Acknowledgement(order)) /\ gi_left' = gi_left
    BY <1>7 DEF RTUAcknowledges
  <2>2. QED
    BY <2>1, OrdersAreDecoded, OtherSent
<1>8. CASE UNCHANGED vars
  BY <1>8, GIUnchanged DEF vars, configVars, giVars
<1>9. QED
  BY <1>1, <1>2, <1>3, <1>4, <1>5, <1>6, <1>7, <1>8 DEF Next

\* A GI is taken as ended only when the TSCG with the last configured TS is
\* handled, also when addresses of an earlier configuration are left over, if the
\* first frame of every complete configuration holds a configured TS.
LEMMA GIInvariant == FirstFrameIsConfigured => (Spec => []GIInv)
<1> SUFFICES ASSUME FirstFrameIsConfigured PROVE Spec => []GIInv
  OBVIOUS
<1>1. Init => GIInv
  BY GIInit
<1>2. BaseInv /\ GIInv /\ [Next]_vars => GIInv'
  BY GIStepBut, HandleKeepsGI
<1>3. QED
  BY <1>1, <1>2, BaseInvariant, PTL DEF Spec

\* Whatever the first frame holds, a GI that runs has not handled the TSCG with
\* the last configured TS, when the highest address is that of a TS: the end of a
\* GI is never missed.
THEOREM EndIsNotMissed == Spec => []EndIsRecognised
<1>1. Init => AskedInv
  BY GIInit
<1>2. BaseInv /\ AskedInv /\ [Next]_vars => AskedInv'
  BY GIStepBut, HandleKeepsAsked
<1>3. BaseInv /\ AskedInv => EndIsRecognised
  <2>1. SUFFICES ASSUME BaseInv, AskedInv, HighestIsTS, gi_state = "asked" PROVE ~LastIsReceived
    BY DEF EndIsRecognised
  <2>2. PICK ad0 \in ToSet(TSAddresses) :
          \E top \in ExpectedOf(ad0) : \A key \in DOMAIN conf.msg_list : key[2] <= top
    BY <2>1 DEF HighestIsTS
  <2>3. PICK top \in ExpectedOf(ad0) : \A key \in DOMAIN conf.msg_list : key[2] <= top
    BY <2>2
  <2>4. ConfInv /\ is_complete(conf)
    BY <2>1 DEF BaseInv
  <2>5. top \in Nat /\ top <= conf.lastTSAddr
    BY <2>4, KeyFacts DEF ExpectedOf, ConfiguredTS
  <2>6. conf.lastTSAddr \in Nat /\ conf.lastTSAddr <= top
    <3>1. conf.lastTSAddr \in Nat
      BY <2>4, KeyFacts
    <3>2. CASE conf.lastTSAddr = 0
      BY <2>5, <3>1, <3>2
    <3>3. CASE conf.lastTSAddr # 0
      <4>1. PICK key \in DOMAIN conf.msg_list : key[2] = conf.lastTSAddr
        BY <2>4, <3>3, KeyFacts
      <4>2. QED
        BY <2>3, <3>1, <4>1
    <3>4. QED
      BY <3>2, <3>3
  <2>7. top = conf.lastTSAddr
    BY <2>5, <2>6
  <2>8. ad0 \in Outstanding
    BY <2>1, <2>7 DEF AskedInv, getLastTSAddress
  <2>9. QED
    BY <2>8 DEF LastIsReceived
<1>4. QED
  BY <1>1, <1>2, <1>3, BaseInvariant, PTL DEF Spec

\* A general interrogation ends with the message that holds the last configured
\* TS: it is not taken as ended before, and its end is not missed.
THEOREM GIEndsWithLastTS == FirstFrameIsConfigured => (Spec => []GIEndsAtLastTS)
<1> SUFFICES ASSUME FirstFrameIsConfigured PROVE Spec => []GIEndsAtLastTS
  OBVIOUS
<1>1. Spec => []GIInv
  BY GIInvariant
<1>2. GIInv => EndHasLastTS
  BY DEF GIInv
<1>3. EndHasLastTS /\ EndIsRecognised => GIEndsAtLastTS
  BY DEF GIEndsAtLastTS
<1>4. QED
  BY <1>1, <1>2, <1>3, EndIsNotMissed, PTL
=============================================================================
