------------------------ MODULE HNZConnectionProofs ------------------------
(***************************************************************************)
(* Proofs about HNZConnection, for any set of paths.  The invariant of the *)
(* connection (ConnectionInv) is preserved by every transition that does   *)
(* not ask for ACTIVE on a path that is CONNECTED already; that receivers  *)
(* never do, although they look transitions up without a lock, is          *)
(* PendingTransitionIsSafe.                                                *)
(***************************************************************************)
EXTENDS HNZConnection, TLAPS

---------------------------------------------------------------------------
(* The automaton                                                            *)

\* Only a SARM or an UA leads to CONNECTED, never from CONNECTED; any other
\* event of a path that is not CONNECTED or OUTPUT_CONNECTED resets it.
LEMMA TableFacts ==
  ASSUME NEW t \in m_protocolStateTransitionMap
  PROVE  /\ t.from \in ProtocolState
         /\ t.to \in ProtocolState
         /\ t.to = "CONNECTED" => t.from # "CONNECTED" /\ t.on \in {"RECEIVED_SARM", "RECEIVED_UA"}
         /\ t.from \in {"CONNECTION", "INPUT_CONNECTED"} /\ t.on \notin {"RECEIVED_SARM", "RECEIVED_UA"}
               => t.to = "CONNECTION"
  BY DEF m_protocolStateTransitionMap, Entry, ProtocolState

\* Every entry of the table asks for one connection state, the one that goes
\* with the protocol state it leads to.
LEMMA RequestFacts ==
  ASSUME NEW t \in m_protocolStateTransitionMap
  PROVE  /\ Requested(t) \in {"ACTIVE", "PENDING_HNZ", "DISCONNECTED"}
         /\ Requested(t) = "ACTIVE" <=> t.to = "CONNECTED"
         /\ Requested(t) = "DISCONNECTED" <=> t.to = "CONNECTION"
  BY DEF m_protocolStateTransitionMap, Entry, Requested, Calls

\* SARM and TCP_CNX_LOST have an entry in every state, UA in two states.
LEMMA ReceiverEventFacts ==
  ASSUME NEW s \in ProtocolState
  PROVE  /\ HasTransition(s, "RECEIVED_SARM")
         /\ HasTransition(s, "TCP_CNX_LOST")
         /\ HasTransition(s, "RECEIVED_UA") <=> s \in {"CONNECTION", "INPUT_CONNECTED"}
         /\ ~HasTransition(s, "none")
<1>1. ASSUME NEW e PROVE HasTransition(s, e) <=>
         \E t \in m_protocolStateTransitionMap : t.from = s /\ t.on = e
  BY DEF HasTransition
<1>2. QED
  BY <1>1 DEF m_protocolStateTransitionMap, Entry, ProtocolState

\* Looking up an event that has an entry gives an entry of the table.
LEMMA LookupFacts ==
  ASSUME NEW s \in ProtocolState, NEW e, HasTransition(s, e), NEW t \in TransitionsOf(s, e)
  PROVE  t \in m_protocolStateTransitionMap /\ t.from = s /\ t.on = e
  BY DEF TransitionsOf

---------------------------------------------------------------------------
(* The connection                                                           *)

ConnectionType ==
  /\ m_protocol_state \in [Paths -> ProtocolState]
  /\ m_connection_state \in [Paths -> ConnectionState]
  /\ m_last_connected \in [Paths -> BOOLEAN]
  /\ path_audit \in [Paths -> {"disconnected", "active", "passive"}]
  /\ m_active_path \in Paths \cup {NoPath}
  /\ m_first_input_connected \in Paths \cup {NoPath}
  /\ m_sendInitNexConnection \in BOOLEAN
  /\ m_connStatus \in {"NOT_CONNECTED", "STARTED"}
  /\ quality_timer \in BOOLEAN
  /\ connection_audit \in {"connected", "disconnected"}

FirstInputIsConnected ==
  \A p \in Paths : m_first_input_connected = p => m_protocol_state[p] \in InputStates

ConnectionInv ==
  /\ ConnectionType
  /\ ActivePathAgrees
  /\ StatesAgree
  /\ NoIdlePassivePath
  /\ ActiveMeansStarted
  /\ FirstInputIsConnected
  /\ AuditAgrees

\* The locked part of protocolStateTransition keeps the invariant of the
\* connection, provided that it does not take a CONNECTED path to CONNECTED.
LEMMA ApplyPreserves ==
  ASSUME ConnectionInv,
         NEW p \in Paths, NEW t \in m_protocolStateTransitionMap,
         t.to = "CONNECTED" => m_protocol_state[p] # "CONNECTED",
         applyTransition(p, t),
         UNCHANGED connection_is_running
  PROVE  ConnectionInv'
<1> USE PathsAssumption
<1> DEFINE r == Requested(t)
<1>1. /\ r \in {"ACTIVE", "PENDING_HNZ", "DISCONNECTED"}
      /\ r = "ACTIVE" <=> t.to = "CONNECTED"
      /\ r = "DISCONNECTED" <=> t.to = "CONNECTION"
      /\ t.to \in ProtocolState
  BY TableFacts, RequestFacts
<1>2. /\ m_protocol_state' = [m_protocol_state EXCEPT ![p] = t.to]
      /\ m_last_connected' = [m_last_connected EXCEPT ![p] = @ \/ r = "ACTIVE"]
      /\ updateFirstInputConnected(p, t.to)
      /\ IF r = "ACTIVE" THEN requestActive(p) ELSE requestOther(p, r)
  BY <1>1 DEF applyTransition, requestConnectionState
<1> HIDE DEF r
<1>3. FirstInputIsConnected' /\ (m_first_input_connected \in Paths \cup {NoPath})'
  BY <1>1, <1>2 DEF ConnectionInv, ConnectionType, FirstInputIsConnected, updateFirstInputConnected, InputStates
<1>4. \A new \in [Paths -> ConnectionState] : setConnectionStates(new) => AuditAgrees'
        /\ path_audit' \in [Paths -> {"disconnected", "active", "passive"}]
  BY DEF ConnectionInv, ConnectionType, setConnectionStates, AuditAgrees, Audit, Silent, ConnectionState
<1> DEFINE Rest == /\ m_connection_state' \in [Paths -> ConnectionState]
                   /\ path_audit' \in [Paths -> {"disconnected", "active", "passive"}]
                   /\ m_active_path' \in Paths \cup {NoPath}
                   /\ m_sendInitNexConnection' \in BOOLEAN
                   /\ m_connStatus' \in {"NOT_CONNECTED", "STARTED"}
                   /\ quality_timer' \in BOOLEAN
                   /\ connection_audit' \in {"connected", "disconnected"}
                   /\ ActivePathAgrees' /\ StatesAgree' /\ NoIdlePassivePath'
                   /\ ActiveMeansStarted' /\ AuditAgrees'
<1>5. CASE r = "ACTIVE" /\ m_active_path = NoPath
  <2> DEFINE new == [m_connection_state EXCEPT ![p] = "ACTIVE"]
  <2>1. /\ m_active_path' = p /\ setConnectionStates(new) /\ updateConnectionStatus("STARTED")
    BY <1>2, <1>5 DEF requestActive
  <2>2. new \in [Paths -> ConnectionState] /\ m_connection_state' = new
    BY <2>1 DEF ConnectionInv, ConnectionType, ConnectionState, setConnectionStates
  <2>3. Rest
    BY <1>1, <1>2, <1>4, <1>5, <2>1, <2>2
       DEF ConnectionInv, ConnectionType, updateConnectionStatus, TimerAfter, InitAfter, ActivePathAgrees, StatesAgree, Agree,
           NoIdlePassivePath, ActiveMeansStarted
  <2>4. QED
    BY <1>1, <1>2, <1>3, <2>3 DEF ConnectionInv, ConnectionType
<1>6. CASE r = "ACTIVE" /\ m_active_path # NoPath
  <2> DEFINE new == [m_connection_state EXCEPT ![p] = "PASSIVE"]
  <2>1. /\ setConnectionStates(new)
        /\ UNCHANGED <<m_active_path, m_sendInitNexConnection, statusVars>>
    BY <1>2, <1>6 DEF requestActive
  <2>2. new \in [Paths -> ConnectionState] /\ m_connection_state' = new
    BY <2>1 DEF ConnectionInv, ConnectionType, ConnectionState, setConnectionStates
  <2>3. m_active_path # p
    BY <1>1, <1>6 DEF ConnectionInv, ActivePathAgrees, StatesAgree, Agree
  <2>4. Rest
    BY <1>1, <1>2, <1>4, <1>6, <2>1, <2>2, <2>3
       DEF ConnectionInv, ConnectionType, statusVars, ActivePathAgrees, StatesAgree, Agree,
           NoIdlePassivePath, ActiveMeansStarted
  <2>5. QED
    BY <1>1, <1>2, <1>3, <2>4 DEF ConnectionInv, ConnectionType
<1>7. CASE r # "ACTIVE" /\ m_active_path # p
  <2> DEFINE new == [m_connection_state EXCEPT ![p] = r]
  <2>1. /\ setConnectionStates(new)
        /\ UNCHANGED <<m_active_path, m_sendInitNexConnection, statusVars>>
    BY <1>2, <1>7 DEF requestOther
  <2>2. new \in [Paths -> ConnectionState] /\ m_connection_state' = new
    BY <1>1, <2>1 DEF ConnectionInv, ConnectionType, ConnectionState, setConnectionStates
  <2>3. Rest
    BY <1>1, <1>2, <1>4, <1>7, <2>1, <2>2
       DEF ConnectionInv, ConnectionType, statusVars, ActivePathAgrees, StatesAgree, Agree,
           NoIdlePassivePath, ActiveMeansStarted
  <2>4. QED
    BY <1>1, <1>2, <1>3, <2>3 DEF ConnectionInv, ConnectionType
<1>8. CASE r # "ACTIVE" /\ m_active_path = p
  <2>1. tryActivateOtherPath(p, r)
    BY <1>2, <1>8 DEF requestOther
  <2>2. CASE connection_is_running /\ PassiveOthers(p) # {}
    <3>1. PICK q \in PassiveOthers(p) :
            /\ m_active_path' = q
            /\ setConnectionStates([m_connection_state EXCEPT ![p] = r, ![q] = "ACTIVE"])
            /\ updateConnectionStatus("STARTED")
      BY <2>1, <2>2 DEF tryActivateOtherPath
    <3> DEFINE new == [m_connection_state EXCEPT ![p] = r, ![q] = "ACTIVE"]
    <3>2. q \in Paths /\ q # p /\ m_connection_state[q] = "PASSIVE"
      BY DEF PassiveOthers
    <3>3. new \in [Paths -> ConnectionState] /\ m_connection_state' = new
      BY <1>1, <3>1, <3>2 DEF ConnectionInv, ConnectionType, ConnectionState, setConnectionStates
    <3>4. Rest
      BY <1>1, <1>2, <1>4, <1>8, <3>1, <3>2, <3>3
         DEF ConnectionInv, ConnectionType, updateConnectionStatus, TimerAfter, InitAfter, ActivePathAgrees, StatesAgree, Agree,
             NoIdlePassivePath, ActiveMeansStarted
    <3>5. QED
      BY <1>1, <1>2, <1>3, <3>4 DEF ConnectionInv, ConnectionType
  <2>3. CASE ~(connection_is_running /\ PassiveOthers(p) # {})
    <3> DEFINE new == [m_connection_state EXCEPT ![p] = r]
    <3>1. /\ m_active_path' = NoPath /\ setConnectionStates(new)
          /\ updateConnectionStatus("NOT_CONNECTED")
      BY <2>1, <2>3 DEF tryActivateOtherPath
    <3>2. new \in [Paths -> ConnectionState] /\ m_connection_state' = new
      BY <1>1, <3>1 DEF ConnectionInv, ConnectionType, ConnectionState, setConnectionStates
    <3>3. NoIdlePassivePath'
      BY <1>1, <1>8, <2>3, <3>1, <3>2 DEF ConnectionInv, ConnectionType, NoIdlePassivePath, PassiveOthers
    <3>4. Rest
      BY <1>1, <1>2, <1>4, <1>8, <3>1, <3>2, <3>3
         DEF ConnectionInv, ConnectionType, updateConnectionStatus, TimerAfter, InitAfter, ActivePathAgrees, StatesAgree, Agree,
             ActiveMeansStarted
    <3>5. QED
      BY <1>1, <1>2, <1>3, <3>4 DEF ConnectionInv, ConnectionType
  <2>4. QED
    BY <2>2, <2>3
<1>9. QED
  BY <1>5, <1>6, <1>7, <1>8

---------------------------------------------------------------------------
(* The threads                                                              *)

\* With the types, that only a closed connection is destroyed.
ThreadType ==
  /\ path_is_running \in [Paths -> BOOLEAN]
  /\ connection_thread \in [Paths -> BOOLEAN]
  /\ tcp_connected \in [Paths -> BOOLEAN]
  /\ connection_is_running \in BOOLEAN
  /\ hnz_is_running \in BOOLEAN
  /\ shutdown \in {"running", "flagging", "locking", "disconnecting", "joining", "stopped", "terminated"}
  /\ to_stop \in SUBSET Paths
  /\ shutdown \notin {"running", "flagging"} => ~connection_is_running

ReceiverInv ==
  /\ receiver \in [Paths -> ReceiverPositions]
  /\ PendingTransitionIsSafe

IInv == ConnectionInv /\ ThreadType /\ ReceiverInv

\* The positions a receiver is moved to are positions, and hold no transition
\* unless they say so.
LEMMA PositionFacts ==
  /\ \A pc \in ReceiverPCs : Idle(pc) \in ReceiverPositions /\ Idle(pc).pc = pc
  /\ \A pc \in ReceiverPCs, e \in ReceiverEvents :
       Calling(pc, e) \in ReceiverPositions /\ Calling(pc, e).pc = pc /\ Calling(pc, e).event = e
  /\ \A e \in ReceiverEvents, t \in Transitions :
       /\ Holding(e, t) \in ReceiverPositions
       /\ Holding(e, t).pc = "apply"
       /\ Holding(e, t).transition = t
<1>1. DefaultTransition("CONNECTION", "none") \in Transitions
  BY DEF Transitions, ProtocolState
<1>2. QED
  BY <1>1 DEF Idle, Calling, Holding, ReceiverPositions, ReceiverPCs

\* Moving receiver p to a position that is neither "lookup" nor "apply", while
\* no other path changes its protocol state, keeps the other receivers safe.
LEMMA MoveReceiver ==
  ASSUME IInv, NEW p \in Paths, NEW r \in ReceiverPositions,
         r.pc \notin {"lookup", "apply"},
         ReceiverTo(p, r),
         \A q \in Paths \ {p} : m_protocol_state'[q] = m_protocol_state[q]
  PROVE  ReceiverInv'
  BY DEF IInv, ReceiverInv, ReceiverTo, PendingTransitionIsSafe, ReceiverAt

\* A transition made by a thread that holds the lock, on an event that is not
\* a received frame, keeps the receiver of the path safe.
LEMMA OthersKeepReceivers ==
  ASSUME IInv, NEW p \in Paths, NEW t \in m_protocolStateTransitionMap,
         t.from = m_protocol_state[p],
         t.on \notin {"RECEIVED_SARM", "RECEIVED_UA"},
         m_protocol_state' = [m_protocol_state EXCEPT ![p] = t.to],
         UNCHANGED receiver
  PROVE  ReceiverInv'
<1>1. /\ t.to \in ProtocolState /\ t.to # "CONNECTED"
      /\ t.from \in {"CONNECTION", "INPUT_CONNECTED"} => t.to = "CONNECTION"
  BY TableFacts
<1>2. ASSUME NEW q \in Paths, receiver[q].pc = "lookup"
      PROVE  HasTransition(m_protocol_state'[q], receiver[q].event)
  <2>1. HasTransition(m_protocol_state[q], receiver[q].event)
        /\ m_protocol_state[q] \in ProtocolState /\ receiver[q].event \in ReceiverEvents \cup {"none"}
    BY <1>2 DEF IInv, ConnectionInv, ConnectionType, ReceiverInv, PendingTransitionIsSafe, ReceiverAt,
                ReceiverPositions
  <2>2. CASE q # p
    BY <2>1, <2>2 DEF IInv, ConnectionInv, ConnectionType
  <2>3. CASE q = p
    <3>1. m_protocol_state'[q] = t.to
      BY <2>3 DEF IInv, ConnectionInv, ConnectionType
    <3>2. CASE receiver[q].event = "RECEIVED_UA"
      <4>1. m_protocol_state[p] \in {"CONNECTION", "INPUT_CONNECTED"}
        BY <2>1, <2>3, <3>2, ReceiverEventFacts
      <4>2. t.to \in {"CONNECTION", "INPUT_CONNECTED"}
        BY <1>1, <4>1
      <4>3. QED
        BY <1>1, <3>1, <3>2, <4>2, ReceiverEventFacts
    <3>3. CASE receiver[q].event # "RECEIVED_UA"
      <4>1. receiver[q].event \in {"RECEIVED_SARM", "TCP_CNX_LOST"}
        BY <2>1, <3>3, ReceiverEventFacts DEF ReceiverEvents
      <4>2. HasTransition(t.to, "RECEIVED_SARM") /\ HasTransition(t.to, "TCP_CNX_LOST")
        BY <1>1, ReceiverEventFacts
      <4>3. QED
        BY <3>1, <4>1, <4>2
    <3>4. QED
      BY <3>2, <3>3
  <2>4. QED
    BY <2>2, <2>3
<1>3. ASSUME NEW q \in Paths, receiver[q].pc = "apply", receiver[q].transition.to = "CONNECTED"
      PROVE  m_protocol_state'[q] # "CONNECTED"
  BY <1>1, <1>3 DEF IInv, ConnectionInv, ConnectionType, ReceiverInv, PendingTransitionIsSafe, ReceiverAt
<1>4. QED
  BY <1>2, <1>3 DEF IInv, ReceiverInv, PendingTransitionIsSafe, ReceiverAt

\* A transition made under the lock keeps the whole invariant of connection
\* and receivers.
LEMMA LockedTransitionPreserves ==
  ASSUME IInv, NEW p \in Paths, NEW e, e \notin {"RECEIVED_SARM", "RECEIVED_UA"},
         HasTransition(m_protocol_state[p], e),
         NEW t \in TransitionsOf(m_protocol_state[p], e),
         applyTransition(p, t),
         UNCHANGED <<connection_is_running, receiver>>
  PROVE  ConnectionInv' /\ ReceiverInv'
<1>1. m_protocol_state[p] \in ProtocolState
  BY DEF IInv, ConnectionInv, ConnectionType
<1>2. t \in m_protocolStateTransitionMap /\ t.from = m_protocol_state[p] /\ t.on = e
  BY <1>1, LookupFacts
<1>3. ConnectionInv'
  <2>1. t.to # "CONNECTED"
    BY <1>2, TableFacts
  <2>2. QED
    BY <1>2, <2>1, ApplyPreserves DEF IInv
<1>4. ReceiverInv'
  <2>1. m_protocol_state' = [m_protocol_state EXCEPT ![p] = t.to]
    BY DEF applyTransition
  <2>2. QED
    BY <1>2, <2>1, OthersKeepReceivers
<1>5. QED
  BY <1>3, <1>4

\* A step that leaves the connection alone keeps its invariant; stopping the
\* connection only weakens it.
LEMMA ConnectionUnchanged ==
  ASSUME ConnectionInv,
         UNCHANGED <<pathVars, connectionVars, statusVars>>,
         connection_is_running' => connection_is_running
  PROVE  ConnectionInv'
  BY DEF ConnectionInv, ConnectionType, ActivePathAgrees, StatesAgree, NoIdlePassivePath, ActiveMeansStarted,
         FirstInputIsConnected, AuditAgrees, pathVars, connectionVars, statusVars

\* A step that leaves the receivers and the protocol states alone keeps the
\* pending transitions safe.
LEMMA ReceiversUnchanged ==
  ASSUME ReceiverInv, UNCHANGED <<receiver, m_protocol_state>>
  PROVE  ReceiverInv'
  BY DEF ReceiverInv, PendingTransitionIsSafe, ReceiverAt

\* The state after the constructors satisfies the invariant.
LEMMA InitEstablishes == Init => IInv
<1> SUFFICES ASSUME Init PROVE IInv
  OBVIOUS
<1> USE PathsAssumption
<1>1. ConnectionInv
  BY DEF Init, ConnectionInv, ConnectionType, ActivePathAgrees, StatesAgree, Agree, NoIdlePassivePath,
         ActiveMeansStarted, FirstInputIsConnected, AuditAgrees, Audit, ProtocolState,
         ConnectionState
<1>2. ThreadType
  BY DEF Init, ThreadType
<1>3. ReceiverInv
  <2>1. "enter" \in ReceiverPCs
    BY DEF ReceiverPCs
  <2>2. QED
    BY <2>1, PositionFacts DEF Init, ReceiverInv, PendingTransitionIsSafe, ReceiverAt
<1>4. QED
  BY <1>1, <1>2, <1>3 DEF IInv

\* The steps of the receive thread of a path.
LEMMA ReceivePreserves ==
  ASSUME IInv, NEW p \in Paths, ReceiveNext(p)
  PROVE  IInv'
<1> USE DEF IInv
<1>0. /\ m_protocol_state[p] \in ProtocolState
      /\ receiver[p] \in ReceiverPositions
      /\ receiver[p].event \in ReceiverEvents \cup {"none"}
  BY DEF ConnectionInv, ConnectionType, ReceiverInv, ReceiverPositions
<1>1. CASE EnterConnect(p)
  <2>1. ReceiverInv'
    BY <1>1, PositionFacts, MoveReceiver DEF EnterConnect, ReceiverPCs, pathVars
  <2>2. QED
    BY <1>1, <2>1, ConnectionUnchanged DEF EnterConnect, ThreadType, runVars, linkVars
<1>2. CASE ConnectServer(p)
  <2>1. PICK ok \in BOOLEAN :
          /\ tcp_connected' = [tcp_connected EXCEPT ![p] = ok]
          /\ ReceiverTo(p, Idle(IF ~(path_is_running[p] /\ connection_is_running) THEN "exited"
                               ELSE IF ok THEN "spawn" ELSE "connect"))
    BY <1>2 DEF ConnectServer
  <2>2. ReceiverInv'
    BY <1>2, <2>1, PositionFacts, MoveReceiver DEF ConnectServer, ReceiverPCs, pathVars
  <2>3. QED
    BY <1>2, <2>1, <2>2, ConnectionUnchanged DEF ConnectServer, ThreadType, runVars
<1>3. CASE SpawnConnectionThread(p)
  <2>1. ReceiverInv'
    BY <1>3, PositionFacts, MoveReceiver DEF SpawnConnectionThread, ReceiverPCs, pathVars
  <2>2. QED
    BY <1>3, <2>1, ConnectionUnchanged DEF SpawnConnectionThread, ThreadType, runVars
<1>4. CASE ReceiveLoop(p)
  <2>1. ReceiverInv'
    BY <1>4, PositionFacts, MoveReceiver DEF ReceiveLoop, ReceiverPCs, pathVars
  <2>2. QED
    BY <1>4, <2>1, ConnectionUnchanged DEF ReceiveLoop, ThreadType, runVars, linkVars
<1>5. CASE ReceiveNothing(p)
  <2>1. ReceiverInv'
    BY <1>5, PositionFacts, MoveReceiver DEF ReceiveNothing, ReceiverPCs, ReceiverEvents, pathVars
  <2>2. QED
    BY <1>5, <2>1, ConnectionUnchanged DEF ReceiveNothing, ThreadType, runVars, linkVars
<1>6. CASE \E event \in ReceiverEvents : ReceiveFrame(p, event)
  <2>1. ReceiverInv'
    BY <1>6, PositionFacts, MoveReceiver DEF ReceiveFrame, ReceiverPCs, pathVars
  <2>2. QED
    BY <1>6, <2>1, ConnectionUnchanged DEF ReceiveFrame, ThreadType, runVars, linkVars
<1>7. CASE FindTransition(p)
  <2>1. CASE HasTransition(m_protocol_state[p], receiver[p].event)
    <3>1. receiver[p].event \in ReceiverEvents
      BY <1>0, <2>1, ReceiverEventFacts
    <3> DEFINE r == Calling("lookup", receiver[p].event)
    <3>2. r \in ReceiverPositions /\ r.pc = "lookup" /\ r.event = receiver[p].event
      BY <3>1, PositionFacts DEF ReceiverPCs
    <3>3. receiver' = [receiver EXCEPT ![p] = r] /\ UNCHANGED m_protocol_state
      BY <1>7, <2>1 DEF FindTransition, ReceiverTo, pathVars
    <3> HIDE DEF r
    <3>4. ReceiverInv'
      BY <2>1, <3>2, <3>3 DEF ReceiverInv, PendingTransitionIsSafe, ReceiverAt
    <3>5. QED
      BY <1>7, <3>4, ConnectionUnchanged DEF FindTransition, ThreadType, runVars, linkVars
  <2>2. CASE ~HasTransition(m_protocol_state[p], receiver[p].event)
    <3>1. ReceiverInv'
      BY <1>7, <2>2, PositionFacts, MoveReceiver DEF FindTransition, ReceiverPCs, pathVars
    <3>2. QED
      BY <1>7, <3>1, ConnectionUnchanged DEF FindTransition, ThreadType, runVars, linkVars
  <2>3. QED
    BY <2>1, <2>2
<1>8. CASE LookupTransition(p)
  <2>1. PICK t \in TransitionsOf(m_protocol_state[p], receiver[p].event) :
          ReceiverTo(p, Holding(receiver[p].event, t))
    BY <1>8 DEF LookupTransition
  <2>2. HasTransition(m_protocol_state[p], receiver[p].event)
    BY <1>8 DEF LookupTransition, ReceiverInv, PendingTransitionIsSafe
  <2>3. receiver[p].event \in ReceiverEvents
    BY <1>0, <2>2, ReceiverEventFacts
  <2>4. t \in m_protocolStateTransitionMap /\ (t.to = "CONNECTED" => m_protocol_state[p] # "CONNECTED")
    BY <1>0, <2>2, LookupFacts, TableFacts
  <2> DEFINE r == Holding(receiver[p].event, t)
  <2>5. r \in ReceiverPositions /\ r.pc = "apply" /\ r.transition = t
    BY <2>3, <2>4, PositionFacts DEF Transitions
  <2>6. receiver' = [receiver EXCEPT ![p] = r] /\ UNCHANGED m_protocol_state
    BY <1>8, <2>1 DEF LookupTransition, ReceiverTo, pathVars
  <2> HIDE DEF r
  <2>7. ReceiverInv'
    BY <2>4, <2>5, <2>6 DEF ReceiverInv, PendingTransitionIsSafe, ReceiverAt
  <2>8. QED
    BY <1>8, <2>7, ConnectionUnchanged DEF LookupTransition, ThreadType, runVars, linkVars
<1>9. CASE ApplyTransition(p)
  <2> DEFINE t == receiver[p].transition
  <2>1. t \in m_protocolStateTransitionMap /\ (t.to = "CONNECTED" => m_protocol_state[p] # "CONNECTED")
    BY <1>9 DEF ApplyTransition, ReceiverInv, PendingTransitionIsSafe
  <2>2. applyTransition(p, t) /\ UNCHANGED connection_is_running
    BY <1>9 DEF ApplyTransition, runVars
  <2> HIDE DEF t
  <2>3. ConnectionInv'
    BY <2>1, <2>2, ApplyPreserves
  <2>4. \A q \in Paths \ {p} : m_protocol_state'[q] = m_protocol_state[q]
    BY <2>2 DEF applyTransition, ConnectionInv, ConnectionType
  <2>5. ReceiverInv'
    BY <1>9, <2>4, PositionFacts, MoveReceiver DEF ApplyTransition, ReceiverPCs
  <2>6. ThreadType'
    BY <1>9 DEF ApplyTransition, ThreadType, AfterStopTCP, runVars
  <2>7. QED
    BY <2>3, <2>5, <2>6
<1>10. CASE CloseAndJoin(p)
  <2>1. ReceiverInv'
    BY <1>10, PositionFacts, MoveReceiver DEF CloseAndJoin, ReceiverPCs, pathVars
  <2>2. QED
    BY <1>10, <2>1, ConnectionUnchanged DEF CloseAndJoin, ThreadType, runVars
<1>11. QED
  BY <1>1, <1>2, <1>3, <1>4, <1>5, <1>6, <1>7, <1>8, <1>9, <1>10 DEF ReceiveNext

\* The steps of the connection threads, of the messages thread and of the
\* network.
LEMMA TimerPreserves ==
  ASSUME IInv, NEW p \in Paths, TimerNext(p) \/ TCPLost(p)
  PROVE  IInv'
<1> USE DEF IInv
<1>1. CASE \E event \in ConnectionEvent : ManageTimeout(p, event)
  <2>1. PICK e : e \in {"MAX_SARM_SENT", "TO_RECV"} /\ ManageTimeout(p, e)
    BY <1>1 DEF ManageTimeout
  <2>2. PICK t \in TransitionsOf(m_protocol_state[p], e) :
          applyTransition(p, t) /\ tcp_connected' = AfterStopTCP(p, t)
    BY <2>1 DEF ManageTimeout, LockedTransition
  <2>3. HasTransition(m_protocol_state[p], e) /\ UNCHANGED <<connection_is_running, receiver>>
    BY <2>1 DEF ManageTimeout, LockedTransition, runVars
  <2>4. ConnectionInv' /\ ReceiverInv'
    BY <2>1, <2>2, <2>3, LockedTransitionPreserves
  <2>5. ThreadType'
    BY <2>1, <2>2 DEF ManageTimeout, ThreadType, AfterStopTCP, runVars
  <2>6. QED
    BY <2>4, <2>5
<1>2. CASE CheckTimerMaxSend(p)
  <2>1. PICK t \in TransitionsOf(m_protocol_state[p], "MAX_SEND") :
          applyTransition(p, t) /\ tcp_connected' = AfterStopTCP(p, t)
    BY <1>2 DEF CheckTimerMaxSend, LockedTransition
  <2>2. HasTransition(m_protocol_state[p], "MAX_SEND") /\ UNCHANGED <<connection_is_running, receiver>>
    BY <1>2 DEF CheckTimerMaxSend, LockedTransition, runVars
  <2>3. ConnectionInv' /\ ReceiverInv'
    BY <2>1, <2>2, LockedTransitionPreserves
  <2>4. ThreadType'
    BY <1>2, <2>1 DEF CheckTimerMaxSend, ThreadType, AfterStopTCP, runVars
  <2>5. QED
    BY <2>3, <2>4
<1>3. CASE CheckTimerInit(p)
  <2>1. ConnectionInv'
    BY <1>3, PathsAssumption
       DEF CheckTimerInit, ConnectionInv, ConnectionType, ActivePathAgrees, StatesAgree, NoIdlePassivePath,
           ActiveMeansStarted, FirstInputIsConnected, AuditAgrees, statusVars, runVars
  <2>2. QED
    BY <1>3, <2>1, ReceiversUnchanged DEF CheckTimerInit, ThreadType, linkVars, runVars
<1>4. CASE TCPLost(p)
  <2>1. ThreadType'
    BY <1>4 DEF TCPLost, ThreadType, runVars
  <2>2. QED
    BY <1>4, <2>1, ConnectionUnchanged, ReceiversUnchanged DEF TCPLost, pathVars, runVars
<1>5. QED
  BY <1>1, <1>2, <1>3, <1>4 DEF TimerNext

\* Stopping and restarting the plugin.
LEMMA StopPreserves ==
  ASSUME IInv, StopNext \/ QualityTimeout
  PROVE  IInv'
<1> USE DEF IInv
<1>1. CASE StopHNZ
  BY <1>1, ConnectionUnchanged, ReceiversUnchanged DEF StopHNZ, ThreadType, linkVars, pathVars
<1>2. CASE StopConnection
  BY <1>2, ConnectionUnchanged, ReceiversUnchanged DEF StopConnection, ThreadType, linkVars, pathVars
<1>3. CASE StopLock
  BY <1>3, ConnectionUnchanged, ReceiversUnchanged DEF StopLock, ThreadType, linkVars, pathVars
<1>4. CASE \E p \in Paths : StopPath(p)
  <2>1. PICK p \in Paths : StopPath(p)
    BY <1>4
  <2>2. PICK t \in TransitionsOf(m_protocol_state[p], "TCP_CNX_LOST") : applyTransition(p, t)
    BY <2>1 DEF StopPath
  <2>3. HasTransition(m_protocol_state[p], "TCP_CNX_LOST")
    BY ReceiverEventFacts DEF ConnectionInv, ConnectionType
  <2>4. UNCHANGED <<connection_is_running, receiver>>
    BY <2>1 DEF StopPath
  <2>5. ConnectionInv' /\ ReceiverInv'
    BY <2>2, <2>3, <2>4, LockedTransitionPreserves
  <2>6. ThreadType'
    BY <2>1 DEF StopPath, ThreadType
  <2>7. QED
    BY <2>5, <2>6
<1>5. CASE StopUnlock
  BY <1>5, ConnectionUnchanged, ReceiversUnchanged DEF StopUnlock, ThreadType, linkVars, pathVars
<1>6. CASE StopJoin
  BY <1>6, ConnectionUnchanged, ReceiversUnchanged DEF StopJoin, ThreadType, linkVars, pathVars
<1>7. CASE Restart
  <2>1. ConnectionInv'
    BY <1>7, PathsAssumption
       DEF Restart, ConnectionInv, ConnectionType, ActivePathAgrees, StatesAgree, Agree, NoIdlePassivePath,
           ActiveMeansStarted, FirstInputIsConnected, AuditAgrees, Audit, ProtocolState,
           ConnectionState
  <2>2. "enter" \in ReceiverPCs
    BY DEF ReceiverPCs
  <2>3. ReceiverInv'
    BY <1>7, <2>2, PositionFacts DEF Restart, ReceiverInv, PendingTransitionIsSafe, ReceiverAt
  <2>4. QED
    BY <1>7, <2>1, <2>3 DEF Restart, ThreadType
<1>8. CASE QualityTimeout
  <2>1. ConnectionInv'
    BY <1>8
       DEF QualityTimeout, ConnectionInv, ConnectionType, ActivePathAgrees, StatesAgree, NoIdlePassivePath,
           ActiveMeansStarted, FirstInputIsConnected, AuditAgrees, pathVars,
           connectionVars, runVars
  <2>2. QED
    BY <1>8, <2>1, ReceiversUnchanged DEF QualityTimeout, ThreadType, linkVars, runVars, pathVars
<1>9. QED
  BY <1>1, <1>2, <1>3, <1>4, <1>5, <1>6, <1>7, <1>8 DEF StopNext

\* IInv is an inductive invariant of the specification.
THEOREM Invariance == Spec => []IInv
<1>1. IInv /\ [Next]_vars => IInv'
  <2> SUFFICES ASSUME IInv, [Next]_vars PROVE IInv'
    OBVIOUS
  <2>1. CASE Next
    <3>1. CASE \E p \in Paths : ReceiveNext(p) \/ TimerNext(p) \/ TCPLost(p)
      BY <3>1, ReceivePreserves, TimerPreserves
    <3>2. CASE QualityTimeout \/ StopNext
      BY <3>2, StopPreserves
    <3>3. CASE UNCHANGED vars
      BY <3>3, ConnectionUnchanged, ReceiversUnchanged
         DEF IInv, ThreadType, vars, pathVars, linkVars, connectionVars, statusVars, runVars
    <3>4. QED
      BY <2>1, <3>1, <3>2, <3>3 DEF Next, Terminated
  <2>2. CASE UNCHANGED vars
    BY <2>2, ConnectionUnchanged, ReceiversUnchanged
       DEF IInv, ThreadType, vars, pathVars, linkVars, connectionVars, statusVars, runVars
  <2>3. QED
    BY <2>1, <2>2
<1>2. QED
  BY <1>1, InitEstablishes, PTL DEF Spec

---------------------------------------------------------------------------
(* Theorems                                                                 *)

\* Type correctness, for any set of paths.
THEOREM TypeCorrectness == Spec => []TypeOK
<1>1. IInv => TypeOK
  BY DEF IInv, ConnectionInv, ConnectionType, ThreadType, ReceiverInv, TypeOK
<1>2. QED
  BY <1>1, Invariance, PTL

\* requestConnectionState keeps m_active_path and the connection states of the
\* paths together: at most one path is ACTIVE.
THEOREM ActivePathIsUnique == Spec => []ActivePathAgrees
<1>1. IInv => ActivePathAgrees
  BY DEF IInv, ConnectionInv
<1>2. QED
  BY <1>1, Invariance, PTL

\* The connection state of a path never contradicts its protocol state.
THEOREM StatesAlwaysAgree == Spec => []StatesAgree
<1>1. IInv => StatesAgree
  BY DEF IInv, ConnectionInv
<1>2. QED
  BY <1>1, Invariance, PTL

\* A running connection never leaves a path passive without an active one.
THEOREM PassivePathTakesOver == Spec => []NoIdlePassivePath
<1>1. IInv => NoIdlePassivePath
  BY DEF IInv, ConnectionInv
<1>2. QED
  BY <1>1, Invariance, PTL

\* The status sent to the north, the quality timer and the init messages follow
\* the active path.
THEOREM StatusFollowsActivePath == Spec => []ActiveMeansStarted
<1>1. IInv => ActiveMeansStarted
  BY DEF IInv, ConnectionInv
<1>2. QED
  BY <1>1, Invariance, PTL

\* Only a path whose input is connected extracts messages.
THEOREM ExtractorHasInput == Spec => []ExtractorIsConnected
<1>1. IInv => ExtractorIsConnected
  BY DEF IInv, ConnectionInv, ActivePathAgrees, StatesAgree, Agree, FirstInputIsConnected,
         ExtractorIsConnected, canPathExtractMessage, InputStates
<1>2. QED
  BY <1>1, Invariance, PTL

\* The audits of a path say what its connection state is.
THEOREM AuditsAreTrue == Spec => []AuditAgrees
<1>1. IInv => AuditAgrees
  BY DEF IInv, ConnectionInv
<1>2. QED
  BY <1>1, Invariance, PTL

\* Looking transitions up without the lock never extends the table and never
\* demotes the active path.
THEOREM StaleTransitionsAreSafe == Spec => []PendingTransitionIsSafe
<1>1. IInv => PendingTransitionIsSafe
  BY DEF IInv, ReceiverInv
<1>2. QED
  BY <1>1, Invariance, PTL

\* A transition takes the active role away from a path only when it takes that
\* path out of CONNECTED.
LEMMA ApplyIsSticky ==
  ASSUME IInv, NEW p \in Paths, NEW t \in m_protocolStateTransitionMap, applyTransition(p, t),
         NEW q \in Paths, m_active_path = q, m_active_path' # q
  PROVE  m_protocol_state[q] = "CONNECTED" /\ m_protocol_state'[q] # "CONNECTED"
<1>1. /\ Requested(t) \in {"ACTIVE", "PENDING_HNZ", "DISCONNECTED"}
      /\ Requested(t) = "ACTIVE" <=> t.to = "CONNECTED"
  BY RequestFacts
<1>2. IF Requested(t) = "ACTIVE" THEN requestActive(p) ELSE requestOther(p, Requested(t))
  BY <1>1 DEF applyTransition, requestConnectionState
<1>3. Requested(t) # "ACTIVE" /\ p = q
  BY <1>2, PathsAssumption DEF requestActive, requestOther
<1>4. m_protocol_state' = [m_protocol_state EXCEPT ![p] = t.to]
  BY DEF applyTransition
<1>5. QED
  BY <1>1, <1>3, <1>4 DEF IInv, ConnectionInv, ConnectionType, ActivePathAgrees, StatesAgree, Agree

\* The active path changes only because it was lost.
THEOREM ActivePathStays == Spec => ActivePathIsSticky
<1> DEFINE Sticky == \A p \in Paths : m_active_path = p /\ m_active_path' # p /\ shutdown # "stopped"
                       => m_protocol_state[p] = "CONNECTED" /\ m_protocol_state'[p] # "CONNECTED"
<1>1. IInv /\ [Next]_vars => [Sticky]_vars
  <2> SUFFICES ASSUME IInv, Next, NEW q \in Paths, m_active_path = q, m_active_path' # q,
                      shutdown # "stopped"
               PROVE  m_protocol_state[q] = "CONNECTED" /\ m_protocol_state'[q] # "CONNECTED"
    OBVIOUS
  <2>1. \E p \in Paths : \E t \in m_protocolStateTransitionMap : applyTransition(p, t)
    <3>1. ASSUME NEW p \in Paths, ReceiveNext(p)
          PROVE  \E t \in m_protocolStateTransitionMap : applyTransition(p, t)
      <4>1. ApplyTransition(p)
        BY <3>1 DEF ReceiveNext, EnterConnect, ConnectServer, SpawnConnectionThread, ReceiveLoop,
                    ReceiveNothing, ReceiveFrame, FindTransition, LookupTransition, CloseAndJoin,
                    connectionVars
      <4>2. QED
        BY <4>1 DEF ApplyTransition, IInv, ReceiverInv, PendingTransitionIsSafe
    <3>2. ASSUME NEW p \in Paths, TimerNext(p) \/ TCPLost(p)
          PROVE  \E t \in m_protocolStateTransitionMap : applyTransition(p, t)
      <4>1. \E e \in ConnectionEvent : LockedTransition(p, e)
        BY <3>2 DEF TimerNext, TCPLost, ManageTimeout, CheckTimerMaxSend, CheckTimerInit, connectionVars,
                    ConnectionEvent
      <4>2. QED
        BY <4>1, LookupFacts DEF LockedTransition, IInv, ConnectionInv, ConnectionType
    <3>3. ASSUME StopNext \/ QualityTimeout
          PROVE  \E p \in Paths : \E t \in m_protocolStateTransitionMap : applyTransition(p, t)
      <4>1. PICK p \in Paths : StopPath(p)
        BY <3>3 DEF StopNext, StopHNZ, StopConnection, StopLock, StopUnlock, StopJoin, Restart,
                    QualityTimeout, connectionVars
      <4>2. HasTransition(m_protocol_state[p], "TCP_CNX_LOST") /\ m_protocol_state[p] \in ProtocolState
        BY ReceiverEventFacts DEF IInv, ConnectionInv, ConnectionType
      <4>3. QED
        BY <4>1, <4>2, LookupFacts DEF StopPath
    <3>4. ~Terminated
      BY DEF Terminated, vars, connectionVars
    <3>5. QED
      BY <3>1, <3>2, <3>3, <3>4 DEF Next
  <2>2. QED
    BY <2>1, ApplyIsSticky
<1>2. QED
  BY <1>1, Invariance, PTL DEF Spec, ActivePathIsSticky

---------------------------------------------------------------------------
(* Refinement                                                               *)

\* The locked part of protocolStateTransition is one step of the promise, or
\* none.
LEMMA ApplyImplements ==
  ASSUME IInv, NEW p \in Paths, NEW t \in m_protocolStateTransitionMap,
         t.to = "CONNECTED" => m_protocol_state[p] # "CONNECTED",
         applyTransition(p, t),
         UNCHANGED connection_is_running
  PROVE  [Promise!Next]_Promise!vars
<1> USE PathsAssumption
<1> DEFINE r == Requested(t)
<1>1. /\ r \in {"ACTIVE", "PENDING_HNZ", "DISCONNECTED"}
      /\ r = "ACTIVE" <=> t.to = "CONNECTED"
  BY RequestFacts
<1>2. /\ m_protocol_state' = [m_protocol_state EXCEPT ![p] = t.to]
      /\ IF r = "ACTIVE" THEN requestActive(p) ELSE requestOther(p, r)
  BY <1>1 DEF applyTransition, requestConnectionState
<1> HIDE DEF r
<1>3. /\ m_protocol_state \in [Paths -> ProtocolState]
      /\ \A q \in Paths : m_active_path = q <=> m_connection_state[q] = "ACTIVE"
      /\ \A q \in Paths : m_protocol_state[q] = "CONNECTED" <=> m_connection_state[q] \in {"ACTIVE", "PASSIVE"}
  BY DEF IInv, ConnectionInv, ConnectionType, ActivePathAgrees, StatesAgree, Agree
<1>4. Ready' = IF r = "ACTIVE" THEN Ready \cup {p} ELSE Ready \ {p}
  BY <1>1, <1>2, <1>3 DEF Ready
<1>5. CASE r = "ACTIVE"
  <2>1. Promise!PathReady(p)
    BY <1>1, <1>2, <1>4, <1>5 DEF Promise!PathReady, Ready, requestActive, updateConnectionStatus, statusVars
  <2>2. QED
    BY <2>1 DEF Promise!Next
<1>6. CASE r # "ACTIVE" /\ p # m_active_path
  <2>1. UNCHANGED <<m_active_path, m_connStatus>>
    BY <1>2, <1>6 DEF requestOther, statusVars
  <2>2. CASE p \in Ready
    <3>1. Promise!StandbyLost(p)
      BY <1>4, <1>6, <2>1, <2>2 DEF Promise!StandbyLost
    <3>2. QED
      BY <3>1 DEF Promise!Next
  <2>3. CASE p \notin Ready
    BY <1>4, <1>6, <2>1, <2>3 DEF Promise!vars
  <2>4. QED
    BY <2>2, <2>3
<1>7. CASE r # "ACTIVE" /\ p = m_active_path
  <2>1. p \in Ready /\ Ready \ {p} = PassiveOthers(p)
    BY <1>3, <1>7 DEF Ready, PassiveOthers
  <2>2. tryActivateOtherPath(p, r)
    BY <1>2, <1>7 DEF requestOther
  <2>3. CASE connection_is_running /\ PassiveOthers(p) # {}
    <3>1. PICK q \in PassiveOthers(p) : m_active_path' = q /\ m_connStatus' = "STARTED"
      BY <2>2, <2>3 DEF tryActivateOtherPath, updateConnectionStatus
    <3>2. Promise!TakeOver(p, q) /\ q \in Paths
      BY <1>4, <1>7, <2>1, <2>3, <3>1 DEF Promise!TakeOver, PassiveOthers
    <3>3. QED
      BY <3>2 DEF Promise!Next
  <2>4. CASE ~(connection_is_running /\ PassiveOthers(p) # {})
    <3>1. m_active_path' = NoPath /\ m_connStatus' = "NOT_CONNECTED"
      BY <2>2, <2>4 DEF tryActivateOtherPath, updateConnectionStatus
    <3>2. Promise!ConnectionLost(p)
      BY <1>4, <1>7, <2>1, <2>4, <3>1 DEF Promise!ConnectionLost
    <3>3. QED
      BY <3>2 DEF Promise!Next
  <2>5. QED
    BY <2>3, <2>4
<1>8. QED
  BY <1>5, <1>6, <1>7

\* A step that changes nothing of the promise.
StutterOfPromise == UNCHANGED <<m_protocol_state, m_active_path, m_connStatus, connection_is_running>>

LEMMA StutterImplements == StutterOfPromise => [Promise!Next]_Promise!vars
  BY DEF StutterOfPromise, Promise!vars, Ready

\* The detailed connection, with its threads and their look-ups without a lock,
\* implements the promise.
THEOREM ConnectionImplementsPromise == Spec => ImplementsActivePath
<1>1. Init => Promise!Init
  BY DEF Init, Promise!Init, Ready
<1>2. IInv /\ [Next]_vars => [Promise!Next]_Promise!vars
  <2> SUFFICES ASSUME IInv, [Next]_vars PROVE [Promise!Next]_Promise!vars
    OBVIOUS
  <2>1. ASSUME NEW p \in Paths, ApplyTransition(p)
        PROVE  [Promise!Next]_Promise!vars
    BY <2>1, ApplyImplements DEF ApplyTransition, IInv, ReceiverInv, PendingTransitionIsSafe, runVars
  <2>2. ASSUME NEW p \in Paths, ReceiveNext(p), ~ApplyTransition(p)
        PROVE  [Promise!Next]_Promise!vars
    <3>1. StutterOfPromise
      BY <2>2 DEF ReceiveNext, EnterConnect, ConnectServer, SpawnConnectionThread, ReceiveLoop, ReceiveNothing,
                  ReceiveFrame, FindTransition, LookupTransition, CloseAndJoin, StutterOfPromise,
                  pathVars, connectionVars, statusVars, runVars
    <3>2. QED
      BY <3>1, StutterImplements
  <2>3. ASSUME NEW p \in Paths, NEW e \in ConnectionEvent, e \notin {"RECEIVED_SARM", "RECEIVED_UA"},
               LockedTransition(p, e), UNCHANGED connection_is_running
        PROVE  [Promise!Next]_Promise!vars
    <3>1. PICK t \in TransitionsOf(m_protocol_state[p], e) : applyTransition(p, t)
      BY <2>3 DEF LockedTransition
    <3>2. t \in m_protocolStateTransitionMap /\ t.to # "CONNECTED"
      BY <2>3, LookupFacts, TableFacts DEF LockedTransition, IInv, ConnectionInv, ConnectionType
    <3>3. QED
      BY <2>3, <3>1, <3>2, ApplyImplements
  <2>4. ASSUME NEW p \in Paths, TimerNext(p) \/ TCPLost(p)
        PROVE  [Promise!Next]_Promise!vars
    <3>1. CASE CheckTimerInit(p) \/ TCPLost(p)
      <4>1. StutterOfPromise
        BY <3>1 DEF CheckTimerInit, TCPLost, StutterOfPromise, pathVars, connectionVars, statusVars, runVars
      <4>2. QED
        BY <4>1, StutterImplements
    <3>2. CASE \E event \in ConnectionEvent : ManageTimeout(p, event)
      BY <2>3, <3>2 DEF ManageTimeout, runVars
    <3>3. CASE CheckTimerMaxSend(p)
      BY <2>3, <3>3 DEF CheckTimerMaxSend, runVars, ConnectionEvent
    <3>4. QED
      BY <2>4, <3>1, <3>2, <3>3 DEF TimerNext
  <2>5. ASSUME NEW p \in Paths, StopPath(p)
        PROVE  [Promise!Next]_Promise!vars
    <3>1. PICK t \in TransitionsOf(m_protocol_state[p], "TCP_CNX_LOST") : applyTransition(p, t)
      BY <2>5 DEF StopPath
    <3>2. t \in m_protocolStateTransitionMap /\ t.to # "CONNECTED"
      BY <3>1, ReceiverEventFacts, LookupFacts, TableFacts DEF IInv, ConnectionInv, ConnectionType
    <3>3. QED
      BY <2>5, <3>1, <3>2, ApplyImplements DEF StopPath
  <2>6. CASE StopHNZ \/ StopLock \/ StopUnlock \/ StopJoin \/ QualityTimeout \/ Terminated \/ UNCHANGED vars
    <3>1. StutterOfPromise
      BY <2>6 DEF StopHNZ, StopLock, StopUnlock, StopJoin, QualityTimeout, Terminated, vars, StutterOfPromise,
                  pathVars, connectionVars, statusVars, runVars
    <3>2. QED
      BY <3>1, StutterImplements
  <2>7. CASE StopConnection
    <3>1. Promise!Close
      BY <2>7 DEF StopConnection, Promise!Close, Ready, pathVars, connectionVars, statusVars
    <3>2. QED
      BY <3>1 DEF Promise!Next
  <2>8. CASE Restart
    <3>1. ~connection_is_running /\ Ready' = {}
      BY <2>8 DEF Restart, IInv, ThreadType, Ready
    <3>2. Promise!Reopen
      BY <2>8, <3>1 DEF Restart, Promise!Reopen
    <3>3. QED
      BY <3>2 DEF Promise!Next
  <2>9. QED
    BY <2>1, <2>2, <2>4, <2>5, <2>6, <2>7, <2>8 DEF Next, StopNext
<1>3. QED
  BY <1>1, <1>2, Invariance, PTL DEF Spec, ImplementsActivePath, Promise!Spec
=============================================================================
