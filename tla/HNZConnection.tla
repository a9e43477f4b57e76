--------------------------- MODULE HNZConnection ---------------------------
(***************************************************************************)
(* The paths of a HNZConnection and the choice of the active one:          *)
(* src/hnzconnection.cpp, the connection part of src/hnzpath.cpp, and the  *)
(* receive / stop / status part of src/hnz.cpp.                            *)
(*                                                                         *)
(* Threads: one receiver per path (HNZ::receive), one connection thread    *)
(* per path (m_manageHNZProtocolConnection), the messages thread           *)
(* (m_manageMessages), and the Fledge thread that stops and restarts the   *)
(* plugin.  Every critical section of m_active_path_mutex is one step.     *)
(* protocolStateTransition looks the transition up BEFORE it takes the     *)
(* locks; only the receivers call it without m_active_path_mutex, so for   *)
(* them find, operator[] and the locked update are three steps.            *)
(* Time is abstract: a timeout may fire whenever the code checks it.       *)
(***************************************************************************)
EXTENDS HNZAutomaton, FiniteSets

CONSTANTS Paths,    \* the configured paths (at most MAXPATHS = 2 in the code)
          NoPath    \* nullptr

ASSUME PathsAssumption == NoPath \notin Paths

VARIABLES
  \* HNZPath
  m_protocol_state, m_connection_state,
  m_last_connected,        \* m_last_connected > 0
  path_is_running,         \* HNZPath::m_is_running
  connection_thread,       \* m_connection_thread holds a thread
  tcp_connected,           \* m_hnz_client->is_connected()
  path_audit,              \* last "SRVFL" audit sent for the path
  \* HNZConnection
  m_active_path, m_first_input_connected, m_sendInitNexConnection,
  connection_is_running,   \* HNZConnection::m_is_running
  \* HNZ
  m_connStatus,
  quality_timer,           \* m_qualityUpdateTimer > 0
  connection_audit,        \* last "SRVFL" audit sent for the connection
  hnz_is_running,          \* HNZ::m_is_running
  \* control
  receiver,                \* receiver[p]: where the receive thread of p is
  shutdown,                \* where HNZ::stop is
  to_stop                  \* paths HNZConnection::stop has yet to disconnect

pathVars == <<m_protocol_state, m_connection_state, m_last_connected, path_audit>>
linkVars == <<path_is_running, connection_thread, tcp_connected>>
connectionVars == <<m_active_path, m_first_input_connected, m_sendInitNexConnection>>
statusVars == <<m_connStatus, quality_timer, connection_audit>>
runVars == <<connection_is_running, hnz_is_running, shutdown, to_stop>>
vars == <<pathVars, linkVars, connectionVars, statusVars, runVars, receiver>>

---------------------------------------------------------------------------
(* Position of a receive thread.  "find", "lookup" and "apply" are the      *)
(* three parts of protocolStateTransition(event).                           *)

Calling(pc, event) == [pc |-> pc, event |-> event, transition |-> DefaultTransition("CONNECTION", "none")]
Idle(pc) == Calling(pc, "none")
Holding(event, t) == [pc |-> "apply", event |-> event, transition |-> t]

ReceiverAt(p, pc) == receiver[p].pc = pc
ReceiverTo(p, r) == receiver' = [receiver EXCEPT ![p] = r]

ReceiverEvents == {"RECEIVED_SARM", "RECEIVED_UA", "TCP_CNX_LOST"}

\* m_active_path_mutex is not held by HNZConnection::stop
LockFree == shutdown # "disconnecting"

---------------------------------------------------------------------------
(* Connection state: HNZConnection::requestConnectionState and what it      *)
(* calls, all under m_active_path_mutex.                                    *)

InputStates == {"INPUT_CONNECTED", "CONNECTED"}

\* Bugs the properties must catch (never part of the specification): an audit
\* that names the pending state, and no audit for a path that falls back to it.
AuditNamesPending(state) == IF state = "ACTIVE" THEN "active"
                            ELSE IF state = "PENDING_HNZ" THEN "pending"
                            ELSE IF state = "PASSIVE" THEN "passive" ELSE "disconnected"
SilentOnPending(old, new) == old = new \/ new = "PENDING_HNZ"

\* HNZPath::setConnectionState on every path whose state changes; audits are
\* sent on a change only, and not between DISCONNECTED and PENDING_HNZ.
Audit(state) == IF state = "ACTIVE" THEN "active"
                ELSE IF state = "PASSIVE" THEN "passive"
                ELSE "disconnected"
Silent(old, new) == old = new \/ {old, new} = {"DISCONNECTED", "PENDING_HNZ"}
setConnectionStates(new) ==
  /\ m_connection_state' = new
  /\ path_audit' = [q \in Paths |-> IF Silent(m_connection_state[q], new[q])
                                      THEN path_audit[q] ELSE Audit(new[q])]

\* Bug: the outdating timer survives a reconnection.
TimerKept(newState) == quality_timer \/ (newState # m_connStatus /\ newState = "NOT_CONNECTED")

\* HNZ::updateConnectionStatus does nothing when the status is the same
TimerAfter(newState) == IF newState = m_connStatus THEN quality_timer ELSE newState = "NOT_CONNECTED"
InitAfter(newState) == newState = "NOT_CONNECTED" \/ m_sendInitNexConnection

\* HNZConnection::updateConnectionStatus and HNZ::updateConnectionStatus
updateConnectionStatus(newState) ==
  /\ m_connStatus' = newState
  /\ quality_timer' = TimerAfter(newState)
  /\ connection_audit' = IF newState = m_connStatus THEN connection_audit
                         ELSE IF newState = "STARTED" THEN "connected" ELSE "disconnected"
  /\ m_sendInitNexConnection' = InitAfter(newState)

\* Bug: the first path is never forgotten.
FirstInputKept(p, protocolState) ==
  m_first_input_connected' =
    IF m_first_input_connected = NoPath /\ protocolState \in InputStates THEN p
    ELSE m_first_input_connected

updateFirstInputConnected(p, protocolState) ==
  m_first_input_connected' =
    IF m_first_input_connected = NoPath /\ protocolState \in InputStates THEN p
    ELSE IF m_first_input_connected = p /\ protocolState \notin InputStates THEN NoPath
    ELSE m_first_input_connected

\* Bug: a path that is still being connected may take over.
OthersNotDown(p) == {q \in Paths \ {p} : m_connection_state[q] # "DISCONNECTED"}

PassiveOthers(p) == {q \in Paths \ {p} : m_connection_state[q] = "PASSIVE"}

\* Bug: no path takes over.
NoOtherPath(p, newState) ==
  /\ m_active_path' = NoPath
  /\ setConnectionStates([m_connection_state EXCEPT ![p] = newState])
  /\ updateConnectionStatus("NOT_CONNECTED")

tryActivateOtherPath(p, newState) ==
  IF connection_is_running /\ PassiveOthers(p) # {}
    THEN \E q \in PassiveOthers(p) :
           /\ m_active_path' = q
           /\ setConnectionStates([m_connection_state EXCEPT ![p] = newState, ![q] = "ACTIVE"])
           /\ updateConnectionStatus("STARTED")
    ELSE /\ m_active_path' = NoPath
         /\ setConnectionStates([m_connection_state EXCEPT ![p] = newState])
         /\ updateConnectionStatus("NOT_CONNECTED")

\* Bugs: the last path that connects becomes active beside, or instead of, the
\* one that was.
ActiveTwice(p) ==
  /\ m_active_path' = p
  /\ setConnectionStates([m_connection_state EXCEPT ![p] = "ACTIVE"])
  /\ updateConnectionStatus("STARTED")
ActivePreempted(p) ==
  /\ m_active_path' = p
  /\ setConnectionStates([q \in Paths |-> IF q = p THEN "ACTIVE"
                                         ELSE IF q = m_active_path THEN "PASSIVE" ELSE m_connection_state[q]])
  /\ updateConnectionStatus("STARTED")

requestActive(p) ==
  IF m_active_path = NoPath
    THEN /\ m_active_path' = p
         /\ setConnectionStates([m_connection_state EXCEPT ![p] = "ACTIVE"])
         /\ updateConnectionStatus("STARTED")
    ELSE /\ setConnectionStates([m_connection_state EXCEPT ![p] = "PASSIVE"])
         /\ UNCHANGED <<m_active_path, m_sendInitNexConnection, statusVars>>

requestOther(p, newState) ==
  IF p = m_active_path
    THEN tryActivateOtherPath(p, newState)
    ELSE /\ setConnectionStates([m_connection_state EXCEPT ![p] = newState])
         /\ UNCHANGED <<m_active_path, m_sendInitNexConnection, statusVars>>

requestConnectionState(p, newState, protocolState) ==
  /\ updateFirstInputConnected(p, protocolState)
  /\ IF newState = "ACTIVE" THEN requestActive(p) ELSE requestOther(p, newState)

\* Bug: setConnectionPending is forgotten.
NeverPending(t) == IF Calls(t, "resolveProtocolStateConnected") THEN "ACTIVE"
                   ELSE IF Calls(t, "resolveProtocolStateConnection") THEN "DISCONNECTED"
                   ELSE "none"

\* The connection state the actions of transition t ask for; every entry of
\* the table asks exactly once, only the default transition does not ask.
Requested(t) == IF Calls(t, "resolveProtocolStateConnected") THEN "ACTIVE"
                ELSE IF Calls(t, "setConnectionPending") THEN "PENDING_HNZ"
                ELSE IF Calls(t, "resolveProtocolStateConnection") THEN "DISCONNECTED"
                ELSE "none"

\* The locked part of protocolStateTransition.  stopTCP is left to the caller
\* (AfterStopTCP); the counters the other actions reset belong to HNZWindow.
applyTransition(p, t) ==
  /\ m_protocol_state' = [m_protocol_state EXCEPT ![p] = t.to]
  /\ m_last_connected' = [m_last_connected EXCEPT ![p] = @ \/ Requested(t) = "ACTIVE"]
  /\ IF Requested(t) = "none"
       THEN UNCHANGED <<m_connection_state, path_audit, connectionVars, statusVars>>
       ELSE requestConnectionState(p, Requested(t), t.to)

AfterStopTCP(p, t) == [tcp_connected EXCEPT ![p] = @ /\ ~Calls(t, "stopTCP")]

\* protocolStateTransition(event) called with m_active_path_mutex held: lookup
\* and update are one step.  An event without an entry is ignored.
LockedTransition(p, event) ==
  /\ HasTransition(m_protocol_state[p], event)
  /\ \E t \in TransitionsOf(m_protocol_state[p], event) :
       /\ applyTransition(p, t)
       /\ tcp_connected' = AfterStopTCP(p, t)

\* HNZConnection::canPathExtractMessage
canPathExtractMessage(p) ==
  \/ p = m_active_path
  \/ p = m_first_input_connected /\ m_active_path = NoPath

---------------------------------------------------------------------------
(* Receive thread of path p: HNZ::receive, HNZPath::connect, disconnect.    *)

\* connect(): m_is_running = true, then the connection loop
EnterConnect(p) ==
  /\ ReceiverAt(p, "enter")
  /\ path_is_running' = [path_is_running EXCEPT ![p] = TRUE]
  /\ ReceiverTo(p, Idle("connect"))
  /\ UNCHANGED <<pathVars, connection_thread, tcp_connected, connectionVars, statusVars, runVars>>

\* One turn of the loop of connect(): the server answers or not; a shutdown
\* seen before or after connect_Server ends the loop, and the thread with it
\* (HNZ::stop clears HNZ::m_is_running first).
ConnectServer(p) ==
  /\ ReceiverAt(p, "connect")
  /\ LET running == path_is_running[p] /\ connection_is_running
     IN \E ok \in BOOLEAN :
          /\ tcp_connected' = [tcp_connected EXCEPT ![p] = ok]
          /\ ReceiverTo(p, Idle(IF ~running THEN "exited" ELSE IF ok THEN "spawn" ELSE "connect"))
  /\ UNCHANGED <<pathVars, path_is_running, connection_thread, connectionVars, statusVars, runVars>>

\* Tail of connect(): create the connection thread unless there is one
SpawnConnectionThread(p) ==
  /\ ReceiverAt(p, "spawn")
  /\ connection_thread' = [connection_thread EXCEPT ![p] = TRUE]
  /\ ReceiverTo(p, Idle("loop"))
  /\ UNCHANGED <<pathVars, path_is_running, tcp_connected, connectionVars, statusVars, runVars>>

\* while (m_is_running) of receive(): wait for a frame in getData(), or end
ReceiveLoop(p) ==
  /\ ReceiverAt(p, "loop")
  /\ ReceiverTo(p, Idle(IF hnz_is_running THEN "getData" ELSE "exited"))
  /\ UNCHANGED <<pathVars, linkVars, connectionVars, statusVars, runVars>>

\* getData() receives a SARM or an UA.  A SARM that comes too soon after the
\* transition to CONNECTED is only answered: that is no step of this module.
ReceiveFrame(p, event) ==
  /\ ReceiverAt(p, "getData")
  /\ tcp_connected[p]
  /\ event \in {"RECEIVED_SARM", "RECEIVED_UA"}
  /\ ReceiverTo(p, Calling("find", event))
  /\ UNCHANGED <<pathVars, linkVars, connectionVars, statusVars, runVars>>

\* getData() returns nothing and the socket is closed: disconnect() begins,
\* unless the plugin is stopping
ReceiveNothing(p) ==
  /\ ReceiverAt(p, "getData")
  /\ ~tcp_connected[p]
  /\ ReceiverTo(p, IF hnz_is_running THEN Calling("find", "TCP_CNX_LOST") ELSE Idle("loop"))
  /\ UNCHANGED <<pathVars, linkVars, connectionVars, statusVars, runVars>>

\* Bug: the event is not looked for before operator[].
FindUnchecked(p) ==
  /\ ReceiverAt(p, "find")
  /\ ReceiverTo(p, Calling("lookup", receiver[p].event))
  /\ UNCHANGED <<pathVars, linkVars, connectionVars, statusVars, runVars>>

\* protocolStateTransition, first reading of m_protocol_state: map.find
FindTransition(p) ==
  /\ ReceiverAt(p, "find")
  /\ ReceiverTo(p, IF HasTransition(m_protocol_state[p], receiver[p].event)
                     THEN Calling("lookup", receiver[p].event)
                     ELSE Idle("loop"))
  /\ UNCHANGED <<pathVars, linkVars, connectionVars, statusVars, runVars>>

\* second reading of m_protocol_state: map.operator[]
LookupTransition(p) ==
  /\ ReceiverAt(p, "lookup")
  /\ \E t \in TransitionsOf(m_protocol_state[p], receiver[p].event) :
       ReceiverTo(p, Holding(receiver[p].event, t))
  /\ UNCHANGED <<pathVars, linkVars, connectionVars, statusVars, runVars>>

\* the update, once the locks are taken, whatever the state has become
ApplyTransition(p) ==
  /\ ReceiverAt(p, "apply")
  /\ LockFree
  /\ applyTransition(p, receiver[p].transition)
  /\ tcp_connected' = AfterStopTCP(p, receiver[p].transition)
  /\ ReceiverTo(p, Idle(IF receiver[p].event = "TCP_CNX_LOST" THEN "close" ELSE "loop"))
  /\ UNCHANGED <<path_is_running, connection_thread, runVars>>

\* rest of disconnect(): the client is stopped and the connection thread
\* joined; then receive() reconnects unless the plugin is stopping
CloseAndJoin(p) ==
  /\ ReceiverAt(p, "close")
  /\ path_is_running' = [path_is_running EXCEPT ![p] = FALSE]
  /\ tcp_connected' = [tcp_connected EXCEPT ![p] = FALSE]
  /\ connection_thread' = [connection_thread EXCEPT ![p] = FALSE]
  /\ ReceiverTo(p, Idle(IF hnz_is_running THEN "enter" ELSE "exited"))
  /\ UNCHANGED <<pathVars, connectionVars, statusVars, runVars>>

\* The remote station or the network closes the TCP connection
TCPLost(p) ==
  /\ tcp_connected[p]
  /\ tcp_connected' = [tcp_connected EXCEPT ![p] = FALSE]
  /\ UNCHANGED <<pathVars, path_is_running, connection_thread, connectionVars, statusVars, runVars, receiver>>

---------------------------------------------------------------------------
(* Connection thread of p and messages thread: both hold the mutex.         *)

\* m_manageHNZProtocolState: too many SARM sent, or nothing received in time
ManageTimeout(p, event) ==
  /\ connection_thread[p]
  /\ LockFree
  /\ \/ event = "MAX_SARM_SENT" /\ m_protocol_state[p] \in {"CONNECTION", "INPUT_CONNECTED"}
     \/ event = "TO_RECV" /\ m_protocol_state[p] \in {"CONNECTION", "INPUT_CONNECTED", "CONNECTED"}
  /\ LockedTransition(p, event)
  /\ UNCHANGED <<path_is_running, connection_thread, runVars, receiver>>

MessagesThreadAlive == shutdown # "stopped" /\ shutdown # "terminated"

\* m_check_timer: a frame was repeated repeat_max times without answer
CheckTimerMaxSend(p) ==
  /\ MessagesThreadAlive
  /\ LockFree
  /\ tcp_connected[p]
  /\ LockedTransition(p, "MAX_SEND")
  /\ UNCHANGED <<path_is_running, connection_thread, runVars, receiver>>

\* m_check_timer: repeat_timeout after CONNECTED, the init messages are sent
\* on the active path and given up on a passive one
CheckTimerInit(p) ==
  /\ MessagesThreadAlive
  /\ LockFree
  /\ m_protocol_state[p] = "CONNECTED"
  /\ m_last_connected[p]
  /\ m_last_connected' = [m_last_connected EXCEPT ![p] = FALSE]
  /\ m_sendInitNexConnection' = (m_sendInitNexConnection /\ m_connection_state[p] # "ACTIVE")
  /\ UNCHANGED <<m_protocol_state, m_connection_state, path_audit, linkVars, m_active_path,
                 m_first_input_connected, statusVars, runVars, receiver>>

\* HNZ::updateQualityUpdateTimer: every TM and TS is sent as outdated
QualityTimeout ==
  /\ MessagesThreadAlive
  /\ quality_timer
  /\ quality_timer' = FALSE
  /\ UNCHANGED <<pathVars, linkVars, connectionVars, m_connStatus, connection_audit, runVars, receiver>>

---------------------------------------------------------------------------
(* Fledge thread: HNZ::stop, then HNZ::setJsonConfig and HNZ::start.        *)

StopHNZ ==
  /\ shutdown = "running"
  /\ hnz_is_running' = FALSE
  /\ shutdown' = "flagging"
  /\ UNCHANGED <<pathVars, linkVars, connectionVars, statusVars, connection_is_running, to_stop, receiver>>

StopConnection ==
  /\ shutdown = "flagging"
  /\ connection_is_running' = FALSE
  /\ shutdown' = "locking"
  /\ UNCHANGED <<pathVars, linkVars, connectionVars, statusVars, hnz_is_running, to_stop, receiver>>

StopLock ==
  /\ shutdown = "locking"
  /\ shutdown' = "disconnecting"
  /\ to_stop' = Paths
  /\ UNCHANGED <<pathVars, linkVars, connectionVars, statusVars, connection_is_running, hnz_is_running, receiver>>

\* path->disconnect() from HNZConnection::stop
StopPath(p) ==
  /\ shutdown = "disconnecting"
  /\ p \in to_stop
  /\ \E t \in TransitionsOf(m_protocol_state[p], "TCP_CNX_LOST") : applyTransition(p, t)
  /\ path_is_running' = [path_is_running EXCEPT ![p] = FALSE]
  /\ tcp_connected' = [tcp_connected EXCEPT ![p] = FALSE]
  /\ connection_thread' = [connection_thread EXCEPT ![p] = FALSE]
  /\ to_stop' = to_stop \ {p}
  /\ UNCHANGED <<connection_is_running, hnz_is_running, shutdown, receiver>>

StopUnlock ==
  /\ shutdown = "disconnecting"
  /\ to_stop = {}
  /\ shutdown' = "joining"
  /\ UNCHANGED <<pathVars, linkVars, connectionVars, statusVars, connection_is_running, hnz_is_running,
                 to_stop, receiver>>

\* All threads HNZ::stop joins have ended and the connection is destroyed.
\* ~HNZPath joins the connection thread only if path_is_running; destroying a
\* thread object that was not joined terminates the process.
StopJoin ==
  /\ shutdown = "joining"
  /\ \A p \in Paths : ReceiverAt(p, "exited")
  /\ shutdown' = IF \E p \in Paths : connection_thread[p] /\ ~path_is_running[p]
                   THEN "terminated" ELSE "stopped"
  /\ UNCHANGED <<pathVars, linkVars, connectionVars, statusVars, connection_is_running, hnz_is_running,
                 to_stop, receiver>>

\* A new HNZConnection with new paths; the members of HNZ keep their values
\* and the constructors send one "disconnected" audit each.
Restart ==
  /\ shutdown = "stopped"
  /\ m_protocol_state' = [p \in Paths |-> "CONNECTION"]
  /\ m_connection_state' = [p \in Paths |-> "DISCONNECTED"]
  /\ m_last_connected' = [p \in Paths |-> FALSE]
  /\ path_is_running' = [p \in Paths |-> TRUE]
  /\ connection_thread' = [p \in Paths |-> FALSE]
  /\ tcp_connected' = [p \in Paths |-> FALSE]
  /\ path_audit' = [p \in Paths |-> "disconnected"]
  /\ m_active_path' = NoPath
  /\ m_first_input_connected' = NoPath
  /\ m_sendInitNexConnection' = TRUE
  /\ connection_is_running' = TRUE
  /\ hnz_is_running' = TRUE
  /\ connection_audit' = "disconnected"
  /\ receiver' = [p \in Paths |-> Idle("enter")]
  /\ shutdown' = "running"
  /\ UNCHANGED <<m_connStatus, quality_timer, to_stop>>

\* The process is gone
Terminated == shutdown = "terminated" /\ UNCHANGED vars

---------------------------------------------------------------------------
Init ==
  /\ m_protocol_state = [p \in Paths |-> "CONNECTION"]
  /\ m_connection_state = [p \in Paths |-> "DISCONNECTED"]
  /\ m_last_connected = [p \in Paths |-> FALSE]
  /\ path_is_running = [p \in Paths |-> TRUE]
  /\ connection_thread = [p \in Paths |-> FALSE]
  /\ tcp_connected = [p \in Paths |-> FALSE]
  /\ path_audit = [p \in Paths |-> "disconnected"]
  /\ m_active_path = NoPath
  /\ m_first_input_connected = NoPath
  /\ m_sendInitNexConnection = TRUE
  /\ connection_is_running = TRUE
  /\ m_connStatus = "NOT_CONNECTED"
  /\ quality_timer = FALSE
  /\ connection_audit = "disconnected"
  /\ hnz_is_running = TRUE
  /\ receiver = [p \in Paths |-> Idle("enter")]
  /\ shutdown = "running"
  /\ to_stop = {}

ReceiveNext(p) ==
  \/ EnterConnect(p) \/ ConnectServer(p) \/ SpawnConnectionThread(p)
  \/ ReceiveLoop(p) \/ ReceiveNothing(p)
  \/ \E event \in ReceiverEvents : ReceiveFrame(p, event)
  \/ FindTransition(p) \/ LookupTransition(p) \/ ApplyTransition(p)
  \/ CloseAndJoin(p)

TimerNext(p) ==
  \/ \E event \in ConnectionEvent : ManageTimeout(p, event)
  \/ CheckTimerMaxSend(p) \/ CheckTimerInit(p)

StopNext ==
  \/ StopHNZ \/ StopConnection \/ StopLock \/ (\E p \in Paths : StopPath(p))
  \/ StopUnlock \/ StopJoin \/ Restart

Next ==
  \/ \E p \in Paths : ReceiveNext(p) \/ TimerNext(p) \/ TCPLost(p)
  \/ QualityTimeout \/ StopNext \/ Terminated

Spec == Init /\ [][Next]_vars

---------------------------------------------------------------------------
(* Properties                                                               *)

Transitions == m_protocolStateTransitionMap
                 \cup {DefaultTransition(s, e) : s \in ProtocolState, e \in ReceiverEvents \cup {"none"}}

ReceiverPCs == {"enter", "connect", "spawn", "loop", "getData", "find", "lookup", "apply",
                "close", "exited"}
ReceiverPositions == [pc : ReceiverPCs, event : ReceiverEvents \cup {"none"}, transition : Transitions]

\* Every variable of the threads and of the three objects has its type.
TypeOK ==
  /\ m_protocol_state \in [Paths -> ProtocolState]
  /\ m_connection_state \in [Paths -> ConnectionState]
  /\ m_last_connected \in [Paths -> BOOLEAN]
  /\ path_is_running \in [Paths -> BOOLEAN]
  /\ connection_thread \in [Paths -> BOOLEAN]
  /\ tcp_connected \in [Paths -> BOOLEAN]
  /\ path_audit \in [Paths -> {"disconnected", "active", "passive"}]
  /\ m_active_path \in Paths \cup {NoPath}
  /\ m_first_input_connected \in Paths \cup {NoPath}
  /\ m_sendInitNexConnection \in BOOLEAN
  /\ connection_is_running \in BOOLEAN
  /\ m_connStatus \in {"NOT_CONNECTED", "STARTED"}
  /\ quality_timer \in BOOLEAN
  /\ connection_audit \in {"connected", "disconnected"}
  /\ hnz_is_running \in BOOLEAN
  /\ receiver \in [Paths -> ReceiverPositions]
  /\ shutdown \in {"running", "flagging", "locking", "disconnecting", "joining", "stopped", "terminated"}
  /\ to_stop \in SUBSET Paths

\* m_active_path and the connection states of the paths are kept by different
\* statements of requestConnectionState: a path is ACTIVE exactly when it is the
\* one m_active_path points to, so never two paths are, even when a receiver
\* applies a transition it looked up in an older state.
ActivePathAgrees == \A p \in Paths : m_active_path = p <=> m_connection_state[p] = "ACTIVE"

\* The connection state reported for a path never contradicts its protocol
\* state, although a stale transition may have set both.
Agree(protocol, connection) ==
  /\ protocol = "CONNECTION" <=> connection = "DISCONNECTED"
  /\ protocol = "CONNECTED" <=> connection \in {"ACTIVE", "PASSIVE"}
StatesAgree == \A p \in Paths : Agree(m_protocol_state[p], m_connection_state[p])

\* While the connection runs, a path that is ready to take over is never left
\* passive without an active path (tryActivateOtherPath, requestActive).
NoIdlePassivePath ==
  connection_is_running /\ (\E p \in Paths : m_connection_state[p] = "PASSIVE") => m_active_path # NoPath

\* With an active path the plugin has told the north that the connection is
\* started, and once it has, the timer that would mark all the data outdated is
\* stopped.  As long as the connection is down, the next active path will send
\* the date, the time and the general interrogation.
ActiveMeansStarted ==
  /\ m_active_path # NoPath => m_connStatus = "STARTED"
  /\ m_connStatus = "STARTED" => ~quality_timer
  /\ m_connStatus = "NOT_CONNECTED" => m_sendInitNexConnection

\* Only a path whose input is connected hands received messages to the north,
\* and m_first_input_connected never points to another path.
ExtractorIsConnected ==
  \A p \in Paths : canPathExtractMessage(p) \/ m_first_input_connected = p
                    => m_protocol_state[p] \in InputStates

\* The last audit sent for a path says what its connection state is, although
\* setConnectionState skips some audits.
AuditAgrees == \A p \in Paths : path_audit[p] = Audit(m_connection_state[p])

\* The state may change between the two readings of protocolStateTransition
\* and before the update: operator[] never inserts a default transition in the
\* table, and no receiver asks for ACTIVE on a path that is CONNECTED already,
\* which would demote the active path to PASSIVE with nobody to replace it.
PendingTransitionIsSafe ==
  \A p \in Paths :
    /\ ReceiverAt(p, "lookup") => HasTransition(m_protocol_state[p], receiver[p].event)
    /\ ReceiverAt(p, "apply") =>
         /\ receiver[p].transition \in m_protocolStateTransitionMap
         /\ receiver[p].transition.to = "CONNECTED" => m_protocol_state[p] # "CONNECTED"

\* The active path changes only because it was lost, never because another path
\* connects (the plugin then restarts with no path at all).
ActivePathIsSticky ==
  [][\A p \in Paths : m_active_path = p /\ m_active_path' # p /\ shutdown # "stopped"
        => m_protocol_state[p] = "CONNECTED" /\ m_protocol_state'[p] # "CONNECTED"]_vars

---------------------------------------------------------------------------
(* Refinement                                                               *)

Ready == {p \in Paths : m_protocol_state[p] = "CONNECTED"}

Promise == INSTANCE ActivePath
             WITH ready <- Ready, active <- m_active_path, status <- m_connStatus, open <- connection_is_running

\* Whatever thread applies a transition, and however old its look-up is, the
\* connection does what ActivePath promises: requestConnectionState,
\* tryActivateOtherPath and the status sent to the north are one take-over.
ImplementsActivePath == Promise!Spec
=============================================================================
