--------------------------- MODULE HNZLifecycle ---------------------------
(***************************************************************************)
(* Start, stop and reconfiguration of the plugin: the threads that are     *)
(* created and joined, the flags that end them and the mutexes they wait   *)
(* for (start, stop, reconfigure, setJsonConfig and receive of             *)
(* src/hnz.cpp; start, stop and m_manageMessages of src/hnzconnection.cpp; *)
(* connect, disconnect and m_manageHNZProtocolConnection of                *)
(* src/hnzpath.cpp).  The protocol states of the paths belong to           *)
(* HNZConnection; here every thread is a program counter.                  *)
(*                                                                         *)
(* A mutex has no variable of its own: who holds it follows from where the *)
(* threads are.  A critical section in which nothing blocks is one step.   *)
(* m_protocol_state_mutex and m_connection_state_mutex are taken with, or  *)
(* inside, m_active_path_mutex and count as that mutex.                    *)
(***************************************************************************)
EXTENDS FiniteSets

CONSTANTS Paths,      \* the paths of a configuration with IP addresses
          NoPath

ASSUME PathsAssumption == NoPath \notin Paths

VARIABLES
  \* HNZ
  m_should_run,
  m_hnz_conf,             \* what the last configuration lacks, if anything
  m_hnz_connection,       \* m_hnz_connection # nullptr
  hnz_is_running,
  receiver,               \* receiver[p]: position of m_receiving_thread_A / B
  \* HNZConnection
  connection_is_running,
  messages,               \* position of m_messages_thread
  \* HNZPath
  path_is_running,
  connection_thread,      \* position of m_connection_thread
  \* the Fledge thread
  fledge,                 \* its position
  operation,              \* the call it executes
  closing,                \* the path HNZConnection::stop is disconnecting
  to_stop                 \* the paths it has yet to disconnect

hnzVars == <<m_should_run, m_hnz_conf, m_hnz_connection, hnz_is_running>>
pathVars == <<path_is_running, connection_thread>>
fledgeVars == <<fledge, operation, closing, to_stop>>
vars == <<hnzVars, receiver, connection_is_running, messages, pathVars, fledgeVars>>

\* "no_data": no TM, or no TS, for the remote station; "no_ip": no path
Configurations == {"incomplete", "no_ip", "no_data", "complete"}

---------------------------------------------------------------------------
(* Mutexes                                                                  *)

ReceiverAt(p, pc) == receiver[p] = pc
ReceiverTo(p, pc) == receiver' = [receiver EXCEPT ![p] = pc]
AllPaths(value) == [p \in Paths |-> value]

Stopping == {"stop", "lock", "disconnect", "lock_thread", "join_thread", "join_messages",
             "join_receivers", "free"}

\* m_configMutex: held by the Fledge thread during the whole of start,
\* reconfigure and setJsonConfig (not during stop itself), and by a receiver
\* in m_handle_message.
FledgeHoldsConfig ==
  \/ fledge \in {"configure", "start"}
  \/ fledge \in Stopping /\ operation = "reconfigure"
ConfigFree == ~FledgeHoldsConfig /\ \A p \in Paths : ~ReceiverAt(p, "completing")

\* Bug the properties must catch (never part of the specification): stop() still
\* holds m_active_path_mutex when it joins the messages thread.
ActivePathFreeLate == fledge \notin {"disconnect", "lock_thread", "join_thread", "join_messages"}

\* m_active_path_mutex: held by HNZConnection::stop while it disconnects
ActivePathFree == fledge \notin {"disconnect", "lock_thread", "join_thread"}

\* m_connection_thread_mutex of p
ThreadFree(p) == ~ReceiverAt(p, "join_thread") /\ ~(fledge = "join_thread" /\ closing = p)

---------------------------------------------------------------------------
(* Fledge thread: one call of the plugin interface after another.           *)

\* plugin_init, plugin_reconfigure: HNZ::reconfigure takes m_configMutex; a
\* running plugin is stopped first
Reconfigure ==
  /\ fledge = "idle"
  /\ ConfigFree
  /\ operation' = "reconfigure"
  /\ fledge' = IF hnz_is_running THEN "stop" ELSE "configure"
  /\ hnz_is_running' = FALSE
  /\ UNCHANGED <<m_should_run, m_hnz_conf, m_hnz_connection, receiver, connection_is_running, messages,
                 pathVars, closing, to_stop>>

\* make_unique<HNZConnection>: a connection that was never started is destroyed
\* (it has no threads).  Without IP address the constructor gives up.
NewConnection(conf) ==
  IF conf = "incomplete"
    THEN UNCHANGED <<m_hnz_connection, connection_is_running, path_is_running>>
    ELSE /\ m_hnz_connection' = TRUE
         /\ connection_is_running' = (conf # "no_ip")
         /\ path_is_running' = AllPaths(TRUE)

\* Bug: the restart is decided from m_is_running, which stop() has cleared.
RestartsIfRunning(conf) == hnz_is_running /\ conf \notin {"incomplete", "no_ip"}

\* if (m_should_run) start(), behind the early returns of setJsonConfig
Restarts(conf) == m_should_run /\ conf \notin {"incomplete", "no_ip"}

\* setJsonConfig: read the configuration, create the connection, start it if a
\* start was requested before
Configure(conf) ==
  /\ fledge = "configure"
  /\ m_hnz_conf' = conf
  /\ NewConnection(conf)
  /\ fledge' = IF Restarts(conf) THEN "start" ELSE "idle"
  /\ UNCHANGED <<m_should_run, hnz_is_running, receiver, messages, connection_thread, operation,
                 closing, to_stop>>

\* plugin_start: HNZ::start(true)
RequestStart ==
  /\ fledge = "idle"
  /\ ConfigFree
  /\ m_should_run' = TRUE
  /\ operation' = "start"
  /\ fledge' = IF hnz_is_running \/ m_hnz_conf = "incomplete" THEN "idle" ELSE "start"
  /\ UNCHANGED <<m_hnz_conf, m_hnz_connection, hnz_is_running, receiver, connection_is_running, messages,
                 pathVars, closing, to_stop>>

\* HNZ::start.  Without TM or TS the readings of the quality throw before any
\* thread is created.  Without path one receiver ends at once.  The receivers
\* are created one second apart, but none passes m_configMutex before the end.
Start ==
  /\ fledge = "start"
  /\ hnz_is_running' = TRUE
  /\ fledge' = "idle"
  /\ CASE m_hnz_conf = "no_data" -> UNCHANGED <<receiver, messages>>
       [] m_hnz_conf = "no_ip" -> /\ \E p \in Paths : ReceiverTo(p, "exited")
                                  /\ messages' = "lock"
       [] OTHER -> receiver' = AllPaths("start") /\ messages' = "lock"
  /\ UNCHANGED <<m_should_run, m_hnz_conf, m_hnz_connection, connection_is_running, pathVars, operation,
                 closing, to_stop>>

\* plugin_shutdown: ~HNZ calls stop(true) if the plugin runs
Shutdown ==
  /\ fledge = "idle"
  /\ operation' = "shutdown"
  /\ fledge' = IF hnz_is_running THEN "stop" ELSE "free"
  /\ m_should_run' = (m_should_run /\ ~hnz_is_running)
  /\ hnz_is_running' = FALSE
  /\ UNCHANGED <<m_hnz_conf, m_hnz_connection, receiver, connection_is_running, messages, pathVars,
                 closing, to_stop>>

\* HNZConnection::stop: m_is_running = false
StopConnection ==
  /\ fledge = "stop"
  /\ connection_is_running' = FALSE
  /\ fledge' = "lock"
  /\ UNCHANGED <<hnzVars, receiver, messages, pathVars, operation, closing, to_stop>>

\* then it takes m_active_path_mutex to disconnect the paths
LockActivePath ==
  /\ fledge = "lock"
  /\ fledge' = "disconnect"
  /\ to_stop' = IF m_hnz_conf = "no_ip" THEN {} ELSE Paths
  /\ UNCHANGED <<hnzVars, receiver, connection_is_running, messages, pathVars, operation, closing>>

\* disconnect() of the next path: the transition, m_is_running = false, the
\* client is stopped
DisconnectPath(p) ==
  /\ fledge = "disconnect"
  /\ p \in to_stop
  /\ path_is_running' = [path_is_running EXCEPT ![p] = FALSE]
  /\ to_stop' = to_stop \ {p}
  /\ closing' = p
  /\ fledge' = "lock_thread"
  /\ UNCHANGED <<hnzVars, receiver, connection_is_running, messages, connection_thread, operation>>

\* m_connection_thread_mutex, then the test of the pointer
LockThread ==
  /\ fledge = "lock_thread"
  /\ ThreadFree(closing)
  /\ fledge' = IF connection_thread[closing] = "none" THEN "disconnect" ELSE "join_thread"
  /\ UNCHANGED <<hnzVars, receiver, connection_is_running, messages, pathVars, operation, closing, to_stop>>

\* m_connection_thread->join()
JoinConnectionThread ==
  /\ fledge = "join_thread"
  /\ connection_thread[closing] = "ended"
  /\ connection_thread' = [connection_thread EXCEPT ![closing] = "none"]
  /\ fledge' = "disconnect"
  /\ UNCHANGED <<hnzVars, receiver, connection_is_running, messages, path_is_running, operation, closing,
                 to_stop>>

\* the paths are disconnected; m_active_path_mutex is released
UnlockActivePath ==
  /\ fledge = "disconnect"
  /\ to_stop = {}
  /\ fledge' = "join_messages"
  /\ UNCHANGED <<hnzVars, receiver, connection_is_running, messages, pathVars, operation, closing, to_stop>>

\* Bug: the messages thread is not joined.
MessagesLeft ==
  /\ fledge = "join_messages"
  /\ fledge' = "join_receivers"
  /\ UNCHANGED <<hnzVars, receiver, connection_is_running, messages, pathVars, operation, closing, to_stop>>

JoinMessages ==
  /\ fledge = "join_messages"
  /\ messages \in {"none", "ended"}
  /\ messages' = "none"
  /\ fledge' = "join_receivers"
  /\ UNCHANGED <<hnzVars, receiver, connection_is_running, pathVars, operation, closing, to_stop>>

\* Bug: one receiver is enough.
OneEnded == \E p \in Paths : receiver[p] \in {"none", "exited"}

ReceiversEnded == \A p \in Paths : receiver[p] \in {"none", "exited"}

\* HNZ::stop joins m_receiving_thread_A, then m_receiving_thread_B
JoinReceivers ==
  /\ fledge = "join_receivers"
  /\ ReceiversEnded
  /\ receiver' = [p \in Paths |-> IF ReceiverAt(p, "exited") THEN "none" ELSE receiver[p]]
  /\ fledge' = "free"
  /\ UNCHANGED <<hnzVars, connection_is_running, messages, pathVars, operation, closing, to_stop>>

\* m_hnz_connection = nullptr, or the end of ~HNZ.  ~HNZPath leaves a thread
\* that connect() started after disconnect() unjoined: the process ends.
Free ==
  /\ fledge = "free"
  /\ m_hnz_connection' = FALSE
  /\ connection_is_running' = FALSE
  /\ fledge' = IF \E p \in Paths : connection_thread[p] # "none" /\ ~path_is_running[p] THEN "terminated"
               ELSE IF operation = "shutdown" THEN "gone" ELSE "configure"
  /\ UNCHANGED <<m_should_run, m_hnz_conf, hnz_is_running, receiver, messages, pathVars, operation,
                 closing, to_stop>>

---------------------------------------------------------------------------
(* Receive thread of p: HNZ::receive                                        *)

\* the first use of m_configMutex
ReceiveStart(p) ==
  /\ ReceiverAt(p, "start")
  /\ ConfigFree
  /\ ReceiverTo(p, IF m_hnz_conf = "incomplete" THEN "exited" ELSE "enter")
  /\ UNCHANGED <<hnzVars, connection_is_running, messages, pathVars, fledgeVars>>

\* connect(): HNZPath::m_is_running = true
EnterConnect(p) ==
  /\ ReceiverAt(p, "enter")
  /\ path_is_running' = [path_is_running EXCEPT ![p] = TRUE]
  /\ ReceiverTo(p, "connect")
  /\ UNCHANGED <<hnzVars, connection_is_running, messages, connection_thread, fledgeVars>>

\* its loop: the server answers or not, and a shutdown is seen or not
ConnectServer(p) ==
  /\ ReceiverAt(p, "connect")
  /\ IF path_is_running[p] /\ connection_is_running
       THEN \E next \in {"connect", "spawn"} : ReceiverTo(p, next)
       ELSE ReceiverTo(p, "loop")
  /\ UNCHANGED <<hnzVars, connection_is_running, messages, pathVars, fledgeVars>>

SpawnConnectionThread(p) ==
  /\ ReceiverAt(p, "spawn")
  /\ ThreadFree(p)
  /\ connection_thread' = [connection_thread EXCEPT ![p] = IF @ = "none" THEN "lock" ELSE @]
  /\ ReceiverTo(p, "loop")
  /\ UNCHANGED <<hnzVars, connection_is_running, messages, path_is_running, fledgeVars>>

\* while (m_is_running), also right after connect()
ReceiveLoop(p) ==
  /\ ReceiverAt(p, "loop")
  /\ ReceiverTo(p, IF hnz_is_running THEN "getData" ELSE "exited")
  /\ UNCHANGED <<hnzVars, connection_is_running, messages, pathVars, fledgeVars>>

\* getData() returns nothing (the socket is still open)
ReceiveNothing(p) ==
  /\ ReceiverAt(p, "getData")
  /\ ReceiverTo(p, "loop")
  /\ UNCHANGED <<hnzVars, connection_is_running, messages, pathVars, fledgeVars>>

\* getData() analyses a frame under m_active_path_mutex; an information frame
\* may have messages to handle
ReceiveFrame(p) ==
  /\ ReceiverAt(p, "getData")
  /\ ActivePathFree
  /\ \E next \in {"loop", "handle"} : ReceiverTo(p, next)
  /\ UNCHANGED <<hnzVars, connection_is_running, messages, pathVars, fledgeVars>>

\* m_handle_message under m_configMutex; the last TS of a general interrogation
\* leads to checkGICompleted, which needs m_active_path_mutex as well
HandleMessage(p) ==
  /\ ReceiverAt(p, "handle")
  /\ ConfigFree
  /\ \E next \in {"loop", "completing"} : ReceiverTo(p, next)
  /\ UNCHANGED <<hnzVars, connection_is_running, messages, pathVars, fledgeVars>>

CheckGICompleted(p) ==
  /\ ReceiverAt(p, "completing")
  /\ ActivePathFree
  /\ ReceiverTo(p, "loop")
  /\ UNCHANGED <<hnzVars, connection_is_running, messages, pathVars, fledgeVars>>

\* The link is lost: disconnect() unless the plugin is stopping
ReceiveLost(p) ==
  /\ ReceiverAt(p, "getData")
  /\ ReceiverTo(p, IF hnz_is_running THEN "disconnect" ELSE "loop")
  /\ UNCHANGED <<hnzVars, connection_is_running, messages, pathVars, fledgeVars>>

\* its transition under m_active_path_mutex, m_is_running = false
Disconnect(p) ==
  /\ ReceiverAt(p, "disconnect")
  /\ ActivePathFree
  /\ path_is_running' = [path_is_running EXCEPT ![p] = FALSE]
  /\ ReceiverTo(p, "lock_thread")
  /\ UNCHANGED <<hnzVars, connection_is_running, messages, connection_thread, fledgeVars>>

\* then receive() connects again unless the plugin is stopping
AfterDisconnect == IF hnz_is_running THEN "enter" ELSE "loop"

DisconnectLockThread(p) ==
  /\ ReceiverAt(p, "lock_thread")
  /\ ThreadFree(p)
  /\ ReceiverTo(p, IF connection_thread[p] = "none" THEN AfterDisconnect ELSE "join_thread")
  /\ UNCHANGED <<hnzVars, connection_is_running, messages, pathVars, fledgeVars>>

DisconnectJoin(p) ==
  /\ ReceiverAt(p, "join_thread")
  /\ connection_thread[p] = "ended"
  /\ connection_thread' = [connection_thread EXCEPT ![p] = "none"]
  /\ ReceiverTo(p, AfterDisconnect)
  /\ UNCHANGED <<hnzVars, connection_is_running, messages, path_is_running, fledgeVars>>

---------------------------------------------------------------------------
(* Connection threads and messages thread: do { locked work; wait } while   *)
(* running.  The wait ends by itself (wait_for, sleep_for).                 *)

ConnectionThreadTo(p, pc) == connection_thread' = [connection_thread EXCEPT ![p] = pc]

\* m_manageHNZProtocolConnection
ManageProtocol(p) ==
  /\ connection_thread[p] = "lock"
  /\ ActivePathFree
  /\ ConnectionThreadTo(p, "wait")
  /\ UNCHANGED <<hnzVars, receiver, connection_is_running, messages, path_is_running, fledgeVars>>

ManageWait(p) ==
  /\ connection_thread[p] = "wait"
  /\ ConnectionThreadTo(p, IF path_is_running[p] /\ connection_is_running THEN "lock" ELSE "ended")
  /\ UNCHANGED <<hnzVars, receiver, connection_is_running, messages, path_is_running, fledgeVars>>

\* m_manageMessages
ManageMessages ==
  /\ messages = "lock"
  /\ ActivePathFree
  /\ messages' = "wait"
  /\ UNCHANGED <<hnzVars, receiver, connection_is_running, pathVars, fledgeVars>>

MessagesWait ==
  /\ messages = "wait"
  /\ messages' = IF connection_is_running THEN "lock" ELSE "ended"
  /\ UNCHANGED <<hnzVars, receiver, connection_is_running, pathVars, fledgeVars>>

---------------------------------------------------------------------------
Init ==
  /\ m_should_run = FALSE
  /\ m_hnz_conf = "incomplete"
  /\ m_hnz_connection = FALSE
  /\ hnz_is_running = FALSE
  /\ receiver = AllPaths("none")
  /\ connection_is_running = FALSE
  /\ messages = "none"
  /\ path_is_running = AllPaths(TRUE)
  /\ connection_thread = AllPaths("none")
  /\ fledge = "idle"
  /\ operation = "none"
  /\ closing = NoPath
  /\ to_stop = {}

StopNext ==
  \/ StopConnection \/ LockActivePath \/ (\E p \in Paths : DisconnectPath(p))
  \/ LockThread \/ JoinConnectionThread \/ UnlockActivePath
  \/ JoinMessages \/ JoinReceivers \/ Free

FledgeNext ==
  \/ Reconfigure \/ (\E conf \in Configurations : Configure(conf))
  \/ RequestStart \/ Start \/ Shutdown \/ StopNext

ReceiveNext(p) ==
  \/ ReceiveStart(p) \/ EnterConnect(p) \/ ConnectServer(p) \/ SpawnConnectionThread(p)
  \/ ReceiveLoop(p) \/ ReceiveNothing(p) \/ ReceiveFrame(p) \/ HandleMessage(p) \/ CheckGICompleted(p)
  \/ ReceiveLost(p) \/ Disconnect(p) \/ DisconnectLockThread(p) \/ DisconnectJoin(p)

ConnectionThreadNext(p) == ManageProtocol(p) \/ ManageWait(p)
MessagesNext == ManageMessages \/ MessagesWait

Next ==
  \/ FledgeNext \/ MessagesNext
  \/ \E p \in Paths : ReceiveNext(p) \/ ConnectionThreadNext(p)

\* Every thread runs when it can: the waits of the connection and messages
\* threads and the calls of the client end by themselves.  Fledge calls when it
\* likes, but a call it has made goes on.
Fairness ==
  /\ WF_vars(StopNext)
  /\ WF_vars(MessagesNext)
  /\ \A p \in Paths : WF_vars(ReceiveNext(p)) /\ WF_vars(ConnectionThreadNext(p))

Spec == Init /\ [][Next]_vars /\ Fairness

---------------------------------------------------------------------------
(* Properties                                                               *)

ReceiverPCs == {"none", "start", "enter", "connect", "spawn", "loop", "getData", "handle", "completing",
                "disconnect", "lock_thread", "join_thread", "exited"}

\* Every variable has its type, and the connection runs, or has a messages
\* thread, only while the object exists.
TypeOK ==
  /\ m_should_run \in BOOLEAN
  /\ m_hnz_conf \in Configurations
  /\ m_hnz_connection \in BOOLEAN
  /\ hnz_is_running \in BOOLEAN
  /\ receiver \in [Paths -> ReceiverPCs]
  /\ connection_is_running \in BOOLEAN
  /\ connection_is_running => m_hnz_connection
  /\ messages \in {"none", "lock", "wait", "ended"}
  /\ messages # "none" => m_hnz_connection
  /\ path_is_running \in [Paths -> BOOLEAN]
  /\ connection_thread \in [Paths -> {"none", "lock", "wait", "ended"}]
  /\ fledge \in {"idle", "configure", "start", "gone", "terminated"} \cup Stopping
  /\ operation \in {"none", "reconfigure", "start", "shutdown"}
  /\ closing \in Paths \cup {NoPath}
  /\ to_stop \in SUBSET Paths

ThreadsOf(p) == receiver[p] # "none" \/ connection_thread[p] # "none"

\* src/hnz.cpp:89: the connection must be freed after the receive threads, which
\* use it.  No thread of any kind is left once it is freed or replaced, in
\* whatever order shutdowns, reconfigurations and lost links come.
FreedIsUnused ==
  fledge # "terminated" /\ (~m_hnz_connection \/ fledge = "configure")
    => messages = "none" /\ \A p \in Paths : ~ThreadsOf(p)

\* A complete configuration and a requested start end, in either order, with all
\* the threads of the plugin, and without the request there are none: start()
\* and setJsonConfig() decide from m_is_running, m_should_run and the
\* configuration of before or after the change.
RunsAsAsked ==
  fledge = "idle" =>
    /\ m_should_run /\ m_hnz_conf = "complete" =>
         hnz_is_running /\ connection_is_running /\ messages # "none" /\ \A p \in Paths : receiver[p] # "none"
    /\ hnz_is_running => m_should_run /\ m_hnz_connection
    /\ ~hnz_is_running => messages = "none" /\ \A p \in Paths : ~ThreadsOf(p)

\* The three ways in which the code can wait for itself.
ConfigCycle ==
  fledge = "join_receivers" /\ FledgeHoldsConfig /\ \E p \in Paths : receiver[p] \in {"start", "handle"}
ActivePathCycle == fledge = "join_thread" /\ connection_thread[closing] = "lock"
ThreadCycle ==
  fledge = "lock_thread" /\ ReceiverAt(closing, "join_thread") /\ connection_thread[closing] = "lock"

\* stop() ends, and with it a shutdown or a reconfiguration, unless the threads
\* came to one of these three circular waits: nothing else keeps a thread it
\* joins from ending.
StopEnds == fledge \in Stopping ~> fledge \notin Stopping \/ ConfigCycle \/ ActivePathCycle \/ ThreadCycle

---------------------------------------------------------------------------
(* What a comment of the code says, and the code does not keep              *)

\* src/hnz.cpp:74: the connection is stopped first so that the join on the
\* receive threads does not hang.
ReceiversCanBeJoined == ~ConfigCycle
=============================================================================
