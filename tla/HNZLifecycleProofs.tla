------------------------ MODULE HNZLifecycleProofs ------------------------
(***************************************************************************)
(* Proofs about HNZLifecycle, for any set of paths.                        *)
(***************************************************************************)
EXTENDS HNZLifecycle, TLAPS

---------------------------------------------------------------------------
(* The invariant                                                            *)

\* The plugin has no thread.
Quiet == messages = "none" /\ \A p \in Paths : ~ThreadsOf(p)

\* Where the Fledge thread creates, replaces or frees the connection there is no
\* thread, and outside of idle the plugin is not running.
CallInv ==
  /\ fledge \in {"configure", "start", "gone"} => Quiet
  /\ fledge = "idle" /\ ~hnz_is_running => Quiet
  /\ ~m_hnz_connection /\ fledge # "terminated" => Quiet
  /\ fledge # "idle" => ~hnz_is_running

\* What the configuration says of the connection, of the start and of the threads.
ConfigurationInv ==
  /\ fledge \in {"idle", "start"} /\ m_hnz_conf # "incomplete" =>
       m_hnz_connection /\ (m_hnz_conf # "no_ip" => connection_is_running)
  /\ fledge = "start" => m_hnz_conf # "incomplete" /\ m_should_run
  /\ fledge = "idle" /\ hnz_is_running => m_should_run /\ m_hnz_conf # "incomplete"
  /\ fledge = "idle" /\ hnz_is_running /\ m_hnz_conf = "complete" =>
       messages # "none" /\ \A p \in Paths : receiver[p] # "none"
  /\ fledge = "idle" /\ m_should_run /\ m_hnz_conf = "complete" => hnz_is_running
  /\ m_hnz_conf # "complete" =>
       \A p \in Paths : connection_thread[p] = "none" /\ receiver[p] \in {"none", "exited"}

\* How far a stop has come.
StopInv ==
  /\ fledge \in Stopping \ {"free"} => m_hnz_connection
  /\ fledge \in Stopping \ {"stop", "free"} => ~connection_is_running
  /\ fledge \in {"lock_thread", "join_thread"} => closing \in Paths
  /\ fledge \notin {"disconnect", "lock_thread", "join_thread"} => to_stop = {}
  /\ fledge \in {"join_receivers", "free", "terminated"} => messages = "none"
  /\ fledge \in {"free", "terminated"} => \A p \in Paths : receiver[p] = "none"

\* A receive thread that has yet to connect has no connection thread, and once
\* its path is disconnected by the stop it starts none that goes unnoticed: such a
\* path is marked as not running, which is what Free looks at.
SpawnInv ==
  \A p \in Paths :
    /\ receiver[p] \in {"start", "enter", "connect", "spawn"} => connection_thread[p] = "none"
    /\ fledge \in Stopping \ {"stop", "lock"} /\ p \notin to_stop /\ path_is_running[p] =>
         connection_thread[p] = "none" /\ receiver[p] # "spawn"

IInv == TypeOK /\ CallInv /\ ConfigurationInv /\ StopInv /\ SpawnInv

---------------------------------------------------------------------------
(* Steps, one lemma for each group of actions                               *)

\* The calls of Fledge keep the invariant: they create and free the connection, and
\* start the threads.
LEMMA CallPreserves ==
  ASSUME IInv,
         Reconfigure \/ (\E conf \in Configurations : Configure(conf)) \/ RequestStart \/
         Start \/ Shutdown
  PROVE  IInv'
<1> USE DEF IInv, hnzVars, pathVars, fledgeVars, ReceiverAt, ReceiverTo, AllPaths, ReceiverPCs, Stopping,
           Configurations, ThreadsOf, Quiet
<1>1. CASE Reconfigure
  <2>1. TypeOK'
    BY <1>1 DEF TypeOK, Reconfigure
  <2>2. CallInv'
    BY <1>1 DEF CallInv, Reconfigure
  <2>3. ConfigurationInv'
    BY <1>1 DEF ConfigurationInv, Reconfigure
  <2>4. StopInv'
    BY <1>1 DEF ConfigurationInv, StopInv, Reconfigure
  <2>5. SpawnInv'
    BY <1>1 DEF SpawnInv, Reconfigure
  <2>6. QED
    BY <2>1, <2>2, <2>3, <2>4, <2>5
<1>2. ASSUME NEW conf \in Configurations, Configure(conf) PROVE IInv'
  <2>1. TypeOK'
    BY <1>2 DEF TypeOK, Configure, NewConnection, Restarts
  <2>2. CallInv'
    BY <1>2 DEF CallInv, Configure, NewConnection, Restarts
  <2>3. ConfigurationInv'
    BY <1>2 DEF CallInv, ConfigurationInv, Configure, NewConnection, Restarts
  <2>4. StopInv'
    BY <1>2 DEF StopInv, Configure, NewConnection, Restarts
  <2>5. SpawnInv'
    BY <1>2 DEF SpawnInv, Configure, NewConnection, Restarts
  <2>6. QED
    BY <2>1, <2>2, <2>3, <2>4, <2>5
<1>3. CASE RequestStart
  <2>1. TypeOK'
    BY <1>3 DEF TypeOK, RequestStart
  <2>2. CallInv'
    BY <1>3 DEF CallInv, RequestStart
  <2>3. ConfigurationInv'
    BY <1>3 DEF ConfigurationInv, RequestStart
  <2>4. StopInv'
    BY <1>3 DEF StopInv, RequestStart
  <2>5. SpawnInv'
    BY <1>3 DEF SpawnInv, RequestStart
  <2>6. QED
    BY <2>1, <2>2, <2>3, <2>4, <2>5
<1>4. CASE Start
  <2>1. TypeOK'
    BY <1>4 DEF TypeOK, ConfigurationInv, Start
  <2>2. CallInv'
    BY <1>4 DEF CallInv, ConfigurationInv, Start
  <2>3. ConfigurationInv'
    BY <1>4 DEF TypeOK, ConfigurationInv, Start
  <2>4. StopInv'
    BY <1>4 DEF StopInv, Start
  <2>5. SpawnInv'
    BY <1>4 DEF CallInv, SpawnInv, Start
  <2>6. QED
    BY <2>1, <2>2, <2>3, <2>4, <2>5
<1>5. CASE Shutdown
  <2>1. TypeOK'
    BY <1>5 DEF TypeOK, Shutdown
  <2>2. CallInv'
    BY <1>5 DEF CallInv, Shutdown
  <2>3. ConfigurationInv'
    BY <1>5 DEF ConfigurationInv, Shutdown
  <2>4. StopInv'
    BY <1>5 DEF CallInv, ConfigurationInv, StopInv, Shutdown
  <2>5. SpawnInv'
    BY <1>5 DEF CallInv, SpawnInv, Shutdown
  <2>6. QED
    BY <2>1, <2>2, <2>3, <2>4, <2>5
<1>6. QED
  BY <1>1, <1>2, <1>3, <1>4, <1>5

\* The steps of a stop keep the invariant: each kind of thread is joined before the
\* object it uses goes.
LEMMA StopPreserves ==
  ASSUME IInv,
         StopConnection \/ LockActivePath \/ (\E p \in Paths : DisconnectPath(p)) \/
         LockThread \/ JoinConnectionThread \/ UnlockActivePath \/ JoinMessages \/
         JoinReceivers \/ Free
  PROVE  IInv'
<1> USE DEF IInv, hnzVars, pathVars, fledgeVars, ReceiverAt, ReceiverTo, AllPaths, ReceiverPCs, Stopping,
           Configurations, ThreadsOf, Quiet
<1>1. CASE StopConnection
  <2>1. TypeOK'
    BY <1>1 DEF TypeOK, StopConnection
  <2>2. CallInv'
    BY <1>1 DEF CallInv, StopConnection
  <2>3. ConfigurationInv'
    BY <1>1 DEF ConfigurationInv, StopConnection
  <2>4. StopInv'
    BY <1>1 DEF StopInv, StopConnection
  <2>5. SpawnInv'
    BY <1>1 DEF SpawnInv, StopConnection
  <2>6. QED
    BY <2>1, <2>2, <2>3, <2>4, <2>5
<1>2. CASE LockActivePath
  <2>1. TypeOK'
    BY <1>2 DEF TypeOK, LockActivePath
  <2>2. CallInv'
    BY <1>2 DEF CallInv, LockActivePath
  <2>3. ConfigurationInv'
    BY <1>2 DEF ConfigurationInv, LockActivePath
  <2>4. StopInv'
    BY <1>2 DEF StopInv, LockActivePath
  <2>5. SpawnInv'
    BY <1>2 DEF ConfigurationInv, SpawnInv, LockActivePath
  <2>6. QED
    BY <2>1, <2>2, <2>3, <2>4, <2>5
<1>3. ASSUME NEW p \in Paths, DisconnectPath(p) PROVE IInv'
  <2>1. TypeOK'
    BY <1>3 DEF TypeOK, DisconnectPath
  <2>2. CallInv'
    BY <1>3 DEF CallInv, DisconnectPath
  <2>3. ConfigurationInv'
    BY <1>3 DEF ConfigurationInv, DisconnectPath
  <2>4. StopInv'
    BY <1>3 DEF StopInv, DisconnectPath
  <2>5. SpawnInv'
    BY <1>3 DEF TypeOK, SpawnInv, DisconnectPath
  <2>6. QED
    BY <2>1, <2>2, <2>3, <2>4, <2>5
<1>4. CASE LockThread
  <2>1. TypeOK'
    BY <1>4 DEF TypeOK, LockThread
  <2>2. CallInv'
    BY <1>4 DEF CallInv, LockThread
  <2>3. ConfigurationInv'
    BY <1>4 DEF ConfigurationInv, LockThread
  <2>4. StopInv'
    BY <1>4 DEF StopInv, LockThread
  <2>5. SpawnInv'
    BY <1>4 DEF SpawnInv, LockThread
  <2>6. QED
    BY <2>1, <2>2, <2>3, <2>4, <2>5
<1>5. CASE JoinConnectionThread
  <2>1. TypeOK'
    BY <1>5 DEF TypeOK, StopInv, JoinConnectionThread
  <2>2. CallInv'
    BY <1>5 DEF CallInv, JoinConnectionThread
  <2>3. ConfigurationInv'
    BY <1>5 DEF ConfigurationInv, JoinConnectionThread
  <2>4. StopInv'
    BY <1>5 DEF StopInv, JoinConnectionThread
  <2>5. SpawnInv'
    BY <1>5 DEF SpawnInv, JoinConnectionThread
  <2>6. QED
    BY <2>1, <2>2, <2>3, <2>4, <2>5
<1>6. CASE UnlockActivePath
  <2>1. TypeOK'
    BY <1>6 DEF TypeOK, UnlockActivePath
  <2>2. CallInv'
    BY <1>6 DEF CallInv, UnlockActivePath
  <2>3. ConfigurationInv'
    BY <1>6 DEF ConfigurationInv, UnlockActivePath
  <2>4. StopInv'
    BY <1>6 DEF StopInv, UnlockActivePath
  <2>5. SpawnInv'
    BY <1>6 DEF SpawnInv, UnlockActivePath
  <2>6. QED
    BY <2>1, <2>2, <2>3, <2>4, <2>5
<1>7. CASE JoinMessages
  <2>1. TypeOK'
    BY <1>7 DEF TypeOK, JoinMessages
  <2>2. CallInv'
    BY <1>7 DEF CallInv, JoinMessages
  <2>3. ConfigurationInv'
    BY <1>7 DEF ConfigurationInv, JoinMessages
  <2>4. StopInv'
    BY <1>7 DEF StopInv, JoinMessages
  <2>5. SpawnInv'
    BY <1>7 DEF SpawnInv, JoinMessages
  <2>6. QED
    BY <2>1, <2>2, <2>3, <2>4, <2>5
<1>8. CASE JoinReceivers
  <2>1. TypeOK'
    BY <1>8 DEF TypeOK, JoinReceivers, ReceiversEnded
  <2>2. CallInv'
    BY <1>8 DEF CallInv, JoinReceivers, ReceiversEnded
  <2>3. ConfigurationInv'
    BY <1>8 DEF ConfigurationInv, JoinReceivers, ReceiversEnded
  <2>4. StopInv'
    BY <1>8 DEF StopInv, JoinReceivers, ReceiversEnded
  <2>5. SpawnInv'
    BY <1>8 DEF SpawnInv, JoinReceivers, ReceiversEnded
  <2>6. QED
    BY <2>1, <2>2, <2>3, <2>4, <2>5
<1>9. CASE Free
  <2>1. TypeOK'
    BY <1>9 DEF TypeOK, StopInv, Free
  <2>2. CallInv'
    <3>1. messages = "none" /\ (\A p \in Paths : receiver[p] = "none") /\ ~hnz_is_running
      BY <1>9 DEF StopInv, CallInv, Free
    <3>2. ASSUME fledge' # "terminated", NEW p \in Paths
          PROVE  connection_thread[p] = "none"
      BY <1>9, <3>2 DEF StopInv, SpawnInv, Free
    <3>3. QED
      BY <1>9, <3>1, <3>2 DEF CallInv, Free
  <2>3. ConfigurationInv'
    BY <1>9 DEF ConfigurationInv, Free
  <2>4. StopInv'
    BY <1>9 DEF StopInv, Free
  <2>5. SpawnInv'
    BY <1>9 DEF SpawnInv, Free
  <2>6. QED
    BY <2>1, <2>2, <2>3, <2>4, <2>5
<1>10. QED
  BY <1>1, <1>2, <1>3, <1>4, <1>5, <1>6, <1>7, <1>8, <1>9

\* The steps of a receive thread that change its path keep the invariant.
LEMMA ConnectPreserves ==
  ASSUME IInv, NEW p \in Paths,
         EnterConnect(p) \/ SpawnConnectionThread(p) \/ Disconnect(p) \/ DisconnectJoin(p)
  PROVE  IInv'
<1> USE DEF IInv, hnzVars, pathVars, fledgeVars, ReceiverAt, ReceiverTo, AllPaths, ReceiverPCs, Stopping,
           Configurations, ThreadsOf, Quiet
<1>1. CASE EnterConnect(p)
  <2>1. TypeOK'
    BY <1>1 DEF TypeOK, EnterConnect
  <2>2. CallInv'
    BY <1>1 DEF CallInv, EnterConnect
  <2>3. ConfigurationInv'
    BY <1>1 DEF ConfigurationInv, EnterConnect
  <2>4. StopInv'
    BY <1>1 DEF StopInv, EnterConnect
  <2>5. SpawnInv'
    BY <1>1 DEF SpawnInv, EnterConnect
  <2>6. QED
    BY <2>1, <2>2, <2>3, <2>4, <2>5
<1>2. CASE SpawnConnectionThread(p)
  <2>1. TypeOK'
    BY <1>2 DEF TypeOK, SpawnConnectionThread
  <2>2. CallInv'
    BY <1>2 DEF CallInv, SpawnConnectionThread
  <2>3. ConfigurationInv'
    BY <1>2 DEF ConfigurationInv, SpawnConnectionThread
  <2>4. StopInv'
    BY <1>2 DEF StopInv, SpawnConnectionThread
  <2>5. SpawnInv'
    BY <1>2 DEF TypeOK, SpawnInv, SpawnConnectionThread
  <2>6. QED
    BY <2>1, <2>2, <2>3, <2>4, <2>5
<1>3. CASE Disconnect(p)
  <2>1. TypeOK'
    BY <1>3 DEF TypeOK, Disconnect
  <2>2. CallInv'
    BY <1>3 DEF CallInv, Disconnect
  <2>3. ConfigurationInv'
    BY <1>3 DEF ConfigurationInv, Disconnect
  <2>4. StopInv'
    BY <1>3 DEF StopInv, Disconnect
  <2>5. SpawnInv'
    BY <1>3 DEF SpawnInv, Disconnect
  <2>6. QED
    BY <2>1, <2>2, <2>3, <2>4, <2>5
<1>4. CASE DisconnectJoin(p)
  <2>1. TypeOK'
    BY <1>4 DEF TypeOK, DisconnectJoin, AfterDisconnect
  <2>2. CallInv'
    BY <1>4 DEF CallInv, DisconnectJoin, AfterDisconnect
  <2>3. ConfigurationInv'
    BY <1>4 DEF ConfigurationInv, DisconnectJoin, AfterDisconnect
  <2>4. StopInv'
    BY <1>4 DEF StopInv, DisconnectJoin, AfterDisconnect
  <2>5. SpawnInv'
    BY <1>4 DEF TypeOK, SpawnInv, DisconnectJoin, AfterDisconnect
  <2>6. QED
    BY <2>1, <2>2, <2>3, <2>4, <2>5
<1>5. QED
  BY <1>1, <1>2, <1>3, <1>4

\* A receive thread goes from one position to another, and nothing else changes.
\* It gets to the creation of a connection thread only with none there and while
\* its connection runs.
Moves(p, next) ==
  /\ receiver[p] \notin {"none", "exited"}
  /\ next \in ReceiverPCs \ {"none", "start"}
  /\ next \in {"enter", "connect", "spawn"} => connection_thread[p] = "none"
  /\ next = "spawn" => connection_is_running
  /\ ReceiverTo(p, next)
  /\ UNCHANGED <<hnzVars, connection_is_running, messages, pathVars, fledgeVars>>

\* Such a move keeps the invariant.
LEMMA MovesPreserve ==
  ASSUME IInv, NEW p \in Paths, NEW next, Moves(p, next)
  PROVE  IInv'
<1> USE DEF IInv, hnzVars, pathVars, fledgeVars, ReceiverAt, ReceiverTo, AllPaths, ReceiverPCs, Stopping,
           Configurations, ThreadsOf, Quiet, Moves
<1>1. TypeOK'
  BY DEF TypeOK
<1>2. CallInv'
  BY DEF CallInv, TypeOK
<1>3. ConfigurationInv'
  BY DEF ConfigurationInv, TypeOK
<1>4. StopInv'
  BY DEF StopInv, TypeOK
<1>5. SpawnInv'
  BY DEF SpawnInv, StopInv, TypeOK
<1>6. QED
  BY <1>1, <1>2, <1>3, <1>4, <1>5

\* The other steps of a receive thread are such moves.
LEMMA ReceivePreserves ==
  ASSUME IInv, NEW p \in Paths,
         ReceiveStart(p) \/ ConnectServer(p) \/ ReceiveLoop(p) \/ ReceiveNothing(p) \/ ReceiveFrame(p) \/
         HandleMessage(p) \/ CheckGICompleted(p) \/ ReceiveLost(p) \/ DisconnectLockThread(p)
  PROVE  IInv'
<1> USE DEF ReceiverAt, Moves, ReceiverPCs
<1>1. CASE ReceiveStart(p)
  <2>1. Moves(p, "exited") \/ Moves(p, "enter")
    BY <1>1 DEF ReceiveStart, IInv, SpawnInv
  <2>2. QED
    BY <2>1, MovesPreserve
<1>2. CASE ConnectServer(p)
  <2>1. Moves(p, "connect") \/ Moves(p, "spawn") \/ Moves(p, "loop")
    BY <1>2 DEF ConnectServer, IInv, SpawnInv
  <2>2. QED
    BY <2>1, MovesPreserve
<1>3. CASE ReceiveLoop(p) \/ ReceiveNothing(p) \/ ReceiveFrame(p) \/ ReceiveLost(p)
  <2>1. \E next \in {"exited", "getData", "loop", "handle", "disconnect"} : Moves(p, next)
    BY <1>3 DEF ReceiveLoop, ReceiveNothing, ReceiveFrame, ReceiveLost
  <2>2. QED
    BY <2>1, MovesPreserve
<1>4. CASE HandleMessage(p) \/ CheckGICompleted(p)
  <2>1. Moves(p, "loop") \/ Moves(p, "completing")
    BY <1>4 DEF HandleMessage, CheckGICompleted
  <2>2. QED
    BY <2>1, MovesPreserve
<1>5. CASE DisconnectLockThread(p)
  <2>1. Moves(p, AfterDisconnect) \/ Moves(p, "join_thread")
    BY <1>5 DEF DisconnectLockThread, AfterDisconnect
  <2>2. QED
    BY <2>1, MovesPreserve
<1>6. QED
  BY <1>1, <1>2, <1>3, <1>4, <1>5

\* The connection threads and the messages thread keep the invariant.
LEMMA ThreadsPreserve ==
  ASSUME IInv,
         (\E p \in Paths : ManageProtocol(p)) \/ (\E p \in Paths : ManageWait(p)) \/
         ManageMessages \/ MessagesWait
  PROVE  IInv'
<1> USE DEF IInv, hnzVars, pathVars, fledgeVars, ReceiverAt, ReceiverTo, AllPaths, ReceiverPCs, Stopping,
           Configurations, ThreadsOf, Quiet
<1>1. ASSUME NEW p \in Paths, ManageProtocol(p) PROVE IInv'
  <2>1. TypeOK'
    BY <1>1 DEF TypeOK, ManageProtocol, ConnectionThreadTo
  <2>2. CallInv'
    BY <1>1 DEF CallInv, ManageProtocol, ConnectionThreadTo
  <2>3. ConfigurationInv'
    BY <1>1 DEF ConfigurationInv, ManageProtocol, ConnectionThreadTo
  <2>4. StopInv'
    BY <1>1 DEF StopInv, ManageProtocol, ConnectionThreadTo
  <2>5. SpawnInv'
    BY <1>1 DEF SpawnInv, ManageProtocol, ConnectionThreadTo
  <2>6. QED
    BY <2>1, <2>2, <2>3, <2>4, <2>5
<1>2. ASSUME NEW p \in Paths, ManageWait(p) PROVE IInv'
  <2>1. TypeOK'
    BY <1>2 DEF TypeOK, ManageWait, ConnectionThreadTo
  <2>2. CallInv'
    BY <1>2 DEF CallInv, ManageWait, ConnectionThreadTo
  <2>3. ConfigurationInv'
    BY <1>2 DEF ConfigurationInv, ManageWait, ConnectionThreadTo
  <2>4. StopInv'
    BY <1>2 DEF StopInv, ManageWait, ConnectionThreadTo
  <2>5. SpawnInv'
    BY <1>2 DEF SpawnInv, ManageWait, ConnectionThreadTo
  <2>6. QED
    BY <2>1, <2>2, <2>3, <2>4, <2>5
<1>3. CASE ManageMessages
  <2>1. TypeOK'
    BY <1>3 DEF TypeOK, ManageMessages
  <2>2. CallInv'
    BY <1>3 DEF CallInv, ManageMessages
  <2>3. ConfigurationInv'
    BY <1>3 DEF ConfigurationInv, ManageMessages
  <2>4. StopInv'
    BY <1>3 DEF StopInv, ManageMessages
  <2>5. SpawnInv'
    BY <1>3 DEF SpawnInv, ManageMessages
  <2>6. QED
    BY <2>1, <2>2, <2>3, <2>4, <2>5
<1>4. CASE MessagesWait
  <2>1. TypeOK'
    BY <1>4 DEF TypeOK, MessagesWait
  <2>2. CallInv'
    BY <1>4 DEF CallInv, MessagesWait
  <2>3. ConfigurationInv'
    BY <1>4 DEF ConfigurationInv, MessagesWait
  <2>4. StopInv'
    BY <1>4 DEF StopInv, MessagesWait
  <2>5. SpawnInv'
    BY <1>4 DEF SpawnInv, MessagesWait
  <2>6. QED
    BY <2>1, <2>2, <2>3, <2>4, <2>5
<1>5. QED
  BY <1>1, <1>2, <1>3, <1>4

---------------------------------------------------------------------------
(* The theorems                                                             *)

\* The invariant holds when the plugin is loaded.
LEMMA InitEstablishes ==
  ASSUME Init
  PROVE  IInv
  BY DEF Init, IInv, TypeOK, CallInv, ConfigurationInv, StopInv, SpawnInv, Quiet, ThreadsOf, AllPaths,
         Configurations, ReceiverPCs, Stopping

\* Every step of every thread keeps it.
LEMMA StepPreserves ==
  ASSUME IInv, [Next]_vars
  PROVE  IInv'
<1>1. CASE FledgeNext
  BY <1>1, CallPreserves, StopPreserves DEF FledgeNext, StopNext
<1>2. CASE MessagesNext
  BY <1>2, ThreadsPreserve DEF MessagesNext
<1>3. ASSUME NEW p \in Paths, ReceiveNext(p)
      PROVE  IInv'
  BY <1>3, ConnectPreserves, ReceivePreserves DEF ReceiveNext
<1>4. ASSUME NEW p \in Paths, ConnectionThreadNext(p)
      PROVE  IInv'
  BY <1>4, ThreadsPreserve DEF ConnectionThreadNext
<1>5. CASE UNCHANGED vars
  BY <1>5 DEF vars, hnzVars, pathVars, fledgeVars, IInv, TypeOK, CallInv, ConfigurationInv, StopInv, SpawnInv,
              Quiet, ThreadsOf
<1>6. QED
  BY <1>1, <1>2, <1>3, <1>4, <1>5 DEF Next

\* The invariant holds in every state, whatever the order of the calls of Fledge
\* and of the losses of the links.
THEOREM Invariance == Spec => []IInv
<1>1. Init => IInv
  BY InitEstablishes
<1>2. IInv /\ [Next]_vars => IInv'
  BY StepPreserves
<1>3. QED
  BY <1>1, <1>2, PTL DEF Spec

\* Every variable has its type; a running connection, and a messages thread, have
\* their object.
THEOREM TypeCorrectness == Spec => []TypeOK
<1>1. IInv => TypeOK
  BY DEF IInv
<1>2. QED
  BY <1>1, Invariance, PTL

\* src/hnz.cpp:89: when the connection is freed or replaced, no thread that could
\* use it is left.
THEOREM FreedConnectionIsUnused == Spec => []FreedIsUnused
<1>1. IInv => FreedIsUnused
  BY DEF IInv, CallInv, FreedIsUnused, Quiet
<1>2. QED
  BY <1>1, Invariance, PTL

\* A complete configuration and a requested start give a running plugin with all
\* its threads, in whichever order they came; without them it has none.
THEOREM PluginRunsAsAsked == Spec => []RunsAsAsked
<1>1. IInv => RunsAsAsked
  BY DEF IInv, TypeOK, CallInv, ConfigurationInv, RunsAsAsked, Quiet
<1>2. QED
  BY <1>1, Invariance, PTL

===========================================================================
