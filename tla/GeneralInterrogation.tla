------------------------ MODULE GeneralInterrogation ------------------------
(***************************************************************************)
(* The general interrogation (GI): its request, the TSCG frames that       *)
(* answer it, its repetition, its end, and the request that waits for the  *)
(* end of the current one (src/hnzconnection.cpp, src/hnz.cpp).            *)
(*                                                                         *)
(* Threads: the messages thread (m_check_GI, init messages) and the end of *)
(* a GI hold m_active_path_mutex and are one step.  The receive thread     *)
(* (m_handle_message, under m_configMutex) and the Fledge thread           *)
(* (operation) test m_giStatus without that mutex, and send afterwards:    *)
(* trigger says where they are.  The accesses to m_gi_addresses_received,  *)
(* which no common lock protects, do not overlap here.  Time is abstract:  *)
(* an unfinished GI may time out at any moment.                            *)
(***************************************************************************)
EXTENDS Naturals, Sequences

CONSTANTS
  Answer,                  \* the TSCG frames that answer a GI: sequences of TS addresses
  LastTS,                  \* getLastTSAddress()
  m_gi_repeat_count_max,
  WaitingBound,            \* bound: GI requests in msg_waiting
  ComingBound,             \* bound: TSCG frames on their way, a longer answer is lost
  ReceivedBound            \* bound: entries of m_gi_addresses_received

TSOf(frame) == {frame[i] : i \in DOMAIN frame}
TS == UNION {TSOf(Answer[i]) : i \in DOMAIN Answer}

ASSUME GIAssumption ==
  /\ Answer \in Seq(Seq(Nat))
  /\ LastTS \in TS
  /\ m_gi_repeat_count_max \in Nat
  /\ WaitingBound \in Nat
  /\ ComingBound \in Nat
  /\ ReceivedBound \in Nat

VARIABLES
  active,                       \* m_active_path # nullptr
  m_sendInitNexConnection,
  full,                         \* the window of the active path is full (HNZWindow)
  waiting,                      \* GI requests in msg_waiting of the active path
  m_giStatus, m_gi_repeat, m_giInQueue,
  m_gi_addresses_received,
  m_gi_schedule_already_sent,
  trigger,                      \* trigger[t]: where thread t is
  terminated,                   \* a thread has followed a null pointer
  coming,                       \* TSCG frames on their way from the RTU
  known                         \* history: what the north knows of a TS since the GI started

pathVars == <<active, m_sendInitNexConnection>>
windowVars == <<full, waiting, coming>>
giVars == <<m_giStatus, m_gi_repeat, m_giInQueue, m_gi_addresses_received, known>>
vars == <<pathVars, windowVars, giVars, m_gi_schedule_already_sent, trigger, terminated>>

GiStatus == {"IDLE", "STARTED", "IN_PROGRESS", "FAILED", "FINISHED"}
Running == m_giStatus \in {"STARTED", "IN_PROGRESS"}

Triggering == {"north", "receiver"}
TriggerTo(t, pc) == trigger' = [trigger EXCEPT ![t] = pc]
At(t, pc) == ~terminated /\ trigger[t] = pc

---------------------------------------------------------------------------
(* Requests                                                                 *)

\* n requests reach the RTU, which answers one of them or none
RTUAnswers(n) ==
  \/ UNCHANGED coming
  \/ /\ n > 0
     /\ Len(coming) + Len(Answer) <= ComingBound
     /\ coming' = coming \o Answer

\* m_sendInfo of sendGeneralInterrogation: sent, or queued and reported as not
\* sent
sendRequest ==
  IF full
    THEN /\ waiting' = IF waiting < WaitingBound THEN waiting + 1 ELSE waiting
         /\ UNCHANGED <<full, coming>>
    ELSE /\ RTUAnswers(1)
         /\ UNCHANGED <<full, waiting>>

\* Status after notifyGIsent, when m_gi_repeat was repeat
StatusSent(repeat, status) == IF repeat = 0 \/ status # "IN_PROGRESS" THEN "STARTED" ELSE status

\* Bug: the count stops at its maximum.
CountSaturated(repeat) == IF repeat < m_gi_repeat_count_max THEN repeat + 1 ELSE repeat

\* m_gi_repeat after notifyGIsent
RepeatSent(repeat) == repeat + 1

\* What the north knows when a GI starts
KnownSent(repeat, k) == IF repeat = 0 THEN [a \in TS |-> "unknown"] ELSE k

\* sendGeneralInterrogation, from the given values of the GI variables
sendGeneralInterrogation(repeat, status, k) ==
  /\ sendRequest
  /\ m_giStatus' = IF full THEN status ELSE StatusSent(repeat, status)
  /\ m_gi_repeat' = IF full THEN repeat ELSE RepeatSent(repeat)
  /\ known' = IF full THEN k ELSE KnownSent(repeat, k)

---------------------------------------------------------------------------
(* End of a GI                                                              *)

Received == TSOf(m_gi_addresses_received)

\* Bug: the count is not reset.
RepeatKept == m_gi_repeat

\* m_sendAllTSQualityReadings: the TS that were not received are invalid
KnownCompleted ==
  [a \in TS |-> IF a \notin Received THEN "invalid" ELSE known[a]]

\* onGICompleted
RepeatCompleted == 0

\* requestConnectionState when the active path is lost
RepeatLost == 0

StatusCompleted(success) == IF success THEN "FINISHED" ELSE "FAILED"

\* HNZ::GICompleted: the request in the queue is sent, on a path that must exist
GICompleted(success) ==
  /\ m_gi_addresses_received' = <<>>
  /\ IF m_giInQueue /\ active
       THEN /\ sendGeneralInterrogation(RepeatCompleted, StatusCompleted(success), KnownCompleted)
            /\ m_giInQueue' = FALSE
       ELSE /\ m_gi_repeat' = RepeatCompleted
            /\ m_giStatus' = StatusCompleted(success)
            /\ known' = KnownCompleted
            /\ UNCHANGED <<windowVars, m_giInQueue>>
  /\ terminated' = (m_giInQueue /\ ~active)

---------------------------------------------------------------------------
(* Messages thread                                                          *)

\* Bug: the repetitions are not limited.
NeverExhausted == FALSE
Exhausted == m_gi_repeat > m_gi_repeat_count_max

\* m_check_GI and checkGICompleted(false): the GI did not end in time
CheckGI ==
  /\ ~terminated
  /\ m_gi_repeat # 0
  /\ \/ Exhausted /\ GICompleted(FALSE)
     \/ /\ ~Exhausted
        /\ m_gi_addresses_received' = <<>>
        /\ IF active THEN sendGeneralInterrogation(m_gi_repeat, m_giStatus, known)
                     ELSE UNCHANGED <<windowVars, m_giStatus, m_gi_repeat, known>>
        /\ UNCHANGED <<m_giInQueue, terminated>>
  /\ UNCHANGED <<pathVars, m_gi_schedule_already_sent, trigger>>

\* m_check_GI: a new day.  A GI and its repetitions last much less than a day.
NewDay ==
  /\ ~terminated
  /\ m_gi_repeat = 0
  /\ m_gi_schedule_already_sent' = FALSE
  /\ UNCHANGED <<pathVars, windowVars, giVars, trigger, terminated>>

\* m_check_GI: the scheduled time, whether or not a GI runs
ScheduledGI ==
  /\ ~terminated
  /\ ~m_gi_schedule_already_sent
  /\ m_gi_schedule_already_sent' = TRUE
  /\ IF active THEN sendGeneralInterrogation(m_gi_repeat, m_giStatus, known)
               ELSE UNCHANGED <<windowVars, m_giStatus, m_gi_repeat, known>>
  /\ UNCHANGED <<pathVars, m_giInQueue, m_gi_addresses_received, trigger, terminated>>

\* m_check_timer and sendInitMessages, if repeat_timeout passes before the active
\* path is lost
InitMessages ==
  /\ ~terminated
  /\ active
  /\ m_sendInitNexConnection
  /\ m_sendInitNexConnection' = FALSE
  /\ sendGeneralInterrogation(m_gi_repeat, m_giStatus, known)
  /\ UNCHANGED <<active, m_giInQueue, m_gi_addresses_received, m_gi_schedule_already_sent, trigger, terminated>>

---------------------------------------------------------------------------
(* Receive thread and Fledge thread                                         *)

\* m_handleTSCE of a triggering TS, or operation north_status: a GI is put in
\* the queue when one is running, and sent otherwise
Trigger(t) ==
  /\ At(t, "idle")
  /\ active
  /\ TriggerTo(t, IF Running THEN "queue" ELSE "send")
  /\ UNCHANGED <<pathVars, windowVars, giVars, m_gi_schedule_already_sent, terminated>>

TriggerQueue(t) ==
  /\ At(t, "queue")
  /\ m_giInQueue' = TRUE
  /\ TriggerTo(t, "idle")
  /\ UNCHANGED <<pathVars, windowVars, m_giStatus, m_gi_repeat, m_gi_addresses_received, known,
                 m_gi_schedule_already_sent, terminated>>

\* getActivePath() again, then m_sendInfo
TriggerSend(t) ==
  /\ At(t, "send")
  /\ IF active
       THEN /\ sendRequest
            /\ known' = IF full THEN known ELSE KnownSent(m_gi_repeat, known)
            /\ TriggerTo(t, IF full THEN "idle" ELSE "notify")
            /\ UNCHANGED terminated
       ELSE /\ terminated' = TRUE
            /\ UNCHANGED <<windowVars, known, trigger>>
  /\ UNCHANGED <<pathVars, m_giStatus, m_gi_repeat, m_giInQueue, m_gi_addresses_received,
                 m_gi_schedule_already_sent>>

TriggerNotify(t) ==
  /\ At(t, "notify")
  /\ m_giStatus' = StatusSent(m_gi_repeat, m_giStatus)
  /\ m_gi_repeat' = RepeatSent(m_gi_repeat)
  /\ TriggerTo(t, "idle")
  /\ UNCHANGED <<pathVars, windowVars, m_giInQueue, m_gi_addresses_received, known, m_gi_schedule_already_sent, terminated>>

\* m_handleTSCG
ReceiveTSCG ==
  /\ At("receiver", "idle")
  /\ coming # <<>>
  /\ Len(m_gi_addresses_received) + Len(Head(coming)) <= ReceivedBound
  /\ coming' = Tail(coming)
  /\ m_gi_addresses_received' = m_gi_addresses_received \o Head(coming)
  /\ known' = [a \in TS |-> IF a \in TSOf(Head(coming)) THEN "received" ELSE known[a]]
  /\ m_giStatus' = IF m_giStatus = "STARTED" THEN "IN_PROGRESS" ELSE m_giStatus
  /\ TriggerTo("receiver", "check")
  /\ UNCHANGED <<pathVars, full, waiting, m_gi_repeat, m_giInQueue, m_gi_schedule_already_sent, terminated>>

LastReceived ==
  m_gi_addresses_received # <<>> /\ m_gi_addresses_received[Len(m_gi_addresses_received)] = LastTS

\* end of m_handle_message: was the last TS received
CheckLast ==
  /\ At("receiver", "check")
  /\ TriggerTo("receiver", IF LastReceived THEN "complete" ELSE "idle")
  /\ UNCHANGED <<pathVars, windowVars, giVars, m_gi_schedule_already_sent, terminated>>

\* checkGICompleted(true), once m_active_path_mutex is taken
CompleteGI ==
  /\ At("receiver", "complete")
  /\ GICompleted(TRUE)
  /\ TriggerTo("receiver", "idle")
  /\ UNCHANGED <<pathVars, m_gi_schedule_already_sent>>

---------------------------------------------------------------------------
(* Paths, window and RTU                                                    *)

\* A path becomes active when there was none
PathActive ==
  /\ ~terminated
  /\ ~active
  /\ active' = TRUE
  /\ UNCHANGED <<m_sendInitNexConnection, windowVars, giVars, m_gi_schedule_already_sent, trigger, terminated>>

\* requestConnectionState: the active path is lost, and another one takes over
\* or none does.  Its messages are discarded; the RTU may go on answering.  A
\* thread that already has the pointer finds its message refused.
ActivePathLost ==
  /\ ~terminated
  /\ active
  /\ active' \in BOOLEAN
  /\ m_sendInitNexConnection' = (m_sendInitNexConnection \/ ~active')
  /\ m_gi_repeat' = RepeatLost
  /\ full' = FALSE
  /\ waiting' = 0
  /\ coming' \in {coming, <<>>}
  /\ trigger' \in {trigger, [t \in Triggering |-> IF trigger[t] = "send" THEN "idle" ELSE trigger[t]]}
  /\ UNCHANGED <<m_giStatus, m_giInQueue, m_gi_addresses_received, known, m_gi_schedule_already_sent, terminated>>

\* Other messages fill the window; acknowledgements open it and send what waits
FillWindow ==
  /\ ~terminated
  /\ active
  /\ ~full
  /\ full' = TRUE
  /\ UNCHANGED <<pathVars, waiting, coming, giVars, m_gi_schedule_already_sent, trigger, terminated>>

DrainWindow ==
  /\ ~terminated
  /\ full
  /\ full' = FALSE
  /\ waiting' = 0
  /\ RTUAnswers(waiting)
  /\ UNCHANGED <<pathVars, giVars, m_gi_schedule_already_sent, trigger, terminated>>

\* The RTU leaves a TSCG out
SkipTSCG ==
  /\ ~terminated
  /\ coming # <<>>
  /\ coming' = Tail(coming)
  /\ UNCHANGED <<pathVars, full, waiting, giVars, m_gi_schedule_already_sent, trigger, terminated>>

Terminated == terminated /\ UNCHANGED vars

---------------------------------------------------------------------------
Init ==
  /\ active = FALSE
  /\ m_sendInitNexConnection = TRUE
  /\ full = FALSE
  /\ waiting = 0
  /\ m_giStatus = "IDLE"
  /\ m_gi_repeat = 0
  /\ m_giInQueue = FALSE
  /\ m_gi_addresses_received = <<>>
  /\ m_gi_schedule_already_sent \in BOOLEAN
  /\ trigger = [t \in Triggering |-> "idle"]
  /\ terminated = FALSE
  /\ coming = <<>>
  /\ known = [a \in TS |-> "unknown"]

Next ==
  \/ CheckGI \/ NewDay \/ ScheduledGI \/ InitMessages
  \/ \E t \in Triggering : Trigger(t) \/ TriggerQueue(t) \/ TriggerSend(t) \/ TriggerNotify(t)
  \/ ReceiveTSCG \/ CheckLast \/ CompleteGI
  \/ PathActive \/ ActivePathLost \/ FillWindow \/ DrainWindow \/ SkipTSCG \/ Terminated

\* The messages thread runs m_check_GI every 100 ms
Fairness == WF_vars(CheckGI)

Spec == Init /\ [][Next]_vars /\ Fairness

---------------------------------------------------------------------------
(* Properties                                                               *)

\* Every variable has its type.  m_check_GI sends a GI at most
\* m_gi_repeat_count_max times again, and the init messages, the schedule, the
\* north and a triggering TS may each send one more meanwhile.
TypeOK ==
  /\ active \in BOOLEAN /\ m_sendInitNexConnection \in BOOLEAN
  /\ full \in BOOLEAN /\ waiting \in 0..WaitingBound
  /\ m_giStatus \in GiStatus
  /\ m_gi_repeat \in 0..(m_gi_repeat_count_max + 5)
  /\ m_giInQueue \in BOOLEAN
  /\ m_gi_addresses_received \in Seq(TS)
  /\ m_gi_schedule_already_sent \in BOOLEAN
  /\ trigger \in [Triggering -> {"idle", "queue", "send", "notify", "check", "complete"}]
  /\ terminated \in BOOLEAN
  /\ coming \in Seq({Answer[i] : i \in DOMAIN Answer})
  /\ known \in [TS -> {"unknown", "received", "invalid"}]

\* A GI that m_check_GI supervises is one the north has been told of, whichever
\* thread sent it and whatever ended meanwhile.
OutstandingIsReported == m_gi_repeat > 0 => Running

\* Without an active path nothing is counted but the notifications of the
\* threads that were caught between m_sendInfo and notifyGIsent.
LostPathStopsGI == ~active => m_gi_repeat <= 2

\* On a path that stays active with room in its window, no GI is repeated for
\* ever: its repetitions are counted, and it ends.
RepetitionsEnd == <>[](active /\ ~full) => []<>(m_gi_repeat <= 1 \/ terminated)

---------------------------------------------------------------------------
(* What a comment of the code says, and the code does not keep              *)

\* include/hnz.h:199: m_gi_addresses_received holds the TS received in response to
\* a request.  Then, when a GI ends well, each TS has been received or has been
\* declared invalid since it was requested.
FinishedMeansKnown == m_giStatus = "FINISHED" => \A a \in TS : known[a] # "unknown"
=============================================================================
