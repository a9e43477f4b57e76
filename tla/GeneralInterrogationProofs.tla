--------------------- MODULE GeneralInterrogationProofs ---------------------
(***************************************************************************)
(* Proofs about GeneralInterrogation, for any TSCG frames, any number of   *)
(* repetitions and any bounds.                                             *)
(***************************************************************************)
EXTENDS GeneralInterrogation, SequenceTheorems, TLAPS

---------------------------------------------------------------------------
(* The invariant                                                            *)

Frames == {Answer[i] : i \in DOMAIN Answer}
Positions == {"idle", "queue", "send", "notify", "check", "complete"}
Knowledge == [TS -> {"unknown", "received", "invalid"}]

\* TypeOK without the bound on m_gi_repeat.
TypeInv ==
  /\ active \in BOOLEAN /\ m_sendInitNexConnection \in BOOLEAN
  /\ full \in BOOLEAN /\ waiting \in 0..WaitingBound
  /\ m_giStatus \in GiStatus
  /\ m_gi_repeat \in Nat
  /\ m_giInQueue \in BOOLEAN
  /\ m_gi_addresses_received \in Seq(TS)
  /\ m_gi_schedule_already_sent \in BOOLEAN
  /\ trigger \in [Triggering -> Positions]
  /\ terminated \in BOOLEAN
  /\ coming \in Seq(Frames)
  /\ known \in Knowledge

\* The requests a thread may still send or count
Owing(t) == IF trigger[t] \in {"send", "notify"} THEN 1 ELSE 0
Counting(t) == IF trigger[t] = "notify" THEN 1 ELSE 0
One(b) == IF b THEN 1 ELSE 0
Others == One(m_sendInitNexConnection) + One(~m_gi_schedule_already_sent) + Owing("north") + Owing("receiver")

\* What has been counted, and what the senders other than m_check_GI may add.
Budget == m_gi_repeat + Others <= m_gi_repeat_count_max + 5

\* Without an active path only a pending notification is added.
Pending == Counting("north") + Counting("receiver")
LostBudget == ~active => m_gi_repeat + Pending <= 2

IInv == TypeInv /\ OutstandingIsReported /\ Budget /\ LostBudget

---------------------------------------------------------------------------
(* Lemmas                                                                   *)

\* A TSCG frame lists configured TS, and the answer to a GI is made of them.
LEMMA FrameFacts == Answer \in Seq(Frames) /\ \A f \in Frames : f \in Seq(TS)
<1>1. Answer \in Seq(Seq(Nat)) /\ Len(Answer) \in Nat /\ DOMAIN Answer = 1..Len(Answer)
  BY GIAssumption, LenProperties
<1>2. Answer \in Seq(Frames)
  <2>1. Answer \in [1..Len(Answer) -> Frames]
    <3>1. Answer = [i \in 1..Len(Answer) |-> Answer[i]]
      BY <1>1, LenProperties
    <3>2. \A i \in 1..Len(Answer) : Answer[i] \in Frames
      BY <1>1 DEF Frames
    <3>3. QED
      BY <3>1, <3>2
  <2>2. Len(Answer) \in Nat
    BY <1>1
  <2>3. QED
    BY <2>1, <2>2, SeqDef
<1>3. ASSUME NEW f \in Frames PROVE f \in Seq(TS)
  <2>1. PICK i \in DOMAIN Answer : f = Answer[i]
    BY DEF Frames
  <2>2. f \in Seq(Nat)
    BY <1>1, <2>1, ElementOfSeq
  <2>3. Len(f) \in Nat /\ DOMAIN f = 1..Len(f)
    BY <2>2, LenProperties
  <2>4. \A j \in 1..Len(f) : f[j] \in TS
    BY <2>1, <2>3 DEF TS, TSOf
  <2>5. f \in [1..Len(f) -> TS]
    <3>1. f = [j \in 1..Len(f) |-> f[j]]
      BY <2>2, LenProperties
    <3>2. QED
      BY <2>4, <3>1
  <2>6. QED
    BY <2>3, <2>5, SeqDef
<1>4. QED
  BY <1>2, <1>3

\* What the RTU answers keeps the type of the frames on their way.
LEMMA AnswerType ==
  ASSUME coming \in Seq(Frames), NEW n, RTUAnswers(n)
  PROVE  coming' \in Seq(Frames)
<1>1. coming \o Answer \in Seq(Frames)
  BY FrameFacts, ConcatProperties
<1>2. QED
  BY <1>1 DEF RTUAnswers

\* A request that is sent or queued keeps the types of the window.
LEMMA RequestType ==
  ASSUME TypeInv, sendRequest
  PROVE  full' \in BOOLEAN /\ full' = full /\ waiting' \in 0..WaitingBound /\ coming' \in Seq(Frames)
<1>1. full' = full /\ waiting' \in 0..WaitingBound
  BY GIAssumption DEF TypeInv, sendRequest
<1>2. coming' \in Seq(Frames)
  BY AnswerType DEF TypeInv, sendRequest
<1>3. full' \in BOOLEAN
  BY <1>1, Zenon DEF TypeInv
<1>4. QED
  BY <1>1, <1>2, <1>3

\* sendGeneralInterrogation counts the GI and reports it, or does neither.
LEMMA SendFacts ==
  ASSUME TypeInv, NEW repeat \in Nat, NEW status \in GiStatus, NEW k \in Knowledge,
         sendGeneralInterrogation(repeat, status, k)
  PROVE  /\ full' \in BOOLEAN /\ waiting' \in 0..WaitingBound /\ coming' \in Seq(Frames)
         /\ m_giStatus' \in GiStatus /\ known' \in Knowledge
         /\ \/ m_gi_repeat' = repeat /\ m_giStatus' = status
            \/ m_gi_repeat' = repeat + 1 /\ m_giStatus' \in {"STARTED", "IN_PROGRESS"}
<1>1. full' \in BOOLEAN /\ waiting' \in 0..WaitingBound /\ coming' \in Seq(Frames)
  BY RequestType DEF sendGeneralInterrogation
<1>2. [a \in TS |-> "unknown"] \in Knowledge
  BY DEF Knowledge
<1>3. known' \in Knowledge
  BY <1>2 DEF sendGeneralInterrogation, KnownSent
<1>4. \/ m_gi_repeat' = repeat /\ m_giStatus' = status
      \/ m_gi_repeat' = repeat + 1 /\ m_giStatus' \in {"STARTED", "IN_PROGRESS"}
  BY DEF sendGeneralInterrogation, RepeatSent, StatusSent
<1>5. QED
  BY <1>1, <1>3, <1>4 DEF GiStatus

\* The end of a GI leaves at most one GI counted, the one that was in the queue.
LEMMA CompletedFacts ==
  ASSUME TypeInv, NEW success \in BOOLEAN, GICompleted(success)
  PROVE  /\ full' \in BOOLEAN /\ waiting' \in 0..WaitingBound /\ coming' \in Seq(Frames)
         /\ m_giStatus' \in GiStatus /\ known' \in Knowledge /\ m_giInQueue' \in BOOLEAN
         /\ m_gi_addresses_received' \in Seq(TS) /\ terminated' \in BOOLEAN
         /\ \/ m_gi_repeat' = 0
            \/ m_gi_repeat' = 1 /\ m_giStatus' \in {"STARTED", "IN_PROGRESS"} /\ active
<1>1. KnownCompleted \in Knowledge
  BY DEF TypeInv, KnownCompleted, Knowledge
<1>2. StatusCompleted(success) \in GiStatus
  BY DEF StatusCompleted, GiStatus
<1>3. terminated' \in BOOLEAN
  BY Zenon DEF GICompleted
<1>4. m_gi_addresses_received' \in Seq(TS)
  BY EmptySeq DEF GICompleted
<1>5. CASE m_giInQueue /\ active
  <2>1. sendGeneralInterrogation(0, StatusCompleted(success), KnownCompleted) /\ m_giInQueue' = FALSE
    BY <1>5 DEF GICompleted, RepeatCompleted
  <2>2. /\ full' \in BOOLEAN /\ waiting' \in 0..WaitingBound /\ coming' \in Seq(Frames)
        /\ m_giStatus' \in GiStatus /\ known' \in Knowledge
        /\ \/ m_gi_repeat' = 0 /\ m_giStatus' = StatusCompleted(success)
           \/ m_gi_repeat' = 0 + 1 /\ m_giStatus' \in {"STARTED", "IN_PROGRESS"}
    BY <1>1, <1>2, <2>1, SendFacts
  <2>3. m_giInQueue' \in BOOLEAN
    BY <2>1
  <2>4. m_gi_repeat' = 0 \/ (m_gi_repeat' = 1 /\ m_giStatus' \in {"STARTED", "IN_PROGRESS"})
    BY <2>2
  <2>5. \/ m_gi_repeat' = 0
        \/ m_gi_repeat' = 1 /\ m_giStatus' \in {"STARTED", "IN_PROGRESS"} /\ active
    BY <1>5, <2>4, Zenon
  <2>6. QED
    BY <1>3, <1>4, <2>2, <2>3, <2>5, Zenon
<1>6. CASE ~(m_giInQueue /\ active)
  <2>1. /\ m_gi_repeat' = 0 /\ m_giStatus' = StatusCompleted(success) /\ known' = KnownCompleted
        /\ UNCHANGED <<full, waiting, coming, m_giInQueue>>
    BY <1>6 DEF GICompleted, RepeatCompleted, windowVars
  <2>2. full' \in BOOLEAN /\ m_giInQueue' \in BOOLEAN
    BY <2>1, Zenon DEF TypeInv
  <2>3. QED
    BY <1>1, <1>2, <1>3, <1>4, <2>1, <2>2 DEF TypeInv
<1>7. QED
  BY <1>5, <1>6

\* The senders other than m_check_GI add at most four.
LEMMA OthersBounded == Others \in 0..4
  BY DEF Others, One, Owing

\* The next position of a thread.
LEMMA TriggerType ==
  ASSUME TypeInv, NEW t \in Triggering, NEW pc \in Positions, TriggerTo(t, pc)
  PROVE  /\ trigger' \in [Triggering -> Positions]
         /\ trigger'[t] = pc /\ \A u \in Triggering \ {t} : trigger'[u] = trigger[u]
  BY DEF TypeInv, TriggerTo

\* A GI that is counted no more than m_check_GI and the queue may count it
\* leaves room for all the other senders.
LEMMA RoomForOthers ==
  ASSUME NEW repeat \in Nat, NEW others \in 0..4, repeat <= m_gi_repeat_count_max + 1
  PROVE  repeat + others <= m_gi_repeat_count_max + 5
<1>1. m_gi_repeat_count_max \in Nat
  BY GIAssumption
<1>2. QED
  BY <1>1

\* A count that grows by no more than the others' share shrinks stays in budget.
LEMMA BudgetKept ==
  ASSUME NEW repeat \in Nat, NEW others \in Nat, NEW nextRepeat \in Nat, NEW nextOthers \in Nat,
         repeat + others <= m_gi_repeat_count_max + 5, nextRepeat + nextOthers <= repeat + others
  PROVE  nextRepeat + nextOthers <= m_gi_repeat_count_max + 5
<1>1. m_gi_repeat_count_max \in Nat
  BY GIAssumption
<1>2. QED
  BY <1>1

\* A sender that counts at most one, and owes one less.
LEMMA OneLess ==
  ASSUME NEW repeat \in Nat, NEW others \in Nat, NEW nextRepeat \in Nat, NEW nextOthers \in Nat,
         nextRepeat <= repeat + 1, others = nextOthers + 1
  PROVE  nextRepeat + nextOthers <= repeat + others
  OBVIOUS

---------------------------------------------------------------------------
(* The messages thread                                                      *)

\* m_check_GI of a GI that did not end in time keeps the invariant: the GI ends,
\* or its repetition is counted while the count is at most its maximum.
LEMMA CheckGIStep == ASSUME IInv, CheckGI PROVE IInv'
<1>1. /\ TypeInv /\ OutstandingIsReported /\ Budget /\ LostBudget
      /\ UNCHANGED <<active, m_sendInitNexConnection, m_gi_schedule_already_sent, trigger>>
  BY DEF IInv, CheckGI, pathVars
<1>2. Others' = Others /\ Others' \in 0..4
  BY <1>1, OthersBounded DEF Others, One, Owing
<1>3. Pending' = Pending
  BY <1>1 DEF Pending, Counting
<1>4. active' \in BOOLEAN /\ m_sendInitNexConnection' \in BOOLEAN /\ m_gi_schedule_already_sent' \in BOOLEAN
  BY <1>1, Zenon DEF TypeInv
<1>5. trigger' \in [Triggering -> Positions]
  BY <1>1 DEF TypeInv
<1>6. CASE Exhausted /\ GICompleted(FALSE)
  <2>1. /\ full' \in BOOLEAN /\ waiting' \in 0..WaitingBound /\ coming' \in Seq(Frames)
        /\ m_giStatus' \in GiStatus /\ known' \in Knowledge /\ m_giInQueue' \in BOOLEAN
        /\ m_gi_addresses_received' \in Seq(TS) /\ terminated' \in BOOLEAN
        /\ \/ m_gi_repeat' = 0
           \/ m_gi_repeat' = 1 /\ m_giStatus' \in {"STARTED", "IN_PROGRESS"} /\ active
    BY <1>1, <1>6, CompletedFacts
  <2>2. m_gi_repeat' \in 0..1
    BY <2>1
  <2>3. TypeInv'
    BY <1>4, <1>5, <2>1, <2>2 DEF TypeInv
  <2>4. OutstandingIsReported'
    BY <2>1 DEF OutstandingIsReported, Running
  <2>5. Budget'
    <3>1. m_gi_repeat' \in Nat /\ m_gi_repeat' <= m_gi_repeat_count_max + 1
      BY <2>2, GIAssumption
    <3>2. QED
      BY <1>2, <3>1, RoomForOthers DEF Budget
  <2>6. LostBudget'
    BY <1>1, <2>1 DEF LostBudget, Counting, Pending
  <2>7. QED
    BY <2>3, <2>4, <2>5, <2>6 DEF IInv
<1>7. CASE ~Exhausted /\ m_gi_addresses_received' = <<>> /\ UNCHANGED <<m_giInQueue, terminated>>
           /\ active /\ sendGeneralInterrogation(m_gi_repeat, m_giStatus, known)
  <2>1. /\ full' \in BOOLEAN /\ waiting' \in 0..WaitingBound /\ coming' \in Seq(Frames)
        /\ m_giStatus' \in GiStatus /\ known' \in Knowledge
        /\ \/ m_gi_repeat' = m_gi_repeat /\ m_giStatus' = m_giStatus
           \/ m_gi_repeat' = m_gi_repeat + 1 /\ m_giStatus' \in {"STARTED", "IN_PROGRESS"}
    BY <1>1, <1>7, SendFacts DEF TypeInv
  <2>2. m_gi_repeat \in Nat /\ m_gi_repeat <= m_gi_repeat_count_max
    BY <1>1, <1>7, GIAssumption DEF TypeInv, Exhausted
  <2>3. m_gi_repeat' \in Nat /\ m_gi_repeat' <= m_gi_repeat_count_max + 1
    BY <2>1, <2>2, GIAssumption
  <2>4. m_giInQueue' \in BOOLEAN /\ terminated' \in BOOLEAN
    BY <1>1, <1>7, Zenon DEF TypeInv
  <2>5. m_gi_addresses_received' \in Seq(TS)
    BY <1>7, EmptySeq
  <2>6. TypeInv'
    BY <1>4, <1>5, <2>1, <2>3, <2>4, <2>5 DEF TypeInv
  <2>7. OutstandingIsReported'
    BY <1>1, <2>1 DEF OutstandingIsReported, Running
  <2>8. Budget'
    BY <1>2, <2>3, RoomForOthers DEF Budget
  <2>9. LostBudget'
    BY <1>1, <1>7 DEF LostBudget
  <2>10. QED
    BY <2>6, <2>7, <2>8, <2>9 DEF IInv
<1>8. CASE m_gi_addresses_received' = <<>> /\ UNCHANGED <<full, waiting, coming, m_giStatus, m_gi_repeat, known,
                                                         m_giInQueue, terminated>>
  <2>1. full' \in BOOLEAN /\ m_giInQueue' \in BOOLEAN /\ terminated' \in BOOLEAN
    BY <1>1, <1>8, Zenon DEF TypeInv
  <2>2. TypeInv'
    BY <1>1, <1>4, <1>5, <1>8, <2>1, EmptySeq DEF TypeInv
  <2>3. OutstandingIsReported' /\ Budget' /\ LostBudget'
    BY <1>1, <1>2, <1>3, <1>8 DEF OutstandingIsReported, Running, Budget, LostBudget
  <2>4. QED
    BY <2>2, <2>3 DEF IInv
<1>9. QED
  BY <1>6, <1>7, <1>8 DEF CheckGI, windowVars

\* A sender other than m_check_GI keeps the invariant on an active path: what it
\* counts, it no longer owes.
LEMMA SenderStep ==
  ASSUME TypeInv, OutstandingIsReported, Budget, active,
         sendGeneralInterrogation(m_gi_repeat, m_giStatus, known),
         Others \in Nat, Others' \in Nat, Others = Others' + 1
  PROVE  /\ full' \in BOOLEAN /\ waiting' \in 0..WaitingBound /\ coming' \in Seq(Frames)
         /\ m_giStatus' \in GiStatus /\ known' \in Knowledge /\ m_gi_repeat' \in Nat
         /\ OutstandingIsReported' /\ Budget'
<1>1. /\ full' \in BOOLEAN /\ waiting' \in 0..WaitingBound /\ coming' \in Seq(Frames)
      /\ m_giStatus' \in GiStatus /\ known' \in Knowledge
      /\ \/ m_gi_repeat' = m_gi_repeat /\ m_giStatus' = m_giStatus
         \/ m_gi_repeat' = m_gi_repeat + 1 /\ m_giStatus' \in {"STARTED", "IN_PROGRESS"}
  BY SendFacts DEF TypeInv
<1>2. m_gi_repeat \in Nat /\ m_gi_repeat' \in Nat /\ m_gi_repeat' <= m_gi_repeat + 1
  BY <1>1 DEF TypeInv
<1>3. OutstandingIsReported'
  BY <1>1 DEF OutstandingIsReported, Running
<1>4. Budget'
  <2>1. m_gi_repeat' + Others' <= m_gi_repeat + Others
    BY <1>2, OneLess
  <2>2. QED
    BY <1>2, <2>1, BudgetKept DEF Budget
<1>5. QED
  BY <1>1, <1>2, <1>3, <1>4

\* The init messages keep the invariant.
LEMMA InitMessagesStep == ASSUME IInv, InitMessages PROVE IInv'
<1>1. /\ TypeInv /\ OutstandingIsReported /\ Budget /\ LostBudget /\ active
      /\ m_sendInitNexConnection = TRUE /\ m_sendInitNexConnection' = FALSE
      /\ sendGeneralInterrogation(m_gi_repeat, m_giStatus, known)
      /\ UNCHANGED <<active, m_giInQueue, m_gi_addresses_received, m_gi_schedule_already_sent, trigger, terminated>>
  BY Zenon DEF IInv, TypeInv, InitMessages
<1>2. Others \in Nat /\ Others' \in Nat /\ Others = Others' + 1
  BY <1>1, OthersBounded DEF Others, One, Owing
<1>3. /\ full' \in BOOLEAN /\ waiting' \in 0..WaitingBound /\ coming' \in Seq(Frames)
      /\ m_giStatus' \in GiStatus /\ known' \in Knowledge /\ m_gi_repeat' \in Nat
      /\ OutstandingIsReported' /\ Budget'
  BY <1>1, <1>2, SenderStep
<1>4. /\ active' \in BOOLEAN /\ m_sendInitNexConnection' \in BOOLEAN /\ m_giInQueue' \in BOOLEAN
      /\ m_gi_schedule_already_sent' \in BOOLEAN /\ terminated' \in BOOLEAN /\ active'
  BY <1>1, Zenon DEF TypeInv
<1>5. TypeInv'
  BY <1>1, <1>3, <1>4 DEF TypeInv
<1>6. LostBudget'
  BY <1>4 DEF LostBudget
<1>7. QED
  BY <1>3, <1>5, <1>6 DEF IInv

\* The scheduled GI keeps the invariant.
LEMMA ScheduledGIStep == ASSUME IInv, ScheduledGI PROVE IInv'
<1>1. /\ TypeInv /\ OutstandingIsReported /\ Budget /\ LostBudget
      /\ m_gi_schedule_already_sent = FALSE /\ m_gi_schedule_already_sent' = TRUE
      /\ UNCHANGED <<active, m_sendInitNexConnection, m_giInQueue, m_gi_addresses_received, trigger, terminated>>
  BY Zenon DEF IInv, TypeInv, ScheduledGI, pathVars
<1>2. Others \in Nat /\ Others' \in Nat /\ Others = Others' + 1
  BY <1>1, OthersBounded DEF Others, One, Owing
<1>3. /\ active' \in BOOLEAN /\ m_sendInitNexConnection' \in BOOLEAN /\ m_giInQueue' \in BOOLEAN
      /\ m_gi_schedule_already_sent' \in BOOLEAN /\ terminated' \in BOOLEAN
  BY <1>1, Zenon DEF TypeInv
<1>4. CASE active /\ sendGeneralInterrogation(m_gi_repeat, m_giStatus, known)
  <2>1. /\ full' \in BOOLEAN /\ waiting' \in 0..WaitingBound /\ coming' \in Seq(Frames)
        /\ m_giStatus' \in GiStatus /\ known' \in Knowledge /\ m_gi_repeat' \in Nat
        /\ OutstandingIsReported' /\ Budget'
    BY <1>1, <1>2, <1>4, SenderStep
  <2>2. TypeInv'
    BY <1>1, <1>3, <2>1 DEF TypeInv
  <2>3. LostBudget'
    BY <1>1, <1>4 DEF LostBudget
  <2>4. QED
    BY <2>1, <2>2, <2>3 DEF IInv
<1>5. CASE UNCHANGED <<full, waiting, coming, m_giStatus, m_gi_repeat, known>>
  <2>1. full' \in BOOLEAN
    BY <1>1, <1>5, Zenon DEF TypeInv
  <2>2. TypeInv'
    BY <1>1, <1>3, <1>5, <2>1 DEF TypeInv
  <2>3. OutstandingIsReported' /\ LostBudget'
    BY <1>1, <1>5 DEF OutstandingIsReported, Running, LostBudget, Counting, Pending
  <2>4. m_gi_repeat \in Nat /\ m_gi_repeat' \in Nat /\ m_gi_repeat' <= m_gi_repeat + 1
    BY <1>1, <1>5 DEF TypeInv
  <2>5. m_gi_repeat' + Others' <= m_gi_repeat + Others
    BY <1>2, <2>4, OneLess
  <2>6. Budget'
    BY <1>1, <1>2, <2>4, <2>5, BudgetKept DEF Budget
  <2>7. QED
    BY <2>2, <2>3, <2>6 DEF IInv
<1>6. QED
  BY <1>4, <1>5 DEF ScheduledGI, windowVars

\* A new day keeps the invariant: no GI is counted when it begins.
LEMMA NewDayStep == ASSUME IInv, NewDay PROVE IInv'
<1>1. /\ TypeInv /\ OutstandingIsReported /\ LostBudget /\ m_gi_repeat = 0
      /\ m_gi_schedule_already_sent' = FALSE
      /\ UNCHANGED <<active, m_sendInitNexConnection, full, waiting, coming, m_giStatus, m_gi_repeat, m_giInQueue,
                     m_gi_addresses_received, known, trigger, terminated>>
  BY DEF IInv, NewDay, pathVars, windowVars, giVars
<1>2. /\ active' \in BOOLEAN /\ m_sendInitNexConnection' \in BOOLEAN /\ m_giInQueue' \in BOOLEAN
      /\ m_gi_schedule_already_sent' \in BOOLEAN /\ terminated' \in BOOLEAN /\ full' \in BOOLEAN
  BY <1>1, Zenon DEF TypeInv
<1>3. TypeInv'
  BY <1>1, <1>2 DEF TypeInv
<1>4. OutstandingIsReported' /\ LostBudget'
  BY <1>1 DEF OutstandingIsReported, Running, LostBudget, Counting, Pending
<1>5. Others' \in 0..4
  BY DEF Others, One, Owing
<1>6. m_gi_repeat' \in Nat /\ m_gi_repeat' <= m_gi_repeat_count_max + 1
  BY <1>1, GIAssumption
<1>7. Budget'
  BY <1>5, <1>6, RoomForOthers DEF Budget
<1>8. QED
  BY <1>3, <1>4, <1>7 DEF IInv

---------------------------------------------------------------------------
(* The receive thread and the Fledge thread                                 *)

Sending == {"send", "notify"}

\* What a step of a thread changes of what the threads owe.
LEMMA ThreadMoves ==
  ASSUME TypeInv, NEW t \in Triggering, NEW pc \in Positions, TriggerTo(t, pc),
         UNCHANGED <<m_sendInitNexConnection, m_gi_schedule_already_sent>>
  PROVE  /\ trigger' \in [Triggering -> Positions]
         /\ Others \in Nat /\ Others' \in Nat /\ Others' \in 0..4 /\ Pending \in Nat /\ Pending' \in Nat
         /\ pc \notin Sending \/ trigger[t] \in Sending => Others' <= Others
         /\ pc # "notify" => Pending' <= Pending
         /\ trigger[t] = "notify" /\ pc = "idle" => Others = Others' + 1 /\ Pending = Pending' + 1
<1>1. /\ trigger' \in [Triggering -> Positions]
      /\ trigger'[t] = pc /\ \A u \in Triggering \ {t} : trigger'[u] = trigger[u]
  BY TriggerType
<1>2. CASE t = "north"
  <2>1. trigger'["north"] = pc /\ trigger'["receiver"] = trigger["receiver"]
    BY <1>1, <1>2 DEF Triggering
  <2>2. QED
    BY <1>1, <1>2, <2>1 DEF Others, One, Owing, Pending, Counting, Sending
<1>3. CASE t = "receiver"
  <2>1. trigger'["receiver"] = pc /\ trigger'["north"] = trigger["north"]
    BY <1>1, <1>3 DEF Triggering
  <2>2. QED
    BY <1>1, <1>3, <2>1 DEF Others, One, Owing, Pending, Counting, Sending
<1>4. QED
  BY <1>2, <1>3 DEF Triggering

\* A thread that counts nothing, and owes nothing new, keeps both budgets.
LEMMA QuietMove ==
  ASSUME TypeInv, Budget, LostBudget, NEW t \in Triggering, NEW pc \in Positions, TriggerTo(t, pc),
         UNCHANGED <<active, m_sendInitNexConnection, m_gi_schedule_already_sent, m_gi_repeat>>,
         pc \notin Sending \/ trigger[t] \in Sending, pc # "notify" \/ active
  PROVE  trigger' \in [Triggering -> Positions] /\ Budget' /\ LostBudget'
<1>1. /\ trigger' \in [Triggering -> Positions]
      /\ Others \in Nat /\ Others' \in Nat /\ Others' \in 0..4 /\ Pending \in Nat /\ Pending' \in Nat
      /\ Others' <= Others
      /\ pc # "notify" => Pending' <= Pending
  BY ThreadMoves
<1>2. m_gi_repeat \in Nat /\ m_gi_repeat' = m_gi_repeat /\ active' = active
  BY DEF TypeInv
<1>3. ASSUME NEW r \in Nat, NEW o \in Nat, NEW o2 \in Nat, o2 <= o PROVE r + o2 <= r + o
  BY <1>3
<1>4. m_gi_repeat + Others' <= m_gi_repeat + Others
  BY <1>1, <1>2, <1>3
<1>5. Budget'
  BY <1>1, <1>2, <1>4, BudgetKept DEF Budget
<1>6. LostBudget'
  <2>1. ASSUME NEW r \in Nat, NEW p \in Nat, NEW p2 \in Nat, p2 <= p, r + p <= 2 PROVE r + p2 <= 2
    BY <2>1
  <2>2. CASE active
    BY <1>2, <2>2 DEF LostBudget
  <2>3. CASE ~active
    <3>1. Pending' <= Pending /\ m_gi_repeat + Pending <= 2
      BY <1>1, <2>3 DEF LostBudget
    <3>2. m_gi_repeat + Pending' <= 2
      BY <1>1, <1>2, <2>1, <3>1
    <3>3. QED
      BY <1>2, <3>2 DEF LostBudget
  <2>4. QED
    BY <2>2, <2>3
<1>7. QED
  BY <1>1, <1>5, <1>6

\* A request of the north or of a triggering TS keeps the invariant: a thread
\* decides to send only when no GI is counted.
LEMMA TriggerStep == ASSUME IInv, NEW t \in Triggering, Trigger(t) PROVE IInv'
<1>1. /\ TypeInv /\ OutstandingIsReported /\ Budget /\ LostBudget /\ active
      /\ UNCHANGED <<active, m_sendInitNexConnection, full, waiting, coming, m_giStatus, m_gi_repeat, m_giInQueue,
                     m_gi_addresses_received, known, m_gi_schedule_already_sent, terminated>>
  BY DEF IInv, Trigger, pathVars, windowVars, giVars
<1>2. /\ active' \in BOOLEAN /\ m_sendInitNexConnection' \in BOOLEAN /\ m_giInQueue' \in BOOLEAN
      /\ m_gi_schedule_already_sent' \in BOOLEAN /\ terminated' \in BOOLEAN /\ full' \in BOOLEAN
  BY <1>1, Zenon DEF TypeInv
<1>3. OutstandingIsReported'
  BY <1>1 DEF OutstandingIsReported, Running
<1>4. CASE Running /\ TriggerTo(t, "queue")
  <2>1. trigger' \in [Triggering -> Positions] /\ Budget' /\ LostBudget'
    BY <1>1, <1>4, QuietMove DEF Positions, Sending
  <2>2. TypeInv'
    BY <1>1, <1>2, <2>1 DEF TypeInv
  <2>3. QED
    BY <1>3, <2>1, <2>2 DEF IInv
<1>5. CASE ~Running /\ TriggerTo(t, "send")
  <2>1. trigger' \in [Triggering -> Positions] /\ Others' \in 0..4
    BY <1>1, <1>5, ThreadMoves DEF Positions
  <2>2. TypeInv'
    BY <1>1, <1>2, <2>1 DEF TypeInv
  <2>3. m_gi_repeat' \in Nat /\ m_gi_repeat' <= m_gi_repeat_count_max + 1
    BY <1>1, <1>5, GIAssumption DEF TypeInv, OutstandingIsReported
  <2>4. Budget'
    BY <2>1, <2>3, RoomForOthers DEF Budget
  <2>5. LostBudget'
    BY <1>1 DEF LostBudget
  <2>6. QED
    BY <1>3, <2>2, <2>4, <2>5 DEF IInv
<1>6. QED
  BY <1>4, <1>5 DEF Trigger

\* Putting a request in the queue keeps the invariant.
LEMMA TriggerQueueStep == ASSUME IInv, NEW t \in Triggering, TriggerQueue(t) PROVE IInv'
<1>1. /\ TypeInv /\ OutstandingIsReported /\ Budget /\ LostBudget /\ m_giInQueue' = TRUE /\ TriggerTo(t, "idle")
      /\ UNCHANGED <<active, m_sendInitNexConnection, full, waiting, coming, m_giStatus, m_gi_repeat,
                     m_gi_addresses_received, known, m_gi_schedule_already_sent, terminated>>
  BY DEF IInv, TriggerQueue, pathVars, windowVars
<1>2. /\ active' \in BOOLEAN /\ m_sendInitNexConnection' \in BOOLEAN /\ m_giInQueue' \in BOOLEAN
      /\ m_gi_schedule_already_sent' \in BOOLEAN /\ terminated' \in BOOLEAN /\ full' \in BOOLEAN
  BY <1>1, Zenon DEF TypeInv
<1>3. OutstandingIsReported'
  BY <1>1 DEF OutstandingIsReported, Running
<1>4. trigger' \in [Triggering -> Positions] /\ Budget' /\ LostBudget'
  BY <1>1, QuietMove DEF Positions, Sending
<1>5. TypeInv'
  BY <1>1, <1>2, <1>4 DEF TypeInv
<1>6. QED
  BY <1>3, <1>4, <1>5 DEF IInv

\* m_sendInfo of a request keeps the invariant.
LEMMA TriggerSendStep == ASSUME IInv, NEW t \in Triggering, TriggerSend(t) PROVE IInv'
<1>1. /\ TypeInv /\ OutstandingIsReported /\ Budget /\ LostBudget /\ trigger[t] = "send"
      /\ UNCHANGED <<active, m_sendInitNexConnection, m_giStatus, m_gi_repeat, m_giInQueue,
                     m_gi_addresses_received, m_gi_schedule_already_sent>>
  BY DEF IInv, TriggerSend, At, pathVars
<1>2. /\ active' \in BOOLEAN /\ m_sendInitNexConnection' \in BOOLEAN /\ m_giInQueue' \in BOOLEAN
      /\ m_gi_schedule_already_sent' \in BOOLEAN
  BY <1>1, Zenon DEF TypeInv
<1>3. OutstandingIsReported'
  BY <1>1 DEF OutstandingIsReported, Running
<1>4. CASE active
  <2>1. /\ sendRequest /\ UNCHANGED terminated
        /\ known' = IF full THEN known ELSE KnownSent(m_gi_repeat, known)
    BY <1>4 DEF TriggerSend
  <2>2. PICK pc \in {"idle", "notify"} : TriggerTo(t, pc)
    BY <1>4 DEF TriggerSend
  <2>3. trigger' \in [Triggering -> Positions] /\ Budget' /\ LostBudget'
    BY <1>1, <1>4, <2>2, QuietMove DEF Positions, Sending
  <2>4. full' \in BOOLEAN /\ waiting' \in 0..WaitingBound /\ coming' \in Seq(Frames)
    BY <1>1, <2>1, RequestType
  <2>5. known' \in Knowledge
    <3>1. [a \in TS |-> "unknown"] \in Knowledge
      BY DEF Knowledge
    <3>2. QED
      BY <1>1, <2>1, <3>1 DEF TypeInv, KnownSent
  <2>6. terminated' \in BOOLEAN
    BY <1>1, <2>1, Zenon DEF TypeInv
  <2>7. TypeInv'
    BY <1>1, <1>2, <2>3, <2>4, <2>5, <2>6 DEF TypeInv
  <2>8. QED
    BY <1>3, <2>3, <2>7 DEF IInv
<1>5. CASE ~active
  <2>1. terminated' = TRUE /\ UNCHANGED <<full, waiting, coming, known, trigger>>
    BY <1>5 DEF TriggerSend, windowVars
  <2>2. full' \in BOOLEAN /\ terminated' \in BOOLEAN
    BY <1>1, <2>1, Zenon DEF TypeInv
  <2>3. TypeInv'
    BY <1>1, <1>2, <2>1, <2>2 DEF TypeInv
  <2>4. Budget' /\ LostBudget'
    BY <1>1, <2>1 DEF Budget, Others, One, Owing, LostBudget, Pending, Counting
  <2>5. QED
    BY <1>3, <2>3, <2>4 DEF IInv
<1>6. QED
  BY <1>4, <1>5

\* notifyGIsent of a request keeps the invariant: what is counted is no longer
\* owed, and the GI is reported.
LEMMA TriggerNotifyStep == ASSUME IInv, NEW t \in Triggering, TriggerNotify(t) PROVE IInv'
<1>1. /\ TypeInv /\ Budget /\ LostBudget /\ trigger[t] = "notify" /\ TriggerTo(t, "idle")
      /\ m_gi_repeat' = m_gi_repeat + 1
      /\ m_giStatus' = StatusSent(m_gi_repeat, m_giStatus)
      /\ UNCHANGED <<active, m_sendInitNexConnection, full, waiting, coming, m_giInQueue,
                     m_gi_addresses_received, known, m_gi_schedule_already_sent, terminated>>
  BY DEF IInv, TriggerNotify, At, RepeatSent, pathVars, windowVars
<1>2. /\ active' \in BOOLEAN /\ m_sendInitNexConnection' \in BOOLEAN /\ m_giInQueue' \in BOOLEAN
      /\ m_gi_schedule_already_sent' \in BOOLEAN /\ terminated' \in BOOLEAN /\ full' \in BOOLEAN
  BY <1>1, Zenon DEF TypeInv
<1>3. m_giStatus' \in {"STARTED", "IN_PROGRESS"}
  BY <1>1 DEF StatusSent
<1>4. /\ trigger' \in [Triggering -> Positions]
      /\ Others \in Nat /\ Others' \in Nat /\ Others' \in 0..4 /\ Pending \in Nat /\ Pending' \in Nat
      /\ Others = Others' + 1 /\ Pending = Pending' + 1
  BY <1>1, ThreadMoves DEF Positions
<1>5. m_gi_repeat \in Nat /\ m_gi_repeat' \in Nat
  BY <1>1 DEF TypeInv
<1>6. TypeInv'
  BY <1>1, <1>2, <1>3, <1>4, <1>5 DEF TypeInv, GiStatus
<1>7. OutstandingIsReported'
  BY <1>3 DEF OutstandingIsReported, Running
<1>8. Budget'
  <2>1. m_gi_repeat' <= m_gi_repeat + 1
    BY <1>1, <1>5
  <2>2. m_gi_repeat' + Others' <= m_gi_repeat + Others
    BY <1>4, <1>5, <2>1, OneLess
  <2>3. QED
    BY <1>1, <1>4, <1>5, <2>2, BudgetKept DEF Budget
<1>9. LostBudget'
  <2>1. ASSUME NEW r \in Nat, NEW p \in Nat, NEW p2 \in Nat, p = p2 + 1, r + p <= 2 PROVE (r + 1) + p2 <= 2
    BY <2>1
  <2>2. QED
    BY <1>1, <1>4, <1>5, <2>1 DEF LostBudget
<1>10. QED
  BY <1>6, <1>7, <1>8, <1>9 DEF IInv

\* A TSCG frame keeps the invariant.
LEMMA ReceiveTSCGStep == ASSUME IInv, ReceiveTSCG PROVE IInv'
<1>1. /\ TypeInv /\ OutstandingIsReported /\ Budget /\ LostBudget /\ coming # <<>>
      /\ coming' = Tail(coming) /\ m_gi_addresses_received' = m_gi_addresses_received \o Head(coming)
      /\ known' = [a \in TS |-> IF a \in TSOf(Head(coming)) THEN "received" ELSE known[a]]
      /\ m_giStatus' = (IF m_giStatus = "STARTED" THEN "IN_PROGRESS" ELSE m_giStatus)
      /\ TriggerTo("receiver", "check")
      /\ UNCHANGED <<active, m_sendInitNexConnection, full, waiting, m_gi_repeat, m_giInQueue,
                     m_gi_schedule_already_sent, terminated>>
  BY DEF IInv, ReceiveTSCG, pathVars
<1>2. /\ active' \in BOOLEAN /\ m_sendInitNexConnection' \in BOOLEAN /\ m_giInQueue' \in BOOLEAN
      /\ m_gi_schedule_already_sent' \in BOOLEAN /\ terminated' \in BOOLEAN /\ full' \in BOOLEAN
  BY <1>1, Zenon DEF TypeInv
<1>3. trigger' \in [Triggering -> Positions] /\ Budget' /\ LostBudget'
  BY <1>1, QuietMove DEF Triggering, Positions, Sending
<1>4. m_giStatus' \in GiStatus /\ OutstandingIsReported'
  BY <1>1 DEF TypeInv, GiStatus, OutstandingIsReported, Running
<1>5. known' \in Knowledge
  BY <1>1 DEF TypeInv, Knowledge
<1>6. Head(coming) \in Frames /\ coming' \in Seq(Frames)
  BY <1>1, HeadTailProperties DEF TypeInv
<1>7. Head(coming) \in Seq(TS)
  BY <1>6, FrameFacts
<1>8. m_gi_addresses_received' \in Seq(TS)
  BY <1>1, <1>7, ConcatProperties DEF TypeInv
<1>9. TypeInv'
  BY <1>1, <1>2, <1>3, <1>4, <1>5, <1>6, <1>8 DEF TypeInv
<1>10. QED
  BY <1>3, <1>4, <1>9 DEF IInv

\* The test of the last TS keeps the invariant.
LEMMA CheckLastStep == ASSUME IInv, CheckLast PROVE IInv'
<1>1. /\ TypeInv /\ OutstandingIsReported /\ Budget /\ LostBudget
      /\ UNCHANGED <<active, m_sendInitNexConnection, full, waiting, coming, m_giStatus, m_gi_repeat, m_giInQueue,
                     m_gi_addresses_received, known, m_gi_schedule_already_sent, terminated>>
  BY DEF IInv, CheckLast, pathVars, windowVars, giVars
<1>2. PICK pc \in {"complete", "idle"} : TriggerTo("receiver", pc)
  BY DEF CheckLast
<1>3. /\ active' \in BOOLEAN /\ m_sendInitNexConnection' \in BOOLEAN /\ m_giInQueue' \in BOOLEAN
      /\ m_gi_schedule_already_sent' \in BOOLEAN /\ terminated' \in BOOLEAN /\ full' \in BOOLEAN
  BY <1>1, Zenon DEF TypeInv
<1>4. trigger' \in [Triggering -> Positions] /\ Budget' /\ LostBudget'
  BY <1>1, <1>2, QuietMove DEF Triggering, Positions, Sending
<1>5. OutstandingIsReported'
  BY <1>1 DEF OutstandingIsReported, Running
<1>6. TypeInv'
  BY <1>1, <1>3, <1>4 DEF TypeInv
<1>7. QED
  BY <1>4, <1>5, <1>6 DEF IInv

\* The end of a GI keeps the invariant.
LEMMA CompleteGIStep == ASSUME IInv, CompleteGI PROVE IInv'
<1>1. /\ TypeInv /\ Budget /\ LostBudget /\ GICompleted(TRUE) /\ TriggerTo("receiver", "idle")
      /\ UNCHANGED <<active, m_sendInitNexConnection, m_gi_schedule_already_sent>>
  BY DEF IInv, CompleteGI, pathVars
<1>2. /\ active' \in BOOLEAN /\ m_sendInitNexConnection' \in BOOLEAN /\ m_gi_schedule_already_sent' \in BOOLEAN
  BY <1>1, Zenon DEF TypeInv
<1>3. /\ full' \in BOOLEAN /\ waiting' \in 0..WaitingBound /\ coming' \in Seq(Frames)
      /\ m_giStatus' \in GiStatus /\ known' \in Knowledge /\ m_giInQueue' \in BOOLEAN
      /\ m_gi_addresses_received' \in Seq(TS) /\ terminated' \in BOOLEAN
      /\ \/ m_gi_repeat' = 0
         \/ m_gi_repeat' = 1 /\ m_giStatus' \in {"STARTED", "IN_PROGRESS"} /\ active
  BY <1>1, CompletedFacts
<1>4. trigger' \in [Triggering -> Positions] /\ Others' \in 0..4
  BY <1>1, ThreadMoves DEF Triggering, Positions
<1>5. m_gi_repeat' \in Nat /\ m_gi_repeat' <= m_gi_repeat_count_max + 1
  BY <1>3, GIAssumption
<1>6. TypeInv'
  BY <1>2, <1>3, <1>4, <1>5 DEF TypeInv
<1>7. OutstandingIsReported'
  BY <1>3 DEF OutstandingIsReported, Running
<1>8. Budget'
  BY <1>4, <1>5, RoomForOthers DEF Budget
<1>9. LostBudget'
  BY <1>1, <1>3 DEF LostBudget, Pending, Counting
<1>10. QED
  BY <1>6, <1>7, <1>8, <1>9 DEF IInv

---------------------------------------------------------------------------
(* Paths, window and RTU                                                    *)

\* A step that leaves the GI, the threads and the senders alone.
LEMMA GIUnchanged ==
  ASSUME TypeInv, OutstandingIsReported, Budget,
         UNCHANGED <<m_sendInitNexConnection, m_giStatus, m_gi_repeat, m_giInQueue, m_gi_addresses_received, known,
                     m_gi_schedule_already_sent, trigger, terminated>>
  PROVE  /\ m_sendInitNexConnection' \in BOOLEAN /\ m_giInQueue' \in BOOLEAN
         /\ m_gi_schedule_already_sent' \in BOOLEAN /\ terminated' \in BOOLEAN
         /\ m_giStatus' \in GiStatus /\ m_gi_repeat' \in Nat /\ m_gi_addresses_received' \in Seq(TS)
         /\ trigger' \in [Triggering -> Positions] /\ known' \in Knowledge
         /\ OutstandingIsReported' /\ Budget' /\ Pending' = Pending
<1>1. /\ m_sendInitNexConnection' \in BOOLEAN /\ m_giInQueue' \in BOOLEAN
      /\ m_gi_schedule_already_sent' \in BOOLEAN /\ terminated' \in BOOLEAN
  BY Zenon DEF TypeInv
<1>2. Others' = Others /\ Pending' = Pending
  BY DEF Others, One, Owing, Pending, Counting
<1>3. OutstandingIsReported' /\ Budget'
  BY <1>2 DEF OutstandingIsReported, Running, Budget
<1>4. /\ m_giStatus' \in GiStatus /\ m_gi_repeat' \in Nat /\ m_gi_addresses_received' \in Seq(TS)
      /\ trigger' \in [Triggering -> Positions] /\ known' \in Knowledge
  BY DEF TypeInv
<1>5. QED
  BY <1>1, <1>2, <1>3, <1>4

\* A path that becomes active keeps the invariant.
LEMMA PathActiveStep == ASSUME IInv, PathActive PROVE IInv'
<1>1. /\ TypeInv /\ OutstandingIsReported /\ Budget /\ active' = TRUE
      /\ UNCHANGED <<m_sendInitNexConnection, m_giStatus, m_gi_repeat, m_giInQueue, m_gi_addresses_received, known,
                     m_gi_schedule_already_sent, trigger, terminated, full, waiting, coming>>
  BY DEF IInv, PathActive, windowVars, giVars
<1>2. active' \in BOOLEAN /\ full' \in BOOLEAN
  BY <1>1, Zenon DEF TypeInv
<1>3. TypeInv' /\ OutstandingIsReported' /\ Budget'
  BY <1>1, <1>2, GIUnchanged DEF TypeInv
<1>4. LostBudget'
  BY <1>1 DEF LostBudget
<1>5. QED
  BY <1>3, <1>4 DEF IInv

\* A step of the window or of the RTU keeps the invariant.
LEMMA WindowStep ==
  ASSUME IInv, FillWindow \/ DrainWindow \/ SkipTSCG
  PROVE  IInv'
<1>1. /\ TypeInv /\ OutstandingIsReported /\ Budget /\ LostBudget
      /\ UNCHANGED <<active, m_sendInitNexConnection, m_giStatus, m_gi_repeat, m_giInQueue, m_gi_addresses_received,
                     known, m_gi_schedule_already_sent, trigger, terminated>>
  BY DEF IInv, FillWindow, DrainWindow, SkipTSCG, pathVars, giVars
<1>2. active' \in BOOLEAN
  BY <1>1, Zenon DEF TypeInv
<1>3. full' \in BOOLEAN
  BY <1>1, Zenon DEF TypeInv, FillWindow, DrainWindow, SkipTSCG
<1>4. waiting' \in 0..WaitingBound
  BY <1>1, GIAssumption DEF TypeInv, FillWindow, DrainWindow, SkipTSCG
<1>5. coming' \in Seq(Frames)
  <2>1. CASE FillWindow
    BY <1>1, <2>1 DEF TypeInv, FillWindow
  <2>2. CASE DrainWindow
    BY <1>1, <2>2, AnswerType DEF TypeInv, DrainWindow
  <2>3. CASE SkipTSCG
    BY <1>1, <2>3, HeadTailProperties DEF TypeInv, SkipTSCG
  <2>4. QED
    BY <2>1, <2>2, <2>3
<1>6. TypeInv' /\ OutstandingIsReported' /\ Budget' /\ Pending' = Pending
  BY <1>1, <1>2, <1>3, <1>4, <1>5, GIUnchanged DEF TypeInv
<1>7. LostBudget'
  BY <1>1, <1>6 DEF LostBudget
<1>8. QED
  BY <1>6, <1>7 DEF IInv

\* Losing the active path keeps the invariant: the count is reset.
LEMMA ActivePathLostStep == ASSUME IInv, ActivePathLost PROVE IInv'
<1>1. /\ TypeInv /\ OutstandingIsReported
      /\ active' \in BOOLEAN /\ m_sendInitNexConnection' = (m_sendInitNexConnection \/ ~active')
      /\ m_gi_repeat' = 0 /\ full' = FALSE /\ waiting' = 0 /\ coming' \in {coming, <<>>}
      /\ UNCHANGED <<m_giStatus, m_giInQueue, m_gi_addresses_received, known, m_gi_schedule_already_sent, terminated>>
  BY DEF IInv, ActivePathLost, RepeatLost
<1>2. /\ m_sendInitNexConnection' \in BOOLEAN /\ m_giInQueue' \in BOOLEAN /\ full' \in BOOLEAN
      /\ m_gi_schedule_already_sent' \in BOOLEAN /\ terminated' \in BOOLEAN
  BY <1>1, Zenon DEF TypeInv
<1>3. trigger' \in [Triggering -> Positions]
  <2>1. [t \in Triggering |-> IF trigger[t] = "send" THEN "idle" ELSE trigger[t]] \in [Triggering -> Positions]
    BY <1>1 DEF TypeInv, Positions
  <2>2. QED
    BY <1>1, <2>1 DEF TypeInv, ActivePathLost
<1>4. m_gi_repeat' \in Nat /\ m_gi_repeat' <= m_gi_repeat_count_max + 1 /\ waiting' \in 0..WaitingBound
  BY <1>1, GIAssumption
<1>5. coming' \in Seq(Frames)
  BY <1>1, EmptySeq DEF TypeInv
<1>6. TypeInv'
  BY <1>1, <1>2, <1>3, <1>4, <1>5 DEF TypeInv
<1>7. OutstandingIsReported'
  BY <1>1 DEF OutstandingIsReported
<1>8. Others' \in 0..4
  BY DEF Others, One, Owing
<1>9. Budget'
  BY <1>4, <1>8, RoomForOthers DEF Budget
<1>10. LostBudget'
  BY <1>1 DEF LostBudget, Pending, Counting
<1>11. QED
  BY <1>6, <1>7, <1>9, <1>10 DEF IInv

---------------------------------------------------------------------------
(* Theorems                                                                 *)

\* The state before the first connection satisfies the invariant.
LEMMA InitEstablishes == Init => IInv
<1> SUFFICES ASSUME Init PROVE IInv
  OBVIOUS
<1>1. /\ active \in BOOLEAN /\ m_sendInitNexConnection \in BOOLEAN /\ m_giInQueue \in BOOLEAN
      /\ m_gi_schedule_already_sent \in BOOLEAN /\ terminated \in BOOLEAN /\ full \in BOOLEAN
  BY Zenon DEF Init
<1>2. /\ waiting \in 0..WaitingBound /\ m_giStatus \in GiStatus /\ m_gi_repeat \in Nat
      /\ trigger \in [Triggering -> Positions] /\ known \in Knowledge
  BY GIAssumption DEF Init, GiStatus, Positions, Knowledge
<1>3. m_gi_addresses_received \in Seq(TS) /\ coming \in Seq(Frames)
  BY EmptySeq DEF Init
<1>4. TypeInv
  BY <1>1, <1>2, <1>3 DEF TypeInv
<1>5. OutstandingIsReported
  BY DEF Init, OutstandingIsReported
<1>6. m_gi_repeat <= m_gi_repeat_count_max + 1
  BY GIAssumption DEF Init
<1>7. Budget
  BY <1>2, <1>6, OthersBounded, RoomForOthers DEF Budget
<1>8. LostBudget
  BY DEF Init, LostBudget, Pending, Counting
<1>9. QED
  BY <1>4, <1>5, <1>7, <1>8 DEF IInv

\* A step that changes nothing.
LEMMA Stutters == ASSUME IInv, UNCHANGED vars PROVE IInv'
<1>1. /\ TypeInv /\ OutstandingIsReported /\ Budget /\ LostBudget
      /\ UNCHANGED <<active, m_sendInitNexConnection, m_giStatus, m_gi_repeat, m_giInQueue, m_gi_addresses_received,
                     known, m_gi_schedule_already_sent, trigger, terminated, full, waiting, coming>>
  BY DEF IInv, vars, pathVars, windowVars, giVars
<1>2. active' \in BOOLEAN /\ full' \in BOOLEAN
  BY <1>1, Zenon DEF TypeInv
<1>3. TypeInv' /\ OutstandingIsReported' /\ Budget' /\ Pending' = Pending
  BY <1>1, <1>2, GIUnchanged DEF TypeInv
<1>4. LostBudget'
  BY <1>1, <1>3 DEF LostBudget
<1>5. QED
  BY <1>3, <1>4 DEF IInv

\* The invariant holds in every behaviour, whatever the interleaving of the
\* messages thread, the receive thread, the Fledge thread and the loss of paths.
THEOREM Invariance == Spec => []IInv
<1>1. IInv /\ [Next]_vars => IInv'
  <2> SUFFICES ASSUME IInv, [Next]_vars PROVE IInv'
    OBVIOUS
  <2>1. CASE CheckGI
    BY <2>1, CheckGIStep
  <2>2. CASE NewDay
    BY <2>2, NewDayStep
  <2>3. CASE ScheduledGI
    BY <2>3, ScheduledGIStep
  <2>4. CASE InitMessages
    BY <2>4, InitMessagesStep
  <2>5. CASE \E t \in Triggering : Trigger(t) \/ TriggerQueue(t) \/ TriggerSend(t) \/ TriggerNotify(t)
    BY <2>5, TriggerStep, TriggerQueueStep, TriggerSendStep, TriggerNotifyStep
  <2>6. CASE ReceiveTSCG
    BY <2>6, ReceiveTSCGStep
  <2>7. CASE CheckLast
    BY <2>7, CheckLastStep
  <2>8. CASE CompleteGI
    BY <2>8, CompleteGIStep
  <2>9. CASE PathActive
    BY <2>9, PathActiveStep
  <2>10. CASE ActivePathLost
    BY <2>10, ActivePathLostStep
  <2>11. CASE FillWindow \/ DrainWindow \/ SkipTSCG
    BY <2>11, WindowStep
  <2>12. CASE Terminated \/ UNCHANGED vars
    BY <2>12, Stutters DEF Terminated
  <2>13. QED
    BY <2>1, <2>2, <2>3, <2>4, <2>5, <2>6, <2>7, <2>8, <2>9, <2>10, <2>11, <2>12 DEF Next
<1>2. QED
  BY <1>1, InitEstablishes, PTL DEF Spec

\* The GI variables keep their types, and a GI is counted at most
\* m_gi_repeat_count_max + 5 times whoever sends it: m_check_GI stops at its
\* maximum, and each other sender adds one.
THEOREM TypeCorrectness == Spec => []TypeOK
<1>1. IInv => TypeOK
  <2> SUFFICES ASSUME IInv PROVE TypeOK
    OBVIOUS
  <2>1. m_gi_repeat \in Nat /\ m_gi_repeat_count_max \in Nat /\ Others \in 0..4
        /\ m_gi_repeat + Others <= m_gi_repeat_count_max + 5
    BY GIAssumption, OthersBounded DEF IInv, TypeInv, Budget
  <2>2. ASSUME NEW r \in Nat, NEW m \in Nat, NEW o \in 0..4, r + o <= m + 5 PROVE r \in 0..(m + 5)
    BY <2>2
  <2>3. m_gi_repeat \in 0..(m_gi_repeat_count_max + 5)
    BY <2>1, <2>2
  <2>4. TypeInv
    BY DEF IInv
  <2>5. QED
    BY <2>3, <2>4, Zenon DEF TypeInv, TypeOK, Positions, Frames, Knowledge
<1>2. QED
  BY <1>1, Invariance, PTL

\* m_check_GI only supervises a GI the north has been told of: notifyGIsent
\* counts and reports together, and what resets the status resets the count.
THEOREM OutstandingGIIsReported == Spec => []OutstandingIsReported
<1>1. IInv => OutstandingIsReported
  BY DEF IInv
<1>2. QED
  BY <1>1, Invariance, PTL

\* When the active path is lost its GI is no longer supervised: only the threads
\* caught between m_sendInfo and notifyGIsent may count one each.
THEOREM LostPathEndsGI == Spec => []LostPathStopsGI
<1>1. IInv => LostPathStopsGI
  <2> SUFFICES ASSUME IInv PROVE LostPathStopsGI
    OBVIOUS
  <2>1. m_gi_repeat \in Nat /\ Pending \in 0..2 /\ LostBudget
    BY DEF IInv, TypeInv, Pending, Counting
  <2>2. ASSUME NEW r \in Nat, NEW p \in 0..2, r + p <= 2 PROVE r <= 2
    BY <2>2
  <2>3. QED
    BY <2>1, <2>2 DEF LostBudget, LostPathStopsGI
<1>2. QED
  BY <1>1, Invariance, PTL
=============================================================================
