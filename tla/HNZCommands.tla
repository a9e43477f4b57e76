---------------------------- MODULE HNZCommands ----------------------------
(***************************************************************************)
(* Remote control: the TC and TVC commands of the north, the list of the   *)
(* commands that wait for their acknowledgement on each path, and the      *)
(* acknowledgements of the RTU (src/hnz.cpp, src/hnzpath.cpp,              *)
(* m_check_command_timer of src/hnzconnection.cpp).                        *)
(*                                                                         *)
(* A Fledge thread runs operation for each command, a receive thread       *)
(* handles the acknowledgements and the messages thread the timeouts.      *)
(* No common lock protects command_sent: the module describes the          *)
(* executions in which the accesses to it do not overlap.  A command may   *)
(* expire at any moment; the oldest one, at the back, expires first.       *)
(***************************************************************************)
EXTENDS Naturals, Sequences, FiniteSets, Functions

CONSTANTS
  Paths,
  None,       \* nullptr
  Commands    \* the commands of the north: records [id, type, addr]

ASSUME CommandsAssumption ==
  /\ None \notin Paths
  /\ IsFiniteSet(Commands)
  /\ Commands \subseteq [id : Nat, type : {"TC", "TVC"}, addr : Nat]

VARIABLES
  active,           \* m_active_path
  full,             \* full[p]: the window of p is full (HNZWindow)
  msg_waiting,      \* msg_waiting[p]: commands queued on p
  command_sent,     \* command_sent[p]: commands that wait for their acknowledgement, newest first
  thread,           \* thread[c]: where the thread of command c is, and on which path
  result,           \* result[c]: what operation returned
  terminated,       \* a thread has followed a null pointer
  transmitted,      \* history: commands the RTU got
  handled,          \* history: commands whose acknowledgement was handled
  overtaken         \* history: those whose acknowledgement came before their registration

pathVars == <<active, full>>
rtuVars == <<transmitted, handled, overtaken>>
vars == <<pathVars, msg_waiting, command_sent, thread, result, terminated, rtuVars>>

---------------------------------------------------------------------------
(* Addresses                                                                *)

\* The address in the frame that sendTCCommand or sendTVCCommand builds, as
\* m_handleATC or m_handleATVC reads it in the acknowledgement: a TC has 8 bits
\* for the first digits and 3 bits for the last one, a TVC has 5 bits.
FrameAddress(c) ==
  IF c.type = "TC" THEN ((c.addr \div 10) % 256) * 10 + ((c.addr % 10) % 8) ELSE c.addr % 32

\* The address m_registerCommandIfSent keeps; that of a TVC is an unsigned char
RegisteredAddress(c) == IF c.type = "TC" THEN c.addr ELSE c.addr % 256

\* The addresses the fields of the frame can hold
HasFrame(c) == IF c.type = "TC" THEN c.addr < 2560 /\ c.addr % 10 < 8 ELSE c.addr < 32

---------------------------------------------------------------------------
(* Fledge thread                                                            *)

ThreadTo(c, pc, p) == thread' = [thread EXCEPT ![c] = [pc |-> pc, path |-> p]]
At(c, pc) == ~terminated /\ thread[c].pc = pc
Return(c, r) == result' = [result EXCEPT ![c] = r]

\* processCommandOperation, up to the test of the active path.  A command that
\* cannot be parsed is refused and is no step.
processCommandOperation(c) ==
  /\ At(c, "new")
  /\ IF active = None THEN ThreadTo(c, "done", None) /\ Return(c, "refused")
                      ELSE ThreadTo(c, "send", active) /\ UNCHANGED result
  /\ UNCHANGED <<pathVars, msg_waiting, command_sent, terminated, rtuVars>>

\* Bug: a command is registered whether or not it was sent.
RegistersAlways(sent) == "register"

\* m_registerCommandIfSent: what follows m_sendInfo
AfterSend(sent) == IF sent THEN "register" ELSE "done"

\* getActivePath() again, then m_sendInfo of sendTCCommand or sendTVCCommand
SendCommand(c) ==
  /\ At(c, "send")
  /\ active # None
  /\ ThreadTo(c, AfterSend(~full[active]), active)
  /\ IF full[active]
       THEN /\ msg_waiting' = [msg_waiting EXCEPT ![active] = Append(@, c)]
            /\ Return(c, "refused")
            /\ UNCHANGED transmitted
       ELSE /\ transmitted' = transmitted \cup {c}
            /\ UNCHANGED <<msg_waiting, result>>
  /\ UNCHANGED <<pathVars, command_sent, terminated, handled, overtaken>>

\* The path was lost meanwhile: m_sendInfo refuses the command
SendRefused(c) ==
  /\ At(c, "send")
  /\ active # thread[c].path
  /\ ThreadTo(c, AfterSend(FALSE), thread[c].path)
  /\ Return(c, "refused")
  /\ UNCHANGED <<pathVars, msg_waiting, command_sent, terminated, rtuVars>>

\* The path was lost between the test and the second getActivePath()
SendNowhere(c) ==
  /\ At(c, "send")
  /\ active = None
  /\ terminated' = TRUE
  /\ UNCHANGED <<pathVars, msg_waiting, command_sent, thread, result, rtuVars>>

\* Bug: the thread registers its command again and again.
RegisteredNot == "register"
Registered == "done"

\* the end of m_registerCommandIfSent, and of operation
RegisterCommand(c) ==
  /\ At(c, "register")
  /\ LET p == thread[c].path
     IN /\ command_sent' = [command_sent EXCEPT ![p] = <<c>> \o @]
        /\ ThreadTo(c, Registered, p)
  /\ Return(c, "sent")
  /\ UNCHANGED <<pathVars, msg_waiting, terminated, rtuVars>>

---------------------------------------------------------------------------
(* Receive thread and messages thread                                       *)

\* Bug: only the active path is looked at.
ActiveOnly == {active}

\* the paths whose commands m_handleATC and m_handleATVC acknowledge
AcknowledgedPaths == Paths

\* the paths m_manageMessages supervises
SupervisedPaths == Paths

\* receivedCommandACK: the loop erases every command of that type and address;
\* remaining[n] is what it has left of the first n
receivedCommandACK(list, type, addr) ==
  LET Acknowledges(d) == d.type = type /\ RegisteredAddress(d) = addr
      remaining[n \in 0..Len(list)] ==
        IF n = 0 THEN <<>>
        ELSE IF Acknowledges(list[n]) THEN remaining[n - 1] ELSE Append(remaining[n - 1], list[n])
  IN remaining[Len(list)]

\* m_handleATC or m_handleATVC for the acknowledgement of command c
HandleACK(c) ==
  /\ ~terminated
  /\ c \in transmitted \ handled
  /\ handled' = handled \cup {c}
  /\ overtaken' = IF thread[c].pc = "register" THEN overtaken \cup {c} ELSE overtaken
  /\ command_sent' = [p \in Paths |-> IF p \in AcknowledgedPaths
                                        THEN receivedCommandACK(command_sent[p], c.type, FrameAddress(c))
                                        ELSE command_sent[p]]
  /\ UNCHANGED <<pathVars, msg_waiting, thread, result, terminated, transmitted>>

\* m_check_command_timer: the k oldest commands have expired
CheckCommandTimer(p) ==
  /\ ~terminated
  /\ p \in SupervisedPaths
  /\ \E k \in 1..Len(command_sent[p]) :
       command_sent' = [command_sent EXCEPT ![p] = SubSeq(@, 1, Len(@) - k)]
  /\ UNCHANGED <<pathVars, msg_waiting, thread, result, terminated, rtuVars>>

---------------------------------------------------------------------------
(* Paths and window                                                         *)

PathActive(p) ==
  /\ ~terminated
  /\ active = None
  /\ active' = p
  /\ UNCHANGED <<full, msg_waiting, command_sent, thread, result, terminated, rtuVars>>

\* requestConnectionState and discardMessages: the active path is lost, and
\* another one takes over or none does.  command_sent is left alone.
ActivePathLost ==
  /\ ~terminated
  /\ active # None
  /\ active' \in (Paths \cup {None}) \ {active}
  /\ full' = [full EXCEPT ![active] = FALSE]
  /\ msg_waiting' = [msg_waiting EXCEPT ![active] = <<>>]
  /\ UNCHANGED <<command_sent, thread, result, terminated, rtuVars>>

\* Other messages fill the window; acknowledgements open it and send what waits
FillWindow ==
  /\ ~terminated
  /\ active # None
  /\ ~full[active]
  /\ full' = [full EXCEPT ![active] = TRUE]
  /\ UNCHANGED <<active, msg_waiting, command_sent, thread, result, terminated, rtuVars>>

DrainWindow(p) ==
  /\ ~terminated
  /\ full[p]
  /\ full' = [full EXCEPT ![p] = FALSE]
  /\ transmitted' = transmitted \cup Range(msg_waiting[p])
  /\ msg_waiting' = [msg_waiting EXCEPT ![p] = <<>>]
  /\ UNCHANGED <<active, command_sent, thread, result, terminated, handled, overtaken>>

Terminated == terminated /\ UNCHANGED vars

---------------------------------------------------------------------------
Init ==
  /\ active = None
  /\ full = [p \in Paths |-> FALSE]
  /\ msg_waiting = [p \in Paths |-> <<>>]
  /\ command_sent = [p \in Paths |-> <<>>]
  /\ thread = [c \in Commands |-> [pc |-> "new", path |-> None]]
  /\ result = [c \in Commands |-> "none"]
  /\ terminated = FALSE
  /\ transmitted = {}
  /\ handled = {}
  /\ overtaken = {}

Next ==
  \/ \E c \in Commands :
       \/ processCommandOperation(c) \/ SendCommand(c) \/ SendRefused(c) \/ SendNowhere(c) \/ RegisterCommand(c)
       \/ HandleACK(c)
  \/ \E p \in Paths : CheckCommandTimer(p) \/ PathActive(p) \/ DrainWindow(p)
  \/ ActivePathLost \/ FillWindow \/ Terminated

\* The messages thread runs m_check_command_timer for each path every 100 ms
Fairness == \A p \in Paths : WF_vars(CheckCommandTimer(p))

Spec == Init /\ [][Next]_vars /\ Fairness

---------------------------------------------------------------------------
(* Properties                                                               *)

Positions == {"new", "send", "register", "done"}

\* Every variable has its type, and a path waits for no more acknowledgements
\* than there are commands.
TypeOK ==
  /\ active \in Paths \cup {None}
  /\ full \in [Paths -> BOOLEAN]
  /\ msg_waiting \in [Paths -> Seq(Commands)]
  /\ command_sent \in [Paths -> Seq(Commands)]
  /\ \A p \in Paths : Len(command_sent[p]) <= Cardinality(Commands)
  /\ thread \in [Commands -> [pc : Positions, path : Paths \cup {None}]]
  /\ result \in [Commands -> {"none", "sent", "refused"}]
  /\ terminated \in BOOLEAN
  /\ transmitted \subseteq Commands /\ handled \subseteq transmitted /\ overtaken \subseteq handled

\* A command whose acknowledgement is expected was transmitted, and its sender
\* was told so: the window that delays a command and the path that loses it
\* leave nothing to wait for.
AwaitedWasSent ==
  \A p \in Paths : \A c \in Range(command_sent[p]) : c \in transmitted /\ result[c] = "sent"

\* After m_handleATC or m_handleATVC no path waits any more for a command whose
\* address the frame can hold, whichever path it was sent on and whichever is
\* active by then.  The exception is a command that was not registered yet.
AcknowledgedIsNotAwaited ==
  \A p \in Paths : \A c \in Range(command_sent[p]) : c \in handled /\ HasFrame(c) => c \in overtaken

\* A command does not wait for ever, even on a path that is lost.
CommandsExpire ==
  \A p \in Paths : \A c \in Commands :
    c \in Range(command_sent[p]) ~> c \notin Range(command_sent[p]) \/ terminated

=============================================================================
