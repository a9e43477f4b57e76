---------------------------- MODULE HNZAutomaton ----------------------------
(***************************************************************************)
(* The protocol automaton of one HNZ path: the enumerations and the table  *)
(* m_protocolStateTransitionMap of include/hnzpath.h.  An entry of the     *)
(* table is a record: in state from, event on leads to state to, and the   *)
(* member functions of do are called in that order.                        *)
(***************************************************************************)
EXTENDS Sequences

ProtocolState == {"CONNECTION", "INPUT_CONNECTED", "OUTPUT_CONNECTED", "CONNECTED"}

ConnectionState == {"DISCONNECTED", "PENDING_HNZ", "PASSIVE", "ACTIVE"}

\* The events some code raises, plus TO_TCACK, which has an entry in the table
\* and is raised by nobody.
ConnectionEvent == {"RECEIVED_SARM", "RECEIVED_UA", "TO_RECV", "MAX_SEND",
                    "TCP_CNX_LOST", "MAX_SARM_SENT", "TO_TCACK"}

Entry(from, on, to, do) == [from |-> from, on |-> on, to |-> to, do |-> do]

m_protocolStateTransitionMap ==
  { Entry("CONNECTION", "RECEIVED_SARM", "INPUT_CONNECTED",
          <<"setConnectionPending", "resetInputVariables">>),
    Entry("CONNECTION", "RECEIVED_UA", "OUTPUT_CONNECTED",
          <<"setConnectionPending", "resetOutputVariables">>),
    Entry("CONNECTION", "MAX_SARM_SENT", "CONNECTION",
          <<"stopTCP", "resolveProtocolStateConnection">>),
    Entry("CONNECTION", "TO_RECV", "CONNECTION",
          <<"stopTCP", "resolveProtocolStateConnection">>),
    Entry("INPUT_CONNECTED", "RECEIVED_SARM", "INPUT_CONNECTED",
          <<"setConnectionPending", "resetInputVariables">>),
    Entry("INPUT_CONNECTED", "TO_RECV", "CONNECTION",
          <<"resolveProtocolStateConnection">>),
    Entry("INPUT_CONNECTED", "RECEIVED_UA", "CONNECTED",
          <<"resetOutputVariables", "resolveProtocolStateConnected">>),
    Entry("INPUT_CONNECTED", "MAX_SARM_SENT", "CONNECTION",
          <<"stopTCP", "resolveProtocolStateConnection">>),
    Entry("OUTPUT_CONNECTED", "RECEIVED_SARM", "CONNECTED",
          <<"resetInputVariables", "resolveProtocolStateConnected">>),
    Entry("OUTPUT_CONNECTED", "MAX_SEND", "CONNECTION",
          <<"resetSarmCounters", "discardMessages", "resolveProtocolStateConnection">>),
    Entry("CONNECTED", "MAX_SEND", "INPUT_CONNECTED",
          <<"setConnectionPending", "resetSarmCounters", "discardMessages", "resetInputVariables">>),
    Entry("CONNECTED", "TO_TCACK", "INPUT_CONNECTED",
          <<"setConnectionPending", "resetSarmCounters", "discardMessages", "resetInputVariables">>),
    Entry("CONNECTED", "RECEIVED_SARM", "INPUT_CONNECTED",
          <<"setConnectionPending", "resetSarmCounters", "discardMessages", "resetInputVariables">>),
    Entry("CONNECTED", "TO_RECV", "OUTPUT_CONNECTED",
          <<"setConnectionPending", "discardMessages", "resetOutputVariables">>),
    Entry("CONNECTION", "TCP_CNX_LOST", "CONNECTION",
          <<"resolveProtocolStateConnection">>),
    Entry("INPUT_CONNECTED", "TCP_CNX_LOST", "CONNECTION",
          <<"resolveProtocolStateConnection">>),
    Entry("OUTPUT_CONNECTED", "TCP_CNX_LOST", "CONNECTION",
          <<"discardMessages", "resolveProtocolStateConnection">>),
    Entry("CONNECTED", "TCP_CNX_LOST", "CONNECTION",
          <<"resolveProtocolStateConnection", "discardMessages">>) }

\* m_protocolStateTransitionMap.find({state, event}) != end()
HasTransition(state, event) ==
  \E t \in m_protocolStateTransitionMap : t.from = state /\ t.on = event

\* What operator[] of std::map inserts for a key it does not have: the first
\* value of the enumeration and no action.
DefaultTransition(state, event) == Entry(state, event, "CONNECTION", <<>>)

\* m_protocolStateTransitionMap[{state, event}], as a one-element set
TransitionsOf(state, event) ==
  IF HasTransition(state, event)
    THEN {t \in m_protocolStateTransitionMap : t.from = state /\ t.on = event}
    ELSE {DefaultTransition(state, event)}

\* Transition t calls member function f
Calls(t, f) == \E i \in DOMAIN t.do : t.do[i] = f
=============================================================================
