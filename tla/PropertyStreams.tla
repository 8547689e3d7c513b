-------------------------- MODULE PropertyStreams ---------------------------
(***************************************************************************)
(* Property bags and rows together with the heap that both are kept in: a  *)
(* program asks them for properties, opens streams over what it finds, and *)
(* reads the heap itself.                                                  *)
(***************************************************************************)
EXTENDS PropertyObjects, HeapStreams

ps_vars == <<vars, stream, reply>>

-----------------------------------------------------------------------------

PSInit == Init /\ NoStreams

\* The objects keep nothing, so that nothing is lost if a program asks them only
\* before it has a stream.
Calls ==
  /\ answer = None /\ reply = None /\ \A s \in Streams : stream[s] = None
  /\ \E c \in ObjectCalls \cup TableCalls : Call(c) \/ CallFails(c)
  /\ UNCHANGED <<stream, reply>>

\* heap::open_stream, node::open_as_stream
OpenStream(s, x) == answer = None /\ Open(s, x) /\ UNCHANGED <<table, answer>>

\* open_prop_stream of a bag or a row has answered with a device.
OpenPropStream(s) ==
  /\ answer # None /\ answer.call.op = "stream" /\ answer.throws = None
  /\ Open(s, Returned)
  /\ answer' = None /\ UNCHANGED table

Use == answer = None /\ Uses /\ UNCHANGED <<table, answer>>

PSNext ==
  \/ Calls
  \/ \E s \in Streams : OpenPropStream(s) \/ \E x \in Opened : OpenStream(s, x)
  \/ Use
  \/ GoOn /\ UNCHANGED <<stream, reply>>

PSSpec == PSInit /\ [][PSNext]_ps_vars
=============================================================================
