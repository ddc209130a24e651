--------------------------------- MODULE Rpc ---------------------------------
(***************************************************************************)
(* What a SocketClient promises its caller, free of streams, units and     *)
(* handlers: one call at a time on each connection, which returns the      *)
(* answer of its request, whole and once, or ends the connection for good. *)
(***************************************************************************)
EXTENDS Sequences

CONSTANTS Clients,
          Requests,
          Answer,      \* the answer of each request
          NoRequest    \* what has been asked before the first call

VARIABLES phase,     \* "idle", "calling" or "ended"
          call,      \* the request of the call, the last one when idle
          answers    \* what the calls have returned

Init ==
  /\ phase = [c \in Clients |-> "idle"]
  /\ call = [c \in Clients |-> NoRequest]
  /\ answers = [c \in Clients |-> << >>]

\* The connection may turn out to be gone already.
Call(c, r) ==
  /\ phase[c] = "idle"
  /\ \E next \in {"calling", "ended"} : phase' = [phase EXCEPT ![c] = next]
  /\ call' = [call EXCEPT ![c] = r]
  /\ UNCHANGED answers

Return(c) ==
  /\ phase[c] = "calling"
  /\ phase' = [phase EXCEPT ![c] = "idle"]
  /\ answers' = [answers EXCEPT ![c] = Append(@, Answer[call[c]])]
  /\ UNCHANGED call

\* The call raises, or the caller closes the client between two calls.
End(c) ==
  /\ phase[c] # "ended"
  /\ phase' = [phase EXCEPT ![c] = "ended"]
  /\ UNCHANGED <<call, answers>>

Next == \E c \in Clients : Return(c) \/ End(c) \/ \E r \in Requests : Call(c, r)

Spec == Init /\ [][Next]_<<phase, call, answers>>
=============================================================================
