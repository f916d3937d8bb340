--------------------------- MODULE RequestService ---------------------------
(***************************************************************************)
(* What the service node promises a host that waits for each answer: a     *)
(* request is executed once, at one moment between its sending and its     *)
(* answer, and the answer is the one to that request.  Frames, transfers,  *)
(* buffers and reads cannot be seen here.                                  *)
(*                                                                         *)
(* CommunicationThread is shown to implement this specification.           *)
(***************************************************************************)
CONSTANTS
  Requests,                  \* what the host may ask for
  AllOff,                    \* the outputs after a start
  Effect(_, _),              \* Effect(o, r): the outputs o after request r
  Answer(_)                  \* Answer(r): what the host gets for r

VARIABLES
  outputs,                   \* the levels of the board's outputs
  request,                   \* the request under way, if any
  reply                      \* the answer on its way, if any

service == <<outputs, request, reply>>

Init ==
  /\ outputs = AllOff
  /\ request = << >>
  /\ reply = << >>

Ask(r) ==
  /\ request = << >>
  /\ request' = <<r>>
  /\ UNCHANGED <<outputs, reply>>

Serve(r) ==
  /\ request = <<r>>
  /\ reply = << >>
  /\ outputs' = Effect(outputs, r)
  /\ reply' = <<Answer(r)>>
  /\ UNCHANGED request

Take ==
  /\ reply # << >>
  /\ request' = << >>
  /\ reply' = << >>
  /\ UNCHANGED outputs

Next == Take \/ \E r \in Requests : Ask(r) \/ Serve(r)

Spec == Init /\ [][Next]_service
=============================================================================
