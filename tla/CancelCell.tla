----------------------------- MODULE CancelCell -----------------------------
(***************************************************************************)
(* What the firmware's CancellationSource promises its callers: a single   *)
(* cell holding the gravest reason raised so far, on which cancel, reset   *)
(* and clear_emergency each take effect at ONE instant between their call  *)
(* and their return.  Cancellation implements this specification.          *)
(***************************************************************************)
EXTENDS CancelReason

CONSTANT Caller  \* the tasks and interrupts that hold the source

(* A call: cancel with a reason, reset, or clear_emergency. *)
CancelCalls == [op : {"cancel"}, arg : Reason \ {None}]
Calls       == CancelCalls \cup [op : {"reset", "clear_emergency"}, arg : {None}]

NoCall == [op |-> "none", arg |-> None]

VARIABLES
  cell,    \* the reason tokens observe
  status,  \* status[c]: where c is in its call
  call     \* call[c]: the call c is making

cellVars == <<cell, status, call>>

Init ==
  /\ cell = None
  /\ status = [c \in Caller |-> "out"]
  /\ call = [c \in Caller |-> NoCall]

Invoke(c) ==
  /\ status[c] = "out"
  /\ \E k \in Calls : call' = [call EXCEPT ![c] = k]
  /\ status' = [status EXCEPT ![c] = "called"]
  /\ UNCHANGED cell

TakeEffect(c) ==
  /\ status[c] = "called"
  /\ cell' = Effect(call[c].op, call[c].arg, cell)
  /\ status' = [status EXCEPT ![c] = "done"]
  /\ UNCHANGED call

Return(c) ==
  /\ status[c] = "done"
  /\ status' = [status EXCEPT ![c] = "out"]
  /\ call' = [call EXCEPT ![c] = NoCall]
  /\ UNCHANGED cell

Next == \E c \in Caller : Invoke(c) \/ TakeEffect(c) \/ Return(c)

Spec == Init /\ [][Next]_cellVars
=============================================================================
