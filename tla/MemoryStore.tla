---------------------------- MODULE MemoryStore ----------------------------
(***************************************************************************)
(* What the long-term memory promises: a call edits the array as it stands *)
(* at one moment, or leaves it alone if it cannot be saved or the power is *)
(* lost first ("Atomic write of the long-term store", claw_memory.c); and  *)
(* only a clear, made between two calls, empties it.                       *)
(***************************************************************************)
EXTENDS MemoryItems

CONSTANTS Tasks

VARIABLES
  items,   \* the array
  call,    \* per task: the call it has begun, and whether it is done
  boot     \* starts of the program

vars == <<items, call, boot>>

Done == [NoOp EXCEPT !.kind = "done"]

Init ==
  /\ items = <<>> /\ boot = 1
  /\ call = [t \in Tasks |-> NoOp]

Begin(t, op) ==
  /\ call[t] = NoOp /\ Writes(op, items)
  /\ call' = [call EXCEPT ![t] = op]
  /\ UNCHANGED <<items, boot>>

Commit(t) ==
  /\ call[t] \notin {NoOp, Done}
  /\ items' = Edited(call[t], items)
  /\ call' = [call EXCEPT ![t] = Done]
  /\ UNCHANGED boot

(* The call returns, or gives up before its edit is made. *)
Return(t) ==
  /\ call' = [call EXCEPT ![t] = NoOp]
  /\ UNCHANGED <<items, boot>>

Clear(t) ==
  /\ call[t] = NoOp
  /\ items' = <<>>
  /\ UNCHANGED <<call, boot>>

PowerLoss ==
  /\ boot' = boot + 1
  /\ call' = [t \in Tasks |-> NoOp]
  /\ UNCHANGED items

Next ==
  \/ PowerLoss
  \/ \E t \in Tasks : Commit(t) \/ Return(t) \/ Clear(t) \/ \E op \in Ops : Begin(t, op)

Spec == Init /\ [][Next]_vars
=============================================================================
