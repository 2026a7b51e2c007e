----------------------------- MODULE SessionMap -----------------------------
(***************************************************************************)
(* The session manager of claw_modules/claw_session_mgr for one chat: the  *)
(* chat map file, the .tmp file every writer goes through, and the session *)
(* histories that its aliases name.  The dispatcher (slash commands and    *)
(* session ids of messages) and the HTTP server (/api/session) call it at  *)
(* the same time.  s_mutex covers only the edit of a task's own copy, so   *)
(* the read, the write of .tmp and the rename are steps of their own.      *)
(***************************************************************************)
EXTENDS ChatMapOps

CONSTANTS
  Tasks,       \* the tasks that call the session manager
  Programs,    \* per task, the call sequences it makes, out of AllPrograms
  ReadLimit,   \* sessions of a map that fits in the 1023 bytes that are read
  MaxCalls,    \* bound: call sequences begun
  Faults       \* what may fail: an allocation before the read, the write of
               \* .tmp, the rename, the power

(* What callers do: one call; or, for a message with an alias, new, resume *)
(* and the request on that alias (cap_session_mgr_build_session_id).       *)
Ask(a)   == [kind |-> "ask", from |-> a, to |-> Default]
Clear(a) == [kind |-> "clear", from |-> a, to |-> Default]
ClearCurrent == [kind |-> "clear_current", from |-> Default, to |-> Default]
Route(a) == <<[kind |-> "new", from |-> Default, to |-> a],
              [kind |-> "resume", from |-> a, to |-> Default], Ask(a)>>
Calls == MapOps \cup {Ask(a) : a \in Aliases} \cup {Clear(a) : a \in Aliases} \cup {ClearCurrent}
AllPrograms == {<<op>> : op \in MapOps} \cup {Route(a) : a \in Aliases}
                 \cup {<<Clear(a)>> : a \in Aliases} \cup {<<ClearCurrent>>}

ASSUME SessionMapAssumption ==
  /\ Programs \in [Tasks -> SUBSET AllPrograms]
  /\ ReadLimit \in Nat \ {0} /\ MaxCalls \in Nat
  /\ Faults \subseteq {"read", "write", "rename", "power"}

VARIABLES
  map, tmp,    \* the chat map file and map.tmp
  todo,        \* per task: the calls of its program still to make
  pc, copy,    \* per task: where its call is, the map it will write
  history,     \* aliases whose session file has turns
  running,     \* aliases with a request in the agent engine
  calls        \* bound counter

vars == <<map, tmp, todo, pc, copy, history, running, calls>>

Init ==
  /\ map = Absent /\ tmp = Absent
  /\ todo = [t \in Tasks |-> <<>>] /\ pc = [t \in Tasks |-> "idle"] /\ copy = [t \in Tasks |-> Absent]
  /\ history = {} /\ running = {} /\ calls = 0

-----------------------------------------------------------------------------
Current(m) == IF m = Absent THEN Default ELSE m.current

Start(t, p) ==
  /\ todo[t] = <<>> /\ calls < MaxCalls
  /\ calls' = calls + 1
  /\ todo' = [todo EXCEPT ![t] = p]
  /\ UNCHANGED <<map, tmp, pc, copy, history, running>>

(* A call is over: the session id it built, if any, starts a request.      *)
Over(t, m) ==
  LET op == Head(todo[t])
  IN  /\ todo' = [todo EXCEPT ![t] = Tail(@)]
      /\ pc' = [pc EXCEPT ![t] = "idle"] /\ copy' = [copy EXCEPT ![t] = Absent]
      /\ running' = CASE op.kind = "build" -> running \cup {Current(m)}
                      [] op.kind = "ask"   -> running \cup {op.from}
                      [] OTHER             -> running

(* read_chat_map_at: no map if there is no file, no memory for its text,   *)
(* or more text than the 1023 bytes that are read and then not parsed.     *)
ReadResults ==
  IF map # Absent /\ Len(map.sessions) <= ReadLimit
    THEN {map} \cup (IF "read" \in Faults THEN {Absent} ELSE {})
    ELSE {Absent}

(* claw_memory_clear_session by a call that leaves the map alone. *)
Clears(op, m) ==
  history' = CASE op.kind = "clear"         -> history \ {op.from}
               [] op.kind = "clear_current" -> history \ {Current(m)}
               [] OTHER                     -> history

(* The first part of a call: read the map, check the request against it,   *)
(* edit the copy.                                                          *)
ReadMap(t) ==
  /\ pc[t] = "idle" /\ todo[t] # <<>>
  /\ LET op == Head(todo[t])
     IN  \E m \in ReadResults :
           /\ Clears(op, m)
           /\ IF op \in MapOps /\ Accepts(op, m)
                THEN /\ pc' = [pc EXCEPT ![t] = IF Edited(op, m) = Absent THEN "remove" ELSE "write"]
                     /\ copy' = [copy EXCEPT ![t] = Edited(op, m)]
                     /\ UNCHANGED <<todo, running>>
                ELSE Over(t, m)
  /\ UNCHANGED <<map, tmp, calls>>

(* No memory for the path: the call fails, or builds the default's id.     *)
NoMemory(t) ==
  /\ "read" \in Faults /\ pc[t] = "idle" /\ todo[t] # <<>> /\ Head(todo[t]).kind # "ask"
  /\ Over(t, Absent)
  /\ UNCHANGED <<map, tmp, history, calls>>

(* write_chat_map_str: .tmp is written and closed ... *)
WriteTmp(t) ==
  /\ pc[t] = "write"
  /\ tmp' = copy[t]
  /\ pc' = [pc EXCEPT ![t] = "rename"]
  /\ UNCHANGED <<map, todo, copy, history, running, calls>>

(* ... or cannot be opened, or is not all written, and is removed; *)
WriteTmpFails(t) ==
  /\ "write" \in Faults /\ pc[t] = "write"
  /\ tmp' \in {tmp, Absent}
  /\ Over(t, Absent)
  /\ UNCHANGED <<map, history, calls>>

(* A delete goes on to clear the session's history; other calls are over.  *)
Succeeds(t) ==
  IF Head(todo[t]).kind = "delete"
    THEN /\ pc' = [pc EXCEPT ![t] = "clear"]
         /\ UNCHANGED <<todo, copy, running>>
    ELSE Over(t, Absent)

(* Mutant of RenameTmp: the map is truncated and written in place.         *)
RenameTmp_InPlace(t) ==
  /\ pc[t] = "rename"
  /\ IF map = Absent \/ tmp = Absent
       THEN map' = copy[t] /\ tmp' = Absent /\ Succeeds(t)
       ELSE map' = Absent /\ UNCHANGED <<tmp, todo, pc, copy, running>>
  /\ UNCHANGED <<history, calls>>

(* and then takes the place of the map, whoever wrote it last.             *)
RenameTmp(t) ==
  /\ pc[t] = "rename" /\ tmp # Absent
  /\ map' = tmp /\ tmp' = Absent
  /\ Succeeds(t)
  /\ UNCHANGED <<history, calls>>

(* Mutant: the delete goes on although the map could not be replaced.      *)
RenameTmpFails_GoesOn(t) ==
  /\ pc[t] = "rename" /\ (tmp = Absent \/ "rename" \in Faults)
  /\ Succeeds(t)
  /\ UNCHANGED <<map, tmp, history, calls>>

RenameTmpFails(t) ==
  /\ pc[t] = "rename" /\ (tmp = Absent \/ "rename" \in Faults)
  /\ Over(t, Absent)
  /\ UNCHANGED <<map, tmp, history, calls>>

(* The last session was deleted: the file is removed. *)
RemoveMap(t) ==
  /\ pc[t] = "remove"
  /\ map' = Absent
  /\ Succeeds(t)
  /\ UNCHANGED <<tmp, history, calls>>

ClearHistory(t) ==
  /\ pc[t] = "clear"
  /\ history' = history \ {Head(todo[t]).from}
  /\ Over(t, Absent)
  /\ UNCHANGED <<map, tmp, calls>>

(* The engine saves the turn of a request, under the alias it began with.  *)
SaveTurn(a) ==
  /\ a \in running
  /\ running' = running \ {a} /\ history' = history \cup {a}
  /\ UNCHANGED <<map, tmp, todo, pc, copy, calls>>

PowerLoss ==
  /\ "power" \in Faults
  /\ todo' = [t \in Tasks |-> <<>>] /\ pc' = [t \in Tasks |-> "idle"] /\ copy' = [t \in Tasks |-> Absent]
  /\ running' = {}
  /\ UNCHANGED <<map, tmp, history, calls>>

Step(t) ==
  \/ \E p \in Programs[t] : Start(t, p)
  \/ ReadMap(t) \/ NoMemory(t) \/ WriteTmp(t) \/ WriteTmpFails(t)
  \/ RenameTmp(t) \/ RenameTmpFails(t) \/ RemoveMap(t) \/ ClearHistory(t)

Next == PowerLoss \/ (\E t \in Tasks : Step(t)) \/ (\E a \in Aliases : SaveTurn(a))

Spec == Init /\ [][Next]_vars
-----------------------------------------------------------------------------
(* Properties *)

TypeOK ==
  /\ {map, tmp} \subseteq ChatMap \cup {Absent}
  /\ todo \in [Tasks -> Seq(Calls)] /\ copy \in [Tasks -> ChatMap \cup {Absent}]
  /\ pc \in [Tasks -> {"idle", "write", "rename", "remove", "clear"}]
  /\ history \subseteq Aliases /\ running \subseteq Aliases /\ calls \in 0..MaxCalls

(* Whatever the tasks do to the file and the shared .tmp, and whatever     *)
(* fails, a map that can be read lists its current session and no session  *)
(* twice: list, resume and delete rely on it.                              *)
Consistent(m) == m # Absent => m.current \in Range(m.sessions) /\ IsInjective(m.sessions)
MapConsistent ==
  /\ Consistent(map) /\ Consistent(tmp)
  /\ \A t \in Tasks : Consistent(copy[t])

(* One caller at a time: each call edits the map as it stands, at once, or *)
(* leaves it, through failed writes, failed renames and power loss.        *)
Store == INSTANCE ChatMapStore
AtomicMap == Store!Spec

(* A listed session keeps its history unless a call clears it by name: a   *)
(* delete first takes the session out of the map, and clears nothing when  *)
(* that fails.                                                             *)
ClearNames(op, a) ==
  \/ op.kind = "clear" /\ op.from = a
  \/ op.kind = "clear_current" /\ a = Current(map)
HistoryKept ==
  [][\A a \in (history \ history') \cap Listed(map') :
       \E t \in Tasks : todo[t] # <<>> /\ ClearNames(Head(todo[t]), a)]_vars
=============================================================================
