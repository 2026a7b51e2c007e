---------------------------- MODULE ChatMapStore ----------------------------
(***************************************************************************)
(* What the session manager promises of a chat map: every call edits the   *)
(* map as it stands, at once or not at all, power loss included ("Write    *)
(* ... atomically: write to .tmp then rename", cap_session_mgr.c).         *)
(***************************************************************************)
EXTENDS ChatMapOps

VARIABLE map

Init == map = Absent

Next == \E op \in MapOps : Accepts(op, map) /\ map' = Edited(op, map)

Spec == Init /\ [][Next]_map
=============================================================================
