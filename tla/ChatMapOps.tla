----------------------------- MODULE ChatMapOps -----------------------------
(***************************************************************************)
(* The chat map of one (channel, chat_id) as cap_session_mgr.c edits it    *)
(* between the read and the write of its file: the aliases of the chat's   *)
(* sessions and the current one.                                           *)
(***************************************************************************)
EXTENDS Naturals, SequencesExt

CONSTANTS
  Aliases,   \* session aliases
  Default,   \* "default"
  Absent     \* no chat map file

ChatMap == [current : Aliases, sessions : Seq(Aliases)]

ASSUME ChatMapAssumption == Default \in Aliases /\ Absent \notin ChatMap

(* The interface's calls that edit the map; "from" is the alias that       *)
(* rename_alias, resume and delete name, "to" the one new and rename give. *)
NewOps     == {[kind |-> "new", from |-> Default, to |-> a] : a \in Aliases}
RenameOps  == {[kind |-> "rename", from |-> Default, to |-> a] : a \in Aliases}
AliasOps   == {[kind |-> "rename_alias", from |-> a, to |-> b] : a, b \in Aliases}
ResumeOps  == {[kind |-> "resume", from |-> a, to |-> Default] : a \in Aliases}
DeleteOps  == {[kind |-> "delete", from |-> a, to |-> Default] : a \in Aliases}
BuildOp    == [kind |-> "build", from |-> Default, to |-> Default]
MapOps     == NewOps \cup RenameOps \cup AliasOps \cup ResumeOps \cup DeleteOps \cup {BuildOp}

Listed(m) == IF m = Absent THEN {} ELSE Range(m.sessions)

(* cap_session_mgr_list: without a map there is an implicit default.       *)
Shown(m) == IF m = Absent THEN {Default} ELSE Listed(m)

DefaultMap == [current |-> Default, sessions |-> <<Default>>]

(* Whether the call goes on to write a map it has read.                    *)
Accepts(op, m) ==
  CASE op.kind = "new"          -> op.to \notin Shown(m)
    [] op.kind = "rename"       -> m # Absent /\ m.current \in Listed(m) /\ op.to \notin Listed(m)
    [] op.kind = "rename_alias" -> op.from \in Listed(m) /\ op.to \notin Listed(m)
    [] op.kind = "build"        -> m = Absent
    [] OTHER                    -> op.from \in Listed(m)

Created(m, a) == [current |-> a, sessions |-> Append(m.sessions, a)]

Renamed(m, a, b) ==
  [current  |-> IF m.current = a THEN b ELSE m.current,
   sessions |-> [i \in DOMAIN m.sessions |-> IF m.sessions[i] = a THEN b ELSE m.sessions[i]]]

Without(m, a) == RemoveAt(m.sessions, CHOOSE i \in DOMAIN m.sessions : m.sessions[i] = a)

(* Mutant of Deleted: current still names the deleted session. *)
Deleted_CurrentKept(m, a) ==
  LET rest == Without(m, a)
  IN  IF rest = <<>> THEN Absent ELSE [current |-> m.current, sessions |-> rest]

Deleted(m, a) ==
  LET rest == Without(m, a)
  IN  IF rest = <<>> THEN Absent
      ELSE [current |-> IF m.current = a THEN Head(rest) ELSE m.current, sessions |-> rest]

(* The map the call writes, or Absent when it removes the file. *)
Edited(op, m) ==
  CASE op.kind = "new"          -> Created(IF m = Absent THEN DefaultMap ELSE m, op.to)
    [] op.kind = "rename"       -> Renamed(m, m.current, op.to)
    [] op.kind = "rename_alias" -> Renamed(m, op.from, op.to)
    [] op.kind = "resume"       -> [m EXCEPT !.current = op.from]
    [] op.kind = "delete"       -> Deleted(m, op.from)
    [] OTHER                    -> DefaultMap
=============================================================================
