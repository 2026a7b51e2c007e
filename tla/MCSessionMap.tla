---------------------------- MODULE MCSessionMap ----------------------------
EXTENDS SessionMap
CONSTANTS dispatcher, http, home, work, play

One(ops) == {<<op>> : op \in ops}

(* The HTTP server calls no session id builder and names no alias to       *)
(* rename or clear.                                                        *)
HttpCalls  == One(NewOps \cup RenameOps \cup ResumeOps \cup DeleteOps \cup {ClearCurrent})
EverythingOf(tasks) == [t \in tasks |-> IF t = dispatcher THEN AllPrograms ELSE HttpCalls]
Everything == EverythingOf(Tasks)
=============================================================================
