---------------------------- MODULE OneShotSends ----------------------------
(***************************************************************************)
(* The one-shot tasks that keep a slow channel from blocking the event     *)
(* dispatcher: ses_rply, which sends the reply to a slash command, and     *)
(* im_send, which sends the message of a rule.  Each kind has a counter    *)
(* that bounds its tasks.  The dispatcher has the higher priority, so its  *)
(* test and increment are one step; a task's decrement is a load and a     *)
(* store, between which the dispatcher or another task may run.            *)
(***************************************************************************)
EXTENDS Integers, FiniteSets

CONSTANTS
  Replies,   \* replies to slash commands
  Sends,     \* messages that rules send
  MaxTasks,  \* MAX_REPLY_TASKS, MAX_SEND_IM_TASKS
  CanFail    \* whether an allocation or the creation of a task may fail

OneShotAssumption ==
  /\ IsFiniteSet(Replies) /\ IsFiniteSet(Sends) /\ Replies \cap Sends = {}
  /\ MaxTasks \in Nat \ {0} /\ CanFail \in BOOLEAN

Messages == Replies \cup Sends
Kind(m)  == IF m \in Replies THEN "reply" ELSE "send"

VARIABLES
  inflight,  \* s_reply_tasks_inflight, s_send_im_inflight
  at,        \* per message: where it is
  loaded,    \* per message: the counter its task has loaded
  sent       \* messages handed to the channel

vars == <<inflight, at, loaded, sent>>

Init ==
  /\ inflight = [k \in {"reply", "send"} |-> 0]
  /\ at = [m \in Messages |-> "new"] /\ loaded = [m \in Messages |-> 0]
  /\ sent = {}

(* The dispatcher's worker is not inside a synchronous send. *)
WorkerFree == \A m \in Messages : at[m] # "sync"

(* Mutant of Falls: a reply is dropped too.                                *)
Falls_Drop(m) == "dropped"

Full(k) == inflight[k] >= MaxTasks

(* What happens to a message that gets no task. *)
Falls(m) == IF m \in Replies THEN "sync" ELSE "dropped"

Spawn(m) ==
  /\ at[m] = "new" /\ WorkerFree /\ ~Full(Kind(m))
  /\ inflight' = [inflight EXCEPT ![Kind(m)] = @ + 1]
  /\ at' = [at EXCEPT ![m] = "sending"]
  /\ UNCHANGED <<loaded, sent>>

NoTask(m) ==
  /\ at[m] = "new" /\ WorkerFree /\ (Full(Kind(m)) \/ CanFail)
  /\ at' = [at EXCEPT ![m] = Falls(m)]
  /\ UNCHANGED <<inflight, loaded, sent>>

SyncSend(m) ==
  /\ at[m] = "sync"
  /\ sent' = sent \cup {m}
  /\ at' = [at EXCEPT ![m] = "done"]
  /\ UNCHANGED <<inflight, loaded>>

TaskSends(m) ==
  /\ at[m] = "sending"
  /\ sent' = sent \cup {m}
  /\ at' = [at EXCEPT ![m] = "sent"]
  /\ UNCHANGED <<inflight, loaded>>

TaskLoads(m) ==
  /\ at[m] = "sent"
  /\ loaded' = [loaded EXCEPT ![m] = inflight[Kind(m)]]
  /\ at' = [at EXCEPT ![m] = "decrementing"]
  /\ UNCHANGED <<inflight, sent>>

(* The counter is decremented, then the task frees its memory and ends.    *)
TaskStores(m) ==
  /\ at[m] = "decrementing"
  /\ inflight' = [inflight EXCEPT ![Kind(m)] = loaded[m] - 1]
  /\ at' = [at EXCEPT ![m] = "done"]
  /\ UNCHANGED <<loaded, sent>>

Next == \E m \in Messages :
  Spawn(m) \/ NoTask(m) \/ SyncSend(m) \/ TaskSends(m) \/ TaskLoads(m) \/ TaskStores(m)

Spec == Init /\ [][Next]_vars

(* Sends return, and the tasks and the worker are scheduled. *)
Fairness ==
  \A m \in Messages : WF_vars(SyncSend(m)) /\ WF_vars(TaskSends(m) \/ TaskLoads(m) \/ TaskStores(m))
-----------------------------------------------------------------------------
(* Properties *)

(* A counter never passes its maximum, whatever updates of it are lost.    *)
TypeOK ==
  /\ inflight \in [{"reply", "send"} -> {i \in Int : i <= MaxTasks}]
  /\ at \in [Messages -> {"new", "sync", "sending", "sent", "decrementing", "done", "dropped"}]
  /\ loaded \in [Messages -> {i \in Int : i <= MaxTasks}]
  /\ sent \subseteq Messages

(* A reply the dispatcher has begun on reaches its channel, whatever the   *)
(* counter says and whatever fails: "send synchronously rather than        *)
(* dropping the reply".                                                    *)
ReplyArrives == \A m \in Replies : at[m] # "new" ~> m \in sent
=============================================================================
