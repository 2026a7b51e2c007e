---------------------------- MODULE AgentEngine ----------------------------
(***************************************************************************)
(* The agent engine of claw_modules/claw_agent: the request queue, the     *)
(* worker task and its tool loop, cancellation of the request in flight,   *)
(* and the response path of claw_agent_receive_for (response queue, shared *)
(* pending list, receive lock).                                            *)
(*                                                                         *)
(* A job is one call of claw_agent_submit.  A Sync job belongs to a caller *)
(* that then waits in claw_agent_receive_for (atcmd_ask.c, claw_test.c);   *)
(* any other job comes from the event dispatcher, which cancels the        *)
(* session's request in flight first and gets its answer by on_response.   *)
(* Time is abstract: a timed wait may end whenever the code allows it to.  *)
(***************************************************************************)
EXTENDS Naturals, SequencesExt

CONSTANTS
  Jobs,          \* requests submitted to the engine
  Sync,          \* the jobs submitted with CLAW_AGENT_REQUEST_FLAG_SYNC_RECEIVE
  ReqId,         \* [Jobs -> Nat]: request_id, counted apart by each caller
  Sessions,      \* session ids
  SessionOf,     \* [Jobs -> Sessions]
  LongSessions,  \* session ids that do not fit in flight_session[128]
  ReqDepth,      \* request_queue_len
  RspDepth,      \* response_queue_len
  CancelIds,     \* ids claw_agent_cancel_request is called with (0: any)
  MaxIter,       \* max_iterations: bound on the tool rounds of a request
  AllocFails,    \* TRUE: strdup and malloc may return NULL
  None           \* no job, no session

ASSUME AgentEngineAssumption ==
  /\ Sync \subseteq Jobs
  /\ ReqId \in [Jobs -> Nat \ {0}]
  /\ SessionOf \in [Jobs -> Sessions]
  /\ LongSessions \subseteq Sessions
  /\ ReqDepth \in Nat \ {0} /\ RspDepth \in Nat \ {0} /\ MaxIter \in Nat \ {0}
  /\ CancelIds \subseteq Nat /\ AllocFails \in BOOLEAN
  /\ None \notin Jobs \cup Sessions

(* The id counters of the synchronous callers never meet: atcmd_ask.c      *)
(* counts from 1 and claw_test.c from 0x9000.                              *)
ASSUME SyncIdsDiffer ==
  \A j, k \in Sync : ReqId[j] = ReqId[k] => j = k

VARIABLES
  reqQ,      \* g_engine->req_q
  epc, cur,  \* where engine_task is, and the request node it holds
  iter,      \* loop counter of claw_agent_process_request
  toolsRan,  \* rt_msgs is not empty
  flight,    \* flight_id (0: idle) and flight_session
  abort,     \* abort_flag
  rspQ,      \* g_engine->rsp_q
  pend,      \* s_pending_head
  recvLock,  \* holder of s_recv_lock
  caller,    \* where the submitter of each job is
  got,       \* [Sync -> Jobs \cup {None}]: the response receive_for returned
  outcome,   \* how the engine ended each job
  saved,     \* what the last save_turn of each job recorded
  answered,  \* history: jobs whose response was handed to somebody
  lost,      \* history: jobs whose response was dropped
  targeted,  \* history: jobs in flight when somebody cancelled their session or id
  late       \* history: tool rounds of the current job begun after its abort

engineVars  == <<epc, cur, iter, toolsRan, flight, abort>>
receiveVars == <<rspQ, pend, recvLock, got>>
historyVars == <<answered, lost, targeted, late>>
vars == <<reqQ, engineVars, receiveVars, caller, outcome, saved, historyVars>>

EnginePCs   == {"idle", "taken", "check", "llm", "tools", "finalize", "land", "respond"}
CallerPCs   == {"idle", "presub", "sent", "rejected", "lock", "wait", "again", "got", "timeout"}
Outcomes    == {"none", "ok", "empty", "notext", "error", "cancelled"}
NoFlight    == [id |-> 0, session |-> None]

Busy        == epc # "idle"
Airborne    == epc \in {"check", "llm", "tools", "finalize", "land"}
Accepted(j) == caller[j] \notin {"idle", "presub", "rejected"}
Served(j)   == outcome[j] # "none" /\ cur # j

(* Mutant of Stored: the session of the request is not kept.               *)
Stored_Nothing(s) == None

(* flight_session after strncpy into 128 bytes. *)
Stored(s) == IF s \in LongSessions THEN None ELSE s

Init ==
  /\ reqQ = <<>> /\ rspQ = <<>> /\ pend = <<>>
  /\ epc = "idle" /\ cur = None /\ iter = 0 /\ toolsRan = FALSE
  /\ flight = NoFlight /\ abort = FALSE
  /\ recvLock = None
  /\ caller = [j \in Jobs |-> "idle"]
  /\ got = [j \in Sync |-> None]
  /\ outcome = [j \in Jobs |-> "none"]
  /\ saved = [j \in Jobs |-> "nothing"]
  /\ answered = {} /\ lost = {} /\ targeted = {} /\ late = 0

-----------------------------------------------------------------------------
(* Submitting and cancelling *)

(* The code under flight_lock of both cancel functions: arm the abort of   *)
(* the request in flight when Match holds of it.                           *)
ArmAbort(match) == abort' = IF flight.id # 0 /\ match THEN TRUE ELSE abort

(* The job a cancellation is really meant for, told from where the engine  *)
(* is and not from the fields the code compares.                           *)
Target(meant) == targeted' = targeted \cup (IF Airborne /\ meant THEN {cur} ELSE {})

(* Mutant: the session is not compared. *)
CancelSession_AnySession(s) ==
  /\ ArmAbort(TRUE)
  /\ Target(SessionOf[cur] = s)

CancelSession(s) ==
  /\ ArmAbort(flight.session = s)
  /\ Target(SessionOf[cur] = s)

(* claw_agent_cancel_for_session as the dispatcher task calls it, just     *)
(* before it submits the new message of that session.                      *)
Preempt(j) ==
  /\ j \notin Sync /\ caller[j] = "idle"
  /\ \A k \in Jobs : caller[k] # "presub"     \* one dispatcher task
  /\ CancelSession(SessionOf[j])
  /\ caller' = [caller EXCEPT ![j] = "presub"]
  /\ UNCHANGED <<reqQ, epc, cur, iter, toolsRan, flight, receiveVars,
                 outcome, saved, answered, lost, late>>

(* claw_agent_cancel_request; id 0 stands for any request.                 *)
CancelRequest(id) ==
  /\ ArmAbort(id \in {0, flight.id})
  /\ Target(id \in {0, ReqId[cur]})
  /\ UNCHANGED <<reqQ, epc, cur, iter, toolsRan, flight, receiveVars, caller,
                 outcome, saved, answered, lost, late>>

(* claw_agent_submit: the blocking send ends in time, or with the queue    *)
(* still full and the caller told so.                                      *)
Submit(j) ==
  /\ caller[j] = IF j \in Sync THEN "idle" ELSE "presub"
  /\ IF Len(reqQ) < ReqDepth
       THEN /\ reqQ' = Append(reqQ, j)
            /\ caller' = [caller EXCEPT ![j] = IF j \in Sync THEN "lock" ELSE "sent"]
       ELSE /\ caller' = [caller EXCEPT ![j] = "rejected"]
            /\ UNCHANGED reqQ
  /\ UNCHANGED <<engineVars, receiveVars, outcome, saved, historyVars>>

-----------------------------------------------------------------------------
(* The worker task *)

EngineReceive ==
  /\ epc = "idle" /\ reqQ # <<>>
  /\ cur' = Head(reqQ) /\ reqQ' = Tail(reqQ)
  /\ epc' = "taken"
  /\ UNCHANGED <<iter, toolsRan, flight, abort, receiveVars, caller, outcome,
                 saved, historyVars>>

(* Between the dequeue and this step a cancellation finds nothing in flight. *)
TakeOff ==
  /\ epc = "taken"
  /\ flight' = [id |-> ReqId[cur], session |-> Stored(SessionOf[cur])]
  /\ abort' = FALSE
  /\ epc' = "check"
  /\ UNCHANGED <<reqQ, cur, iter, toolsRan, receiveVars, caller, outcome, saved, historyVars>>

Ends(result) == epc' = "finalize" /\ outcome' = [outcome EXCEPT ![cur] = result]

(* Mutant: the flag is read only before the first round. *)
CheckAbort_FirstRoundOnly ==
  /\ epc = "check"
  /\ IF abort /\ iter = 0 THEN Ends("cancelled")
                          ELSE epc' = "llm" /\ UNCHANGED outcome
  /\ UNCHANGED <<reqQ, cur, iter, toolsRan, flight, abort, receiveVars, caller,
                 saved, historyVars>>

CheckAbort ==
  /\ epc = "check"
  /\ IF abort THEN Ends("cancelled")
              ELSE epc' = "llm" /\ UNCHANGED outcome
  /\ UNCHANGED <<reqQ, cur, iter, toolsRan, flight, abort, receiveVars, caller,
                 saved, historyVars>>

(* agent_invoke_llm: no context, transport error, first token too late, a  *)
(* final text (possibly empty, possibly not cloned), or tool calls.        *)
LlmReturns ==
  /\ epc = "llm"
  /\ \/ \E result \in {"error", "ok", "empty", "notext"} :
          /\ result = "notext" => AllocFails
          /\ Ends(result) /\ UNCHANGED late
     \/ /\ epc' = "tools"
        /\ late' = IF abort THEN late + 1 ELSE late
        /\ UNCHANGED outcome
  /\ UNCHANGED <<reqQ, cur, iter, toolsRan, flight, abort, receiveVars, caller,
                 saved, answered, lost, targeted>>

(* A tool round fails before or after the assistant message was appended.  *)
ToolsFail ==
  /\ epc = "tools"
  /\ toolsRan' = TRUE \/ UNCHANGED toolsRan
  /\ Ends("error")
  /\ UNCHANGED <<reqQ, cur, iter, flight, abort, receiveVars, caller, saved, historyVars>>

(* A tool round succeeds: checkpoint the turn, then the round limit.       *)
ToolsDone ==
  /\ epc = "tools"
  /\ toolsRan' = TRUE
  /\ saved' = [saved EXCEPT ![cur] = "checkpoint"]
  /\ IF iter + 1 >= MaxIter
       THEN Ends("error") /\ UNCHANGED iter
       ELSE epc' = "check" /\ iter' = iter + 1 /\ UNCHANGED outcome
  /\ UNCHANGED <<reqQ, cur, flight, abort, receiveVars, caller, historyVars>>

(* Mutant: a failed or empty turn is never saved. *)
SavesTurn_OkOnly(result) == result = "ok"

(* finalize_success_turn when there is a text, finalize_failed_turn on an  *)
(* error, neither when the reply could not be cloned.                      *)
SavesTurn(result) ==
  CASE result = "ok"     -> TRUE
    [] result = "notext" -> FALSE
    [] OTHER             -> toolsRan

Finalize ==
  /\ epc = "finalize"
  /\ saved' = IF SavesTurn(outcome[cur]) THEN [saved EXCEPT ![cur] = "final"] ELSE saved
  /\ epc' = "land"
  /\ UNCHANGED <<reqQ, cur, iter, toolsRan, flight, abort, receiveVars, caller,
                 outcome, historyVars>>

Land ==
  /\ epc = "land"
  /\ flight' = NoFlight /\ abort' = FALSE
  /\ epc' = "respond"
  /\ UNCHANGED <<reqQ, cur, iter, toolsRan, receiveVars, caller, outcome, saved, historyVars>>

(* Mutant of DeliverSync: the worker waits for room instead of dropping.   *)
DeliverSync_Waits(r) ==
  Len(rspQ) < RspDepth /\ rspQ' = Append(rspQ, r) /\ UNCHANGED lost

(* resp_send: queued without waiting, dropped when the queue is full.      *)
DeliverSync(r) ==
  IF Len(rspQ) < RspDepth
    THEN rspQ' = Append(rspQ, r) /\ UNCHANGED lost
    ELSE lost' = lost \cup {r} /\ UNCHANGED rspQ

(* The end of engine_task's loop body: a Sync response goes to the queue,  *)
(* any other to on_response, which ameba_claw_main.c always installs.      *)
Respond ==
  /\ epc = "respond"
  /\ \/ cur \in Sync /\ DeliverSync(cur) /\ UNCHANGED answered
     \/ cur \notin Sync /\ answered' = answered \cup {cur} /\ UNCHANGED <<rspQ, lost>>
  /\ epc' = "idle"
  /\ cur' = None /\ iter' = 0 /\ toolsRan' = FALSE /\ late' = 0   \* out of scope
  /\ UNCHANGED <<reqQ, flight, abort, pend, recvLock, got, caller, outcome, saved, targeted>>

EngineStep ==
  \/ EngineReceive \/ TakeOff \/ CheckAbort \/ LlmReturns \/ ToolsFail \/ ToolsDone
  \/ Finalize \/ Land \/ Respond

-----------------------------------------------------------------------------
(* claw_agent_receive_for *)

(* Mutant: the request id is not compared. *)
Matches_Any(j, r) == TRUE

Matches(j, r) == ReqId[r] = ReqId[j]

HandOver(j, r) ==
  /\ got' = [got EXCEPT ![j] = r]
  /\ answered' = answered \cup {r}
  /\ caller' = [caller EXCEPT ![j] = "got"]
  /\ recvLock' = None

(* Mutant: the node is read but stays in the list. *)
PopPending_Kept(i) == UNCHANGED pend

(* recv_pop_pending: the first response of the list that matches. *)
PopPending(i) == pend' = RemoveAt(pend, i)

(* Take s_recv_lock; a response already in the pending list is returned at *)
(* once, otherwise the lock is kept while waiting on the response queue.   *)
LockReceive(j) ==
  /\ caller[j] = "lock" /\ recvLock = None
  /\ \/ \E i \in DOMAIN pend :
          /\ Matches(j, pend[i])
          /\ \A k \in 1..(i - 1) : ~Matches(j, pend[k])
          /\ PopPending(i)
          /\ HandOver(j, pend[i])
     \/ /\ \A i \in DOMAIN pend : ~Matches(j, pend[i])
        /\ recvLock' = j
        /\ caller' = [caller EXCEPT ![j] = "wait"]
        /\ UNCHANGED <<pend, got, answered>>
  /\ UNCHANGED <<reqQ, engineVars, rspQ, outcome, saved, lost, targeted, late>>

(* The next response: ours, or somebody else's to stash in the pending     *)
(* list (dropped when the list node cannot be allocated).                  *)
TakeResponse(j) ==
  /\ caller[j] \in {"wait", "again"} /\ rspQ # <<>>
  /\ rspQ' = Tail(rspQ)
  /\ LET r == Head(rspQ) IN
       \/ /\ Matches(j, r)
          /\ HandOver(j, r)
          /\ UNCHANGED <<pend, lost>>
       \/ /\ ~Matches(j, r)
          /\ \/ pend' = Append(pend, r) /\ UNCHANGED lost
             \/ AllocFails /\ lost' = lost \cup {r} /\ UNCHANGED pend
          /\ caller' = [caller EXCEPT ![j] = "again"]
          /\ UNCHANGED <<got, answered, recvLock>>
  /\ UNCHANGED <<reqQ, engineVars, outcome, saved, targeted, late>>

(* The deadline: while waiting for the lock, on an empty queue, or at the  *)
(* loop's elapsed-time test after a response was stashed.                  *)
TimeoutDue(j) ==
  \/ caller[j] = "lock" /\ recvLock # None
  \/ caller[j] = "wait" /\ rspQ = <<>>
  \/ caller[j] = "again"

ReceiveTimeout(j) ==
  /\ TimeoutDue(j)
  /\ caller' = [caller EXCEPT ![j] = "timeout"]
  /\ recvLock' = IF recvLock = j THEN None ELSE recvLock
  /\ UNCHANGED <<reqQ, engineVars, rspQ, pend, got, outcome, saved, historyVars>>

ReceiveStep(j) == LockReceive(j) \/ TakeResponse(j) \/ ReceiveTimeout(j)

-----------------------------------------------------------------------------
(* Nobody has anything left to do: the only state in which all tasks block. *)
Quiet ==
  /\ \A j \in Jobs : caller[j] \in {"sent", "rejected", "got", "timeout"}
  /\ ~Busy /\ reqQ = <<>>
  /\ UNCHANGED vars

Next ==
  \/ Quiet
  \/ \E j \in Jobs : Preempt(j) \/ Submit(j)
  \/ \E id \in CancelIds : CancelRequest(id)
  \/ EngineStep
  \/ \E j \in Sync : ReceiveStep(j)

Spec == Init /\ [][Next]_vars

(* The worker never stops (an LLM call ends by its own timeouts), a        *)
(* receiver is woken by its finite timeout, and the dispatcher goes on     *)
(* from the cancellation to the submission.                                *)
Fairness ==
  /\ WF_vars(EngineStep)
  /\ \A j \in Sync : WF_vars(ReceiveStep(j))
  /\ \A j \in Jobs : WF_vars(caller[j] = "presub" /\ Submit(j))

FairSpec == Spec /\ Fairness
-----------------------------------------------------------------------------
(* Properties *)

TypeOK ==
  /\ reqQ \in Seq(Jobs) /\ Len(reqQ) <= ReqDepth
  /\ rspQ \in Seq(Jobs) /\ Len(rspQ) <= RspDepth
  /\ pend \in Seq(Jobs)
  /\ epc \in EnginePCs
  /\ cur \in Jobs \cup {None} /\ (Busy <=> cur # None)
  /\ iter \in Nat /\ iter < MaxIter
  /\ toolsRan \in BOOLEAN /\ abort \in BOOLEAN
  /\ flight \in [id : Nat, session : Sessions \cup {None}]
  /\ recvLock \in Sync \cup {None}
  /\ caller \in [Jobs -> CallerPCs]
  /\ got \in [Sync -> Jobs \cup {None}]
  /\ outcome \in [Jobs -> Outcomes]
  /\ saved \in [Jobs -> {"nothing", "checkpoint", "final"}]
  /\ answered \subseteq Jobs /\ lost \subseteq Jobs /\ targeted \subseteq Jobs
  /\ late \in Nat

(* A receive_for call never returns the response of another request, with  *)
(* any mix of receivers, timeouts, stale responses and stashed responses   *)
(* (claw_agent.c, claw_agent_receive_for).                                 *)
OwnAnswer == \A j \in Sync : got[j] \in {None, j}

(* Exactly one of these holds of a job the engine has ended: its response  *)
(* is in the response queue, is stashed, was handed over, or was dropped;  *)
(* none of them holds before.  Neither list holds a response twice.  So no *)
(* response is duplicated or vanishes on its way (resp_send, on_response,  *)
(* recv_push_pending, recv_pop_pending).                                   *)
ResponseOnce ==
  /\ IsInjective(rspQ) /\ IsInjective(pend)
  /\ Range(rspQ) \cap Range(pend) = {}
  /\ (Range(rspQ) \cup Range(pend)) \cap (answered \cup lost) = {}
  /\ answered \cap lost = {}
  /\ \A j \in Jobs :
       Served(j) <=> j \in Range(rspQ) \cup Range(pend) \cup answered \cup lost

(* A request ends as "request cancelled" only if somebody cancelled it by  *)
(* its session or its id while it was in flight: an abort never strikes a  *)
(* request of another session nor the one that runs next (abort_flag and   *)
(* flight_* under flight_lock).                                            *)
AbortOnlyTargeted ==
  /\ abort => Airborne /\ cur \in targeted
  /\ \A j \in Jobs : outcome[j] = "cancelled" => j \in targeted

(* A cancellation is not lost: from the moment somebody cancels the        *)
(* request in flight by its session or its id until it lands, its abort is *)
(* armed.  Not so for session ids that flight_session cuts short.          *)
CancelReachesFlight ==
  Airborne /\ cur \in targeted /\ SessionOf[cur] \notin LongSessions => abort

(* After its abort is armed a request begins at most one more tool round:  *)
(* the one the LLM call under way may still ask for.                       *)
OneRoundAfterAbort == late <= 1

(* Once the engine has answered a job, what it last saved of the turn is   *)
(* not a "completed: false" checkpoint: claw_agent_loop.c says a turn whose*)
(* tools ran "must be finalized".                                          *)
CheckpointFinalized == \A j \in Jobs : Served(j) => saved[j] # "checkpoint"

(* Every accepted request is served: nothing that callers, cancellations   *)
(* or full response queues do can stall the worker.                        *)
AcceptedServed == \A j \in Jobs : Accepted(j) ~> Served(j)
=============================================================================
