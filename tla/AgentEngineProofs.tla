------------------------- MODULE AgentEngineProofs -------------------------
(***************************************************************************)
(* Theorems about the agent engine, for any jobs, sessions, queue depths,  *)
(* cancellations and allocation failures.                                  *)
(***************************************************************************)
EXTENDS AgentEngine, SeqLemmas

USE AgentEngineAssumption

(***************************************************************************)
(* Type correctness.                                                       *)
(***************************************************************************)
LEMMA InitType == Init => TypeOK
<1> SUFFICES ASSUME Init PROVE TypeOK
  OBVIOUS
<1>1. /\ reqQ \in Seq(Jobs) /\ Len(reqQ) <= ReqDepth
      /\ rspQ \in Seq(Jobs) /\ Len(rspQ) <= RspDepth
      /\ pend \in Seq(Jobs)
  BY DEF Init
<1>2. epc \in EnginePCs /\ cur \in Jobs \cup {None} /\ (Busy <=> cur # None)
  BY DEF Init, EnginePCs, Busy
<1>3. iter \in Nat /\ iter < MaxIter
  BY DEF Init
<1>4. toolsRan \in BOOLEAN /\ abort \in BOOLEAN
  BY DEF Init
<1>5. flight \in [id : Nat, session : Sessions \cup {None}]
  BY DEF Init, NoFlight
<1>6. /\ recvLock \in Sync \cup {None} /\ caller \in [Jobs -> CallerPCs]
      /\ got \in [Sync -> Jobs \cup {None}]
  BY DEF Init, CallerPCs
<1>7. /\ outcome \in [Jobs -> Outcomes]
      /\ saved \in [Jobs -> {"nothing", "checkpoint", "final"}]
  BY DEF Init, Outcomes
<1>8. answered \subseteq Jobs /\ lost \subseteq Jobs /\ targeted \subseteq Jobs /\ late \in Nat
  BY DEF Init
<1> QED BY <1>1, <1>2, <1>3, <1>4, <1>5, <1>6, <1>7, <1>8 DEF TypeOK

LEMMA NextType == TypeOK /\ [Next]_vars => TypeOK'
<1> SUFFICES ASSUME TypeOK, [Next]_vars PROVE TypeOK'
  OBVIOUS
<1> USE DEF TypeOK, EnginePCs, CallerPCs, Outcomes, NoFlight, Busy,
            engineVars, receiveVars, historyVars
<1>1. ASSUME NEW j \in Jobs, Preempt(j) PROVE TypeOK'
  <2>1. abort' \in BOOLEAN
    BY <1>1 DEF Preempt, CancelSession, ArmAbort
  <2>2. targeted' \subseteq Jobs
    BY <1>1 DEF Preempt, CancelSession, Target, Airborne
  <2>3. caller' \in [Jobs -> CallerPCs]
    BY <1>1 DEF Preempt
  <2> QED BY <1>1, <2>1, <2>2, <2>3 DEF Preempt
<1>2. ASSUME NEW j \in Jobs, Submit(j) PROVE TypeOK'
  <2>1. reqQ' \in Seq(Jobs) /\ Len(reqQ') <= ReqDepth
    <3>1. CASE Len(reqQ) < ReqDepth /\ reqQ' = Append(reqQ, j) BY <3>1
    <3>2. CASE reqQ' = reqQ BY <3>2
    <3> QED BY <1>2, <3>1, <3>2 DEF Submit
  <2> QED BY <1>2, <2>1 DEF Submit
<1>3. ASSUME NEW id \in CancelIds, CancelRequest(id) PROVE TypeOK'
  <2>1. abort' \in BOOLEAN
    BY <1>3 DEF CancelRequest, ArmAbort
  <2>2. targeted' \subseteq Jobs
    BY <1>3 DEF CancelRequest, Target, Airborne
  <2> QED BY <1>3, <2>1, <2>2 DEF CancelRequest
<1>4. CASE EngineReceive
  <2>1. cur' \in Jobs /\ reqQ' \in Seq(Jobs) /\ Len(reqQ') <= ReqDepth
    BY <1>4, TailRange DEF EngineReceive
  <2> QED BY <1>4, <2>1 DEF EngineReceive
<1>5. CASE TakeOff
  BY <1>5 DEF TakeOff, Stored
<1>6. CASE CheckAbort
  BY <1>6 DEF CheckAbort, Ends
<1>7. CASE LlmReturns
  <2>1. /\ cur \in Jobs /\ outcome' \in [Jobs -> Outcomes]
        /\ epc' \in {"finalize", "tools"}
    <3>1. CASE epc' = "tools" /\ UNCHANGED outcome
      BY <1>7, <3>1 DEF LlmReturns
    <3>2. ASSUME NEW result \in {"error", "ok", "empty", "notext"}, Ends(result)
          PROVE  outcome' \in [Jobs -> Outcomes] /\ epc' = "finalize"
      BY <3>2 DEF Ends
    <3> QED BY <1>7, <3>1, <3>2 DEF LlmReturns
  <2>2. late' \in Nat
    BY <1>7 DEF LlmReturns
  <2> QED BY <1>7, <2>1, <2>2 DEF LlmReturns
<1>8. CASE ToolsFail
  BY <1>8 DEF ToolsFail, Ends
<1>9. CASE ToolsDone
  <2>1. cur \in Jobs /\ outcome' \in [Jobs -> Outcomes] /\ epc' \in {"finalize", "check"}
    BY <1>9 DEF ToolsDone, Ends
  <2>2. iter' \in Nat /\ iter' < MaxIter
    BY <1>9 DEF ToolsDone
  <2>3. saved' \in [Jobs -> {"nothing", "checkpoint", "final"}] /\ toolsRan' = TRUE
    BY <1>9, <2>1 DEF ToolsDone
  <2> QED BY <1>9, <2>1, <2>2, <2>3 DEF ToolsDone
<1>10. CASE Finalize
  BY <1>10 DEF Finalize
<1>11. CASE Land
  BY <1>11 DEF Land
<1>12. CASE Respond
  <2>1. cur \in Jobs
    BY <1>12 DEF Respond
  <2>2. rspQ' \in Seq(Jobs) /\ Len(rspQ') <= RspDepth
    <3>1. CASE Len(rspQ) < RspDepth /\ rspQ' = Append(rspQ, cur)
      BY <3>1, <2>1
    <3>2. CASE rspQ' = rspQ
      BY <3>2
    <3> QED BY <1>12, <3>1, <3>2 DEF Respond, DeliverSync
  <2>3. answered' \subseteq Jobs /\ lost' \subseteq Jobs
    BY <1>12, <2>1 DEF Respond, DeliverSync
  <2>4. epc' = "idle" /\ cur' = None /\ iter' = 0 /\ toolsRan' = FALSE /\ late' = 0
    BY <1>12 DEF Respond
  <2>5. UNCHANGED <<reqQ, flight, abort, pend, recvLock, got, caller, outcome, saved, targeted>>
    BY <1>12 DEF Respond
  <2>6. iter' \in Nat /\ iter' < MaxIter /\ late' \in Nat
    BY <2>4
  <2> QED BY <2>2, <2>3, <2>4, <2>5, <2>6
<1>13. ASSUME NEW j \in Sync, LockReceive(j) PROVE TypeOK'
  <2>1. ASSUME NEW i \in DOMAIN pend, PopPending(i), HandOver(j, pend[i])
        PROVE  /\ pend' \in Seq(Jobs) /\ got' \in [Sync -> Jobs \cup {None}]
               /\ answered' \subseteq Jobs /\ recvLock' \in Sync \cup {None}
               /\ caller' \in [Jobs -> CallerPCs]
    <3>1. RemoveAt(pend, i) \in Seq(Jobs) /\ pend[i] \in Jobs
      BY RemoveAtElements
    <3>2. j \in Jobs
      OBVIOUS
    <3> QED BY <3>1, <3>2, <2>1 DEF PopPending, HandOver
  <2>2. CASE recvLock' = j /\ caller' = [caller EXCEPT ![j] = "wait"] /\ UNCHANGED <<pend, got, answered>>
    BY <1>13, <2>2 DEF LockReceive
  <2>3. UNCHANGED <<reqQ, engineVars, rspQ, outcome, saved, lost, targeted, late>>
    BY <1>13 DEF LockReceive
  <2>4. CASE \E i \in DOMAIN pend : PopPending(i) /\ HandOver(j, pend[i])
    BY <2>1, <2>3, <2>4
  <2> QED BY <1>13, <2>2, <2>4 DEF LockReceive
<1>14. ASSUME NEW j \in Sync, TakeResponse(j) PROVE TypeOK'
  <2>1. /\ rspQ' \in Seq(Jobs) /\ Len(rspQ') <= RspDepth
        /\ Head(rspQ) \in Jobs
    BY <1>14, TailRange DEF TakeResponse
  <2>2. pend' \in Seq(Jobs)
    <3>1. CASE pend' = Append(pend, Head(rspQ)) BY <3>1, <2>1
    <3>2. CASE pend' = pend BY <3>2
    <3> QED BY <1>14, <3>1, <3>2 DEF TakeResponse
  <2>3. UNCHANGED <<reqQ, engineVars, outcome, saved, targeted, late>>
    BY <1>14 DEF TakeResponse
  <2>4. CASE HandOver(j, Head(rspQ)) /\ UNCHANGED lost
    BY <2>1, <2>2, <2>3, <2>4 DEF HandOver
  <2>5. CASE /\ lost' = lost \/ lost' = lost \cup {Head(rspQ)}
             /\ caller' = [caller EXCEPT ![j] = "again"]
             /\ UNCHANGED <<got, answered, recvLock>>
    BY <2>1, <2>2, <2>3, <2>5
  <2> QED BY <1>14, <2>4, <2>5 DEF TakeResponse
<1>15. ASSUME NEW j \in Sync, ReceiveTimeout(j) PROVE TypeOK'
  BY <1>15 DEF ReceiveTimeout
<1>16. CASE UNCHANGED vars
  BY <1>16 DEF vars
<1> QED
  BY <1>1, <1>2, <1>3, <1>4, <1>5, <1>6, <1>7, <1>8, <1>9, <1>10, <1>11, <1>12, <1>13, <1>14,
     <1>15, <1>16 DEF Next, EngineStep, ReceiveStep, Quiet

(* Every variable keeps the range the code gives it: in particular neither *)
(* queue outgrows its depth and the round counter its limit.               *)
THEOREM TypeCorrect == Spec => []TypeOK
BY InitType, NextType, PTL DEF Spec

(***************************************************************************)
(* Cancellation.  AbortOnlyTargeted is inductive together with the fact    *)
(* that the flight fields describe the job between TakeOff and Land and    *)
(* are clear otherwise.                                                    *)
(***************************************************************************)
FlightInv ==
  flight = IF Airborne THEN [id |-> ReqId[cur], session |-> Stored(SessionOf[cur])] ELSE NoFlight

AbortInv == TypeOK /\ FlightInv /\ AbortOnlyTargeted

LEMMA InitAbort == Init => AbortInv
<1> SUFFICES ASSUME Init PROVE AbortInv
  OBVIOUS
<1>1. TypeOK
  BY InitType
<1>2. FlightInv /\ AbortOnlyTargeted
  BY DEF Init, FlightInv, Airborne, AbortOnlyTargeted
<1> QED BY <1>1, <1>2 DEF AbortInv

(* What arms the abort also marks the job in flight as targeted.           *)
LEMMA CancelMarks ==
  ASSUME AbortInv, UNCHANGED <<epc, cur, outcome>>,
         \/ \E s \in Sessions : CancelSession(s)
         \/ \E id \in CancelIds : ArmAbort(id \in {0, flight.id}) /\ Target(id \in {0, ReqId[cur]})
  PROVE  AbortOnlyTargeted'
<1> USE DEF AbortInv, Airborne
<1>1. targeted \subseteq targeted'
  BY DEF CancelSession, Target
<1>2. CASE abort
  BY <1>1, <1>2 DEF AbortOnlyTargeted
<1>3. CASE ~abort
  <2>1. ASSUME NEW s \in Sessions, CancelSession(s), abort' PROVE Airborne /\ cur \in targeted'
    <3>1. flight.id # 0 /\ flight.session = s
      BY <1>3, <2>1 DEF CancelSession, ArmAbort
    <3>2. Airborne /\ flight.session = Stored(SessionOf[cur])
      BY <3>1 DEF FlightInv, NoFlight
    <3>3. SessionOf[cur] = s
      BY <3>1, <3>2 DEF Stored
    <3> QED BY <2>1, <3>2, <3>3 DEF CancelSession, Target
  <2>2. ASSUME NEW id \in CancelIds, ArmAbort(id \in {0, flight.id}),
               Target(id \in {0, ReqId[cur]}), abort'
        PROVE  Airborne /\ cur \in targeted'
    <3>1. flight.id # 0 /\ id \in {0, flight.id}
      BY <1>3, <2>2 DEF ArmAbort
    <3>2. Airborne /\ flight.id = ReqId[cur]
      BY <3>1 DEF FlightInv, NoFlight
    <3> QED BY <2>2, <3>1, <3>2 DEF Target
  <2> QED BY <1>1, <2>1, <2>2 DEF AbortOnlyTargeted
<1> QED BY <1>2, <1>3

LEMMA NextAbort == AbortInv /\ [Next]_vars => AbortInv'
<1> SUFFICES ASSUME AbortInv, [Next]_vars PROVE AbortInv'
  OBVIOUS
<1> USE DEF AbortInv
<1>0. TypeOK'
  BY NextType
<1>a. SUFFICES FlightInv' /\ AbortOnlyTargeted'
  BY <1>0
<1>1. ASSUME NEW j \in Jobs, Preempt(j) PROVE FlightInv' /\ AbortOnlyTargeted'
  <2>1. FlightInv'
    BY <1>1 DEF Preempt, FlightInv, Airborne
  <2>2. CancelSession(SessionOf[j]) /\ SessionOf[j] \in Sessions /\ UNCHANGED <<epc, cur, outcome>>
    BY <1>1 DEF Preempt
  <2> QED BY <2>1, <2>2, CancelMarks
<1>2. ASSUME NEW id \in CancelIds, CancelRequest(id) PROVE FlightInv' /\ AbortOnlyTargeted'
  <2>1. FlightInv'
    BY <1>2 DEF CancelRequest, FlightInv, Airborne
  <2>2. /\ ArmAbort(id \in {0, flight.id}) /\ Target(id \in {0, ReqId[cur]})
        /\ UNCHANGED <<epc, cur, outcome>>
    BY <1>2 DEF CancelRequest
  <2> QED BY <2>1, <2>2, CancelMarks
<1>3. CASE EngineReceive
  BY <1>3 DEF EngineReceive, FlightInv, AbortOnlyTargeted, Airborne, historyVars
<1>4. CASE TakeOff
  BY <1>4 DEF TakeOff, FlightInv, AbortOnlyTargeted, Airborne, historyVars
<1>5. CASE CheckAbort
  <2>1. FlightInv'
    BY <1>5 DEF CheckAbort, Ends, FlightInv, Airborne
  <2>2. \A j \in Jobs : outcome'[j] = "cancelled" => outcome[j] = "cancelled" \/ (abort /\ j = cur)
    BY <1>5 DEF CheckAbort, Ends, TypeOK, Busy
  <2>3. UNCHANGED <<abort, cur, targeted>> /\ Airborne'
    BY <1>5 DEF CheckAbort, Ends, Airborne, historyVars
  <2> QED BY <2>1, <2>2, <2>3 DEF AbortOnlyTargeted
<1>6. CASE LlmReturns \/ ToolsFail \/ ToolsDone
  <2>1. /\ UNCHANGED <<abort, cur, targeted, flight>> /\ Airborne /\ Airborne'
    BY <1>6 DEF LlmReturns, ToolsFail, ToolsDone, Ends, Airborne, historyVars
  <2>2. \A j \in Jobs : outcome'[j] = "cancelled" => outcome[j] = "cancelled"
    BY <1>6 DEF LlmReturns, ToolsFail, ToolsDone, Ends, TypeOK, Busy
  <2> QED BY <2>1, <2>2 DEF AbortOnlyTargeted, FlightInv
<1>7. CASE Finalize
  BY <1>7 DEF Finalize, FlightInv, AbortOnlyTargeted, Airborne, historyVars
<1>8. CASE Land
  BY <1>8 DEF Land, FlightInv, AbortOnlyTargeted, Airborne, historyVars
<1>9. CASE Respond
  BY <1>9 DEF Respond, FlightInv, AbortOnlyTargeted, Airborne
<1>10. ASSUME UNCHANGED <<engineVars, outcome, targeted>> PROVE FlightInv' /\ AbortOnlyTargeted'
  BY <1>10 DEF engineVars, FlightInv, AbortOnlyTargeted, Airborne
<1>11. ASSUME NEW j \in Jobs, Submit(j) PROVE FlightInv' /\ AbortOnlyTargeted'
  BY <1>10, <1>11 DEF Submit, historyVars
<1>12. ASSUME NEW j \in Sync, ReceiveStep(j) PROVE FlightInv' /\ AbortOnlyTargeted'
  BY <1>10, <1>12 DEF ReceiveStep, LockReceive, TakeResponse, ReceiveTimeout, historyVars
<1>13. CASE UNCHANGED vars
  BY <1>10, <1>13 DEF vars, historyVars
<1> QED
  BY <1>1, <1>2, <1>3, <1>4, <1>5, <1>6, <1>7, <1>8, <1>9, <1>11, <1>12, <1>13
  DEF Next, EngineStep, Quiet

(* A request ends as cancelled only if somebody cancelled its session or   *)
(* its id while it was in flight: abort_flag never outlives the request it *)
(* was armed for, whatever the interleaving with the worker.               *)
THEOREM AbortIsTargeted == Spec => []AbortOnlyTargeted
<1>1. AbortInv => AbortOnlyTargeted
  BY DEF AbortInv
<1> QED BY InitAbort, NextAbort, <1>1, PTL DEF Spec

(***************************************************************************)
(* Responses.  A job is accepted before it is queued, queued at most once, *)
(* has no outcome until the worker ends it, and only responses of Sync     *)
(* jobs travel through the response queue and the pending list.            *)
(***************************************************************************)
PipelineInv ==
  /\ IsInjective(reqQ) /\ cur \notin Range(reqQ)
  /\ \A j \in Range(reqQ) : Accepted(j) /\ outcome[j] = "none"
  /\ \A j \in Jobs : ~Accepted(j) => outcome[j] = "none" /\ j # cur
  /\ Busy => (outcome[cur] = "none" <=> epc \in {"taken", "check", "llm", "tools"})

ResponseInv ==
  /\ TypeOK /\ PipelineInv /\ ResponseOnce /\ OwnAnswer
  /\ Range(rspQ) \cup Range(pend) \subseteq Sync

LEMMA InitResponse == Init => ResponseInv
<1> SUFFICES ASSUME Init PROVE ResponseInv
  OBVIOUS
<1>1. TypeOK
  BY InitType
<1>2. reqQ = <<>> /\ rspQ = <<>> /\ pend = <<>> /\ answered = {} /\ lost = {}
  BY DEF Init
<1>3. /\ Range(reqQ) = {} /\ Range(rspQ) = {} /\ Range(pend) = {}
      /\ IsInjective(reqQ) /\ IsInjective(rspQ) /\ IsInjective(pend)
  BY <1>2 DEF Range, IsInjective
<1>4. PipelineInv
  BY <1>3 DEF Init, PipelineInv, Accepted, Busy
<1>5. ResponseOnce /\ OwnAnswer
  BY <1>2, <1>3 DEF Init, ResponseOnce, Served, OwnAnswer
<1> QED BY <1>1, <1>3, <1>4, <1>5 DEF ResponseInv

(* A step that keeps the worker's job, the outcomes and the responses.     *)
LEMMA ResponsesUntouched ==
  ASSUME ResponseInv, UNCHANGED <<cur, outcome, rspQ, pend, got, answered, lost>>
  PROVE  /\ ResponseOnce' /\ OwnAnswer'
         /\ (Range(rspQ) \cup Range(pend) \subseteq Sync)'
BY DEF ResponseInv, ResponseOnce, OwnAnswer, Served, Range, IsInjective

(* A step of the worker on the job it holds: the job has no response yet,  *)
(* so nothing about responses changes.                                     *)
LEMMA WorkerStep ==
  ASSUME ResponseInv, Busy, Busy',
         UNCHANGED <<reqQ, cur, caller, rspQ, pend, got, answered, lost>>,
         \A j \in Jobs : j # cur => outcome'[j] = outcome[j],
         (outcome[cur] = "none" <=> epc \in {"taken", "check", "llm", "tools"})'
  PROVE  /\ PipelineInv' /\ ResponseOnce' /\ OwnAnswer'
         /\ (Range(rspQ) \cup Range(pend) \subseteq Sync)'
<1> USE DEF ResponseInv
<1>1. Range(reqQ) \subseteq Jobs /\ UNCHANGED <<Range(reqQ), Range(rspQ), Range(pend)>>
  BY RangeType DEF TypeOK, Range
<1>2. PipelineInv'
  BY <1>1 DEF PipelineInv, Accepted, IsInjective, Busy
<1>3. \A j \in Jobs : Served(j)' <=> Served(j)
  BY DEF Served
<1>4. ResponseOnce' /\ OwnAnswer'
  BY <1>1, <1>3 DEF ResponseOnce, OwnAnswer, IsInjective
<1> QED BY <1>1, <1>2, <1>4

LEMMA NextResponse == ResponseInv /\ [Next]_vars => ResponseInv'
<1> SUFFICES ASSUME ResponseInv, [Next]_vars PROVE ResponseInv'
  OBVIOUS
<1> DEFINE Goal == /\ PipelineInv' /\ ResponseOnce' /\ OwnAnswer'
                   /\ (Range(rspQ) \cup Range(pend) \subseteq Sync)'
<1> USE DEF ResponseInv
<1>0. TypeOK'
  BY NextType
<1>a. SUFFICES Goal
  BY <1>0
<1>b. /\ reqQ \in Seq(Jobs) /\ rspQ \in Seq(Jobs) /\ pend \in Seq(Jobs)
      /\ Range(reqQ) \subseteq Jobs
  BY RangeType DEF TypeOK
<1>1. ASSUME NEW j \in Jobs, Preempt(j) PROVE Goal
  <2>1. UNCHANGED <<reqQ, epc, cur, outcome, rspQ, pend, got, answered, lost>>
    BY <1>1 DEF Preempt, receiveVars
  <2>2. \A k \in Jobs : Accepted(k)' <=> Accepted(k)
    BY <1>1 DEF Preempt, Accepted, TypeOK
  <2>3. PipelineInv'
    BY <1>b, <2>1, <2>2 DEF PipelineInv, Busy, Range, IsInjective
  <2> QED BY <2>1, <2>3, ResponsesUntouched
<1>2. ASSUME NEW j \in Jobs, Submit(j) PROVE Goal
  <2>1. UNCHANGED <<epc, cur, outcome, rspQ, pend, got, answered, lost>>
    BY <1>2 DEF Submit, engineVars, receiveVars, historyVars
  <2>2. ~Accepted(j) /\ j \notin Range(reqQ) /\ j # cur /\ outcome[j] = "none"
    BY <1>2 DEF Submit, Accepted, PipelineInv
  <2>3. CASE reqQ' = Append(reqQ, j) /\ caller' = [caller EXCEPT ![j] = IF j \in Sync THEN "lock" ELSE "sent"]
    <3>1. Range(reqQ') = Range(reqQ) \cup {j} /\ IsInjective(reqQ')
      BY <1>b, <2>2, <2>3, AppendRange DEF PipelineInv
    <3>2. Accepted(j)' /\ \A k \in Jobs : k # j => (Accepted(k)' <=> Accepted(k))
      BY <2>3 DEF Accepted, TypeOK
    <3>3. PipelineInv'
      BY <1>b, <2>1, <2>2, <3>1, <3>2 DEF PipelineInv, Busy
    <3> QED BY <2>1, <3>3, ResponsesUntouched
  <2>4. CASE reqQ' = reqQ /\ caller' = [caller EXCEPT ![j] = "rejected"]
    <3>1. \A k \in Jobs : Accepted(k)' <=> Accepted(k)
      BY <2>2, <2>4 DEF Accepted, TypeOK
    <3>2. PipelineInv'
      BY <1>b, <2>1, <2>4, <3>1 DEF PipelineInv, Busy, Range, IsInjective
    <3> QED BY <2>1, <3>2, ResponsesUntouched
  <2> QED BY <1>2, <2>3, <2>4 DEF Submit
<1>3. ASSUME NEW id \in CancelIds, CancelRequest(id) PROVE Goal
  <2>1. UNCHANGED <<reqQ, epc, cur, outcome, caller, rspQ, pend, got, answered, lost>>
    BY <1>3 DEF CancelRequest, receiveVars
  <2>2. PipelineInv'
    BY <2>1 DEF PipelineInv, Busy, Accepted, Range, IsInjective
  <2> QED BY <2>1, <2>2, ResponsesUntouched
<1>4. CASE EngineReceive
  <2>1. /\ cur = None /\ cur' = Head(reqQ) /\ reqQ' = Tail(reqQ) /\ epc' = "taken"
        /\ UNCHANGED <<outcome, caller, rspQ, pend, got, answered, lost>>
    BY <1>4 DEF EngineReceive, receiveVars, historyVars, TypeOK, Busy
  <2>2. /\ Head(reqQ) \in Range(reqQ) /\ Range(reqQ) = Range(reqQ') \cup {cur'}
        /\ IsInjective(reqQ') /\ cur' \notin Range(reqQ')
    BY <1>b, <1>4, <2>1, TailRange DEF EngineReceive, PipelineInv
  <2>3. PipelineInv'
    BY <1>b, <2>1, <2>2 DEF PipelineInv, Accepted, Busy
  <2>4. \A j \in Jobs : Served(j)' <=> Served(j)
    BY <1>b, <2>1, <2>2 DEF Served, PipelineInv
  <2>5. ResponseOnce' /\ OwnAnswer'
    BY <2>1, <2>4 DEF ResponseOnce, OwnAnswer, Range, IsInjective
  <2> QED BY <2>1, <2>3, <2>5 DEF Range
<1>5. CASE TakeOff \/ CheckAbort \/ LlmReturns \/ ToolsFail \/ ToolsDone \/ Finalize \/ Land
  <2>1. /\ Busy /\ Busy'
        /\ UNCHANGED <<reqQ, cur, caller, rspQ, pend, got, answered, lost>>
    BY <1>5 DEF TakeOff, CheckAbort, LlmReturns, ToolsFail, ToolsDone, Finalize, Land, Ends,
                Busy, receiveVars, historyVars
  <2>2. \A j \in Jobs : j # cur => outcome'[j] = outcome[j]
    BY <1>5 DEF TakeOff, CheckAbort, LlmReturns, ToolsFail, ToolsDone, Finalize, Land, Ends, TypeOK
  <2>3. (outcome[cur] = "none" <=> epc \in {"taken", "check", "llm", "tools"})'
    BY <1>5, <2>1 DEF TakeOff, CheckAbort, LlmReturns, ToolsFail, ToolsDone, Finalize, Land, Ends,
                TypeOK, PipelineInv
  <2> QED BY <2>1, <2>2, <2>3, WorkerStep
<1>6. CASE Respond
  <2>0. PICK c \in Jobs : c = cur
    BY <1>6 DEF Respond, TypeOK, Busy
  <2>1. /\ outcome[c] # "none" /\ cur' = None /\ epc' = "idle"
        /\ UNCHANGED <<reqQ, pend, got, caller, outcome>>
    BY <1>6, <2>0 DEF Respond, PipelineInv, TypeOK, Busy
  <2>2. PipelineInv'
    BY <1>b, <2>1 DEF PipelineInv, Accepted, Busy, Range, IsInjective
  <2>3. /\ ~Served(c) /\ Served(c)'
        /\ \A j \in Jobs : j # c => (Served(j)' <=> Served(j))
    BY <2>0, <2>1 DEF Served
  <2>4. c \notin Range(rspQ) \cup Range(pend) \cup answered \cup lost
    BY <2>1, <2>3 DEF ResponseOnce
  <2>5. Range(pend') = Range(pend) /\ IsInjective(pend') /\ OwnAnswer'
    BY <2>1 DEF OwnAnswer, ResponseOnce
  <2>6. CASE c \in Sync /\ rspQ' = Append(rspQ, c) /\ UNCHANGED <<answered, lost>>
    <3>1. Range(rspQ') = Range(rspQ) \cup {c} /\ IsInjective(rspQ')
      BY <1>b, <2>1, <2>4, <2>6, AppendRange DEF ResponseOnce
    <3>2. ResponseOnce'
      BY <2>3, <2>4, <2>5, <2>6, <3>1 DEF ResponseOnce
    <3> QED BY <2>2, <2>5, <2>6, <3>1, <3>2
  <2>7. CASE /\ rspQ' = rspQ
             /\ \/ answered' = answered \cup {c} /\ lost' = lost
                \/ lost' = lost \cup {c} /\ answered' = answered
    <3>0. rspQ' = rspQ
      BY <2>7
    <3>1. Range(rspQ') = Range(rspQ) /\ IsInjective(rspQ')
      BY <3>0 DEF ResponseOnce
    <3>2. ResponseOnce'
      BY <2>3, <2>4, <2>5, <2>7, <3>1 DEF ResponseOnce
    <3> QED BY <2>2, <2>5, <3>1, <3>2
  <2>8. CASE c \in Sync
    <3>1. DeliverSync(c) /\ UNCHANGED answered
      BY <1>6, <2>0, <2>8 DEF Respond
    <3>2. CASE Len(rspQ) < RspDepth BY <2>6, <2>8, <3>1, <3>2 DEF DeliverSync
    <3>3. CASE ~(Len(rspQ) < RspDepth) BY <2>7, <3>1, <3>3 DEF DeliverSync
    <3> QED BY <3>2, <3>3
  <2>9. CASE c \notin Sync
    <3>1. answered' = answered \cup {c} /\ UNCHANGED <<rspQ, lost>>
      BY <1>6, <2>0, <2>9 DEF Respond
    <3> QED BY <2>7, <3>1
  <2> QED BY <2>8, <2>9
<1>7. ASSUME NEW j \in Sync, NEW r \in Jobs, HandOver(j, r), Matches(j, r), Accepted(j),
             UNCHANGED <<reqQ, epc, cur, outcome, lost>>,
             r \in Range(rspQ) \cup Range(pend),
             IsInjective(rspQ'), IsInjective(pend'),
             Range(rspQ') \subseteq Range(rspQ), Range(pend') \subseteq Range(pend),
             Range(rspQ') \cup Range(pend') = (Range(rspQ) \cup Range(pend)) \ {r}
      PROVE  Goal
  <2>1. r = j
    BY <1>7, SyncIdsDiffer DEF Matches
  <2>2. OwnAnswer'
    BY <1>7, <2>1 DEF OwnAnswer, HandOver, TypeOK
  <2>3. \A k \in Jobs : Accepted(k)' <=> Accepted(k)
    BY <1>7 DEF HandOver, Accepted, TypeOK
  <2>4. PipelineInv'
    BY <1>7, <1>b, <2>3 DEF PipelineInv, Busy, Range, IsInjective
  <2>5. \A k \in Jobs : Served(k)' <=> Served(k)
    BY <1>7 DEF Served
  <2>6. answered' = answered \cup {r}
    BY <1>7 DEF HandOver
  <2>7. ResponseOnce'
    BY <1>7, <2>5, <2>6 DEF ResponseOnce
  <2> QED BY <1>7, <2>2, <2>4, <2>7
<1>8. ASSUME NEW j \in Sync, LockReceive(j) PROVE Goal
  <2>1. UNCHANGED <<reqQ, epc, cur, outcome, rspQ, lost>> /\ Accepted(j)
    BY <1>8 DEF LockReceive, engineVars, Accepted
  <2>2. ASSUME NEW i \in DOMAIN pend, Matches(j, pend[i]), PopPending(i), HandOver(j, pend[i])
        PROVE  Goal
    <3>1. /\ Range(pend') = Range(pend) \ {pend[i]} /\ IsInjective(pend')
          /\ pend[i] \in Range(pend) /\ pend[i] \in Jobs
      BY <1>b, <2>2, RemoveAtRange, RangeType DEF PopPending, ResponseOnce
    <3>2. Range(rspQ') = Range(rspQ) /\ IsInjective(rspQ')
      BY <2>1 DEF ResponseOnce
    <3>3. Range(rspQ) \cap Range(pend) = {}
      BY DEF ResponseOnce
    <3> QED BY <1>7, <2>1, <2>2, <3>1, <3>2, <3>3
  <2>3. CASE caller' = [caller EXCEPT ![j] = "wait"] /\ UNCHANGED <<pend, got, answered>>
    <3>1. \A k \in Jobs : Accepted(k)' <=> Accepted(k)
      BY <2>1, <2>3 DEF Accepted, TypeOK
    <3>2. PipelineInv'
      BY <1>b, <2>1, <3>1 DEF PipelineInv, Busy, Range, IsInjective
    <3> QED BY <2>1, <2>3, <3>2, ResponsesUntouched
  <2> QED BY <1>8, <2>2, <2>3 DEF LockReceive
<1>9. ASSUME NEW j \in Sync, TakeResponse(j) PROVE Goal
  <2> DEFINE r == Head(rspQ)
  <2>1. UNCHANGED <<reqQ, epc, cur, outcome>> /\ Accepted(j) /\ rspQ' = Tail(rspQ)
    BY <1>9 DEF TakeResponse, engineVars, Accepted
  <2>2. /\ r \in Range(rspQ) /\ r \in Jobs /\ IsInjective(rspQ')
        /\ Range(rspQ) = Range(rspQ') \cup {r} /\ r \notin Range(rspQ')
    BY <1>b, <1>9, TailRange DEF TakeResponse, ResponseOnce
  <2>3. CASE Matches(j, r) /\ HandOver(j, r) /\ UNCHANGED <<pend, lost>>
    <3>1. Range(pend') = Range(pend) /\ IsInjective(pend') /\ Range(rspQ) \cap Range(pend) = {}
      BY <2>3 DEF ResponseOnce
    <3> QED BY <1>7, <2>1, <2>2, <2>3, <3>1
  <2>4. CASE /\ caller' = [caller EXCEPT ![j] = "again"]
             /\ UNCHANGED <<got, answered>>
             /\ \/ pend' = Append(pend, r) /\ UNCHANGED lost
                \/ lost' = lost \cup {r} /\ UNCHANGED pend
    <3>1. \A k \in Jobs : Accepted(k)' <=> Accepted(k)
      BY <2>1, <2>4 DEF Accepted, TypeOK
    <3>2. PipelineInv'
      BY <1>b, <2>1, <3>1 DEF PipelineInv, Busy, Range, IsInjective
    <3>3. \A k \in Jobs : Served(k)' <=> Served(k)
      BY <2>1 DEF Served
    <3>4. r \notin Range(pend) /\ r \notin answered \cup lost
      BY <2>2 DEF ResponseOnce
    <3>5. CASE pend' = Append(pend, r) /\ UNCHANGED lost
      <4>1. Range(pend') = Range(pend) \cup {r} /\ IsInjective(pend')
        BY <1>b, <2>2, <3>4, <3>5, AppendRange DEF ResponseOnce
      <4>2. ResponseOnce'
        BY <2>2, <2>4, <3>3, <3>4, <3>5, <4>1 DEF ResponseOnce
      <4> QED BY <2>2, <2>4, <3>2, <4>1, <4>2 DEF OwnAnswer
    <3>6. CASE lost' = lost \cup {r} /\ UNCHANGED pend
      <4>1. Range(pend') = Range(pend) /\ (IsInjective(pend') <=> IsInjective(pend))
        BY <3>6
      <4>2. ResponseOnce'
        BY <2>2, <2>4, <3>3, <3>4, <3>6, <4>1 DEF ResponseOnce
      <4> QED BY <2>2, <2>4, <3>2, <4>1, <4>2 DEF OwnAnswer
    <3> QED BY <2>4, <3>5, <3>6
  <2> QED BY <1>9, <2>3, <2>4 DEF TakeResponse
<1>10. ASSUME NEW j \in Sync, ReceiveTimeout(j) PROVE Goal
  <2>1. UNCHANGED <<reqQ, epc, cur, outcome, rspQ, pend, got, answered, lost>>
    BY <1>10 DEF ReceiveTimeout, engineVars, historyVars
  <2>2. \A k \in Jobs : Accepted(k)' <=> Accepted(k)
    BY <1>10 DEF ReceiveTimeout, TimeoutDue, Accepted, TypeOK
  <2>3. PipelineInv'
    BY <1>b, <2>1, <2>2 DEF PipelineInv, Busy, Range, IsInjective
  <2> QED BY <2>1, <2>3, ResponsesUntouched
<1>11. CASE UNCHANGED vars
  <2>1. UNCHANGED <<reqQ, epc, cur, outcome, caller, rspQ, pend, got, answered, lost>>
    BY <1>11 DEF vars, engineVars, receiveVars, historyVars
  <2>2. PipelineInv'
    BY <2>1 DEF PipelineInv, Busy, Accepted, Range, IsInjective
  <2> QED BY <2>1, <2>2, ResponsesUntouched
<1> QED
  BY <1>1, <1>2, <1>3, <1>4, <1>5, <1>6, <1>8, <1>9, <1>10, <1>11
  DEF Next, EngineStep, ReceiveStep, Quiet

(* A response the engine produced is in exactly one place until it is      *)
(* handed over or dropped, for any queue depths, timeouts and allocation   *)
(* failures.                                                               *)
THEOREM ResponsesConserved == Spec => []ResponseOnce
<1>1. ResponseInv => ResponseOnce
  BY DEF ResponseInv
<1> QED BY InitResponse, NextResponse, <1>1, PTL DEF Spec

(* receive_for only ever returns the caller's own response, given that the *)
(* ids of synchronous requests differ (SyncIdsDiffer).                     *)
THEOREM AnswersAreOwn == Spec => []OwnAnswer
<1>1. ResponseInv => OwnAnswer
  BY DEF ResponseInv
<1> QED BY InitResponse, NextResponse, <1>1, PTL DEF Spec

(***************************************************************************)
(* A cancellation is not lost.  Only a job that was in flight is targeted, *)
(* so none is when it takes off and the flag is cleared; and an armed flag *)
(* stays armed until the job lands.                                        *)
(***************************************************************************)
TargetedInv == \A j \in targeted : outcome[j] # "none" \/ (j = cur /\ Airborne)

ReachInv == TargetedInv /\ CancelReachesFlight

LEMMA InitReach == Init => ReachInv
BY DEF Init, ReachInv, TargetedInv, CancelReachesFlight

(* Whoever is marked as targeted has the abort armed by the same step.     *)
LEMMA MarkedIsArmed ==
  ASSUME AbortInv, ReachInv, UNCHANGED <<epc, cur, outcome>>,
         \/ \E s \in Sessions : CancelSession(s)
         \/ \E id \in CancelIds : ArmAbort(id \in {0, flight.id}) /\ Target(id \in {0, ReqId[cur]})
  PROVE  ReachInv'
<1> USE DEF AbortInv
<1>1. targeted' \subseteq targeted \cup {cur} /\ (targeted' # targeted => Airborne)
  BY DEF CancelSession, Target
<1>2. TargetedInv'
  BY <1>1 DEF ReachInv, TargetedInv, Airborne
<1>3. ASSUME Airborne, cur \in targeted', SessionOf[cur] \notin LongSessions PROVE abort'
  <2>1. cur \in Jobs /\ flight.id = ReqId[cur] /\ flight.session = SessionOf[cur]
    BY <1>3 DEF FlightInv, Stored, TypeOK, Busy, Airborne
  <2>2. flight.id # 0
    BY <2>1
  <2>3. CASE cur \in targeted
    BY <1>3, <2>3 DEF ReachInv, CancelReachesFlight, CancelSession, ArmAbort
  <2>4. CASE cur \notin targeted
    BY <1>3, <2>1, <2>2, <2>4 DEF CancelSession, ArmAbort, Target
  <2> QED BY <2>3, <2>4
<1> QED BY <1>2, <1>3 DEF ReachInv, CancelReachesFlight, Airborne

LEMMA NextReach == AbortInv /\ PipelineInv /\ ReachInv /\ [Next]_vars => ReachInv'
<1> SUFFICES ASSUME AbortInv, PipelineInv, ReachInv, [Next]_vars PROVE ReachInv'
  OBVIOUS
<1>a. TypeOK
  BY DEF AbortInv
<1>1. ASSUME NEW j \in Jobs, Preempt(j) PROVE ReachInv'
  <2>1. CancelSession(SessionOf[j]) /\ SessionOf[j] \in Sessions /\ UNCHANGED <<epc, cur, outcome>>
    BY <1>1 DEF Preempt
  <2> QED BY <2>1, MarkedIsArmed
<1>2. ASSUME NEW id \in CancelIds, CancelRequest(id) PROVE ReachInv'
  <2>1. /\ ArmAbort(id \in {0, flight.id}) /\ Target(id \in {0, ReqId[cur]})
        /\ UNCHANGED <<epc, cur, outcome>>
    BY <1>2 DEF CancelRequest
  <2> QED BY <2>1, MarkedIsArmed
<1>3. CASE EngineReceive
  <2>1. /\ UNCHANGED <<targeted, outcome>> /\ ~Airborne /\ ~Airborne'
    BY <1>3 DEF EngineReceive, Airborne, historyVars
  <2> QED BY <2>1 DEF ReachInv, TargetedInv, CancelReachesFlight
<1>4. CASE TakeOff
  <2>1. cur \notin targeted
    BY <1>4, <1>a DEF TakeOff, PipelineInv, ReachInv, TargetedInv, Airborne, Busy
  <2> QED BY <1>4, <2>1 DEF TakeOff, ReachInv, TargetedInv, CancelReachesFlight, Airborne, historyVars
<1>5. CASE CheckAbort \/ LlmReturns \/ ToolsFail \/ ToolsDone \/ Finalize
  <2>1. UNCHANGED <<abort, cur, targeted>> /\ Airborne /\ Airborne'
    BY <1>5 DEF CheckAbort, LlmReturns, ToolsFail, ToolsDone, Finalize, Ends, Airborne, historyVars
  <2>2. \A j \in Jobs : outcome[j] # "none" => outcome'[j] # "none"
    BY <1>5, <1>a DEF CheckAbort, LlmReturns, ToolsFail, ToolsDone, Finalize, Ends, TypeOK
  <2> QED BY <1>a, <2>1, <2>2 DEF ReachInv, TargetedInv, CancelReachesFlight, TypeOK
<1>6. CASE Land
  <2>1. UNCHANGED <<cur, targeted, outcome>> /\ ~Airborne' /\ outcome[cur] # "none"
    BY <1>6 DEF Land, Airborne, historyVars, PipelineInv, Busy
  <2> QED BY <2>1 DEF ReachInv, TargetedInv, CancelReachesFlight
<1>7. CASE Respond
  <2>1. UNCHANGED <<targeted, outcome>> /\ ~Airborne /\ ~Airborne'
    BY <1>7 DEF Respond, Airborne
  <2> QED BY <2>1 DEF ReachInv, TargetedInv, CancelReachesFlight
<1>8. ASSUME UNCHANGED <<epc, cur, abort, outcome, targeted>> PROVE ReachInv'
  BY <1>8 DEF ReachInv, TargetedInv, CancelReachesFlight, Airborne
<1>9. ASSUME NEW j \in Jobs, Submit(j) PROVE ReachInv'
  BY <1>8, <1>9 DEF Submit, engineVars, historyVars
<1>10. ASSUME NEW j \in Sync, ReceiveStep(j) PROVE ReachInv'
  BY <1>8, <1>10 DEF ReceiveStep, LockReceive, TakeResponse, ReceiveTimeout, engineVars, historyVars
<1>11. CASE UNCHANGED vars
  BY <1>8, <1>11 DEF vars, engineVars, historyVars
<1> QED
  BY <1>1, <1>2, <1>3, <1>4, <1>5, <1>6, <1>7, <1>9, <1>10, <1>11
  DEF Next, EngineStep, Quiet

(* Whoever cancels the request in flight by its session or its id finds    *)
(* its abort armed until it lands, wherever the worker is and whatever     *)
(* other cancellations meet it (claw_agent_cancel_for_session).            *)
THEOREM CancelIsNotLost == Spec => []CancelReachesFlight
<1>1. Init => AbortInv /\ ResponseInv /\ ReachInv
  BY InitAbort, InitResponse, InitReach
<1>2. (AbortInv /\ ResponseInv /\ ReachInv) /\ [Next]_vars => (AbortInv /\ ResponseInv /\ ReachInv)'
  BY NextAbort, NextResponse, NextReach DEF ResponseInv
<1>3. ReachInv => CancelReachesFlight
  BY DEF ReachInv
<1> QED BY <1>1, <1>2, <1>3, PTL DEF Spec

(***************************************************************************)
(* The tool loop.  A round counted as late leaves the abort armed, so the  *)
(* next check of the flag ends the request before another LLM call.        *)
(***************************************************************************)
LateInv ==
  /\ late <= 1
  /\ late = 1 => abort \/ epc = "respond"
  /\ epc \in {"idle", "taken", "llm"} => late = 0

LEMMA NextLate == AbortInv /\ LateInv /\ [Next]_vars => LateInv'
<1> SUFFICES ASSUME AbortInv, LateInv, [Next]_vars PROVE LateInv'
  OBVIOUS
<1> USE DEF LateInv
<1>a. TypeOK /\ late \in Nat /\ epc \in EnginePCs
  BY DEF AbortInv, TypeOK
<1>1. ASSUME UNCHANGED <<epc, late>>, abort => abort' PROVE LateInv'
  BY <1>1
<1>2. ASSUME NEW j \in Jobs, Preempt(j) PROVE LateInv'
  BY <1>1, <1>2 DEF Preempt, CancelSession, ArmAbort
<1>3. ASSUME NEW id \in CancelIds, CancelRequest(id) PROVE LateInv'
  BY <1>1, <1>3 DEF CancelRequest, ArmAbort
<1>4. CASE EngineReceive \/ TakeOff \/ Respond
  BY <1>4, <1>a DEF EngineReceive, TakeOff, Respond, historyVars
<1>5. CASE CheckAbort
  BY <1>5, <1>a DEF CheckAbort, Ends, historyVars
<1>6. CASE LlmReturns
  BY <1>6, <1>a DEF LlmReturns, Ends
<1>7. CASE ToolsFail \/ ToolsDone \/ Finalize
  BY <1>7, <1>a DEF ToolsFail, ToolsDone, Finalize, Ends, historyVars
<1>8. CASE Land
  BY <1>8, <1>a DEF Land, historyVars
<1>9. ASSUME NEW j \in Jobs, Submit(j) PROVE LateInv'
  BY <1>1, <1>9 DEF Submit, engineVars, historyVars
<1>10. ASSUME NEW j \in Sync, ReceiveStep(j) PROVE LateInv'
  BY <1>1, <1>10 DEF ReceiveStep, LockReceive, TakeResponse, ReceiveTimeout, engineVars, historyVars
<1>11. CASE UNCHANGED vars
  BY <1>1, <1>11 DEF vars, engineVars, historyVars
<1> QED
  BY <1>2, <1>3, <1>4, <1>5, <1>6, <1>7, <1>8, <1>9, <1>10, <1>11 DEF Next, EngineStep, Quiet

(* A request begins at most one more tool round after its abort was armed, *)
(* for any max_iterations.                                                 *)
THEOREM AbortEndsLoop == Spec => []OneRoundAfterAbort
<1>1. Init => AbortInv /\ LateInv
  BY InitAbort DEF Init, LateInv
<1>2. (AbortInv /\ LateInv) /\ [Next]_vars => (AbortInv /\ LateInv)'
  BY NextAbort, NextLate
<1>3. LateInv => OneRoundAfterAbort
  BY DEF LateInv, OneRoundAfterAbort
<1> QED BY <1>1, <1>2, <1>3, PTL DEF Spec

(***************************************************************************)
(* Checkpoints.  Only the job in hand has one, and then its tools ran, so  *)
(* finalizing it saves the turn.  Not so when the reply cannot be cloned:  *)
(* then neither finalize function is called (claw_agent_loop.c).           *)
(***************************************************************************)
TurnInv ==
  /\ \A j \in Jobs : saved[j] = "checkpoint" => j = cur /\ toolsRan
  /\ epc \in {"land", "respond"} => saved[cur] # "checkpoint"
  /\ \A j \in Jobs : outcome[j] # "notext"

LEMMA NextTurn == ~AllocFails /\ ResponseInv /\ TurnInv /\ [Next]_vars => TurnInv'
<1> SUFFICES ASSUME ~AllocFails, ResponseInv, TurnInv, [Next]_vars PROVE TurnInv'
  OBVIOUS
<1> USE DEF TurnInv
<1>a. TypeOK /\ (Busy => cur \in Jobs)
  BY DEF ResponseInv, TypeOK
<1>b. saved \in [Jobs -> {"nothing", "checkpoint", "final"}] /\ outcome \in [Jobs -> Outcomes]
  BY <1>a DEF TypeOK
<1>1. ASSUME UNCHANGED <<epc, cur, toolsRan, saved, outcome>> PROVE TurnInv'
  BY <1>1
<1>2. ASSUME NEW j \in Jobs, Preempt(j) PROVE TurnInv'
  BY <1>1, <1>2 DEF Preempt
<1>3. ASSUME NEW id \in CancelIds, CancelRequest(id) PROVE TurnInv'
  BY <1>1, <1>3 DEF CancelRequest
<1>4. CASE EngineReceive
  <2>1. cur = None
    BY <1>4, <1>a DEF EngineReceive, TypeOK, Busy
  <2>2. \A j \in Jobs : saved[j] # "checkpoint"
    BY <2>1
  <2> QED BY <1>4, <2>2 DEF EngineReceive
<1>5. CASE TakeOff \/ Land
  <2>1. UNCHANGED <<cur, toolsRan, saved, outcome>>
    BY <1>5 DEF TakeOff, Land
  <2>2. CASE TakeOff
    BY <2>1, <2>2 DEF TakeOff
  <2>3. CASE Land
    BY <2>1, <2>3 DEF Land
  <2> QED BY <1>5, <2>2, <2>3
<1>6. CASE CheckAbort \/ LlmReturns \/ ToolsFail
  <2>1. /\ UNCHANGED <<cur, saved>> /\ (toolsRan => toolsRan') /\ epc' \notin {"land", "respond"}
    BY <1>6 DEF CheckAbort, LlmReturns, ToolsFail, Ends
  <2>2. \A j \in Jobs : outcome'[j] # "notext"
    BY <1>6, <1>b DEF CheckAbort, LlmReturns, ToolsFail, Ends
  <2> QED BY <2>1, <2>2
<1>7. CASE ToolsDone
  <2>1. /\ UNCHANGED cur /\ toolsRan' /\ epc' \notin {"land", "respond"}
        /\ saved' = [saved EXCEPT ![cur] = "checkpoint"]
    BY <1>7 DEF ToolsDone, Ends
  <2>2. \A j \in Jobs : outcome'[j] # "notext"
    BY <1>7, <1>b DEF ToolsDone, Ends
  <2>3. \A j \in Jobs : saved'[j] = "checkpoint" => j = cur'
    BY <2>1, <1>b
  <2> QED BY <2>1, <2>2, <2>3
<1>8. CASE Finalize
  <2>1. /\ UNCHANGED <<cur, toolsRan, outcome>> /\ epc' = "land"
        /\ saved' = IF SavesTurn(outcome[cur]) THEN [saved EXCEPT ![cur] = "final"] ELSE saved
    BY <1>8 DEF Finalize
  <2>2. cur \in Jobs /\ (saved[cur] = "checkpoint" => SavesTurn(outcome[cur]))
    BY <1>8, <1>a DEF Finalize, Busy, SavesTurn
  <2> QED BY <2>1, <2>2, <1>b
<1>9. CASE Respond
  BY <1>9 DEF Respond
<1>10. ASSUME NEW j \in Jobs, Submit(j) PROVE TurnInv'
  BY <1>1, <1>10 DEF Submit, engineVars
<1>11. ASSUME NEW j \in Sync, ReceiveStep(j) PROVE TurnInv'
  BY <1>1, <1>11 DEF ReceiveStep, LockReceive, TakeResponse, ReceiveTimeout, engineVars
<1>12. CASE UNCHANGED vars
  BY <1>1, <1>12 DEF vars, engineVars
<1> QED
  BY <1>2, <1>3, <1>4, <1>5, <1>6, <1>7, <1>8, <1>9, <1>10, <1>11, <1>12 DEF Next, EngineStep, Quiet

(* Once the engine has answered a job, the turn it last saved is not a     *)
(* "completed: false" checkpoint, whichever way the request ended, as long *)
(* as the reply text can be cloned.                                        *)
THEOREM TurnsAreFinalized == ~AllocFails => (Spec => []CheckpointFinalized)
<1>1. Init => ResponseInv /\ TurnInv
  <2>1. Init => TurnInv
    BY DEF Init, TurnInv
  <2> QED BY <2>1, InitResponse
<1>2. ~AllocFails /\ (ResponseInv /\ TurnInv) /\ [Next]_vars => (ResponseInv /\ TurnInv)'
  BY NextResponse, NextTurn
<1>3. TurnInv => CheckpointFinalized
  BY DEF TurnInv, CheckpointFinalized, Served
<1>4. ASSUME ~AllocFails PROVE Spec => []CheckpointFinalized
  <2>1. (ResponseInv /\ TurnInv) /\ [Next]_vars => (ResponseInv /\ TurnInv)'
    BY <1>2, <1>4
  <2> QED BY <1>1, <2>1, <1>3, PTL DEF Spec
<1> QED BY <1>4
=============================================================================
