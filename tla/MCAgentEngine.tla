--------------------------- MODULE MCAgentEngine ---------------------------
EXTENDS AgentEngine
CONSTANTS m1, m2, a1, a2, chat, serial

(* Messages m1, m2 come from the dispatcher, a1 and a2 from synchronous     *)
(* callers; each of the two counts its request ids from 1.                  *)
MCSessions  == {chat, serial}
SessionsOf(messages, asks) ==
  [j \in messages \cup asks |-> IF j \in messages THEN chat ELSE serial]
IdsOf(messages, asks) ==
  [j \in messages \cup asks |-> IF j \in {m1, a1} THEN 1 ELSE 2]

(* Two messages of one session and one receiver: preemption.                *)
Mixed          == {m1, m2, a1}
MixedSync      == {a1}
MixedSessionOf == SessionsOf({m1, m2}, {a1})
MixedReqId     == IdsOf({m1, m2}, {a1})

(* One message and two receivers: the response path.                        *)
Pair          == {m1, a1, a2}
PairSync      == {a1, a2}
PairSessionOf == SessionsOf({m1}, {a1, a2})
PairReqId     == IdsOf({m1}, {a1, a2})

NoLong == {}
=============================================================================
