-------------------------- MODULE EventDispatcher --------------------------
(***************************************************************************)
(* claw_event_dispatcher.c: the bounded inbox that channels, the scheduler *)
(* and scripts publish to, the rule table that router_mgr edits while the  *)
(* worker runs, and the worker task: it copies the rules that match an     *)
(* event under the lock, then runs the copies without it; an event that no *)
(* rule fired for goes to the agent.                                       *)
(***************************************************************************)
EXTENDS Naturals, SequencesExt, FiniteSetsExt

CONSTANTS
  Published,   \* kinds of the events that are published
  Templates,   \* the rules that router_mgr adds or updates, a set of Rule
  InboxLen,    \* event_queue_len
  MaxRules,    \* max_rules
  MaxMatch,    \* MAX_MATCH_PER_EVENT
  MaxDepth,    \* CLAW_DISPATCHER_MAX_EMIT_DEPTH
  ClockMod,    \* the ms clock is kept modulo this (2^32)
  NoMemory,    \* whether an allocation may fail
  MaxEvents,   \* bound: events published
  MaxEdits,    \* bound: calls that edit the rule table
  MaxTime      \* bound: the clock

(* Kinds of events, as handle_event tells them apart: a session command, a *)
(* wake from the scheduler, another message or another trigger.            *)
Kinds   == {"slash", "wake", "message", "trigger"}
Event   == [kind : Kinds, depth : 0..MaxDepth]
Action  == [kind : {"agent", "cap", "emit", "drop"}, to : Kinds, guarded : BOOLEAN, stop : BOOLEAN]
RuleIds == {r.id : r \in Templates}

None == [kind |-> "none", depth |-> 0]

ASSUME DispatcherAssumption ==
  /\ Published \subseteq Kinds
  /\ \A r \in Templates :
       /\ r.on \subseteq Kinds /\ r.cooldown \in Nat
       /\ r.consume \in BOOLEAN /\ r.actions \in Seq(Action)
  /\ {InboxLen, MaxRules, MaxMatch, ClockMod, MaxTime} \subseteq Nat \ {0}
  /\ {MaxDepth, MaxEvents, MaxEdits} \subseteq Nat
  /\ NoMemory \in BOOLEAN

VARIABLES
  inbox,      \* events waiting
  rules,      \* the rule table: a rule, last_fired_ts, the time it stands for
  cur, busy,  \* the worker's event; whether it has been matched
  matched,    \* matched_total of the event
  snaps,      \* copies of the matching rules still to run, by their place
  acts,       \* actions of the running rule still to run
  ran, asked, \* rules run for the event; its requests to the agent
  time, events, edits   \* bounded counters

worker == <<cur, busy, matched, snaps, acts, ran, asked>>
vars == <<inbox, rules, worker, time, events, edits>>

Init ==
  /\ inbox = <<>> /\ rules = <<>>
  /\ cur = None /\ busy = FALSE /\ matched = 0
  /\ snaps = <<>> /\ acts = <<>> /\ ran = <<>> /\ asked = 0
  /\ time = 1 /\ events = 0 /\ edits = 0

-----------------------------------------------------------------------------
(* push_to_queue: wait 100 ms for a place, then drop the event.            *)
Publish(k) ==
  /\ events < MaxEvents
  /\ events' = events + 1
  /\ inbox' = IF Len(inbox) < InboxLen THEN Append(inbox, [kind |-> k, depth |-> 0]) ELSE inbox
  /\ UNCHANGED <<rules, worker, time, edits>>

Tick ==
  /\ time < MaxTime
  /\ time' = time + 1
  /\ UNCHANGED <<inbox, rules, worker, events, edits>>

(* The rule table, under the lock. *)
Entry(r)  == [rule |-> r, last |-> 0, fired |-> 0]
IndexOf(id) == {i \in DOMAIN rules : rules[i].rule.id = id}

Replaced(r) == [i \in DOMAIN rules |-> IF i \in IndexOf(r.id) THEN Entry(r) ELSE rules[i]]

(* The table with r in it, in the place of the rule with its id or, if     *)
(* there is room, at the end.                                              *)
Added(r) ==
  IF IndexOf(r.id) # {} THEN Replaced(r)
  ELSE IF Len(rules) < MaxRules THEN Append(rules, Entry(r)) ELSE rules

AddRule(r) ==
  /\ edits < MaxEdits /\ edits' = edits + 1
  /\ rules' = Added(r)
  /\ UNCHANGED <<inbox, worker, time, events>>

(* A rule that cannot be copied leaves the table as it is. *)
EditFails ==
  /\ NoMemory /\ edits < MaxEdits
  /\ edits' = edits + 1
  /\ UNCHANGED <<inbox, rules, worker, time, events>>

UpdateRule(r) ==
  /\ edits < MaxEdits /\ IndexOf(r.id) # {}
  /\ edits' = edits + 1
  /\ rules' = Replaced(r)
  /\ UNCHANGED <<inbox, worker, time, events>>

DeleteRule(id) ==
  /\ edits < MaxEdits
  /\ edits' = edits + 1
  /\ \E i \in IndexOf(id) : rules' = RemoveAt(rules, i)
  /\ UNCHANGED <<inbox, worker, time, events>>

-----------------------------------------------------------------------------
(* The worker. *)
Receive ==
  /\ cur = None /\ inbox # <<>>
  /\ cur' = Head(inbox) /\ inbox' = Tail(inbox)
  /\ busy' = FALSE /\ matched' = 0 /\ ran' = <<>> /\ asked' = 0
  /\ UNCHANGED <<rules, snaps, acts, time, events, edits>>

(* A session command is answered before any rule is looked at. *)
SlashCommand ==
  /\ cur.kind = "slash" /\ ~busy
  /\ cur' = None
  /\ UNCHANGED <<inbox, rules, busy, matched, snaps, acts, ran, asked, time, events, edits>>

(* now - last_fired_ts, in unsigned arithmetic. *)
Since(e) == ((time % ClockMod) + (ClockMod - e.last)) % ClockMod

(* Mutant of Cooling: the time of the last fire is not looked at.          *)
Cooling_Once(e) == e.rule.cooldown > 0 /\ e.last # 0 /\ Since(e) = 0

Cooling(e) == e.rule.cooldown > 0 /\ e.last # 0 /\ Since(e) < e.rule.cooldown

Eligible == {i \in DOMAIN rules : cur.kind \in rules[i].rule.on /\ ~Cooling(rules[i])}

(* Mutant of Firing: a rule that consumes does not stop the loop.          *)
Firing_All(failed) == {i \in Eligible : Cardinality({j \in Eligible \ failed : j < i}) < MaxMatch}

(* The rules that fire, if the copies of the rules in failed fail: the     *)
(* loop ends when all slots are taken or a rule consumes the event.        *)
Firing(failed) ==
  {i \in Eligible :
     /\ Cardinality({j \in Eligible \ failed : j < i}) < MaxMatch
     /\ \A j \in Eligible : j < i => ~rules[j].rule.consume}

(* Phases 1 and 2 of handle_event. *)
Match ==
  /\ cur # None /\ cur.kind # "slash" /\ ~busy
  /\ \E failed \in (IF NoMemory THEN SUBSET Eligible ELSE {{}}) :
       LET firing == Firing(failed)
       IN  /\ matched' = Cardinality(firing)
           /\ snaps' = [i \in firing \ failed |-> rules[i].rule]
           /\ rules' = [i \in DOMAIN rules |->
                          IF i \in firing THEN [rules[i] EXCEPT !.last = time % ClockMod, !.fired = time]
                          ELSE rules[i]]
  /\ busy' = TRUE
  /\ UNCHANGED <<inbox, cur, acts, ran, asked, time, events, edits>>

(* Phase 3: the copies run in order; one that gets no context does not.    *)
RunRule ==
  /\ busy /\ acts = <<>>
  /\ \E i \in DOMAIN snaps :
       /\ \A j \in DOMAIN snaps : i <= j
       /\ snaps' = [j \in DOMAIN snaps \ {i} |-> snaps[j]]
       /\ \/ acts' = snaps[i].actions /\ ran' = Append(ran, snaps[i])
          \/ NoMemory /\ UNCHANGED <<acts, ran>>
  /\ UNCHANGED <<inbox, rules, cur, busy, matched, asked, time, events, edits>>

(* What follows an action: the next one, or the end of the chain.          *)
Goes(ok) == acts' = IF ok \/ ~Head(acts).stop THEN Tail(acts) ELSE <<>>

GuardFails ==
  /\ acts # <<>> /\ Head(acts).guarded
  /\ acts' = Tail(acts)
  /\ UNCHANGED <<inbox, rules, cur, busy, matched, snaps, ran, asked, time, events, edits>>

(* cancel_for_session and submit to the agent, which may be too busy. *)
AskAgent ==
  /\ acts # <<>> /\ Head(acts).kind = "agent"
  /\ \E ok \in BOOLEAN : Goes(ok)
  /\ asked' = asked + 1
  /\ UNCHANGED <<inbox, rules, cur, busy, matched, snaps, ran, time, events, edits>>

(* A capability call, a script, a send; a drop does nothing. *)
CallCap ==
  /\ acts # <<>> /\ Head(acts).kind \in {"cap", "drop"}
  /\ \E ok \in (IF Head(acts).kind = "cap" THEN BOOLEAN ELSE {TRUE}) : Goes(ok)
  /\ UNCHANGED <<inbox, rules, cur, busy, matched, snaps, ran, asked, time, events, edits>>

(* Mutant of Derived: the generation of a derived event starts again.      *)
Derived_Fresh(a) == [kind |-> a.to, depth |-> cur.depth]

Derived(a) == [kind |-> a.to, depth |-> cur.depth + 1]

(* A derived event goes to the worker's own inbox, or is dropped. *)
Emit ==
  /\ acts # <<>> /\ Head(acts).kind = "emit"
  /\ cur.depth < MaxDepth /\ Len(inbox) < InboxLen
  /\ inbox' = Append(inbox, Derived(Head(acts)))
  /\ Goes(TRUE)
  /\ UNCHANGED <<rules, cur, busy, matched, snaps, ran, asked, time, events, edits>>

EmitFails ==
  /\ acts # <<>> /\ Head(acts).kind = "emit"
  /\ cur.depth >= MaxDepth \/ Len(inbox) = InboxLen \/ NoMemory
  /\ Goes(FALSE)
  /\ UNCHANGED <<inbox, rules, cur, busy, matched, snaps, ran, asked, time, events, edits>>

(* Mutant of Unclaimed: only wakes are routed.                             *)
Unclaimed_WakeOnly == matched = 0 /\ cur.kind = "wake"

(* No rule fired: a wake or a message is the agent's. *)
Unclaimed == matched = 0 /\ cur.kind \in {"wake", "message"}

Finish ==
  /\ busy /\ DOMAIN snaps = {} /\ acts = <<>>
  /\ asked' = IF Unclaimed THEN asked + 1 ELSE asked
  /\ cur' = None /\ busy' = FALSE
  /\ UNCHANGED <<inbox, rules, matched, snaps, acts, ran, time, events, edits>>

Worker ==
  \/ Receive \/ SlashCommand \/ Match \/ RunRule \/ GuardFails
  \/ AskAgent \/ CallCap \/ Emit \/ EmitFails \/ Finish

Router ==
  \/ \E r \in Templates : AddRule(r) \/ UpdateRule(r)
  \/ \E id \in RuleIds : DeleteRule(id)
  \/ EditFails

Next == Worker \/ Router \/ Tick \/ \E k \in Published : Publish(k)

Spec == Init /\ [][Next]_vars

(* The worker is a task that runs whenever it has something to do; calls   *)
(* of capabilities and the agent return.                                   *)
FairSpec == Spec /\ WF_vars(Worker)
-----------------------------------------------------------------------------
(* Properties *)

TypeOK ==
  /\ inbox \in Seq(Event) /\ Len(inbox) <= InboxLen
  /\ rules \in Seq([rule : Templates, last : 0..(ClockMod - 1), fired : 0..MaxTime]) /\ Len(rules) <= MaxRules
  /\ cur \in Event \cup {None} /\ busy \in BOOLEAN
  /\ matched \in 0..MaxRules /\ asked \in Nat
  /\ DOMAIN snaps \subseteq 1..MaxRules /\ snaps \in [DOMAIN snaps -> Templates]
  /\ ran \in Seq(Templates) /\ acts \in Seq(Action)
  /\ time \in 1..MaxTime /\ events \in 0..MaxEvents /\ edits \in 0..MaxEdits

(* However adds, updates and deletes follow each other, no two live rules  *)
(* share an id: claw_event_dispatcher_add_rule.                            *)
RuleIdsUnique == \A i, j \in DOMAIN rules : rules[i].rule.id = rules[j].rule.id => i = j

(* A rule does not fire twice within its cooldown: "min interval between   *)
(* two fires", unless it was replaced in between.                          *)
CooldownKept ==
  [][Match => \A i \in DOMAIN rules :
       rules'[i].fired # rules[i].fired /\ rules[i].fired # 0 =>
         time - rules[i].fired >= rules[i].rule.cooldown]_vars

(* Whatever happens to the table while the copies of its rules run, no     *)
(* rule runs for an event after one that consumes it: "consume_on_match:   *)
(* true = stop evaluating later rules once this one matches".              *)
ConsumerIsLast == \A i \in 1..(Len(ran) - 1) : ~ran[i].consume

(* A message is answered: when the worker is done with it, a rule has run  *)
(* for it or the agent was asked, "any input that matches no rule          *)
(* automatically falls through to you (the agent)".                        *)
MessageAnswered ==
  [][cur.kind \in {"wake", "message"} /\ cur' = None => ran' # <<>> \/ asked' > 0]_vars

(* A rule that derives the event it matches does not keep the worker busy: *)
(* once nothing is published, the inbox drains and the worker rests.       *)
Quiesces == <>[](inbox = <<>> /\ cur = None)
=============================================================================
